--------------------------- MODULE MCPublicReader ---------------------------
(* Two articles, with events whose anchors exclude each other, with entities, or with   *)
(* one of each.                                                             *)
EXTENDS PublicReader

Item(date, place, claims) == [date |-> date, place |-> place, claims |-> claims]
Entity == <<Item(<<>>, Nowhere, {<<>>})>>
Placeless == <<Item(<<1, 2>>, Nowhere, {<<>>, <<1, 2>>})>>

Events ==
    [entity |-> [a1 |-> <<>>, a2 |-> <<>>],
     event |-> [a1 |-> <<Item(<<1, 1>>, "kyiv", {<<1, 1>>}), Item(<<1>>, "lviv", {<<1>>})>>,
                a2 |-> Placeless]]

Entities ==
    [entity |-> [a1 |-> Entity, a2 |-> Entity],
     event |-> [a1 |-> <<>>, a2 |-> <<>>]]

Both ==
    [entity |-> [a1 |-> Entity, a2 |-> <<>>],
     event |-> [a1 |-> <<>>, a2 |-> Placeless]]

MCArticle == {"a1", "a2"}
MCCards == {Events, Entities, Both}
MCMaxIdentities == [entity |-> 1, event |-> 2]
MCDescriptions == [entity |-> {"none", "blank", "text"}, event |-> {"none"}]
MCReferences == {<<1>>, <<0>>, <<1, 2>>, <<2, 1>>, <<0, 0>>, <<1, 1>>}
=============================================================================
