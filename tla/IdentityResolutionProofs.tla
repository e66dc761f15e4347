---------------------- MODULE IdentityResolutionProofs ----------------------
(***************************************************************************)
(* Proofs about entities and events and the pages made of them, for any    *)
(* articles, cases, cards and answers.                                     *)
(***************************************************************************)
EXTENDS PublicReader, FiniteSetTheorems, SequenceTheorems, WellFoundedInduction, TLAPS

-----------------------------------------------------------------------------
(* Induction.  The handlers go through an answer decision by decision: the *)
(* functions Grounding and Persisting are recursive on the position.       *)

LEMMA LeastNatural ==
  ASSUME NEW T \in SUBSET Nat, T # {}
  PROVE  \E m \in T : \A k \in T : m <= k
  <1> DEFINE R == OpToRel(<, Nat)
  <1>1. IsWellFoundedOn(R, Nat)
    BY NatLessThanWellFounded
  <1>2. \A x, y \in Nat : x < y => <<x, y>> \in R
    BY DEF OpToRel
  <1> HIDE DEF R
  <1>3. PICK m \in T : \A k \in T : ~ (<<k, m>> \in R)
    BY <1>1, WFMin
  <1>4. \A k \in T : ~(k < m) /\ k \in Nat /\ m \in Nat
    BY <1>2, <1>3
  <1>5. \A k \in T : m <= k
    BY <1>4
  <1> QED BY <1>5

GroundingUpTo(f, decisions, its, anchors, n) ==
    f = [m \in 0..n |-> IF m = 0 THEN [anchors |-> anchors, out |-> <<>>]
                        ELSE Ground(f[m - 1], decisions[m], its)]

LEMMA GroundingExists ==
  ASSUME NEW decisions, NEW its, NEW anchors, NEW N \in Nat
  PROVE  \E f : GroundingUpTo(f, decisions, its, anchors, N)
  <1> DEFINE Is(f, n) == GroundingUpTo(f, decisions, its, anchors, n)
             first == [anchors |-> anchors, out |-> <<>>]
             S == {n \in Nat : ~\E f : Is(f, n)}
  <1> SUFFICES ASSUME S # {} PROVE FALSE
    OBVIOUS
  <1>1. PICK n \in S : \A m \in S : n <= m
    BY LeastNatural
  <1>2. n # 0
    <2>1. Is([m \in 0..0 |-> first], 0)
      BY DEF GroundingUpTo
    <2> QED BY <2>1
  <1>3. n - 1 \in Nat /\ n - 1 \notin S
    BY <1>1, <1>2
  <1>4. PICK f : Is(f, n - 1)
    BY <1>3
  <1> DEFINE g == [m \in 0..n |-> IF m = n THEN Ground(f[n - 1], decisions[n], its) ELSE f[m]]
  <1>5. ASSUME NEW m \in 0..n
        PROVE  g[m] = IF m = 0 THEN first ELSE Ground(g[m - 1], decisions[m], its)
    <2>1. CASE m = n
      BY <2>1, <1>1, <1>2
    <2>2. CASE m # n /\ m # 0
      <3>1. f[m] = Ground(f[m - 1], decisions[m], its)
        BY <2>2, <1>1, <1>2, <1>4 DEF GroundingUpTo
      <3> QED BY <3>1, <2>2, <1>1
    <2>3. CASE m # n /\ m = 0
      BY <2>3, <1>1, <1>2, <1>4 DEF GroundingUpTo
    <2> QED BY <2>1, <2>2, <2>3
  <1>6. g = [m \in 0..n |-> IF m = 0 THEN first ELSE Ground(g[m - 1], decisions[m], its)]
    BY <1>5
  <1>7. Is(g, n)
    BY <1>6 DEF GroundingUpTo
  <1> QED BY <1>1, <1>7

LEMMA GroundingStep ==
  ASSUME NEW decisions, Len(decisions) \in Nat, NEW its, NEW anchors
  PROVE  LET g == Grounding(decisions, its, anchors)
         IN  /\ g[0] = [anchors |-> anchors, out |-> <<>>]
             /\ \A n \in 1..Len(decisions) : g[n] = Ground(g[n - 1], decisions[n], its)
  <1>1. Grounding(decisions, its, anchors) = CHOOSE f : GroundingUpTo(f, decisions, its, anchors, Len(decisions))
    BY DEF Grounding, GroundingUpTo
  <1>2. GroundingUpTo(Grounding(decisions, its, anchors), decisions, its, anchors, Len(decisions))
    BY <1>1, GroundingExists
  <1>3. ASSUME NEW g, GroundingUpTo(g, decisions, its, anchors, Len(decisions))
        PROVE  /\ g[0] = [anchors |-> anchors, out |-> <<>>]
               /\ \A n \in 1..Len(decisions) : g[n] = Ground(g[n - 1], decisions[n], its)
    BY <1>3 DEF GroundingUpTo
  <1> QED BY <1>2, <1>3

PersistingUpTo(f, k, q, decisions, n) ==
    f = [m \in 0..n |-> IF m = 0 THEN Deleted(k, q) ELSE Persist(f[m - 1], decisions[m], k, q)]

LEMMA PersistingExists ==
  ASSUME NEW k, NEW q, NEW decisions, NEW N \in Nat
  PROVE  \E f : PersistingUpTo(f, k, q, decisions, N)
  <1> DEFINE Is(f, n) == PersistingUpTo(f, k, q, decisions, n)
             first == Deleted(k, q)
             S == {n \in Nat : ~\E f : Is(f, n)}
  <1> SUFFICES ASSUME S # {} PROVE FALSE
    OBVIOUS
  <1>1. PICK n \in S : \A m \in S : n <= m
    BY LeastNatural
  <1>2. n # 0
    <2>1. Is([m \in 0..0 |-> first], 0)
      BY DEF PersistingUpTo
    <2> QED BY <2>1
  <1>3. n - 1 \in Nat /\ n - 1 \notin S
    BY <1>1, <1>2
  <1>4. PICK f : Is(f, n - 1)
    BY <1>3
  <1> DEFINE g == [m \in 0..n |-> IF m = n THEN Persist(f[n - 1], decisions[n], k, q) ELSE f[m]]
  <1>5. ASSUME NEW m \in 0..n
        PROVE  g[m] = IF m = 0 THEN first ELSE Persist(g[m - 1], decisions[m], k, q)
    <2>1. CASE m = n
      BY <2>1, <1>1, <1>2
    <2>2. CASE m # n /\ m # 0
      <3>1. f[m] = Persist(f[m - 1], decisions[m], k, q)
        BY <2>2, <1>1, <1>2, <1>4 DEF PersistingUpTo
      <3> QED BY <3>1, <2>2, <1>1
    <2>3. CASE m # n /\ m = 0
      BY <2>3, <1>1, <1>2, <1>4 DEF PersistingUpTo
    <2> QED BY <2>1, <2>2, <2>3
  <1>6. g = [m \in 0..n |-> IF m = 0 THEN first ELSE Persist(g[m - 1], decisions[m], k, q)]
    BY <1>5
  <1>7. Is(g, n)
    BY <1>6 DEF PersistingUpTo
  <1> QED BY <1>1, <1>7

LEMMA PersistingStep ==
  ASSUME NEW k, NEW q, NEW decisions, Len(decisions) \in Nat
  PROVE  LET f == Persisting(k, q, decisions)
         IN  /\ f[0] = Deleted(k, q)
             /\ \A n \in 1..Len(decisions) : f[n] = Persist(f[n - 1], decisions[n], k, q)
  <1>1. Persisting(k, q, decisions) = CHOOSE g : PersistingUpTo(g, k, q, decisions, Len(decisions))
    BY DEF Persisting, PersistingUpTo
  <1>2. PersistingUpTo(Persisting(k, q, decisions), k, q, decisions, Len(decisions))
    BY <1>1, PersistingExists
  <1>3. ASSUME NEW f, PersistingUpTo(f, k, q, decisions, Len(decisions))
        PROVE  /\ f[0] = Deleted(k, q)
               /\ \A n \in 1..Len(decisions) : f[n] = Persist(f[n - 1], decisions[n], k, q)
    BY <1>3 DEF PersistingUpTo
  <1> QED BY <1>2, <1>3

-----------------------------------------------------------------------------
(* Dates.                                                                  *)

Date == Seq(Nat)

(* t has all that is known in s.                                           *)
Begins(s, t) == Len(s) <= Len(t) /\ \A m \in 1..Len(s) : t[m] = s[m]

LEMMA DateFacts ==
  ASSUME NEW s \in Date
  PROVE  Len(s) \in Nat /\ DOMAIN s = 1..Len(s) /\ \A m \in 1..Len(s) : s[m] \in Nat
  BY DEF Date

LEMMA NoDateFacts == <<>> \in Date /\ Len(<<>>) = 0 /\ DOMAIN <<>> = {}
  BY EmptySeq DEF Date

LEMMA Agree ==
  ASSUME NEW s \in Date, NEW t \in Date
  PROVE  DatesConflict(s, t) <=> \E m \in 1..Len(s) : m \in 1..Len(t) /\ s[m] # t[m]
  BY DateFacts DEF DatesConflict

(* Two dates of which one is as long as the other and which do not         *)
(* conflict begin alike.                                                   *)
LEMMA FilledFacts ==
  ASSUME NEW s \in Date, NEW t \in Date
  PROVE  /\ Filled(s, t) \in Date
         /\ Begins(s, Filled(s, t))
         /\ ~DatesConflict(s, t) => Filled(s, t) = IF Len(t) > Len(s) THEN t ELSE s
  <1>1. /\ Len(s) \in Nat /\ Len(t) \in Nat
        /\ \A m \in 1..Len(s) : s[m] \in Nat
        /\ \A m \in 1..Len(t) : t[m] \in Nat
    BY DateFacts
  <1>2. CASE ~(Len(t) > Len(s))
    BY <1>1, <1>2 DEF Filled, Begins
  <1>3. CASE Len(t) > Len(s)
    <2> DEFINE u == SubSeq(t, Len(s) + 1, Len(t))
    <2>1. /\ u \in Seq(Nat) /\ Len(u) = Len(t) - Len(s)
          /\ \A i \in 1..(Len(t) - Len(s)) : u[i] = t[Len(s) + i]
      <3>1. \A i \in (Len(s) + 1)..Len(t) : t[i] \in Nat
        BY <1>1
      <3>2. /\ u \in Seq(Nat)
            /\ Len(u) = IF Len(s) + 1 <= Len(t) THEN Len(t) - (Len(s) + 1) + 1 ELSE 0
            /\ \A i \in 1..(Len(t) - (Len(s) + 1) + 1) : u[i] = t[Len(s) + 1 + i - 1]
        BY <1>1, <3>1, SubSeqProperties
      <3> HIDE DEF u
      <3> QED BY <1>1, <1>3, <3>2
    <2>2. Filled(s, t) = s \o u
      BY <1>3 DEF Filled
    <2> HIDE DEF u
    <2>3. /\ s \o u \in Seq(Nat) /\ Len(s \o u) = Len(s) + Len(u)
          /\ \A i \in 1..(Len(s) + Len(u)) :
                 (s \o u)[i] = IF i <= Len(s) THEN s[i] ELSE u[i - Len(s)]
      BY <2>1, ConcatProperties DEF Date
    <2>4. /\ Len(s \o u) = Len(t)
          /\ \A i \in 1..Len(s) : (s \o u)[i] = s[i]
          /\ \A i \in (Len(s) + 1)..Len(t) : (s \o u)[i] = t[i]
      BY <1>1, <1>3, <2>1, <2>3
    <2>5. ASSUME ~DatesConflict(s, t) PROVE s \o u = t
      <3>1. \A i \in 1..Len(s) : s[i] = t[i]
        BY <1>1, <1>3, <2>5, Agree
      <3>2. \A i \in 1..Len(t) : (s \o u)[i] = t[i]
        BY <1>1, <2>4, <3>1
      <3> QED BY <2>3, <2>4, <3>2, SeqEqual DEF Date
    <2> QED BY <1>1, <1>3, <2>2, <2>3, <2>4, <2>5 DEF Begins, Date
  <1> QED BY <1>2, <1>3

LEMMA FilledEmpty ==
  ASSUME NEW s \in Date
  PROVE  /\ Filled(s, <<>>) = s
         /\ Filled(<<>>, s) = s
         /\ ~DatesConflict(s, <<>>) /\ ~DatesConflict(<<>>, s)
  <1>1. ~DatesConflict(s, <<>>) /\ ~DatesConflict(<<>>, s)
    BY NoDateFacts DEF DatesConflict
  <1>2. Filled(<<>>, s) = s
    <2>1. Filled(<<>>, s) = IF Len(s) > 0 THEN s ELSE <<>>
      BY <1>1, NoDateFacts, FilledFacts
    <2>2. Len(s) \in Nat /\ (Len(s) = 0 => s = <<>>)
      BY EmptySeq DEF Date
    <2> QED BY <2>1, <2>2
  <1> QED BY <1>1, <1>2, DateFacts, NoDateFacts DEF Filled

(* An earlier state of a date conflicts with nothing that a later one is   *)
(* compatible with, and it stays earlier when the two are filled from the  *)
(* same date, or only the later one is.                                    *)
LEMMA EarlierDate ==
  ASSUME NEW s \in Date, NEW t \in Date, NEW u \in Date, Begins(s, t), ~DatesConflict(t, u)
  PROVE  /\ ~DatesConflict(s, u)
         /\ Begins(Filled(s, u), Filled(t, u))
         /\ Begins(s, Filled(t, u))
  <1>1. Len(s) \in Nat /\ Len(t) \in Nat /\ Len(u) \in Nat
    BY DateFacts
  <1>2. ~DatesConflict(s, u)
    BY <1>1, Agree DEF Begins
  <1>3. /\ Filled(s, u) = IF Len(u) > Len(s) THEN u ELSE s
        /\ Filled(t, u) = IF Len(u) > Len(t) THEN u ELSE t
    BY <1>2, FilledFacts
  <1>4. \A m \in 1..Len(t) : m \in 1..Len(u) => t[m] = u[m]
    BY Agree
  <1>5. Begins(s, Filled(t, u))
    BY <1>1, <1>3, <1>4 DEF Begins
  <1>6. Begins(Filled(s, u), Filled(t, u))
    BY <1>1, <1>3, <1>4 DEF Begins
  <1> QED BY <1>2, <1>5, <1>6

LEMMA BeginsTrans ==
  ASSUME NEW s \in Date, NEW t \in Date, NEW u \in Date, Begins(s, t), Begins(t, u)
  PROVE  Begins(s, u)
  BY DateFacts DEF Begins

LEMMA BeginsSubSeq ==
  ASSUME NEW s \in Date, NEW t \in Date, Begins(s, t)
  PROVE  Len(s) <= Len(t) /\ SubSeq(t, 1, Len(s)) = s
  <1>1. Len(s) \in Nat /\ Len(t) \in Nat /\ \A m \in 1..Len(s) : t[m] \in Nat
    BY DateFacts DEF Begins
  <1>2. /\ SubSeq(t, 1, Len(s)) \in Seq(Nat)
        /\ Len(SubSeq(t, 1, Len(s))) = IF 1 <= Len(s) THEN Len(s) - 1 + 1 ELSE 0
        /\ \A i \in 1..(Len(s) - 1 + 1) : SubSeq(t, 1, Len(s))[i] = t[1 + i - 1]
    BY <1>1, SubSeqProperties
  <1>3. /\ Len(SubSeq(t, 1, Len(s))) = Len(s)
        /\ \A i \in 1..Len(s) : SubSeq(t, 1, Len(s))[i] = s[i]
    BY <1>1, <1>2 DEF Begins
  <1> QED BY <1>2, <1>3, SeqEqual DEF Begins, Date

-----------------------------------------------------------------------------
(* The invariant.                                                          *)

Place == STRING \cup {Nowhere}

IdRow == [present : BOOLEAN, date : Date, place : Place, description : Text]

TypeInv ==
    /\ items \in Cards
    /\ cas \in [Case -> [status : {"absent", "active", "hidden", "merged"},
                         links : SUBSET Article, events : Nat]]
    /\ identity = [k \in Kind |-> identity[k]] /\ mention = [k \in Kind |-> mention[k]]
    /\ assigned = [k \in Kind |-> assigned[k]] /\ material = [k \in Kind |-> material[k]]
    /\ index = [k \in Kind |-> index[k]] /\ asked = [k \in Kind |-> asked[k]]
    /\ \A k \in Kind :
        /\ identity[k] \in [Id(k) -> IdRow]
        /\ mention[k] \subseteq Article \X Id(k)
        /\ assigned[k] \subseteq Article \X Id(k) \X Case
        /\ material[k] \in [Case \X Id(k) -> Nat]
        /\ index[k] \subseteq Id(k)

(* What is stored of an identity came from a card or an answer.            *)
RowInv(k, row) ==
    /\ row.date \in Stated(k) /\ row.description \in Descriptions[k] \cup {"none"}
    /\ k = "entity" => row.place = Nowhere

(* Nobody knows anything of a row that is not there.                       *)
BlankRows(rows, k) ==
    \A i \in Id(k) : ~rows[i].present => rows[i].date = <<>> /\ rows[i].place = Nowhere

(* A handler that waits for its answer: whatever happens meanwhile, its    *)
(* candidates stay, and so do the article's links to the cases it read.    *)
QueryInv(k, q) ==
    /\ q.article \in Article
    /\ q.cases \subseteq Case
    /\ \A c \in q.cases : q.article \in cas[c].links
    /\ \A n \in DOMAIN items[k][q.article] : q.candidates[n] \subseteq Present(k)

Inv ==
    /\ TypeInv
    /\ \A k \in Kind : \A i \in Id(k) : RowInv(k, identity[k][i])
    /\ \A k \in Kind : BlankRows(identity[k], k)
    /\ \A k \in Kind : Present(k) \subseteq index[k]
    /\ \A k \in Kind : asked[k] = {} \/ \E q \in asked[k] : asked[k] = {q}
    /\ \A k \in Kind : \A q \in asked[k] : QueryInv(k, q)
    /\ \A c \in Case : cas[c].status = "absent" => cas[c].links = {}
    /\ AssignmentsFollowLinks
    /\ LinksMatchAssignments
    /\ ~refused

-----------------------------------------------------------------------------
(* Writing an answer.                                                      *)

DecisionRow == [item : Nat, action : {"create", "link", "reject"}, id : Nat,
                cases : SUBSET Case, date : Date, place : Place, description : Text]

(* A decision about one of the article's items that has been normalized    *)
(* and validated.                                                          *)
DecisionInv(d, k, q) ==
    /\ d \in DecisionRow
    /\ d.item \in DOMAIN items[k][q.article]
    /\ d.cases \subseteq q.cases
    /\ d.date \in Stated(k) /\ d.description \in Descriptions[k]
    /\ k = "entity" => d.place = Nowhere
    /\ d.action # "reject" => d.cases # {}
    /\ d.action = "link" => d.id \in q.candidates[d.item]

Writing(k) == [rows : [Id(k) -> IdRow], ok : BOOLEAN, short : BOOLEAN,
               mention : SUBSET (Article \X Id(k)),
               assigned : SUBSET (Article \X Id(k) \X Case)]

(* A row with what the decision adds to it, and the tables with that row.  *)
Enriched(old, d) ==
    [present |-> TRUE, date |-> Filled(old.date, d.date), place |-> FilledPlace(old.place, d.place),
     description |-> IF old.description = "none" THEN d.description ELSE old.description]

Wrote(s, id, d, q) ==
    [s EXCEPT !.rows[id] = Enriched(s.rows[id], d),
              !.mention = s.mention \cup {<<q.article, id>>},
              !.assigned = s.assigned \cup {<<q.article, id, c>> : c \in d.cases}]

Creates(s, id, d, k) ==
    d.action = "create" /\ id \in FreshIds(k) /\ ~s.rows[id].present
Links(s, id, d, q) ==
    /\ d.action = "link" /\ id = d.id
    /\ id \in q.candidates[d.item] /\ s.rows[id].present
    /\ ~Conflict(s.rows[id], d.date, d.place)

LEMMA IdFacts ==
  ASSUME NEW k \in Kind
  PROVE  Id(k) \subseteq Nat /\ Present(k) \subseteq Id(k) /\ FreshIds(k) \subseteq Id(k)
         /\ IsFiniteSet(Id(k)) /\ Id(k) \cap {NoId} = {}
  <1>1. MaxIdentities[k] \in Nat
    BY IdentityAssumption
  <1>2. IsFiniteSet(Id(k))
    BY <1>1, FS_Interval DEF Id
  <1> QED BY <1>1, <1>2 DEF Id, Present, FreshIds, NoId

(* What becomes of the tables.                                             *)
LEMMA PersistCases ==
  ASSUME NEW k \in Kind, NEW s \in Writing(k), NEW q, NEW d \in DecisionRow,
         q.candidates[d.item] \subseteq Id(k)
  PROVE  \/ Persist(s, d, k, q) = s /\ (d.action = "reject" \/ ~s.ok \/ s.short)
         \/ Persist(s, d, k, q) = [s EXCEPT !.short = TRUE]
         \/ /\ Persist(s, d, k, q) = [s EXCEPT !.ok = FALSE]
            /\ s.ok /\ d.action = "link"
            /\ \/ d.id \notin q.candidates[d.item] \/ ~s.rows[d.id].present
               \/ Conflict(s.rows[d.id], d.date, d.place)
         \/ \E id \in Id(k) : /\ Creates(s, id, d, k) \/ Links(s, id, d, q)
                              /\ Persist(s, d, k, q) = Wrote(s, id, d, q)
  <1> DEFINE fresh == FreshIds(k) \ {i \in Id(k) : s.rows[i].present}
             new == CHOOSE i \in fresh : \A j \in fresh : i <= j
             id == IF d.action = "create" THEN new ELSE d.id
  <1>1. fresh # {} => new \in fresh
    <2>1. fresh \subseteq Nat
      BY IdFacts
    <2> HIDE DEF fresh
    <2>2. ASSUME fresh # {} PROVE \E i \in fresh : \A j \in fresh : i <= j
      BY <2>1, <2>2, LeastNatural
    <2> QED BY <2>2
  <1>2. CASE d.action = "reject" \/ ~s.ok \/ s.short
    BY <1>2 DEF Persist
  <1>3. CASE /\ ~(d.action = "reject" \/ ~s.ok \/ s.short)
             /\ d.action = "create" /\ fresh = {}
    BY <1>3 DEF Persist
  <1>4. CASE /\ ~(d.action = "reject" \/ ~s.ok \/ s.short)
             /\ ~(d.action = "create" /\ fresh = {})
             /\ d.action = "link" /\ (\/ id \notin q.candidates[d.item] \/ ~s.rows[id].present
                                      \/ Conflict(s.rows[id], d.date, d.place))
    BY <1>4 DEF Persist
  <1>5. CASE /\ ~(d.action = "reject" \/ ~s.ok \/ s.short)
             /\ ~(d.action = "create" /\ fresh = {})
             /\ ~(d.action = "link" /\ (\/ id \notin q.candidates[d.item] \/ ~s.rows[id].present
                                        \/ Conflict(s.rows[id], d.date, d.place)))
    <2>1. Persist(s, d, k, q) = Wrote(s, id, d, q)
      BY <1>5 DEF Persist, Wrote, Enriched, Merged
    <2>2. CASE d.action = "create"
      <3>1. id \in fresh
        BY <1>1, <1>5, <2>2
      <3> HIDE DEF id
      <3> QED BY <2>1, <2>2, <3>1, IdFacts DEF Creates
    <2>3. CASE d.action = "link"
      BY <1>5, <2>1, <2>3 DEF Links
    <2> QED BY <1>5, <2>2, <2>3 DEF DecisionRow
  <1> QED BY <1>2, <1>3, <1>4, <1>5

(* A row is only added to.                                                 *)
Extends(old, new) ==
    /\ new.present
    /\ Begins(old.date, new.date)
    /\ old.place # Nowhere => new.place = old.place

PersistInv(s, k, q) ==
    /\ s \in Writing(k)
    /\ \A i \in Present(k) : Extends(identity[k][i], s.rows[i])
    /\ \A i \in Id(k) : RowInv(k, s.rows[i])
    /\ \A i \in Id(k) : s.rows[i].present =>
          i \in Present(k) \/ \E c \in Case : <<q.article, i, c>> \in s.assigned
    /\ \A a \in Article, i \in Id(k), c \in Case :
          a # q.article => (<<a, i, c>> \in s.assigned <=> <<a, i, c>> \in assigned[k])
    /\ \A i \in Id(k), c \in Case : <<q.article, i, c>> \in s.assigned => c \in q.cases

LEMMA WritingFlags ==
  ASSUME NEW k \in Kind, NEW s \in Writing(k), NEW t,
         t = [s EXCEPT !.short = TRUE] \/ t = [s EXCEPT !.ok = FALSE]
  PROVE  t \in Writing(k) /\ t.rows = s.rows /\ t.assigned = s.assigned /\ t.mention = s.mention
  BY DEF Writing

LEMMA EnrichedRow ==
  ASSUME NEW old \in IdRow, NEW d \in DecisionRow
  PROVE  /\ Enriched(old, d) \in IdRow
         /\ Enriched(old, d).present
         /\ Enriched(old, d).date = Filled(old.date, d.date)
         /\ Enriched(old, d).place = FilledPlace(old.place, d.place)
         /\ Enriched(old, d).description \in {old.description, d.description}
  <1>1. Filled(old.date, d.date) \in Date
    BY FilledFacts DEF IdRow, DecisionRow
  <1>2. FilledPlace(old.place, d.place) \in Place
    BY DEF FilledPlace, IdRow, DecisionRow
  <1> QED BY <1>1, <1>2 DEF Enriched, IdRow, DecisionRow

LEMMA WroteFields ==
  ASSUME NEW k \in Kind, NEW s \in Writing(k), NEW q, q.article \in Article,
         NEW d \in DecisionRow, NEW id \in Id(k)
  PROVE  LET t == Wrote(s, id, d, q)
         IN  /\ t \in Writing(k) /\ t.ok = s.ok /\ t.short = s.short
             /\ t.rows[id] = Enriched(s.rows[id], d)
             /\ \A i \in Id(k) : i # id => t.rows[i] = s.rows[i]
             /\ t.assigned = s.assigned \cup {<<q.article, id, c>> : c \in d.cases}
             /\ t.mention = s.mention \cup {<<q.article, id>>}
  <1> DEFINE row == Enriched(s.rows[id], d)
             table == [s.rows EXCEPT ![id] = row]
             men == s.mention \cup {<<q.article, id>>}
             ass == s.assigned \cup {<<q.article, id, c>> : c \in d.cases}
  <1>1. s.rows \in [Id(k) -> IdRow] /\ s.ok \in BOOLEAN /\ s.short \in BOOLEAN
    BY DEF Writing
  <1>2. row \in IdRow
    BY <1>1, EnrichedRow
  <1> HIDE DEF row
  <1>3. table \in [Id(k) -> IdRow] /\ table[id] = row /\ \A i \in Id(k) : i # id => table[i] = s.rows[i]
    BY <1>1, <1>2
  <1>4. men \in SUBSET (Article \X Id(k))
    BY DEF Writing
  <1>5. ass \in SUBSET (Article \X Id(k) \X Case)
    BY DEF Writing, DecisionRow
  <1>6. Wrote(s, id, d, q) = [s EXCEPT !.rows = table, !.mention = men, !.assigned = ass]
    BY DEF Wrote, Writing, row
  <1> HIDE DEF table, men, ass
  <1>7. LET t == Wrote(s, id, d, q)
        IN  /\ t \in Writing(k) /\ t.ok = s.ok /\ t.short = s.short
            /\ t.rows = table /\ t.mention = men /\ t.assigned = ass
    BY <1>1, <1>3, <1>4, <1>5, <1>6 DEF Writing
  <1> QED BY <1>3, <1>7 DEF row, men, ass

LEMMA FilledRow ==
  ASSUME NEW k \in Kind, NEW old \in IdRow, RowInv(k, old), NEW d \in DecisionRow,
         d.date \in Stated(k), d.description \in Descriptions[k],
         k = "entity" => d.place = Nowhere,
         ~Conflict(old, d.date, d.place)
  PROVE  RowInv(k, Enriched(old, d))
  <1>1. Filled(old.date, d.date) \in {old.date, d.date}
    BY FilledFacts DEF Conflict, IdRow, DecisionRow
  <1>2. k = "entity" => FilledPlace(old.place, d.place) = Nowhere
    BY DEF RowInv, FilledPlace
  <1> QED BY <1>1, <1>2, EnrichedRow DEF RowInv

LEMMA EnrichedExtends ==
  ASSUME NEW base \in IdRow, NEW old \in IdRow, Extends(base, old), NEW d \in DecisionRow
  PROVE  Extends(base, Enriched(old, d))
  <1>1. /\ Filled(old.date, d.date) \in Date /\ Begins(old.date, Filled(old.date, d.date))
        /\ base.date \in Date /\ old.date \in Date
    BY FilledFacts DEF IdRow, DecisionRow
  <1>2. Begins(base.date, Filled(old.date, d.date))
    BY <1>1, BeginsTrans DEF Extends
  <1>3. base.place # Nowhere => FilledPlace(old.place, d.place) = base.place
    BY DEF Extends, FilledPlace
  <1> QED BY <1>2, <1>3, EnrichedRow DEF Extends

LEMMA PersistKeeps ==
  ASSUME Inv, NEW k \in Kind, NEW q \in asked[k], NEW s, PersistInv(s, k, q), BlankRows(s.rows, k),
         NEW d, DecisionInv(d, k, q)
  PROVE  PersistInv(Persist(s, d, k, q), k, q) /\ BlankRows(Persist(s, d, k, q).rows, k)
  <1> DEFINE t == Persist(s, d, k, q)
  <1>1. /\ s \in Writing(k) /\ d \in DecisionRow
        /\ q.candidates[d.item] \subseteq Present(k) /\ q.candidates[d.item] \subseteq Id(k)
        /\ q.article \in Article
    BY IdFacts DEF PersistInv, DecisionInv, Inv, QueryInv
  <1>2. CASE t = s
    BY <1>2
  <1>3. CASE t = [s EXCEPT !.short = TRUE] \/ t = [s EXCEPT !.ok = FALSE]
    <2>1. t \in Writing(k) /\ t.rows = s.rows /\ t.assigned = s.assigned
      BY <1>1, <1>3, WritingFlags
    <2> HIDE DEF t
    <2>2. PersistInv(t, k, q) /\ BlankRows(t.rows, k)
      BY <2>1 DEF PersistInv, BlankRows
    <2> QED BY <2>2 DEF t
  <1>4. ASSUME NEW id \in Id(k), Creates(s, id, d, k) \/ Links(s, id, d, q), t = Wrote(s, id, d, q)
        PROVE  PersistInv(t, k, q) /\ BlankRows(t.rows, k)
    <2>1. /\ t \in Writing(k)
          /\ t.rows[id] = Enriched(s.rows[id], d)
          /\ \A i \in Id(k) : i # id => t.rows[i] = s.rows[i]
          /\ t.assigned = s.assigned \cup {<<q.article, id, c>> : c \in d.cases}
      BY <1>1, <1>4, WroteFields
    <2> HIDE DEF t
    <2>2. s.rows[id] \in IdRow
      BY <1>1 DEF Writing
    <2>3. t.rows[id].present
      BY <1>1, <2>1, <2>2, EnrichedRow
    <2>4. ASSUME NEW i \in Present(k) PROVE Extends(identity[k][i], t.rows[i])
      <3>1. i \in Id(k) /\ identity[k][i] \in IdRow /\ Extends(identity[k][i], s.rows[i])
        BY IdFacts DEF PersistInv, Inv, TypeInv
      <3> QED BY <1>1, <2>1, <2>2, <3>1, EnrichedExtends
    <2>5. ~Conflict(s.rows[id], d.date, d.place)
      <3>1. CASE Links(s, id, d, q)
        BY <3>1 DEF Links
      <3>2. CASE Creates(s, id, d, k)
        <4>1. s.rows[id].date = <<>> /\ s.rows[id].place = Nowhere
          BY <3>2 DEF Creates, BlankRows
        <4> QED BY <1>1, <4>1, FilledEmpty DEF Conflict, PlacesConflict, DecisionRow
      <3> QED BY <1>4, <3>1, <3>2
    <2>6. ASSUME NEW i \in Id(k) PROVE RowInv(k, t.rows[i])
      <3>1. RowInv(k, s.rows[i])
        BY DEF PersistInv
      <3> QED BY <1>1, <2>1, <2>2, <2>5, <3>1, FilledRow DEF DecisionInv
    <2>7. d.cases # {} /\ d.cases \subseteq q.cases /\ d.cases \subseteq Case
      BY <1>1, <1>4 DEF Creates, Links, DecisionInv, DecisionRow
    <2>8. ASSUME NEW i \in Id(k), t.rows[i].present
          PROVE  i \in Present(k) \/ \E c \in Case : <<q.article, i, c>> \in t.assigned
      <3>1. CASE i = id
        BY <2>1, <2>7, <3>1
      <3>2. CASE i # id
        BY <2>1, <2>8, <3>2 DEF PersistInv
      <3> QED BY <3>1, <3>2
    <2>9. ASSUME NEW a \in Article, NEW i \in Id(k), NEW c \in Case, a # q.article
          PROVE  <<a, i, c>> \in t.assigned <=> <<a, i, c>> \in assigned[k]
      BY <2>1, <2>9 DEF PersistInv
    <2>10. ASSUME NEW i \in Id(k), NEW c \in Case, <<q.article, i, c>> \in t.assigned
           PROVE  c \in q.cases
      BY <2>1, <2>7, <2>10 DEF PersistInv
    <2>11. BlankRows(t.rows, k)
      BY <2>1, <2>3 DEF BlankRows
    <2> QED BY <2>1, <2>4, <2>6, <2>8, <2>9, <2>10, <2>11 DEF PersistInv
  <1> QED BY <1>1, <1>2, <1>3, <1>4, PersistCases

LEMMA DeletedInv ==
  ASSUME Inv, NEW k \in Kind, NEW q \in asked[k]
  PROVE  PersistInv(Deleted(k, q), k, q) /\ BlankRows(Deleted(k, q).rows, k)
  <1> DEFINE s == Deleted(k, q)
  <1>1. /\ s \in Writing(k) /\ s.rows = identity[k]
        /\ s.assigned = {r \in assigned[k] : r[1] # q.article}
    BY DEF Deleted, Writing, Inv, TypeInv
  <1> HIDE DEF s
  <1>2. \A i \in Present(k) : Extends(identity[k][i], s.rows[i])
    <2>1. \A i \in Present(k) : identity[k][i].present /\ identity[k][i].date \in Date
      BY DEF Present, Inv, TypeInv, IdRow
    <2>2. ASSUME NEW i \in Present(k) PROVE Begins(identity[k][i].date, identity[k][i].date)
      BY <2>1, DateFacts DEF Begins
    <2> QED BY <1>1, <2>1, <2>2 DEF Extends
  <1>3. \A i \in Id(k) : RowInv(k, s.rows[i])
    BY <1>1 DEF Inv
  <1>4. \A i \in Id(k) : s.rows[i].present => i \in Present(k)
    BY <1>1 DEF Present
  <1>5. \A a \in Article, i \in Id(k), c \in Case :
            /\ a # q.article => (<<a, i, c>> \in s.assigned <=> <<a, i, c>> \in assigned[k])
            /\ <<q.article, i, c>> \notin s.assigned
    BY <1>1
  <1>6. q.article \in Article /\ BlankRows(s.rows, k)
    BY <1>1 DEF Inv, QueryInv
  <1>7. PersistInv(s, k, q)
    BY <1>1, <1>2, <1>3, <1>4, <1>5, <1>6 DEF PersistInv
  <1> QED BY <1>6, <1>7 DEF s

(* Whatever the answer, once it has been normalized and validated.         *)
DecisionsInv(decisions, k, q) ==
    Len(decisions) \in Nat /\ \A n \in 1..Len(decisions) : DecisionInv(decisions[n], k, q)

LEMMA PersistingInv ==
  ASSUME Inv, NEW k \in Kind, NEW q \in asked[k], NEW decisions, DecisionsInv(decisions, k, q)
  PROVE  \A n \in 0..Len(decisions) :
             LET s == Persisting(k, q, decisions)[n] IN PersistInv(s, k, q) /\ BlankRows(s.rows, k)
  <1>1. PICK f : /\ f = Persisting(k, q, decisions)
                 /\ f[0] = Deleted(k, q)
                 /\ \A n \in 1..Len(decisions) : f[n] = Persist(f[n - 1], decisions[n], k, q)
    BY PersistingStep DEF DecisionsInv
  <1> DEFINE Good(n) == PersistInv(f[n], k, q) /\ BlankRows(f[n].rows, k)
             S == {n \in 0..Len(decisions) : ~Good(n)}
  <1> SUFFICES ASSUME S # {} PROVE FALSE
    BY <1>1
  <1>2. Len(decisions) \in Nat /\ S \in SUBSET Nat
    BY DEF DecisionsInv
  <1>3. PICK n \in S : \A m \in S : n <= m
    BY <1>2, LeastNatural
  <1>4. n # 0
    BY <1>1, DeletedInv
  <1>5. n - 1 \in 0..Len(decisions) /\ n \in 1..Len(decisions) /\ n - 1 \notin S
    BY <1>2, <1>3, <1>4
  <1>6. Good(n - 1) /\ DecisionInv(decisions[n], k, q)
    BY <1>5 DEF DecisionsInv
  <1>7. f[n] = Persist(f[n - 1], decisions[n], k, q)
    BY <1>1, <1>5
  <1>8. /\ PersistInv(Persist(f[n - 1], decisions[n], k, q), k, q)
        /\ BlankRows(Persist(f[n - 1], decisions[n], k, q).rows, k)
    BY <1>6, PersistKeeps
  <1> QED BY <1>3, <1>7, <1>8

-----------------------------------------------------------------------------
(* Grounding an answer about events in the card.                           *)

LEMMA ItemFacts ==
  ASSUME Inv, NEW k \in Kind, NEW a \in Article
  PROVE  /\ items[k][a] \in Seq([date : Seq(Nat), place : STRING, claims : SUBSET Seq(Nat)])
         /\ Len(items[k][a]) \in Nat /\ DOMAIN items[k][a] = 1..Len(items[k][a])
         /\ \A n \in DOMAIN items[k][a] :
               LET item == items[k][a][n]
               IN  /\ item \in [date : Seq(Nat), place : STRING, claims : SUBSET Seq(Nat)]
                   /\ item.date \in Date /\ item.place \in Place /\ item.claims \subseteq Date
                   /\ item.date \in Stated(k) /\ item.claims \subseteq Stated(k)
                   /\ k = "entity" =>
                         item.date = <<>> /\ item.place = Nowhere /\ item.claims = {<<>>}
  <1>1. items \in Cards
    BY DEF Inv, TypeInv
  <1>2. /\ items[k][a] \in Seq([date : Seq(Nat), place : STRING, claims : SUBSET Seq(Nat)])
        /\ k = "entity" => \A n \in DOMAIN items[k][a] :
              LET item == items[k][a][n] IN
              item.date = <<>> /\ item.place = Nowhere /\ item.claims = {<<>>}
    BY <1>1, CardAssumption
  <1>3. /\ Len(items[k][a]) \in Nat /\ DOMAIN items[k][a] = 1..Len(items[k][a])
        /\ \A n \in DOMAIN items[k][a] :
               items[k][a][n] \in [date : Seq(Nat), place : STRING, claims : SUBSET Seq(Nat)]
    <2> DEFINE Item == [date : Seq(Nat), place : STRING, claims : SUBSET Seq(Nat)]
    <2>1. items[k][a] \in Seq(Item)
      BY <1>2
    <2> HIDE DEF Item
    <2>2. /\ Len(items[k][a]) \in Nat /\ DOMAIN items[k][a] = 1..Len(items[k][a])
          /\ \A n \in DOMAIN items[k][a] : items[k][a][n] \in Item
      BY <2>1, LenProperties, ElementOfSeq
    <2> QED BY <2>2 DEF Item
  <1>4. \A n \in DOMAIN items[k][a] :
            items[k][a][n].date \in Stated(k) /\ items[k][a][n].claims \subseteq Stated(k)
    BY DEF Stated
  <1> QED BY <1>2, <1>3, <1>4 DEF Date, Place

GroundedDecision(d, item) ==
    [d EXCEPT !.date = GroundedDate(d, item), !.place = item.place]

(* One decision: it is left as it is, or made a creation, or linked; only  *)
(* a link adds to the anchors, and only where it does not contradict them. *)
Left(s, t, d) ==
    /\ d.action # "link"
    /\ t.anchors = s.anchors /\ t.out = Append(s.out, d)
Recreated(s, t, d, item) ==
    /\ d.action = "link" /\ Conflict(s.anchors[d.id], item.date, item.place)
    /\ t.anchors = s.anchors /\ t.out = Append(s.out, SourceGroundedCreate(d, item))
Linked(s, t, d, item) ==
    /\ d.action = "link" /\ ~Conflict(s.anchors[d.id], item.date, item.place)
    /\ t.anchors = [s.anchors EXCEPT ![d.id] = Merged(s.anchors[d.id], item.date, item.place)]
    /\ t.out = Append(s.out, GroundedDecision(d, item))

GroundsTo(s, t, d, item) ==
    /\ \E newer, longer : t = [anchors |-> newer, out |-> longer]
    /\ Left(s, t, d) \/ Recreated(s, t, d, item) \/ Linked(s, t, d, item)

LEMMA GroundCases ==
  ASSUME NEW s, \E anchors, out : s = [anchors |-> anchors, out |-> out], NEW d, NEW its
  PROVE  GroundsTo(s, Ground(s, d, its), d, its[d.item])
  <1> DEFINE t == Ground(s, d, its)
             item == its[d.item]
  <1>0. PICK anchors, out : s = [anchors |-> anchors, out |-> out]
    OBVIOUS
  <1> DEFINE newer == [anchors EXCEPT ![d.id] = Merged(anchors[d.id], item.date, item.place)]
  <1>1. CASE d.action # "link"
    <2>1. t = [anchors |-> anchors, out |-> Append(out, d)]
      BY <1>0, <1>1 DEF Ground
    <2> HIDE DEF t
    <2>2. Left(s, t, d)
      BY <1>0, <1>1, <2>1 DEF Left
    <2>3. GroundsTo(s, t, d, item)
      BY <2>1, <2>2 DEF GroundsTo
    <2> QED BY <2>3 DEF t
  <1>2. CASE d.action = "link" /\ Conflict(s.anchors[d.id], item.date, item.place)
    <2>1. t = [anchors |-> anchors, out |-> Append(out, SourceGroundedCreate(d, item))]
      BY <1>0, <1>2 DEF Ground
    <2> HIDE DEF t
    <2>2. Recreated(s, t, d, item)
      BY <1>0, <1>2, <2>1 DEF Recreated
    <2>3. GroundsTo(s, t, d, item)
      BY <2>1, <2>2 DEF GroundsTo
    <2> QED BY <2>3 DEF t
  <1>3. CASE d.action = "link" /\ ~Conflict(s.anchors[d.id], item.date, item.place)
    <2>1. t = [anchors |-> newer, out |-> Append(out, GroundedDecision(d, item))]
      BY <1>0, <1>3 DEF Ground, GroundedDecision
    <2> HIDE DEF t
    <2>2. Linked(s, t, d, item)
      BY <1>0, <1>3, <2>1 DEF Linked
    <2>3. GroundsTo(s, t, d, item)
      BY <2>1, <2>2 DEF GroundsTo
    <2> QED BY <2>3 DEF t
  <1> QED BY <1>1, <1>2, <1>3

LEMMA GroundedDateFacts ==
  ASSUME Inv, NEW k \in Kind, NEW q \in asked[k], NEW d, DecisionInv(d, k, q)
  PROVE  LET item == items[k][q.article][d.item]
         IN  /\ GroundedDate(d, item) \in Stated(k) /\ GroundedDate(d, item) \in Date
             /\ GroundedDate(d, item) \in {<<>>, item.date}
             /\ item.place \in Place /\ item.date \in Date
             /\ k = "entity" => item.place = Nowhere
  <1>1. q.article \in Article /\ d.item \in DOMAIN items[k][q.article]
    BY DEF Inv, QueryInv, DecisionInv
  <1>2. <<>> \in Stated(k)
    BY DEF Stated
  <1> QED BY <1>1, <1>2, ItemFacts, NoDateFacts DEF GroundedDate

LEMMA GroundedOk ==
  ASSUME Inv, NEW k \in Kind, NEW q \in asked[k], NEW d, DecisionInv(d, k, q), d.action = "link"
  PROVE  LET item == items[k][q.article][d.item]
             g == GroundedDecision(d, item)
             c == SourceGroundedCreate(d, item)
         IN  /\ DecisionInv(g, k, q) /\ g.action = "link" /\ g.id = d.id /\ g.item = d.item
             /\ g.date = GroundedDate(d, item) /\ g.place = item.place
             /\ DecisionInv(c, k, q) /\ c.action = "create"
  <1> DEFINE item == items[k][q.article][d.item]
             date == GroundedDate(d, item)
             place == item.place
             g == [d EXCEPT !.date = date, !.place = place]
             c == [d EXCEPT !.action = "create", !.id = NoId, !.date = date, !.place = place]
  <1>1. /\ date \in Stated(k) /\ date \in Date /\ place \in Place
        /\ k = "entity" => place = Nowhere
    BY GroundedDateFacts
  <1>2. GroundedDecision(d, item) = g /\ SourceGroundedCreate(d, item) = c
    BY DEF GroundedDecision, SourceGroundedCreate
  <1>3. d \in DecisionRow /\ NoId \in Nat
    BY DEF DecisionInv, NoId
  <1> HIDE DEF date, place
  <1>4. /\ g \in DecisionRow /\ g.item = d.item /\ g.cases = d.cases /\ g.date = date
        /\ g.description = d.description /\ g.action = d.action /\ g.id = d.id /\ g.place = place
    BY <1>1, <1>3 DEF DecisionRow
  <1>5. /\ c \in DecisionRow /\ c.item = d.item /\ c.cases = d.cases /\ c.date = date
        /\ c.place = place
        /\ c.description = d.description /\ c.action = "create"
    BY <1>1, <1>3 DEF DecisionRow
  <1> HIDE DEF g, c
  <1>6. DecisionInv(g, k, q) /\ DecisionInv(c, k, q)
    BY <1>1, <1>4, <1>5 DEF DecisionInv
  <1> QED BY <1>2, <1>4, <1>5, <1>6 DEF date, place
-----------------------------------------------------------------------------
(* The whole answer, grounded.                                             *)

Anchor == [date : Date, place : Place]

Loaded(k) == [i \in Id(k) |-> [date |-> identity[k][i].date, place |-> identity[k][i].place]]

(* After n decisions: as many have been grounded.                          *)
GroundInv(g, k, q, n) ==
    /\ \E anchors, out : g = [anchors |-> anchors, out |-> out]
    /\ g.anchors \in [Id(k) -> Anchor]
    /\ g.out \in Seq(DecisionRow) /\ Len(g.out) = n
    /\ \A m \in 1..n : DecisionInv(g.out[m], k, q)

LEMMA DecisionFacts ==
  ASSUME Inv, NEW k \in Kind, NEW q \in asked[k], NEW d, DecisionInv(d, k, q)
  PROVE  /\ d \in DecisionRow /\ q.article \in Article /\ d.item \in DOMAIN items[k][q.article]
         /\ q.candidates[d.item] \subseteq Present(k)
         /\ d.action = "link" => d.id \in Present(k) /\ d.id \in Id(k)
  BY IdFacts DEF Inv, QueryInv, DecisionInv

LEMMA MergedAnchor ==
  ASSUME NEW anchor \in Anchor, NEW date \in Date, NEW place \in Place
  PROVE  /\ Merged(anchor, date, place) \in Anchor
         /\ Merged(anchor, date, place).date = Filled(anchor.date, date)
         /\ Merged(anchor, date, place).place = FilledPlace(anchor.place, place)
  <1>1. Filled(anchor.date, date) \in Date /\ FilledPlace(anchor.place, place) \in Place
    BY FilledFacts DEF Anchor, FilledPlace
  <1> QED BY <1>1 DEF Merged, Anchor

(* What one decision adds: itself, or what it has been made into.          *)
LEMMA GroundAdds ==
  ASSUME Inv, NEW k \in Kind, NEW q \in asked[k], NEW n \in Nat, NEW g, GroundInv(g, k, q, n),
         NEW d, DecisionInv(d, k, q)
  PROVE  LET its == items[k][q.article]
             t == Ground(g, d, its)
         IN  /\ GroundInv(t, k, q, n + 1)
             /\ \A m \in 1..n : t.out[m] = g.out[m]
             /\ \/ d.action # "link" /\ t.anchors = g.anchors /\ t.out[n + 1] = d
                \/ t.anchors = g.anchors /\ t.out[n + 1].action = "create"
                \/ /\ d.action = "link" /\ d.id \in Id(k)
                   /\ ~Conflict(g.anchors[d.id], its[d.item].date, its[d.item].place)
                   /\ t.anchors[d.id] = Merged(g.anchors[d.id], its[d.item].date, its[d.item].place)
                   /\ \A i \in Id(k) : i # d.id => t.anchors[i] = g.anchors[i]
                   /\ t.out[n + 1] = GroundedDecision(d, its[d.item])
  <1> DEFINE its == items[k][q.article]
             item == its[d.item]
             t == Ground(g, d, its)
  <1>1. /\ \E newer, longer : t = [anchors |-> newer, out |-> longer]
        /\ Left(g, t, d) \/ Recreated(g, t, d, item) \/ Linked(g, t, d, item)
    <2>1. \E anchors, out : g = [anchors |-> anchors, out |-> out]
      BY DEF GroundInv
    <2>2. GroundsTo(g, t, d, item)
      BY <2>1, GroundCases
    <2> HIDE DEF t, item
    <2> QED BY <2>2 DEF GroundsTo
  <1>2. /\ item.date \in Date /\ item.place \in Place
        /\ d.action = "link" => d.id \in Id(k)
    BY DecisionFacts, GroundedDateFacts
  <1> DEFINE made == IF d.action # "link" THEN d
                     ELSE IF Conflict(g.anchors[d.id], item.date, item.place)
                     THEN SourceGroundedCreate(d, item) ELSE GroundedDecision(d, item)
  <1>3. t.out = Append(g.out, made)
    BY <1>1 DEF Left, Recreated, Linked
  <1>4. DecisionInv(made, k, q)
    BY GroundedOk
  <1>5. made \in DecisionRow
    BY <1>4 DEF DecisionInv
  <1> HIDE DEF t, its, made
  <1>6. /\ t.out \in Seq(DecisionRow) /\ Len(t.out) = n + 1 /\ t.out[n + 1] = made
        /\ \A m \in 1..n : t.out[m] = g.out[m]
    <2> DEFINE Row == DecisionRow
    <2>1. g.out \in Seq(Row) /\ Len(g.out) = n /\ made \in Row
      BY <1>5 DEF GroundInv
    <2> HIDE DEF Row
    <2>2. /\ t.out \in Seq(Row) /\ Len(t.out) = n + 1 /\ t.out[n + 1] = made
          /\ \A m \in 1..n : t.out[m] = g.out[m]
      BY <1>3, <2>1, AppendProperties
    <2> QED BY <2>2 DEF Row
  <1>7. t.anchors \in [Id(k) -> Anchor]
    <2>1. g.anchors \in [Id(k) -> Anchor]
      BY DEF GroundInv
    <2>2. CASE t.anchors = g.anchors
      BY <2>1, <2>2
    <2>3. CASE Linked(g, t, d, item)
      <3>1. d.id \in Id(k) /\ t.anchors = [g.anchors EXCEPT ![d.id] = Merged(g.anchors[d.id], item.date, item.place)]
        BY <1>2, <2>3 DEF Linked
      <3>2. Merged(g.anchors[d.id], item.date, item.place) \in Anchor
        BY <1>2, <2>1, <3>1, MergedAnchor
      <3> QED BY <2>1, <3>1, <3>2
    <2> QED BY <1>1, <2>2, <2>3 DEF Left, Recreated
  <1>8. GroundInv(t, k, q, n + 1)
    <2>1. \A m \in 1..(n + 1) : DecisionInv(t.out[m], k, q)
      BY <1>4, <1>6 DEF GroundInv
    <2> QED BY <1>1, <1>6, <1>7, <2>1 DEF GroundInv
  <1>9. CASE Left(g, t, d)
    BY <1>6, <1>8, <1>9 DEF Left, made, t, its
  <1>10. CASE Recreated(g, t, d, item)
    <2>1. made.action = "create"
      BY <1>10, GroundedOk DEF Recreated, made, its
    <2> QED BY <1>6, <1>8, <1>10, <2>1 DEF Recreated, t, its
  <1>11. CASE Linked(g, t, d, item)
    <2>1. made = GroundedDecision(d, item)
      BY <1>11 DEF Linked, made
    <2>2. g.anchors \in [Id(k) -> Anchor]
      BY DEF GroundInv
    <2>3. /\ d.id \in Id(k) /\ d.action = "link"
          /\ ~Conflict(g.anchors[d.id], item.date, item.place)
          /\ t.anchors[d.id] = Merged(g.anchors[d.id], item.date, item.place)
          /\ \A i \in Id(k) : i # d.id => t.anchors[i] = g.anchors[i]
      BY <1>2, <1>11, <2>2 DEF Linked
    <2> QED BY <1>6, <1>8, <2>1, <2>3 DEF t, its
  <1> QED BY <1>1, <1>9, <1>10, <1>11

LEMMA GroundFirst ==
  ASSUME Inv, NEW k \in Kind, NEW q
  PROVE  GroundInv([anchors |-> Loaded(k), out |-> <<>>], k, q, 0)
  <1>1. Loaded(k) \in [Id(k) -> Anchor]
    BY DEF Loaded, Anchor, Inv, TypeInv, IdRow
  <1>2. <<>> \in Seq(DecisionRow) /\ Len(<<>>) = 0
    BY EmptySeq
  <1> DEFINE g == [anchors |-> Loaded(k), out |-> <<>>]
  <1>3. g.anchors = Loaded(k) /\ g.out = <<>> /\ \E anchors, out : g = [anchors |-> anchors, out |-> out]
    OBVIOUS
  <1> HIDE DEF g
  <1>4. \A m \in 1..0 : DecisionInv(g.out[m], k, q)
    OBVIOUS
  <1>5. GroundInv(g, k, q, 0)
    BY <1>1, <1>2, <1>3, <1>4 DEF GroundInv
  <1> QED BY <1>5 DEF g

LEMMA GroundingInv ==
  ASSUME Inv, NEW k \in Kind, NEW q \in asked[k], NEW decisions, DecisionsInv(decisions, k, q)
  PROVE  LET g == Grounding(decisions, items[k][q.article], Loaded(k))
         IN  \A n \in 0..Len(decisions) :
                /\ GroundInv(g[n], k, q, n)
                /\ \A m \in 1..n : g[n].out[m] = g[m].out[m]
  <1> DEFINE its == items[k][q.article]
  <1>1. PICK g : /\ g = Grounding(decisions, its, Loaded(k))
                 /\ g[0] = [anchors |-> Loaded(k), out |-> <<>>]
                 /\ \A n \in 1..Len(decisions) : g[n] = Ground(g[n - 1], decisions[n], its)
    BY GroundingStep DEF DecisionsInv
  <1> DEFINE Good(n) == GroundInv(g[n], k, q, n) /\ \A m \in 1..n : g[n].out[m] = g[m].out[m]
             S == {n \in 0..Len(decisions) : ~Good(n)}
  <1> SUFFICES ASSUME S # {} PROVE FALSE
    BY <1>1
  <1>2. Len(decisions) \in Nat /\ S \in SUBSET Nat
    BY DEF DecisionsInv
  <1>3. PICK n \in S : \A m \in S : n <= m
    BY <1>2, LeastNatural
  <1>4. n # 0
    BY <1>1, GroundFirst
  <1>5. n - 1 \in 0..Len(decisions) /\ n \in 1..Len(decisions) /\ n - 1 \notin S /\ n - 1 \in Nat
    BY <1>2, <1>3, <1>4
  <1>6. Good(n - 1) /\ DecisionInv(decisions[n], k, q)
    BY <1>5 DEF DecisionsInv
  <1>7. g[n] = Ground(g[n - 1], decisions[n], its)
    BY <1>1, <1>5
  <1>8. GroundInv(g[n], k, q, (n - 1) + 1) /\ \A m \in 1..(n - 1) : g[n].out[m] = g[n - 1].out[m]
    BY <1>5, <1>6, <1>7, GroundAdds
  <1>9. (n - 1) + 1 = n /\ \A m \in 1..n : m = n \/ m \in 1..(n - 1)
    BY <1>5
  <1>10. Good(n)
    BY <1>6, <1>8, <1>9
  <1> QED BY <1>3, <1>10
-----------------------------------------------------------------------------
(* Answers.                                                                *)

LEMMA NormalizedFacts ==
  ASSUME NEW d \in DecisionRow, NEW candidates
  PROVE  LET r == Normalized(d, candidates)
         IN  /\ r \in DecisionRow /\ r.item = d.item /\ r.date = d.date /\ r.place = d.place
             /\ r.description = d.description /\ r.cases \subseteq d.cases
             /\ r.action # "reject" => r.cases # {}
             /\ r.action = "link" => r.id \in candidates
  <1> DEFINE r == Normalized(d, candidates)
  <1>1. CASE d.action = "reject" \/ (d.action = "link" /\ d.id \notin candidates) \/ d.cases = {}
    <2>1. r = [d EXCEPT !.action = "reject", !.id = 0, !.cases = {}]
      BY <1>1 DEF Normalized, Rejected, NoId
    <2> HIDE DEF r
    <2>2. /\ r \in DecisionRow /\ r.item = d.item /\ r.date = d.date /\ r.place = d.place
          /\ r.description = d.description /\ r.cases = {} /\ r.action = "reject"
      BY <2>1 DEF DecisionRow
    <2> QED BY <2>2 DEF r
  <1>2. CASE ~(d.action = "reject" \/ (d.action = "link" /\ d.id \notin candidates) \/ d.cases = {})
    <2>1. CASE d.action = "create"
      <3>1. r = [d EXCEPT !.id = 0]
        BY <1>2, <2>1 DEF Normalized, NoId
      <3> HIDE DEF r
      <3>2. /\ r \in DecisionRow /\ r.item = d.item /\ r.date = d.date /\ r.place = d.place
            /\ r.description = d.description /\ r.cases = d.cases /\ r.action = "create"
        BY <2>1, <3>1 DEF DecisionRow
      <3> QED BY <1>2, <3>2 DEF r
    <2>2. CASE d.action # "create"
      BY <1>2, <2>2 DEF Normalized
    <2> QED BY <2>1, <2>2
  <1> QED BY <1>1, <1>2

LEMMA ReadingInv ==
  ASSUME Inv, NEW k \in Kind, NEW q \in asked[k], NEW n \in DOMAIN items[k][q.article],
         NEW r \in Readings(k, q, n)
  PROVE  DecisionInv(r, k, q) /\ r.item = n
  <1> DEFINE item == items[k][q.article][n]
  <1>1. q.article \in Article /\ q.cases \subseteq Case
    BY DEF Inv, QueryInv
  <1>2. /\ item.place \in Place /\ item.claims \subseteq Date /\ item.claims \subseteq Stated(k)
        /\ k = "entity" => item.place = Nowhere
        /\ n \in Nat /\ DOMAIN items[k][q.article] = 1..Len(items[k][q.article])
        /\ Len(items[k][q.article]) \in Nat
    BY <1>1, ItemFacts
  <1>3. PICK d \in Proposals(k, q.article, n) :
            Assignable(d, q.cases) /\ r = Normalized(d, q.candidates[n])
    BY DEF Readings
  <1>4. PICK action \in {"create", "link", "reject"}, id \in Id(k), cases \in SUBSET Case,
             date \in item.claims, description \in Descriptions[k] :
            d = [item |-> n, action |-> action, id |-> id, cases |-> cases, date |-> date,
                 place |-> item.place, description |-> description]
    BY <1>3 DEF Proposals, Decision
  <1>5. id \in Nat /\ description \in Text /\ date \in Date /\ date \in Stated(k)
    BY <1>2, IdFacts, DescriptionAssumption
  <1>6. /\ d \in DecisionRow /\ d.item = n /\ d.date \in Stated(k)
        /\ d.description \in Descriptions[k] /\ d.place = item.place /\ d.cases \subseteq q.cases
    <2> DEFINE place == item.place
    <2>1. d = [item |-> n, action |-> action, id |-> id, cases |-> cases, date |-> date,
               place |-> place, description |-> description] /\ place \in Place
      BY <1>2, <1>4
    <2>2. cases \subseteq q.cases
      BY <1>3, <1>4 DEF Assignable
    <2> HIDE DEF place
    <2> QED BY <1>2, <1>5, <2>1, <2>2, <1>4 DEF DecisionRow, place
  <1>7. LET c == q.candidates[n] IN
        /\ r \in DecisionRow /\ r.item = d.item /\ r.date = d.date /\ r.place = d.place
        /\ r.description = d.description /\ r.cases \subseteq d.cases
        /\ r.action # "reject" => r.cases # {}
        /\ r.action = "link" => r.id \in c
    BY <1>3, <1>6, NormalizedFacts
  <1> QED BY <1>2, <1>6, <1>7 DEF DecisionInv

LEMMA AnswerInv ==
  ASSUME Inv, NEW k \in Kind, NEW q \in asked[k], NEW answer \in Answers(k, q)
  PROVE  DecisionsInv(answer, k, q)
  <1> DEFINE n == Len(items[k][q.article])
  <1>1. q.article \in Article
    BY DEF Inv, QueryInv
  <1>2. n \in Nat /\ DOMAIN items[k][q.article] = 1..n
    BY <1>1, ItemFacts
  <1>3. answer \in [1..n -> UNION {Readings(k, q, m) : m \in 1..n}]
    BY DEF Answers
  <1> HIDE DEF n
  <1>4. Len(answer) = n
    BY <1>2, <1>3
  <1>5. ASSUME NEW m \in 1..n PROVE DecisionInv(answer[m], k, q)
    <2>1. PICK j \in 1..n : answer[m] \in Readings(k, q, j)
      BY <1>3
    <2> QED BY <1>2, <2>1, ReadingInv
  <1> QED BY <1>2, <1>4, <1>5 DEF DecisionsInv

LEMMA FinalInv ==
  ASSUME Inv, NEW k \in Kind, NEW q \in asked[k], NEW answer, DecisionsInv(answer, k, q)
  PROVE  /\ DecisionsInv(Final(k, q, answer), k, q)
         /\ Len(Final(k, q, answer)) = Len(answer)
  <1>1. CASE k # "event"
    BY <1>1 DEF Final
  <1>2. CASE k = "event"
    <2> DEFINE g == Grounding(answer, items[k][q.article], Loaded(k))
               N == Len(answer)
    <2>1. Final(k, q, answer) = g[N].out
      BY <1>2 DEF Final, Grounded, Loaded
    <2>2. N \in Nat /\ N \in 0..N
      BY DEF DecisionsInv
    <2>3. GroundInv(g[N], k, q, N)
      BY <2>2, GroundingInv
    <2> HIDE DEF g, N
    <2>4. DecisionsInv(g[N].out, k, q) /\ Len(g[N].out) = N
      BY <2>2, <2>3 DEF GroundInv, DecisionsInv
    <2> QED BY <2>1, <2>4 DEF N
  <1> QED BY <1>1, <1>2
-----------------------------------------------------------------------------
(* A grounded answer can be written: the anchors that its links have been  *)
(* compared with are never behind those that its links are written to.     *)

Behind(row, anchor) ==
    /\ Begins(row.date, anchor.date)
    /\ row.place # Nowhere => row.place = anchor.place

Applies(s, anchors, k) == s.ok /\ \A i \in Present(k) : Behind(s.rows[i], anchors[i])

LEMMA BehindMerged ==
  ASSUME NEW row \in IdRow, NEW anchor \in Anchor, Behind(row, anchor),
         NEW item, item.date \in Date, item.place \in Place,
         ~Conflict(anchor, item.date, item.place),
         NEW d \in DecisionRow, d.date \in {<<>>, item.date}, d.place = item.place
  PROVE  LET merged == Merged(anchor, item.date, item.place)
         IN  /\ ~Conflict(row, d.date, d.place)
             /\ Behind(row, merged)
             /\ Behind(Enriched(row, d), merged)
  <1> DEFINE merged == Merged(anchor, item.date, item.place)
  <1>1. /\ row.date \in Date /\ anchor.date \in Date /\ d.date \in Date
        /\ row.place \in Place /\ anchor.place \in Place
    BY DEF IdRow, Anchor, DecisionRow
  <1>2. ~DatesConflict(anchor.date, item.date) /\ ~PlacesConflict(anchor.place, item.place)
    BY DEF Conflict
  <1>3. /\ merged.date = Filled(anchor.date, item.date)
        /\ merged.place = FilledPlace(anchor.place, item.place)
    BY MergedAnchor
  <1>4. /\ ~DatesConflict(row.date, item.date)
        /\ Begins(Filled(row.date, item.date), merged.date)
        /\ Begins(row.date, merged.date)
    BY <1>1, <1>2, <1>3, EarlierDate DEF Behind
  <1>5. ~DatesConflict(row.date, d.date) /\ Begins(Filled(row.date, d.date), merged.date)
    BY <1>1, <1>4, FilledEmpty
  <1> HIDE DEF merged
  <1>6. /\ ~PlacesConflict(row.place, d.place)
        /\ row.place # Nowhere => row.place = merged.place
        /\ FilledPlace(row.place, d.place) # Nowhere => FilledPlace(row.place, d.place) = merged.place
    BY <1>2, <1>3 DEF PlacesConflict, FilledPlace, Behind
  <1>7. Behind(row, merged)
    BY <1>4, <1>6 DEF Behind
  <1>8. Behind(Enriched(row, d), merged)
    BY <1>5, <1>6, EnrichedRow DEF Behind
  <1>9. ~Conflict(row, d.date, d.place)
    BY <1>5, <1>6 DEF Conflict
  <1> QED BY <1>7, <1>8, <1>9 DEF merged

LEMMA OthersApply ==
  ASSUME Inv, NEW k \in Kind, NEW q \in asked[k], NEW s, PersistInv(s, k, q), NEW anchors,
         Applies(s, anchors, k), NEW d, DecisionInv(d, k, q), d.action # "link"
  PROVE  Applies(Persist(s, d, k, q), anchors, k)
  <1> DEFINE t == Persist(s, d, k, q)
  <1>1. /\ s \in Writing(k) /\ d \in DecisionRow /\ q.article \in Article
        /\ q.candidates[d.item] \subseteq Id(k)
    BY DecisionFacts, IdFacts DEF PersistInv
  <1>2. t.ok /\ \A i \in Present(k) : t.rows[i] = s.rows[i]
    <2>1. CASE t = s
      BY <2>1 DEF Applies
    <2>2. CASE t = [s EXCEPT !.short = TRUE]
      BY <1>1, <2>2 DEF Applies, Writing
    <2>3. ASSUME NEW id \in Id(k), Creates(s, id, d, k) \/ Links(s, id, d, q), t = Wrote(s, id, d, q)
          PROVE  t.ok /\ \A i \in Present(k) : t.rows[i] = s.rows[i]
      <3>1. t.ok = s.ok /\ \A i \in Id(k) : i # id => t.rows[i] = s.rows[i]
        BY <1>1, <2>3, WroteFields
      <3>2. id \notin Present(k)
        BY <2>3 DEF Creates, Links, FreshIds
      <3> QED BY <3>1, <3>2, IdFacts DEF Applies
    <2> QED BY <1>1, <2>1, <2>2, <2>3, PersistCases
  <1> QED BY <1>2 DEF Applies

LEMMA LinkApplies ==
  ASSUME Inv, NEW k \in Kind, NEW q \in asked[k], NEW s, PersistInv(s, k, q),
         NEW anchors \in [Id(k) -> Anchor], Applies(s, anchors, k),
         NEW d, DecisionInv(d, k, q), d.action = "link",
         NEW item, item.date \in Date, item.place \in Place,
         ~Conflict(anchors[d.id], item.date, item.place),
         d.date \in {<<>>, item.date}, d.place = item.place,
         NEW newer, newer[d.id] = Merged(anchors[d.id], item.date, item.place),
         \A i \in Id(k) : i # d.id => newer[i] = anchors[i]
  PROVE  Applies(Persist(s, d, k, q), newer, k)
  <1> DEFINE t == Persist(s, d, k, q)
  <1>1. /\ s \in Writing(k) /\ d \in DecisionRow /\ q.article \in Article
        /\ q.candidates[d.item] \subseteq Id(k) /\ d.id \in Present(k) /\ d.id \in Id(k)
        /\ d.id \in q.candidates[d.item]
    BY DecisionFacts, IdFacts DEF PersistInv, DecisionInv
  <1>2. s.rows[d.id] \in IdRow /\ s.rows[d.id].present /\ anchors[d.id] \in Anchor
    BY <1>1 DEF Writing, PersistInv, Extends
  <1>3. /\ ~Conflict(s.rows[d.id], d.date, d.place)
        /\ Behind(s.rows[d.id], newer[d.id])
        /\ Behind(Enriched(s.rows[d.id], d), newer[d.id])
    BY <1>1, <1>2, BehindMerged DEF Applies
  <1>4. \A i \in Present(k) : Behind(s.rows[i], newer[i])
    BY <1>3, IdFacts DEF Applies
  <1>5. CASE t = s
    BY <1>4, <1>5 DEF Applies
  <1>6. CASE t = [s EXCEPT !.short = TRUE]
    <2>1. t.ok = s.ok /\ t.rows = s.rows
      BY <1>1, <1>6 DEF Writing
    <2> QED BY <1>4, <2>1 DEF Applies
  <1>7. ASSUME NEW id \in Id(k), Creates(s, id, d, k) \/ Links(s, id, d, q), t = Wrote(s, id, d, q)
        PROVE  Applies(t, newer, k)
    <2>1. id = d.id
      BY <1>7 DEF Creates, Links
    <2>2. /\ t.ok = s.ok /\ t.rows[id] = Enriched(s.rows[id], d)
          /\ \A i \in Id(k) : i # id => t.rows[i] = s.rows[i]
      BY <1>1, <1>7, WroteFields
    <2> HIDE DEF t
    <2> QED BY <1>3, <1>4, <2>1, <2>2, IdFacts DEF Applies
  <1> QED BY <1>1, <1>2, <1>3, <1>5, <1>6, <1>7, PersistCases
LEMMA GroundedApplies ==
  ASSUME Inv, NEW k \in Kind, NEW q \in asked[k], NEW n \in Nat, NEW g, GroundInv(g, k, q, n),
         NEW s, PersistInv(s, k, q), Applies(s, g.anchors, k), NEW d, DecisionInv(d, k, q)
  PROVE  LET t == Ground(g, d, items[k][q.article])
         IN  Applies(Persist(s, t.out[n + 1], k, q), t.anchors, k)
  <1> DEFINE its == items[k][q.article]
             item == its[d.item]
             t == Ground(g, d, its)
             made == t.out[n + 1]
  <1>1. /\ GroundInv(t, k, q, n + 1)
        /\ \/ d.action # "link" /\ t.anchors = g.anchors /\ made = d
           \/ t.anchors = g.anchors /\ made.action = "create"
           \/ /\ d.action = "link" /\ d.id \in Id(k)
              /\ ~Conflict(g.anchors[d.id], item.date, item.place)
              /\ t.anchors[d.id] = Merged(g.anchors[d.id], item.date, item.place)
              /\ \A i \in Id(k) : i # d.id => t.anchors[i] = g.anchors[i]
              /\ made = GroundedDecision(d, item)
    BY GroundAdds
  <1>2. DecisionInv(made, k, q)
    BY <1>1 DEF GroundInv
  <1>3. g.anchors \in [Id(k) -> Anchor]
    BY DEF GroundInv
  <1>4. /\ item.date \in Date /\ item.place \in Place
        /\ GroundedDate(d, item) \in {<<>>, item.date}
    BY GroundedDateFacts
  <1>5. CASE t.anchors = g.anchors /\ made.action # "link"
    BY <1>2, <1>5, OthersApply
  <1>6. CASE /\ d.action = "link" /\ d.id \in Id(k)
             /\ ~Conflict(g.anchors[d.id], item.date, item.place)
             /\ t.anchors[d.id] = Merged(g.anchors[d.id], item.date, item.place)
             /\ \A i \in Id(k) : i # d.id => t.anchors[i] = g.anchors[i]
             /\ made = GroundedDecision(d, item)
    <2>1. /\ made.action = "link" /\ made.id = d.id
          /\ made.date = GroundedDate(d, item) /\ made.place = item.place
      <3>1. LET x == GroundedDecision(d, item) IN
            /\ x.action = "link" /\ x.id = d.id
            /\ x.date = GroundedDate(d, item) /\ x.place = item.place
        BY <1>6, GroundedOk
      <3> HIDE DEF made
      <3> QED BY <1>6, <3>1
    <2> HIDE DEF t, made, its
    <2> QED BY <1>2, <1>3, <1>4, <1>6, <2>1, LinkApplies DEF t, made, its
  <1> QED BY <1>1, <1>5, <1>6

LEMMA EventsApply ==
  ASSUME Inv, NEW k \in Kind, NEW q \in asked[k], NEW answer, DecisionsInv(answer, k, q),
         NEW final, final = Grounded(answer, items[k][q.article], Loaded(k)),
         DecisionsInv(final, k, q), Len(final) = Len(answer)
  PROVE  Persisting(k, q, final)[Len(final)].ok
  <1> DEFINE its == items[k][q.article]
             N == Len(answer)
             g == Grounding(answer, its, Loaded(k))
  <1>2. /\ g[0] = [anchors |-> Loaded(k), out |-> <<>>]
        /\ \A n \in 1..N : g[n] = Ground(g[n - 1], answer[n], its)
    BY GroundingStep DEF DecisionsInv
  <1>3. \A n \in 0..N : GroundInv(g[n], k, q, n) /\ \A m \in 1..n : g[n].out[m] = g[m].out[m]
    BY GroundingInv
  <1>4. PICK f : f = Persisting(k, q, final)
    OBVIOUS
  <1>5. /\ f[0] = Deleted(k, q)
        /\ \A n \in 1..N : f[n] = Persist(f[n - 1], final[n], k, q)
    BY <1>4, PersistingStep DEF DecisionsInv
  <1>6. \A n \in 0..N : PersistInv(f[n], k, q)
    BY <1>4, PersistingInv
  <1>7. final = g[N].out /\ N \in Nat
    BY DEF Grounded, DecisionsInv
  <1> HIDE DEF g
  <1> DEFINE Good(n) == Applies(f[n], g[n].anchors, k)
             S == {n \in 0..N : ~Good(n)}
  <1>8. SUFFICES ASSUME S # {} PROVE FALSE
    BY <1>4, <1>7 DEF Applies
  <1>9. PICK n \in S : \A m \in S : n <= m
    <2>1. S \in SUBSET Nat
      BY <1>7
    <2> HIDE DEF S
    <2> QED BY <1>8, <2>1, LeastNatural
  <1>10. n # 0
    <2>1. Good(0)
      <3>1. /\ Deleted(k, q).ok /\ Deleted(k, q).rows = identity[k]
        BY DEF Deleted
      <3>2. \A i \in Present(k) : identity[k][i].date \in Date
        BY IdFacts DEF Inv, TypeInv, IdRow
      <3>3. \A i \in Present(k) : Behind(identity[k][i], Loaded(k)[i])
        <4>1. \A i \in Present(k) : Begins(identity[k][i].date, identity[k][i].date)
          BY <3>2, DateFacts DEF Begins
        <4>2. \A i \in Present(k) : /\ Loaded(k)[i].date = identity[k][i].date
                                    /\ Loaded(k)[i].place = identity[k][i].place
          BY IdFacts DEF Loaded
        <4> QED BY <4>1, <4>2 DEF Behind
      <3> QED BY <1>2, <1>5, <3>1, <3>3 DEF Applies
    <2> QED BY <2>1
  <1>11. n - 1 \in 0..N /\ n \in 1..N /\ n - 1 \notin S /\ n - 1 \in Nat /\ (n - 1) + 1 = n
    BY <1>7, <1>9, <1>10
  <1>12. Good(n - 1) /\ DecisionInv(answer[n], k, q) /\ N \in 0..N
    BY <1>7, <1>11 DEF DecisionsInv
  <1>13. g[n] = Ground(g[n - 1], answer[n], its) /\ f[n] = Persist(f[n - 1], final[n], k, q)
    BY <1>2, <1>5, <1>11
  <1>14. final[n] = g[n].out[n]
    BY <1>3, <1>7, <1>11, <1>12
  <1>15. GroundInv(g[n - 1], k, q, n - 1) /\ PersistInv(f[n - 1], k, q)
    BY <1>3, <1>6, <1>11
  <1>16. Applies(Persist(f[n - 1], g[n].out[(n - 1) + 1], k, q), g[n].anchors, k)
    BY <1>11, <1>12, <1>13, <1>15, GroundedApplies
  <1>17. Good(n)
    BY <1>11, <1>13, <1>14, <1>16
  <1> QED BY <1>9, <1>17

(* Nothing is known of an entity that another decision could contradict.   *)
LEMMA EntitiesApply ==
  ASSUME Inv, NEW k \in Kind, k = "entity", NEW q \in asked[k], NEW final, DecisionsInv(final, k, q)
  PROVE  Persisting(k, q, final)[Len(final)].ok
  <1> DEFINE N == Len(final)
  <1>1. PICK f : f = Persisting(k, q, final)
    OBVIOUS
  <1>2. /\ f[0] = Deleted(k, q)
        /\ \A n \in 1..N : f[n] = Persist(f[n - 1], final[n], k, q)
    BY <1>1, PersistingStep DEF DecisionsInv
  <1>3. \A n \in 0..N : PersistInv(f[n], k, q)
    BY <1>1, PersistingInv
  <1>4. N \in Nat
    BY DEF DecisionsInv
  <1>5. \A date \in Stated(k) : date = <<>>
    BY ItemFacts DEF Stated
  <1> DEFINE S == {n \in 0..N : ~f[n].ok}
  <1>6. SUFFICES ASSUME S # {} PROVE FALSE
    BY <1>1, <1>4
  <1>7. PICK n \in S : \A m \in S : n <= m
    <2>1. S \in SUBSET Nat
      BY <1>4
    <2> HIDE DEF S
    <2> QED BY <1>6, <2>1, LeastNatural
  <1>8. n # 0
    BY <1>2 DEF Deleted
  <1>9. n - 1 \in 0..N /\ n \in 1..N /\ n - 1 \notin S
    BY <1>4, <1>7, <1>8
  <1> DEFINE s == f[n - 1]
             t == f[n]
             d == final[n]
  <1>10. s.ok /\ PersistInv(s, k, q) /\ DecisionInv(d, k, q) /\ t = Persist(s, d, k, q)
    BY <1>2, <1>3, <1>9 DEF DecisionsInv
  <1> HIDE DEF s, t, d
  <1>11. /\ s \in Writing(k) /\ d \in DecisionRow /\ q.article \in Article
         /\ q.candidates[d.item] \subseteq Id(k)
         /\ d.action = "link" => d.id \in Present(k) /\ d.id \in Id(k) /\ d.id \in q.candidates[d.item]
    BY <1>10, DecisionFacts, IdFacts DEF PersistInv, DecisionInv
  <1>12. ASSUME d.action = "link" PROVE s.rows[d.id].present /\ ~Conflict(s.rows[d.id], d.date, d.place)
    <2>1. s.rows[d.id].present
      BY <1>10, <1>11, <1>12 DEF PersistInv, Extends
    <2>2. s.rows[d.id].date = <<>> /\ d.date = <<>> /\ d.place = Nowhere
      BY <1>5, <1>10, <1>11, <1>12 DEF PersistInv, RowInv, DecisionInv
    <2> QED BY <2>1, <2>2 DEF Conflict, DatesConflict, PlacesConflict
  <1>13. t.ok
    <2>1. CASE t = s
      BY <1>10, <2>1
    <2>2. CASE t = [s EXCEPT !.short = TRUE]
      BY <1>10, <1>11, <2>2 DEF Writing
    <2>3. ASSUME NEW id \in Id(k), t = Wrote(s, id, d, q) PROVE t.ok
      BY <1>10, <1>11, <2>3, WroteFields
    <2> QED BY <1>10, <1>11, <1>12, <2>1, <2>2, <2>3, PersistCases
  <1> QED BY <1>7, <1>13 DEF t

(* What the commit of an answer finds.                                     *)
LEMMA PersistedInv ==
  ASSUME Inv, NEW k \in Kind, NEW q \in asked[k], NEW answer \in Answers(k, q)
  PROVE  LET r == Persisted(k, q, answer)
         IN  PersistInv(r, k, q) /\ BlankRows(r.rows, k) /\ r.ok
  <1> DEFINE final == Final(k, q, answer)
  <1>1. /\ DecisionsInv(answer, k, q) /\ DecisionsInv(final, k, q) /\ Len(final) = Len(answer)
    BY AnswerInv, FinalInv
  <1>2. Persisted(k, q, answer) = Persisting(k, q, final)[Len(final)]
    BY DEF Persisted
  <1>3. Len(final) \in 0..Len(final)
    BY <1>1 DEF DecisionsInv
  <1>4. Persisting(k, q, final)[Len(final)].ok
    <2>1. CASE k = "entity"
      BY <1>1, <2>1, EntitiesApply
    <2>2. CASE k = "event"
      <3>1. final = Grounded(answer, items[k][q.article], Loaded(k))
        BY <2>2 DEF Final, Loaded
      <3> HIDE DEF final
      <3> QED BY <1>1, <3>1, EventsApply
    <2> QED BY <2>1, <2>2 DEF Kind
  <1> HIDE DEF final
  <1> QED BY <1>1, <1>2, <1>3, <1>4, PersistingInv
-----------------------------------------------------------------------------
(* The derived tables.                                                     *)

CountsMatch(k, rows, counts) ==
    \A c \in Case : \A i \in Id(k) :
        counts[<<c, i>>] = Cardinality({a \in Article : <<a, i, c>> \in rows})

EventsMatch(table, counts) ==
    \A c \in Case :
        table[c].events = Cardinality({i \in Id("event") : counts[<<c, i>>] > 0})

CaseRow == [status : {"absent", "active", "hidden", "merged"},
            links : SUBSET Article, events : Nat]

LEMMA LinksMatchParts ==
  LinksMatchAssignments <=> /\ \A k \in Kind : CountsMatch(k, assigned[k], material[k])
                            /\ EventsMatch(cas, material["event"])
  BY DEF LinksMatchAssignments, CountsMatch, EventsMatch

LEMMA CountTypes ==
  /\ \A i, c, rows : Cardinality({a \in Article : <<a, i, c>> \in rows}) \in Nat
  /\ \A c, counts : Cardinality({i \in Id("event") : counts[<<c, i>>] > 0}) \in Nat
  <1>1. ASSUME NEW i, NEW c, NEW rows
        PROVE  Cardinality({a \in Article : <<a, i, c>> \in rows}) \in Nat
    <2>1. IsFiniteSet({a \in Article : <<a, i, c>> \in rows})
      BY CaseAssumption, FS_Subset
    <2> QED BY <2>1, FS_CardinalityType
  <1>2. ASSUME NEW c, NEW counts
        PROVE  Cardinality({i \in Id("event") : counts[<<c, i>>] > 0}) \in Nat
    <2>1. IsFiniteSet(Id("event"))
      BY IdFacts DEF Kind
    <2>2. IsFiniteSet({i \in Id("event") : counts[<<c, i>>] > 0})
      BY <2>1, FS_Subset
    <2> QED BY <2>2, FS_CardinalityType
  <1> QED BY <1>1, <1>2

(* The new rows differ from the old ones in these pairs only.              *)
Untouched(k, rows, pairs) ==
    \A c \in Case : \A i \in Id(k) : <<c, i>> \notin pairs =>
        \A a \in Article : <<a, i, c>> \in rows <=> <<a, i, c>> \in assigned[k]

(* The other pairs have kept their count.                                  *)
CountsKept(k, counts, pairs) ==
    \A c \in Case : \A i \in Id(k) :
        <<c, i>> \notin pairs => counts[<<c, i>>] = material[k][<<c, i>>]

(* Rebuilding some pairs is enough when the others kept their articles.    *)
LEMMA RebuiltMatches ==
  ASSUME Inv, NEW k \in Kind, NEW rows, NEW pairs, Untouched(k, rows, pairs)
  PROVE  /\ Rebuilt(k, rows, pairs) \in [Case \X Id(k) -> Nat]
         /\ CountsMatch(k, rows, Rebuilt(k, rows, pairs))
         /\ CountsKept(k, Rebuilt(k, rows, pairs), pairs)
  <1> DEFINE counts == Rebuilt(k, rows, pairs)
  <1>1. ASSUME NEW c \in Case, NEW i \in Id(k)
        PROVE  counts[<<c, i>>] = IF <<c, i>> \in pairs
                                  THEN Cardinality({a \in Article : <<a, i, c>> \in rows})
                                  ELSE material[k][<<c, i>>]
    BY DEF Rebuilt
  <1>2. material[k] \in [Case \X Id(k) -> Nat]
    BY DEF Inv, TypeInv
  <1>3. counts \in [Case \X Id(k) -> Nat]
    <2>1. \A p \in Case \X Id(k) : counts[p] \in Nat
      <3>1. \A c \in Case : \A i \in Id(k) : counts[<<c, i>>] \in Nat
        <4> SUFFICES ASSUME NEW c \in Case, NEW i \in Id(k) PROVE counts[<<c, i>>] \in Nat
          OBVIOUS
        <4>1. Cardinality({a \in Article : <<a, i, c>> \in rows}) \in Nat
          BY CountTypes
        <4>2. material[k][<<c, i>>] \in Nat
          BY <1>2
        <4> HIDE DEF counts
        <4> QED BY <1>1, <4>1, <4>2
      <3> HIDE DEF counts
      <3> QED BY <3>1
    <2>2. counts = [p \in Case \X Id(k) |-> counts[p]]
      BY DEF Rebuilt
    <2> HIDE DEF counts
    <2> QED BY <2>1, <2>2
  <1> HIDE DEF counts
  <1>4. ASSUME NEW c \in Case, NEW i \in Id(k)
        PROVE  counts[<<c, i>>] = Cardinality({a \in Article : <<a, i, c>> \in rows})
    <2>1. CASE <<c, i>> \in pairs
      BY <1>1, <2>1
    <2>2. CASE <<c, i>> \notin pairs
      <3>1. {a \in Article : <<a, i, c>> \in rows} = {a \in Article : <<a, i, c>> \in assigned[k]}
        BY <2>2 DEF Untouched
      <3>2. material[k][<<c, i>>] = Cardinality({a \in Article : <<a, i, c>> \in assigned[k]})
        BY DEF Inv, LinksMatchAssignments
      <3> QED BY <1>1, <2>2, <3>1, <3>2
    <2> QED BY <2>1, <2>2
  <1>5. \A c \in Case : \A i \in Id(k) : <<c, i>> \notin pairs => counts[<<c, i>>] = material[k][<<c, i>>]
    BY <1>1
  <1> QED BY <1>3, <1>4, <1>5 DEF CountsMatch, CountsKept, counts

(* Recounting some cases is enough when the others kept their links.       *)
LEMMA RecountedMatches ==
  ASSUME NEW table \in [Case -> CaseRow], NEW cases, NEW counts,
         \A c \in Case : c \notin cases =>
            table[c].events = Cardinality({i \in Id("event") : counts[<<c, i>>] > 0})
  PROVE  /\ Recounted(table, cases, counts) \in [Case -> CaseRow]
         /\ EventsMatch(Recounted(table, cases, counts), counts)
         /\ \A c \in Case : /\ Recounted(table, cases, counts)[c].status = table[c].status
                            /\ Recounted(table, cases, counts)[c].links = table[c].links
  <1> DEFINE new == Recounted(table, cases, counts)
             count(c) == Cardinality({i \in Id("event") : counts[<<c, i>>] > 0})
  <1>1. /\ new = [c \in Case |-> new[c]]
        /\ \A c \in Case : new[c] = IF c \in cases THEN [table[c] EXCEPT !.events = count(c)] ELSE table[c]
    BY DEF Recounted
  <1> HIDE DEF new
  <1>2. ASSUME NEW c \in Case
        PROVE  new[c] \in CaseRow /\ new[c].status = table[c].status /\ new[c].links = table[c].links
               /\ new[c].events = count(c)
    <2>1. count(c) \in Nat
      BY CountTypes
    <2>2. table[c] \in CaseRow
      OBVIOUS
    <2> HIDE DEF count
    <2>3. CASE c \in cases
      <3>1. new[c] = [table[c] EXCEPT !.events = count(c)]
        BY <1>1, <2>3
      <3> QED BY <2>1, <2>2, <3>1 DEF CaseRow
    <2>4. CASE c \notin cases
      BY <1>1, <2>2, <2>4 DEF count
    <2> QED BY <2>3, <2>4
  <1>3. new \in [Case -> CaseRow]
    BY <1>1, <1>2
  <1> QED BY <1>2, <1>3 DEF EventsMatch, new

-----------------------------------------------------------------------------
(* The invariant is inductive.                                             *)

LEMMA InitInv == Init => Inv
  <1> SUFFICES ASSUME Init PROVE Inv
    OBVIOUS
  <1> USE DEF Init
  <1>1. TypeInv
    <2>1. cas \in [Case -> [status : {"absent", "active", "hidden", "merged"},
                            links : SUBSET Article, events : Nat]]
      BY DEF NoCase
    <2>2. \A k \in Kind : identity[k] \in [Id(k) -> IdRow]
      <3>1. Unknown \in IdRow
        <4>1. <<>> \in Date
          BY NoDateFacts
        <4>2. \A p \in BOOLEAN, d \in Date, place \in Place, t \in Text :
                  [present |-> p, date |-> d, place |-> place, description |-> t] \in IdRow
          BY ONLY TRUE DEF IdRow
        <4>3. "none" \in Text /\ Nowhere \in Place /\ FALSE \in BOOLEAN
          BY DEF Text, Place
        <4> QED BY <4>1, <4>2, <4>3 DEF Unknown
      <3>2. \A k \in Kind : identity[k] = [i \in Id(k) |-> Unknown]
        OBVIOUS
      <3> QED BY ONLY <3>1, <3>2
    <2>3. \A k \in Kind : material[k] \in [Case \X Id(k) -> Nat]
      OBVIOUS
    <2> QED BY <2>1, <2>2, <2>3 DEF TypeInv
  <1>2. ASSUME NEW k \in Kind
        PROVE  /\ \A i \in Id(k) : RowInv(k, identity[k][i])
               /\ BlankRows(identity[k], k) /\ Present(k) \subseteq index[k]
    <2>1. \A i \in Id(k) : identity[k][i] = Unknown
      OBVIOUS
    <2>2. <<>> \in Stated(k)
      BY DEF Stated
    <2> QED BY <2>1, <2>2 DEF RowInv, BlankRows, Present, Unknown
  <1>3. \A k \in Kind : asked[k] = {}
    OBVIOUS
  <1>4. \A c \in Case : cas[c].links = {} /\ cas[c].events = 0
    BY DEF NoCase
  <1>5. AssignmentsFollowLinks
    BY DEF AssignmentsFollowLinks
  <1>6. LinksMatchAssignments
    <2>1. ASSUME NEW k \in Kind, NEW c \in Case, NEW i \in Id(k)
          PROVE  material[k][<<c, i>>] = 0 /\ {a \in Article : <<a, i, c>> \in assigned[k]} = {}
      OBVIOUS
    <2>2. ASSUME NEW c \in Case PROVE {i \in Id("event") : material["event"][<<c, i>>] > 0} = {}
      BY <2>1 DEF Kind
    <2> QED BY <1>4, <2>1, <2>2, FS_EmptySet DEF LinksMatchAssignments
  <1> QED BY <1>1, <1>2, <1>3, <1>4, <1>5, <1>6 DEF Inv

(* Nothing of an identity, its rows or its links has changed.              *)
LEMMA StartStep ==
  ASSUME Inv, UNCHANGED items, NEW k \in Kind, NEW a \in Article, Start(k, a)
  PROVE  Inv'
  <1>1. PICK candidates \in [DOMAIN items[k][a] -> Retrieved(k)] :
            asked' = [asked EXCEPT ![k] =
              {[article |-> a, cases |-> CasesOf(a), candidates |-> candidates]}]
    BY DEF Start
  <1>0. PICK q : q = [article |-> a, cases |-> CasesOf(a), candidates |-> candidates]
    OBVIOUS
  <1>2. /\ asked' = [l \in Kind |-> asked'[l]] /\ asked'[k] = {q}
        /\ \A l \in Kind : l # k => asked'[l] = asked[l]
    BY <1>0, <1>1 DEF Inv, TypeInv
  <1>3. UNCHANGED <<cas, identity, mention, assigned, material, index, refused, items>>
    BY DEF Start
  <1>4. \A l \in Kind : UNCHANGED <<Present(l), Id(l)>>
    BY <1>3 DEF Present, Id
  <1>5. QueryInv(k, q)'
    <2>1. \A n \in DOMAIN items[k][a] : candidates[n] \subseteq Present(k)
      BY <1>1 DEF Retrieved
    <2>2. CasesOf(a) \subseteq Case /\ \A c \in CasesOf(a) : a \in cas[c].links
      BY DEF CasesOf
    <2>3. q.article = a /\ q.cases = CasesOf(a) /\ q.candidates = candidates
      BY <1>0
    <2> QED BY <1>3, <1>4, <2>1, <2>2, <2>3 DEF QueryInv
  <1>6. \A l \in Kind : \A r \in asked[l] : QueryInv(l, r)'
    BY <1>3, <1>4 DEF QueryInv, Inv
  <1>7. TypeInv'
    BY <1>2, <1>3 DEF Inv, TypeInv, Id
  <1>8. /\ \A l \in Kind : \A i \in Id(l) : RowInv(l, identity[l][i])'
        /\ \A l \in Kind : BlankRows(identity[l], l)'
        /\ \A l \in Kind : Present(l)' \subseteq index'[l]
    BY <1>3, <1>4 DEF Inv, RowInv, BlankRows, Stated
  <1>9. \A l \in Kind : asked'[l] = {} \/ \E r \in asked'[l] : asked'[l] = {r}
    BY <1>2 DEF Inv
  <1>10. ASSUME NEW l \in Kind, NEW r \in asked'[l] PROVE QueryInv(l, r)'
    <2>1. CASE l = k
      <3>1. r = q
        BY <1>2, <2>1
      <3> QED BY <1>5, <2>1, <3>1
    <2>2. CASE l # k
      BY <1>2, <1>6, <2>2
    <2> QED BY <2>1, <2>2
  <1>11. AssignmentsFollowLinks' /\ LinksMatchAssignments'
    BY <1>3 DEF Inv, AssignmentsFollowLinks, LinksMatchAssignments
  <1> QED BY <1>3, <1>4, <1>7, <1>8, <1>9, <1>10, <1>11 DEF Inv, Id
LEMMA FailStep ==
  ASSUME Inv, UNCHANGED items, NEW k \in Kind, Fail(k)
  PROVE  Inv'
  <1>1. asked' = [asked EXCEPT ![k] = {}]
        /\ UNCHANGED <<cas, identity, mention, assigned, material, refused, items>>
    BY DEF Fail
  <1>2. /\ asked' = [l \in Kind |-> asked'[l]] /\ asked'[k] = {}
        /\ \A l \in Kind : l # k => asked'[l] = asked[l]
    BY <1>1 DEF Inv, TypeInv
  <1>3. /\ index' = [l \in Kind |-> index'[l]]
        /\ \A l \in Kind : index[l] \subseteq index'[l] /\ index'[l] \subseteq Id(l)
    <2>1. CASE UNCHANGED index
      BY <2>1 DEF Inv, TypeInv
    <2>2. CASE ~UNCHANGED index
      <3>1. /\ FreshIds(k) # {}
            /\ index' = [index EXCEPT ![k] = @ \cup {CHOOSE i \in FreshIds(k) : \A j \in FreshIds(k) : i <= j}]
        BY <2>2 DEF Fail
      <3> DEFINE new == CHOOSE i \in FreshIds(k) : \A j \in FreshIds(k) : i <= j
      <3>2. \E i \in FreshIds(k) : \A j \in FreshIds(k) : i <= j
        BY <3>1, IdFacts, LeastNatural
      <3>3. new \in Id(k)
        BY <3>2, IdFacts
      <3>4. index' = [index EXCEPT ![k] = index[k] \cup {new}]
        BY <3>1
      <3> HIDE DEF new
      <3> QED BY <3>3, <3>4 DEF Inv, TypeInv
    <2> QED BY <2>1, <2>2
  <1>4. \A l \in Kind : UNCHANGED <<Present(l), Id(l)>>
    BY <1>1 DEF Present, Id
  <1>5. TypeInv'
    BY <1>1, <1>2, <1>3, <1>4 DEF Inv, TypeInv
  <1>6. /\ \A l \in Kind : \A i \in Id(l) : RowInv(l, identity[l][i])'
        /\ \A l \in Kind : BlankRows(identity[l], l)'
        /\ \A l \in Kind : Present(l)' \subseteq index'[l]
    BY <1>1, <1>3, <1>4 DEF Inv, RowInv, BlankRows, Stated
  <1>7. \A l \in Kind : asked'[l] = {} \/ \E r \in asked'[l] : asked'[l] = {r}
    BY <1>2 DEF Inv
  <1>8. ASSUME NEW l \in Kind, NEW r \in asked'[l] PROVE QueryInv(l, r)'
    <2>1. r \in asked[l]
      BY <1>2
    <2> QED BY <1>1, <1>4, <2>1 DEF Inv, QueryInv
  <1>9. AssignmentsFollowLinks' /\ LinksMatchAssignments'
    BY <1>1 DEF Inv, AssignmentsFollowLinks, LinksMatchAssignments, Id
  <1> QED BY <1>1, <1>4, <1>5, <1>6, <1>7, <1>8, <1>9 DEF Inv

(* A mutation of cases moves rows and links: nothing of the identities, and *)
(* no article from a case that a waiting handler has read.                 *)
LEMMA CaseStep ==
  ASSUME Inv, UNCHANGED <<items, identity, mention, index, asked, refused>>,
         cas' \in [Case -> CaseRow],
         \A c \in Case : cas'[c].status = "absent" => cas'[c].links = {},
         \A k \in Kind : \A q \in asked[k] : \A c \in q.cases : q.article \in cas'[c].links,
         assigned' = [k \in Kind |-> assigned'[k]], material' = [k \in Kind |-> material'[k]],
         \A k \in Kind : /\ assigned'[k] \subseteq Article \X Id(k) \X Case
                         /\ material'[k] \in [Case \X Id(k) -> Nat]
                         /\ CountsMatch(k, assigned'[k], material'[k])
                         /\ \A r \in assigned'[k] : r[1] \in cas'[r[3]].links,
         EventsMatch(cas', material'["event"])
  PROVE  Inv'
  <1>1. \A l \in Kind : UNCHANGED <<Present(l), Id(l)>>
    BY DEF Present, Id
  <1>2. TypeInv'
    BY <1>1 DEF Inv, TypeInv, CaseRow
  <1>3. /\ \A l \in Kind : \A i \in Id(l) : RowInv(l, identity[l][i])'
        /\ \A l \in Kind : BlankRows(identity[l], l)'
        /\ \A l \in Kind : Present(l)' \subseteq index'[l]
        /\ \A l \in Kind : asked'[l] = {} \/ \E r \in asked'[l] : asked'[l] = {r}
        /\ ~refused'
    BY <1>1 DEF Inv, RowInv, BlankRows, Stated
  <1>4. ASSUME NEW l \in Kind, NEW r \in asked'[l] PROVE QueryInv(l, r)'
    BY <1>1 DEF Inv, QueryInv
  <1>5. AssignmentsFollowLinks'
    BY DEF AssignmentsFollowLinks
  <1>6. LinksMatchAssignments'
    BY <1>1 DEF LinksMatchAssignments, CountsMatch, EventsMatch, Id
  <1> QED BY <1>1, <1>2, <1>3, <1>4, <1>5, <1>6 DEF Inv

LEMMA AbsentCase ==
  ASSUME Inv, NEW c \in Case, cas[c].status = "absent"
  PROVE  /\ \A k \in Kind : \A r \in assigned[k] : r[3] # c
         /\ cas[c].links = {} /\ cas[c].events = 0
  <1>1. cas[c].links = {}
    BY DEF Inv
  <1>2. \A k \in Kind : \A r \in assigned[k] : r[3] # c
    BY <1>1 DEF Inv, AssignmentsFollowLinks
  <1>3. ASSUME NEW i \in Id("event") PROVE material["event"][<<c, i>>] = 0
    <2>1. {a \in Article : <<a, i, c>> \in assigned["event"]} = {}
      BY <1>2 DEF Kind
    <2>2. material["event"][<<c, i>>] = Cardinality({a \in Article : <<a, i, c>> \in assigned["event"]})
      BY DEF Inv, LinksMatchAssignments, Kind
    <2> QED BY <2>1, <2>2, FS_EmptySet
  <1>4. {i \in Id("event") : material["event"][<<c, i>>] > 0} = {}
    BY <1>3
  <1>5. cas[c].events = Cardinality({i \in Id("event") : material["event"][<<c, i>>] > 0})
    BY DEF Inv, LinksMatchAssignments
  <1> QED BY <1>1, <1>2, <1>4, <1>5, FS_EmptySet

LEMMA RowFacts ==
  ASSUME Inv, NEW k \in Kind, NEW r \in assigned[k]
  PROVE  /\ r = <<r[1], r[2], r[3]>> /\ r[1] \in Article /\ r[2] \in Id(k) /\ r[3] \in Case
         /\ r[1] \in cas[r[3]].links
  <1>1. r \in Article \X Id(k) \X Case
    BY DEF Inv, TypeInv
  <1>2. PICK a \in Article, i \in Id(k), c \in Case : r = <<a, i, c>>
    BY <1>1
  <1>3. r[1] \in cas[r[3]].links
    BY DEF Inv, AssignmentsFollowLinks
  <1> QED BY <1>2, <1>3

LEMMA HideStep ==
  ASSUME Inv, UNCHANGED items, NEW c \in Case, Hide(c)
  PROVE  Inv'
  <1>1. cas' = [cas EXCEPT ![c].status = "hidden"]
        /\ UNCHANGED <<items, identity, mention, assigned, material, index, asked, refused>>
    BY DEF Hide
  <1>2. /\ cas \in [Case -> CaseRow] /\ LinksMatchAssignments /\ AssignmentsFollowLinks
        /\ \A k \in Kind : \A q \in asked[k] : QueryInv(k, q)
        /\ \A d \in Case : cas[d].status = "absent" => cas[d].links = {}
    BY DEF Inv, TypeInv, CaseRow
  <1>3. cas' \in [Case -> CaseRow]
        /\ \A d \in Case : /\ cas'[d].links = cas[d].links /\ cas'[d].events = cas[d].events
                           /\ cas'[d].status \in {cas[d].status, "hidden"}
    BY <1>1, <1>2 DEF CaseRow
  <1>4. EventsMatch(cas', material'["event"]) /\ \A k \in Kind : CountsMatch(k, assigned'[k], material'[k])
    <2>1. EventsMatch(cas, material["event"]) /\ \A k \in Kind : CountsMatch(k, assigned[k], material[k])
      BY <1>2, LinksMatchParts
    <2> QED BY <1>1, <1>3, <2>1 DEF EventsMatch
  <1>5. \A k \in Kind : /\ assigned'[k] \subseteq Article \X Id(k) \X Case
                        /\ material'[k] \in [Case \X Id(k) -> Nat]
                        /\ \A r \in assigned'[k] : r[1] \in cas'[r[3]].links
    <2>1. \A k \in Kind : /\ assigned[k] \subseteq Article \X Id(k) \X Case
                          /\ material[k] \in [Case \X Id(k) -> Nat]
      BY DEF Inv, TypeInv
    <2>2. \A k \in Kind : \A r \in assigned[k] : r[1] \in cas[r[3]].links /\ r[3] \in Case
      BY RowFacts
    <2> QED BY <1>1, <1>3, <2>1, <2>2
  <1>6. \A k \in Kind : \A q \in asked[k] : \A d \in q.cases : q.article \in cas'[d].links
    BY <1>2, <1>3 DEF QueryInv
  <1>7. assigned' = [k \in Kind |-> assigned'[k]] /\ material' = [k \in Kind |-> material'[k]]
    BY <1>1 DEF Inv, TypeInv
  <1>8. \A d \in Case : cas'[d].status = "absent" => cas'[d].links = {}
    BY <1>2, <1>3
  <1> QED BY <1>1, <1>3, <1>4, <1>5, <1>6, <1>7, <1>8, CaseStep

LEMMA LinkStep ==
  ASSUME Inv, UNCHANGED items, NEW a \in Article, NEW existing \in SUBSET Case,
         NEW new \in SUBSET Case, Link(a, existing, new)
  PROVE  Inv'
  <1>1. /\ existing \subseteq {c \in Case : Active(c)}
        /\ new \subseteq {c \in Case : FreshCase(c)}
        /\ cas' = [c \in Case |->
              IF c \in existing THEN [cas[c] EXCEPT !.links = cas[c].links \cup {a}]
              ELSE IF c \in new THEN NewCase({a})
              ELSE cas[c]]
        /\ UNCHANGED <<items, identity, mention, assigned, material, index, asked, refused>>
    BY DEF Link
  <1>2. cas \in [Case -> CaseRow]
    BY DEF Inv, TypeInv, CaseRow
  <1>3. ASSUME NEW c \in Case
        PROVE  /\ cas'[c] \in CaseRow /\ cas[c].links \subseteq cas'[c].links
               /\ cas'[c].events = cas[c].events
               /\ cas'[c].status = "absent" => cas'[c].links = {}
    <2>1. CASE c \in existing
      <3>1. cas'[c] = [cas[c] EXCEPT !.links = cas[c].links \cup {a}] /\ cas[c].status = "active"
        BY <1>1, <2>1 DEF Active
      <3> QED BY <1>2, <3>1 DEF CaseRow
    <2>2. CASE c \notin existing /\ c \in new
      <3>1. cas'[c] = [status |-> "active", links |-> {a}, events |-> 0]
        BY <1>1, <2>2 DEF NewCase
      <3>2. cas[c].links = {} /\ cas[c].events = 0
        BY <1>1, <2>2, AbsentCase DEF FreshCase
      <3> QED BY <3>1, <3>2 DEF CaseRow
    <2>3. CASE c \notin existing /\ c \notin new
      <3>1. cas'[c] = cas[c]
        BY <1>1, <2>3
      <3> QED BY <1>2, <3>1 DEF Inv
    <2> QED BY <2>1, <2>2, <2>3
  <1>4. cas' \in [Case -> CaseRow]
    <2>1. cas' = [c \in Case |-> cas'[c]]
      BY <1>1
    <2> QED BY <1>3, <2>1
  <1>5. EventsMatch(cas', material'["event"]) /\ \A k \in Kind : CountsMatch(k, assigned'[k], material'[k])
    <2>1. EventsMatch(cas, material["event"]) /\ \A k \in Kind : CountsMatch(k, assigned[k], material[k])
      BY LinksMatchParts DEF Inv
    <2> QED BY <1>1, <1>3, <2>1 DEF EventsMatch
  <1>6. \A k \in Kind : /\ assigned'[k] \subseteq Article \X Id(k) \X Case
                        /\ material'[k] \in [Case \X Id(k) -> Nat]
                        /\ \A r \in assigned'[k] : r[1] \in cas'[r[3]].links
    <2>1. \A k \in Kind : /\ assigned[k] \subseteq Article \X Id(k) \X Case
                          /\ material[k] \in [Case \X Id(k) -> Nat]
      BY DEF Inv, TypeInv
    <2>2. \A k \in Kind : \A r \in assigned[k] : r[1] \in cas[r[3]].links /\ r[3] \in Case
      BY RowFacts
    <2> QED BY <1>1, <1>3, <2>1, <2>2
  <1>7. \A k \in Kind : \A q \in asked[k] : \A d \in q.cases : q.article \in cas'[d].links
    BY <1>3 DEF Inv, QueryInv
  <1>8. assigned' = [k \in Kind |-> assigned'[k]] /\ material' = [k \in Kind |-> material'[k]]
    BY <1>1 DEF Inv, TypeInv
  <1> QED BY <1>1, <1>3, <1>4, <1>5, <1>6, <1>7, <1>8, CaseStep

LEMMA AssignedFacts ==
  ASSUME Inv, NEW k \in Kind, NEW articles, NEW c
  PROVE  \A r \in Assigned(k, articles, c) :
            /\ r = <<r[1], r[2], c>> /\ r[3] = c /\ r[1] \in Article /\ r[2] \in Id(k)
            /\ r[1] \in articles
  <1> SUFFICES ASSUME NEW r \in Assigned(k, articles, c)
               PROVE  /\ r = <<r[1], r[2], c>> /\ r[3] = c /\ r[1] \in Article /\ r[2] \in Id(k)
                      /\ r[1] \in articles
    OBVIOUS
  <1>1. PICK m \in mention[k] : m[1] \in articles /\ r = <<m[1], m[2], c>>
    BY DEF Assigned
  <1>2. m \in Article \X Id(k)
    BY DEF Inv, TypeInv
  <1> QED BY <1>1, <1>2

(* Rows replaced, the pairs that this touches rebuilt, their cases         *)
(* recounted.                                                              *)
RowsOk(k, rows, pairs, table) ==
    /\ rows \subseteq Article \X Id(k) \X Case
    /\ \A r \in rows : r[1] \in table[r[3]].links
    /\ Untouched(k, rows, pairs)

TableOk(table, pairs, cases) ==
    /\ table \in [Case -> CaseRow]
    /\ \A c \in Case : \A i \in Id("event") : <<c, i>> \in pairs => c \in cases
    /\ \A c \in Case : c \notin cases => table[c].events = cas[c].events
    /\ \A c \in Case : table[c].status = "absent" => table[c].links = {}

LEMMA RowsStep ==
  ASSUME Inv, UNCHANGED <<items, identity, mention, index, asked, refused>>, AllLocks,
         NEW table, NEW cases, NEW rows, NEW pairs, TableOk(table, pairs["event"], cases),
         \A k \in Kind : RowsOk(k, rows[k], pairs[k], table),
         assigned' = [k \in Kind |-> rows[k]],
         material' = [k \in Kind |-> Rebuilt(k, rows[k], pairs[k])],
         cas' = Recounted(table, cases, Rebuilt("event", rows["event"], pairs["event"]))
  PROVE  Inv'
  <1>1. ASSUME NEW k \in Kind
        PROVE  /\ assigned'[k] = rows[k] /\ rows[k] \subseteq Article \X Id(k) \X Case
               /\ \A r \in rows[k] : r[1] \in table[r[3]].links
               /\ material'[k] \in [Case \X Id(k) -> Nat] /\ CountsMatch(k, rows[k], material'[k])
               /\ \A c \in Case : \A i \in Id(k) : <<c, i>> \notin pairs[k] =>
                     material'[k][<<c, i>>] = material[k][<<c, i>>]
    <2>1. /\ assigned'[k] = rows[k] /\ material'[k] = Rebuilt(k, rows[k], pairs[k])
          /\ rows[k] \subseteq Article \X Id(k) \X Case
          /\ \A r \in rows[k] : r[1] \in table[r[3]].links
          /\ Untouched(k, rows[k], pairs[k])
      BY DEF RowsOk
    <2>2. /\ material'[k] \in [Case \X Id(k) -> Nat] /\ CountsMatch(k, rows[k], material'[k])
          /\ CountsKept(k, material'[k], pairs[k])
      BY <2>1, RebuiltMatches
    <2> QED BY <2>1, <2>2 DEF CountsKept
  <1>2. "event" \in Kind
    BY DEF Kind
  <1> DEFINE counts == material'["event"]
  <1>3. ASSUME NEW c \in Case, c \notin cases
        PROVE  table[c].events = Cardinality({i \in Id("event") : counts[<<c, i>>] > 0})
    <2>1. cas[c].events = Cardinality({i \in Id("event") : material["event"][<<c, i>>] > 0})
      BY DEF Inv, LinksMatchAssignments
    <2>2. \A i \in Id("event") : <<c, i>> \notin pairs["event"]
      BY <1>3 DEF TableOk
    <2>3. \A i \in Id("event") : counts[<<c, i>>] = material["event"][<<c, i>>]
      BY ONLY <1>1, <1>2, <2>2, c \in Case
    <2> HIDE DEF counts
    <2>4. {i \in Id("event") : counts[<<c, i>>] > 0}
              = {i \in Id("event") : material["event"][<<c, i>>] > 0}
      BY <2>3
    <2>5. table[c].events = cas[c].events
      BY <1>3 DEF TableOk
    <2> QED BY <2>1, <2>4, <2>5
  <1>4. cas' = Recounted(table, cases, counts)
    <2>1. counts = Rebuilt("event", rows["event"], pairs["event"])
      BY <1>2
    <2> HIDE DEF counts
    <2> QED BY <2>1
  <1> HIDE DEF counts
  <1>5. /\ cas' \in [Case -> CaseRow] /\ EventsMatch(cas', counts)
        /\ \A c \in Case : cas'[c].status = table[c].status /\ cas'[c].links = table[c].links
    <2>1. table \in [Case -> CaseRow]
      BY DEF TableOk
    <2> QED BY <1>3, <1>4, <2>1, RecountedMatches
  <1>6. EventsMatch(cas', material'["event"])
    BY <1>5 DEF counts
  <1>7. \A k \in Kind : \A r \in assigned'[k] : r[1] \in cas'[r[3]].links
    <2>1. \A k \in Kind : \A r \in rows[k] : r[3] \in Case
      <3> SUFFICES ASSUME NEW k \in Kind, NEW r \in rows[k] PROVE r[3] \in Case
        OBVIOUS
      <3>1. r \in Article \X Id(k) \X Case
        BY <1>1
      <3> QED BY ONLY <3>1
    <2> QED BY <1>1, <1>5, <2>1
  <1>8. \A k \in Kind : asked[k] = {}
    BY DEF AllLocks
  <1>9. assigned' = [k \in Kind |-> assigned'[k]] /\ material' = [k \in Kind |-> material'[k]]
    OBVIOUS
  <1>10. \A c \in Case : cas'[c].status = "absent" => cas'[c].links = {}
    BY <1>5 DEF TableOk
  <1>11. \A k \in Kind : /\ assigned'[k] \subseteq Article \X Id(k) \X Case
                         /\ material'[k] \in [Case \X Id(k) -> Nat]
                         /\ CountsMatch(k, assigned'[k], material'[k])
    BY <1>1
  <1> QED BY <1>5, <1>6, <1>7, <1>8, <1>9, <1>10, <1>11, CaseStep

LEMMA MergeStep ==
  ASSUME Inv, UNCHANGED items, NEW survivor \in Case, NEW absorbed \in Case,
         Merge(survivor, absorbed)
  PROVE  Inv'
  <1> DEFINE moved(k) == Assigned(k, cas[absorbed].links, survivor)
             rows == [k \in Kind |-> assigned[k] \cup moved(k)]
             pairs == [k \in Kind |-> Pairs(moved(k))]
             table == [cas EXCEPT ![survivor].links = @ \cup cas[absorbed].links,
                                  ![absorbed].status = "merged"]
  <1>1. cas \in [Case -> CaseRow]
    BY DEF Inv, TypeInv, CaseRow
  <1>2. survivor # absorbed /\ cas[survivor].status = "active" /\ cas[absorbed].status = "active"
    BY DEF Merge, Active
  <1>3. /\ table \in [Case -> CaseRow]
        /\ table[survivor].links = cas[survivor].links \cup cas[absorbed].links
        /\ table[survivor].status = "active"
        /\ \A c \in Case : /\ cas[c].links \subseteq table[c].links /\ table[c].events = cas[c].events
                           /\ table[c].status = "absent" => table[c] = cas[c]
    BY <1>1, <1>2 DEF CaseRow
  <1>4. ASSUME NEW k \in Kind
        PROVE  /\ RowsOk(k, rows[k], pairs[k], table)
               /\ \A c \in Case : \A i \in Id(k) : <<c, i>> \in pairs[k] => c = survivor
    <2>1. /\ rows[k] = assigned[k] \cup moved(k)
          /\ pairs[k] = {<<r[3], r[2]>> : r \in moved(k)}
      BY DEF Pairs
    <2>2. \A r \in moved(k) : /\ r = <<r[1], r[2], survivor>> /\ r[3] = survivor
                              /\ r[1] \in Article /\ r[2] \in Id(k) /\ r[1] \in cas[absorbed].links
      BY AssignedFacts
    <2>3. \A r \in assigned[k] : /\ r = <<r[1], r[2], r[3]>> /\ r[1] \in Article /\ r[2] \in Id(k)
                                 /\ r[3] \in Case /\ r[1] \in cas[r[3]].links
      BY RowFacts
    <2> HIDE DEF moved, rows, pairs, table
    <2>4. rows[k] \subseteq Article \X Id(k) \X Case
      <3>1. assigned[k] \subseteq Article \X Id(k) \X Case
        BY DEF Inv, TypeInv
      <3> QED BY <2>1, <2>2, <3>1
    <2>5. \A r \in rows[k] : r[1] \in table[r[3]].links
      BY <1>3, <2>1, <2>2, <2>3
    <2>6. Untouched(k, rows[k], pairs[k])
      BY <2>1 DEF Untouched
    <2>7. \A c \in Case : \A i \in Id(k) : <<c, i>> \in pairs[k] => c = survivor
      BY <2>1, <2>2
    <2> QED BY <2>4, <2>5, <2>6, <2>7 DEF RowsOk
  <1>5. /\ AllLocks /\ UNCHANGED <<items, identity, mention, index, asked, refused>>
        /\ assigned' = [k \in Kind |-> rows[k]]
        /\ material' = [k \in Kind |-> Rebuilt(k, rows[k], pairs[k])]
        /\ cas' = Recounted(table, {survivor}, Rebuilt("event", rows["event"], pairs["event"]))
    BY DEF Merge, Kind
  <1>6. \A c \in Case : table[c].status = "absent" => table[c].links = {}
    <2> HIDE DEF table
    <2> QED BY <1>3, AbsentCase
  <1>7. "event" \in Kind
    BY DEF Kind
  <1> HIDE DEF moved, rows, pairs, table
  <1>8. TableOk(table, pairs["event"], {survivor})
    BY <1>3, <1>4, <1>6, <1>7 DEF TableOk
  <1>9. \A k \in Kind : RowsOk(k, rows[k], pairs[k], table)
    BY <1>4
  <1> QED BY <1>5, <1>8, <1>9, RowsStep
LEMMA SplitStep ==
  ASSUME Inv, UNCHANGED items, NEW c \in Case, NEW original \in SUBSET Article,
         NEW story \in SUBSET Article, NEW new \in SUBSET Case, Split(c, original, story, new)
  PROVE  Inv'
  <1> DEFINE moved(k) == Assigned(k, original, c) \cup UNION {Assigned(k, story, d) : d \in new}
             rows == [k \in Kind |-> {r \in assigned[k] : r[3] # c} \cup moved(k)]
             pairs == [k \in Kind |-> ({c} \X Id(k)) \cup Pairs(moved(k))]
             table == [d \in Case |->
                  IF d = c THEN [cas[c] EXCEPT !.links = original]
                  ELSE IF d \in new THEN NewCase(story)
                  ELSE cas[d]]
  <1>1. cas \in [Case -> CaseRow]
    BY DEF Inv, TypeInv, CaseRow
  <1>2. /\ cas[c].status = "active" /\ \A d \in new : cas[d].status = "absent" /\ d # c
        /\ original \subseteq cas[c].links
    BY DEF Split, Active, FreshCase
  <1>3. ASSUME NEW d \in Case
        PROVE  /\ table[d] \in CaseRow /\ (table[d].status = "absent" => table[d].links = {})
               /\ d = c => table[d].links = original
               /\ d # c /\ d \in new => table[d].links = story
               /\ d # c /\ d \notin new => table[d] = cas[d]
    <2>1. CASE d = c
      <3>1. table[d] = [cas[c] EXCEPT !.links = original]
        BY <2>1
      <3> HIDE DEF table
      <3> QED BY <1>1, <1>2, <2>1, <3>1 DEF CaseRow
    <2>2. CASE d # c /\ d \in new
      <3>1. table[d] = [status |-> "active", links |-> story, events |-> 0]
        BY <2>2 DEF NewCase
      <3> HIDE DEF table
      <3> QED BY <2>2, <3>1 DEF CaseRow
    <2>3. CASE d # c /\ d \notin new
      <3>1. table[d] = cas[d]
        BY <2>3
      <3> HIDE DEF table
      <3> QED BY <1>1, <2>3, <3>1, AbsentCase
    <2> QED BY <2>1, <2>2, <2>3
  <1>4. table \in [Case -> CaseRow]
    <2>1. table = [d \in Case |-> table[d]]
      OBVIOUS
    <2> HIDE DEF table
    <2> QED BY <1>3, <2>1
  <1>5. ASSUME NEW k \in Kind
        PROVE  /\ RowsOk(k, rows[k], pairs[k], table)
               /\ \A d \in Case : \A i \in Id(k) : <<d, i>> \in pairs[k] => d \in {c} \cup new
    <2>1. /\ rows[k] = {r \in assigned[k] : r[3] # c} \cup moved(k)
          /\ pairs[k] = ({c} \X Id(k)) \cup {<<r[3], r[2]>> : r \in moved(k)}
      BY DEF Pairs
    <2>2. ASSUME NEW r \in moved(k)
          PROVE  \E d \in {c} \cup new :
                    /\ r = <<r[1], r[2], d>> /\ r[3] = d /\ r[1] \in Article /\ r[2] \in Id(k)
                    /\ d = c => r[1] \in original
                    /\ d # c => d \in new /\ r[1] \in story
      <3>1. CASE r \in Assigned(k, original, c)
        BY <3>1, AssignedFacts
      <3>2. ASSUME NEW d \in new, r \in Assigned(k, story, d)
            PROVE  r = <<r[1], r[2], d>> /\ r[3] = d /\ r[1] \in Article /\ r[2] \in Id(k) /\ r[1] \in story
        BY <3>2, AssignedFacts
      <3> QED BY <1>2, <3>1, <3>2
    <2>3. \A r \in assigned[k] : /\ r = <<r[1], r[2], r[3]>> /\ r[1] \in Article /\ r[2] \in Id(k)
                                 /\ r[3] \in Case /\ r[1] \in cas[r[3]].links /\ r[3] \notin new
      BY <1>2, RowFacts, AbsentCase
    <2> HIDE DEF moved, rows, pairs, table
    <2>4. rows[k] \subseteq Article \X Id(k) \X Case
      <3>1. assigned[k] \subseteq Article \X Id(k) \X Case
        BY DEF Inv, TypeInv
      <3>2. moved(k) \subseteq Article \X Id(k) \X Case
        BY <2>2
      <3> QED BY <2>1, <3>1, <3>2
    <2>5. \A r \in rows[k] : r[1] \in table[r[3]].links
      <3>1. \A r \in assigned[k] : r[3] # c => r[1] \in table[r[3]].links
        BY <1>3, <2>3
      <3>2. \A r \in moved(k) : r[1] \in table[r[3]].links
        BY <1>3, <2>2
      <3> QED BY <2>1, <3>1, <3>2
    <2>6. Untouched(k, rows[k], pairs[k])
      <3> SUFFICES ASSUME NEW d \in Case, NEW i \in Id(k), <<d, i>> \notin pairs[k], NEW a \in Article
                   PROVE  <<a, i, d>> \in rows[k] <=> <<a, i, d>> \in assigned[k]
        BY DEF Untouched
      <3>1. d # c
        BY <2>1
      <3>2. <<a, i, d>> \notin moved(k)
        BY <2>1
      <3> QED BY <2>1, <3>1, <3>2
    <2>7. ASSUME NEW d \in Case, NEW i \in Id(k), <<d, i>> \in pairs[k] PROVE d \in {c} \cup new
      BY <2>1, <2>2, <2>7
    <2> QED BY <2>4, <2>5, <2>6, <2>7 DEF RowsOk
  <1>6. /\ AllLocks /\ UNCHANGED <<items, identity, mention, index, asked, refused>>
        /\ assigned' = [k \in Kind |-> rows[k]]
        /\ material' = [k \in Kind |-> Rebuilt(k, rows[k], pairs[k])]
        /\ cas' = Recounted(table, {c} \cup new, Rebuilt("event", rows["event"], pairs["event"]))
    BY DEF Split, Kind
  <1>7. "event" \in Kind
    BY DEF Kind
  <1> HIDE DEF moved, rows, pairs, table
  <1>8. TableOk(table, pairs["event"], {c} \cup new)
    <2>1. \A d \in Case : d \notin {c} \cup new => table[d].events = cas[d].events
      BY <1>3
    <2>2. \A d \in Case : table[d].status = "absent" => table[d].links = {}
      BY <1>3
    <2>3. \A d \in Case : \A i \in Id("event") : <<d, i>> \in pairs["event"] => d \in {c} \cup new
      BY <1>5, <1>7
    <2> QED BY <1>4, <2>1, <2>2, <2>3 DEF TableOk
  <1>9. \A k \in Kind : RowsOk(k, rows[k], pairs[k], table)
    BY <1>5
  <1> QED BY <1>6, <1>8, <1>9, RowsStep

(* The commit of an answer.                                                *)
LEMMA WriteStep ==
  ASSUME Inv, UNCHANGED items, NEW k \in Kind, NEW q \in asked[k],
         NEW r, PersistInv(r, k, q), BlankRows(r.rows, k), r.ok, Write(k, q, r)
  PROVE  Inv'
  <1> DEFINE pairs == Affected(k, q.article, r.assigned)
             counts == Rebuilt(k, r.assigned, pairs)
  <1>1. /\ asked' = [asked EXCEPT ![k] = {}] /\ ~refused' /\ UNCHANGED items
        /\ identity' = [identity EXCEPT ![k] = r.rows]
        /\ mention' = [mention EXCEPT ![k] = r.mention]
        /\ assigned' = [assigned EXCEPT ![k] = r.assigned]
        /\ material' = [material EXCEPT ![k] = counts]
        /\ cas' = IF k = "event" THEN Recounted(cas, {p[1] : p \in pairs}, counts) ELSE cas
        /\ index' = [index EXCEPT ![k] = index[k] \cup {p[2] : p \in pairs}]
    BY DEF Write, Commit, Inv
  <1>2. /\ r.rows \in [Id(k) -> IdRow] /\ r.mention \subseteq Article \X Id(k)
        /\ r.assigned \subseteq Article \X Id(k) \X Case
        /\ q.article \in Article /\ q.cases \subseteq Case
    BY DEF PersistInv, Writing, Inv, QueryInv
  <1>3. /\ \A row \in r.assigned \cup assigned[k] :
               row = <<row[1], row[2], row[3]>> /\ row[1] \in Article /\ row[2] \in Id(k) /\ row[3] \in Case
    <2> SUFFICES ASSUME NEW row \in r.assigned \cup assigned[k]
                 PROVE  row = <<row[1], row[2], row[3]>> /\ row[1] \in Article /\ row[2] \in Id(k) /\ row[3] \in Case
      OBVIOUS
    <2>1. row \in Article \X Id(k) \X Case
      BY <1>2 DEF Inv, TypeInv
    <2> QED BY ONLY <2>1
  <1>4. /\ \A row \in r.assigned \cup assigned[k] : row[1] = q.article => <<row[3], row[2]>> \in pairs
        /\ \A p \in pairs : p = <<p[1], p[2]>> /\ p[1] \in Case /\ p[2] \in Id(k)
    BY <1>3 DEF Affected, PairsOf
  <1> HIDE DEF pairs
  <1>5. Untouched(k, r.assigned, pairs)
    <2> SUFFICES ASSUME NEW c \in Case, NEW i \in Id(k), <<c, i>> \notin pairs, NEW a \in Article
                 PROVE  <<a, i, c>> \in r.assigned <=> <<a, i, c>> \in assigned[k]
      BY DEF Untouched
    <2>1. CASE a = q.article
      BY <1>4, <2>1
    <2>2. CASE a # q.article
      BY <2>2 DEF PersistInv
    <2> QED BY <2>1, <2>2
  <1>6. /\ counts \in [Case \X Id(k) -> Nat] /\ CountsMatch(k, r.assigned, counts)
        /\ CountsKept(k, counts, pairs)
    BY <1>5, RebuiltMatches
  <1> HIDE DEF counts
  <1>7. /\ cas' \in [Case -> CaseRow] /\ EventsMatch(cas', material'["event"])
        /\ \A c \in Case : cas'[c].status = cas[c].status /\ cas'[c].links = cas[c].links
    <2>1. cas \in [Case -> CaseRow] /\ EventsMatch(cas, material["event"]) /\ "event" \in Kind
      BY LinksMatchParts DEF Inv, TypeInv, CaseRow, Kind
    <2>2. CASE k # "event"
      <3>1. cas' = cas /\ material'["event"] = material["event"]
        BY <1>1, <2>1, <2>2 DEF Inv, TypeInv
      <3> QED BY <2>1, <3>1
    <2>3. CASE k = "event"
      <3> DEFINE cases == {p[1] : p \in pairs}
      <3>1. cas' = Recounted(cas, cases, counts) /\ material'["event"] = counts
        BY <1>1, <2>1, <2>3 DEF Inv, TypeInv
      <3>2. ASSUME NEW c \in Case, c \notin cases
            PROVE  cas[c].events = Cardinality({i \in Id("event") : counts[<<c, i>>] > 0})
        <4>1. \A i \in Id("event") : <<c, i>> \notin pairs
          BY <3>2
        <4>2. \A i \in Id("event") : counts[<<c, i>>] = material["event"][<<c, i>>]
          BY <1>6, <2>3, <4>1 DEF CountsKept
        <4>3. {i \in Id("event") : counts[<<c, i>>] > 0}
                  = {i \in Id("event") : material["event"][<<c, i>>] > 0}
          BY <4>2
        <4> QED BY <2>1, <4>3 DEF EventsMatch
      <3> HIDE DEF cases
      <3>3. /\ Recounted(cas, cases, counts) \in [Case -> CaseRow]
            /\ EventsMatch(Recounted(cas, cases, counts), counts)
            /\ \A c \in Case : /\ Recounted(cas, cases, counts)[c].status = cas[c].status
                               /\ Recounted(cas, cases, counts)[c].links = cas[c].links
        BY <2>1, <3>2, RecountedMatches
      <3> QED BY <3>1, <3>3
    <2> QED BY <2>2, <2>3
  <1>8. /\ identity' = [l \in Kind |-> identity'[l]] /\ mention' = [l \in Kind |-> mention'[l]]
        /\ assigned' = [l \in Kind |-> assigned'[l]] /\ material' = [l \in Kind |-> material'[l]]
        /\ index' = [l \in Kind |-> index'[l]] /\ asked' = [l \in Kind |-> asked'[l]]
        /\ identity'[k] = r.rows /\ mention'[k] = r.mention /\ assigned'[k] = r.assigned
        /\ material'[k] = counts /\ asked'[k] = {}
        /\ index'[k] = index[k] \cup {p[2] : p \in pairs}
        /\ \A l \in Kind : l # k =>
              /\ identity'[l] = identity[l] /\ mention'[l] = mention[l] /\ assigned'[l] = assigned[l]
              /\ material'[l] = material[l] /\ index'[l] = index[l] /\ asked'[l] = asked[l]
    BY <1>1 DEF Inv, TypeInv
  <1>9. \A l \in Kind : Id(l)' = Id(l) /\ Stated(l)' = Stated(l)
    BY <1>1 DEF Id, Stated
  <1>10. \A l \in Kind : l # k => Present(l)' = Present(l)
    BY <1>8, <1>9 DEF Present
  <1>11. TypeInv'
    <2>1. \A l \in Kind : /\ identity'[l] \in [Id(l) -> IdRow]
                          /\ mention'[l] \subseteq Article \X Id(l)
                          /\ assigned'[l] \subseteq Article \X Id(l) \X Case
                          /\ material'[l] \in [Case \X Id(l) -> Nat]
                          /\ index'[l] \subseteq Id(l)
      <3>1. ASSUME NEW l \in Kind
            PROVE  /\ identity[l] \in [Id(l) -> IdRow]
                   /\ mention[l] \subseteq Article \X Id(l)
                   /\ assigned[l] \subseteq Article \X Id(l) \X Case
                   /\ material[l] \in [Case \X Id(l) -> Nat]
                   /\ index[l] \subseteq Id(l)
        BY DEF Inv, TypeInv
      <3>2. index'[k] \subseteq Id(k)
        BY <1>4, <1>8, <3>1
      <3>3. /\ identity'[k] \in [Id(k) -> IdRow] /\ mention'[k] \subseteq Article \X Id(k)
            /\ assigned'[k] \subseteq Article \X Id(k) \X Case
            /\ material'[k] \in [Case \X Id(k) -> Nat]
        BY <1>2, <1>6, <1>8
      <3> QED BY <1>8, <3>1, <3>2, <3>3
    <2>2. items' \in Cards
      BY <1>1 DEF Inv, TypeInv
    <2> QED BY <1>7, <1>8, <1>9, <2>1, <2>2 DEF TypeInv, CaseRow
  <1>12. ASSUME NEW l \in Kind
         PROVE  /\ \A i \in Id(l) : RowInv(l, identity[l][i])'
                /\ BlankRows(identity[l], l)'
                /\ Present(l)' \subseteq index'[l]
    <2>1. CASE l # k
      BY <1>8, <1>9, <1>10, <2>1 DEF Inv, RowInv, BlankRows
    <2>2. CASE l = k
      <3>1. \A i \in Id(k) : RowInv(k, r.rows[i])
        BY DEF PersistInv
      <3>2. (\A i \in Id(k) : RowInv(k, identity[k][i])') /\ BlankRows(identity[k], k)'
        BY <1>8, <1>9, <3>1 DEF RowInv, BlankRows
      <3>3. ASSUME NEW i \in Id(k), r.rows[i].present PROVE i \in index'[k]
        <4>1. CASE i \in Present(k)
          BY <1>8, <4>1 DEF Inv
        <4>2. CASE i \notin Present(k)
          <5>1. PICK c \in Case : <<q.article, i, c>> \in r.assigned
            BY <3>3, <4>2 DEF PersistInv
          <5>2. <<c, i>> \in pairs
            BY <1>4, <5>1
          <5> QED BY <1>8, <5>2
        <4> QED BY <4>1, <4>2
      <3>4. Present(k)' = {i \in Id(k) : r.rows[i].present}
        BY <1>8, <1>9 DEF Present
      <3> QED BY <2>2, <3>2, <3>3, <3>4
    <2> QED BY <2>1, <2>2
  <1>13. \A l \in Kind : asked'[l] = {} \/ \E x \in asked'[l] : asked'[l] = {x}
    BY <1>8 DEF Inv
  <1>14. ASSUME NEW l \in Kind, NEW x \in asked'[l] PROVE QueryInv(l, x)'
    <2>1. l # k /\ x \in asked[l]
      BY <1>8
    <2>2. QueryInv(l, x)
      BY <2>1 DEF Inv
    <2> QED BY <1>1, <1>7, <1>10, <2>1, <2>2 DEF QueryInv
  <1>15. AssignmentsFollowLinks'
    <2> SUFFICES ASSUME NEW l \in Kind, NEW row \in assigned'[l] PROVE row[1] \in cas'[row[3]].links
      BY DEF AssignmentsFollowLinks
    <2>1. CASE l # k
      BY <1>7, <1>8, <2>1, RowFacts
    <2>2. CASE l = k
      <3>1. row \in r.assigned /\ row = <<row[1], row[2], row[3]>>
            /\ row[1] \in Article /\ row[2] \in Id(k) /\ row[3] \in Case
        BY <1>3, <1>8, <2>2
      <3>2. CASE row[1] = q.article
        <4>1. row[3] \in q.cases
          BY <3>1, <3>2 DEF PersistInv
        <4> QED BY <1>7, <3>1, <3>2, <4>1 DEF Inv, QueryInv
      <3>3. CASE row[1] # q.article
        <4>1. row \in assigned[k]
          BY <3>1, <3>3 DEF PersistInv
        <4> QED BY <1>7, <3>1, <4>1, RowFacts
      <3> QED BY <3>2, <3>3
    <2> QED BY <2>1, <2>2
  <1>16. LinksMatchAssignments'
    <2>1. ASSUME NEW l \in Kind PROVE CountsMatch(l, assigned'[l], material'[l])
      <3>1. CountsMatch(l, assigned[l], material[l])
        BY LinksMatchParts DEF Inv
      <3> QED BY <1>6, <1>8, <3>1
    <2> QED BY <1>7, <1>9, <2>1 DEF LinksMatchAssignments, CountsMatch, EventsMatch, Kind
  <1>17. \A c \in Case : cas'[c].status = "absent" => cas'[c].links = {}
    BY <1>7 DEF Inv
  <1> QED BY <1>1, <1>9, <1>11, <1>12, <1>13, <1>14, <1>15, <1>16, <1>17 DEF Inv

LEMMA NextInv == Inv /\ [Next]_vars => Inv'
  <1> SUFFICES ASSUME Inv, [Next]_vars PROVE Inv'
    OBVIOUS
  <1>1. CASE UNCHANGED vars
    <2>1. \A l \in Kind : UNCHANGED <<Id(l), Present(l)>>
      BY <1>1 DEF vars, Id, Present
    <2>2. UNCHANGED <<items, cas, identity, mention, assigned, material, index, asked, refused>>
      BY <1>1 DEF vars
    <2>3. TypeInv'
      BY <2>1, <2>2 DEF Inv, TypeInv
    <2>4. /\ \A l \in Kind : \A i \in Id(l) : RowInv(l, identity[l][i])'
          /\ \A l \in Kind : BlankRows(identity[l], l)'
          /\ \A l \in Kind : Present(l)' \subseteq index'[l]
      BY <2>1, <2>2 DEF Inv, RowInv, BlankRows, Stated
    <2>5. ASSUME NEW l \in Kind, NEW r \in asked'[l] PROVE QueryInv(l, r)'
      BY <2>1, <2>2 DEF Inv, QueryInv
    <2>6. AssignmentsFollowLinks' /\ LinksMatchAssignments'
      BY <2>2 DEF Inv, AssignmentsFollowLinks, LinksMatchAssignments, Id
    <2> QED BY <2>1, <2>2, <2>3, <2>4, <2>5, <2>6 DEF Inv
  <1>2. CASE Next
    <2>0. UNCHANGED items /\ Step
      BY <1>2 DEF Next
    <2>1. ASSUME NEW k \in Kind, NEW a \in Article, Start(k, a) PROVE Inv'
      BY <2>0, <2>1, StartStep
    <2>2. ASSUME NEW k \in Kind, NEW q \in asked[k], NEW answer \in Answers(k, q),
                 NEW r, r = Persisted(k, q, answer), Write(k, q, r)
          PROVE  Inv'
      <3>1. PersistInv(r, k, q) /\ BlankRows(r.rows, k) /\ r.ok
        BY <2>2, PersistedInv
      <3> QED BY <2>0, <2>2, <3>1, WriteStep
    <2>3. ASSUME NEW k \in Kind, Fail(k) PROVE Inv'
      BY <2>0, <2>3, FailStep
    <2>4. ASSUME NEW a \in Article, NEW existing \in SUBSET Case, NEW new \in SUBSET Case,
                 Link(a, existing, new)
          PROVE  Inv'
      BY <2>0, <2>4, LinkStep
    <2>5. ASSUME NEW c \in Case, Hide(c) PROVE Inv'
      BY <2>0, <2>5, HideStep
    <2>6. ASSUME NEW c \in Case, NEW original \in SUBSET Article, NEW story \in SUBSET Article,
                 NEW new \in SUBSET Case, Split(c, original, story, new)
          PROVE  Inv'
      BY <2>0, <2>6, SplitStep
    <2>7. ASSUME NEW c \in Case, NEW d \in Case, Merge(c, d) PROVE Inv'
      BY <2>0, <2>7, MergeStep
    <2> QED BY <2>0, <2>1, <2>2, <2>3, <2>4, <2>5, <2>6, <2>7 DEF Step
  <1> QED BY <1>1, <1>2

(* Every committed state, whatever the articles, the cards and the answers. *)
THEOREM InvHolds == Spec => []Inv
  BY InitInv, NextInv, PTL DEF Spec

-----------------------------------------------------------------------------
(* The theorems.                                                           *)

(* The date of an event is always one that a card or an answer states: the *)
(* filling of partial dates never mixes two (fill_missing_event_date_parts *)
(* after the conflict check); every identity that is a row has its vector. *)
THEOREM TypeCorrect == Spec => []TypeOK
  <1>1. Inv => TypeOK
    <2> SUFFICES ASSUME Inv PROVE TypeOK
      OBVIOUS
    <2>1. ASSUME NEW k \in Kind
          PROVE  /\ \A i \in Id(k) : /\ identity[k][i].present \in BOOLEAN
                                     /\ identity[k][i].description \in Descriptions[k] \cup {"none"}
                                     /\ identity[k][i].date \in Stated(k)
                 /\ mention[k] \subseteq Article \X Id(k)
                 /\ assigned[k] \subseteq Article \X Id(k) \X Case
                 /\ material[k] \in [Case \X Id(k) -> Nat]
                 /\ Present(k) \subseteq index[k] /\ index[k] \subseteq Id(k)
      <3>1. identity[k] \in [Id(k) -> IdRow]
        BY DEF Inv, TypeInv
      <3>2. \A i \in Id(k) : identity[k][i].present \in BOOLEAN
        BY <3>1 DEF IdRow
      <3> QED BY <3>2 DEF Inv, TypeInv, RowInv
    <2>2. ASSUME NEW k \in Kind PROVE Cardinality(asked[k]) <= 1
      <3>1. asked[k] = {} \/ \E q : asked[k] = {q}
        BY DEF Inv
      <3> QED BY <3>1, FS_EmptySet, FS_Singleton
    <2>3. /\ cas \in [Case -> [status : {"absent", "active", "hidden", "merged"},
                               links : SUBSET Article, events : Nat]]
          /\ items \in Cards
      BY DEF Inv, TypeInv
    <2> QED BY <2>1, <2>2, <2>3 DEF TypeOK
  <1> QED BY <1>1, InvHolds, PTL

(* The materialized case links and the event counts are those of the       *)
(* article-level rows, whichever of a resolution, a repeated resolution, a *)
(* split or a merge came last (rebuild_case_entities, rebuild_case_events).*)
THEOREM LinksMatchAssignmentsHolds == Spec => []LinksMatchAssignments
  <1>1. Inv => LinksMatchAssignments
    BY DEF Inv
  <1> QED BY <1>1, InvHolds, PTL

(* Nobody is assigned to a case through an article that is not linked to   *)
(* it, although a handler reads the cases before it asks the LLM.          *)
THEOREM AssignmentsFollowLinksHolds == Spec => []AssignmentsFollowLinks
  <1>1. Inv => AssignmentsFollowLinks
    BY DEF Inv
  <1> QED BY <1>1, InvHolds, PTL

(* An answer that has been normalized, validated and grounded never fails  *)
(* when it is written: candidates do not disappear while the LLM thinks,   *)
(* and normalize_event_link_anchors foresees every conflict of             *)
(* _resolve_event.                                                         *)
THEOREM AnswersApplyHolds == Spec => []AnswersApply
  <1>1. Inv => AnswersApply
    BY DEF Inv, AnswersApply
  <1> QED BY <1>1, InvHolds, PTL

(* What is known of an event is only ever added to.                        *)
THEOREM AnchorsAreKeptHolds == Spec => AnchorsAreKept
  <1> DEFINE Kept == \A k \in Kind : \A i \in Present(k) :
                LET old == identity[k][i]
                    new == identity'[k][i] IN
                /\ new.present
                /\ Len(old.date) <= Len(new.date)
                /\ SubSeq(new.date, 1, Len(old.date)) = old.date
                /\ old.place # Nowhere => new.place = old.place
  <1>1. Inv /\ [Next]_vars => [Kept]_vars
    <2> SUFFICES ASSUME Inv, Next PROVE Kept
      BY DEF vars
    <2>1. \A k \in Kind : \A i \in Id(k) : identity[k][i] \in IdRow
      BY DEF Inv, TypeInv
    <2>2. ASSUME NEW k \in Kind, NEW i \in Present(k) PROVE Extends(identity[k][i], identity'[k][i])
      <3>1. identity[k][i] \in IdRow /\ identity[k][i].present
        BY <2>1, IdFacts DEF Present
      <3>2. CASE UNCHANGED identity
        <4>1. Begins(identity[k][i].date, identity[k][i].date)
          BY <3>1, DateFacts DEF IdRow, Begins
        <4> QED BY <3>1, <3>2, <4>1 DEF Extends
      <3>3. ASSUME NEW l \in Kind, NEW q \in asked[l], NEW answer \in Answers(l, q),
                   NEW r, r = Persisted(l, q, answer), Write(l, q, r)
            PROVE  Extends(identity[k][i], identity'[k][i])
        <4>1. PersistInv(r, l, q) /\ r.ok
          BY <3>3, PersistedInv
        <4>2. identity' = [identity EXCEPT ![l] = r.rows]
          BY <3>3, <4>1 DEF Write, Commit
        <4>3. CASE k = l
          <5>1. identity'[k] = r.rows
            BY <4>2, <4>3 DEF Inv, TypeInv
          <5> QED BY <4>1, <4>3, <5>1 DEF PersistInv
        <4>4. CASE k # l
          <5>1. identity'[k] = identity[k]
            BY <4>2, <4>4 DEF Inv, TypeInv
          <5>2. Begins(identity[k][i].date, identity[k][i].date)
            BY <3>1, DateFacts DEF IdRow, Begins
          <5> QED BY <3>1, <5>1, <5>2 DEF Extends
        <4> QED BY <4>3, <4>4
      <3>4. \/ UNCHANGED identity
            \/ \E l \in Kind : \E q \in asked[l] : \E answer \in Answers(l, q) :
                  Write(l, q, Persisted(l, q, answer))
        <4>1. \A l \in Kind : /\ \A a \in Article : Start(l, a) => UNCHANGED identity
                              /\ Fail(l) => UNCHANGED identity
          BY DEF Start, Fail
        <4>2. \A a \in Article, existing, new \in SUBSET Case :
                  Link(a, existing, new) => UNCHANGED identity
          BY DEF Link
        <4>3. \A c, d \in Case : Hide(c) \/ Merge(c, d) => UNCHANGED identity
          BY DEF Hide, Merge
        <4>4. \A c \in Case : \A original, story \in SUBSET Article, new \in SUBSET Case :
                  Split(c, original, story, new) => UNCHANGED identity
          BY DEF Split
        <4> QED BY <4>1, <4>2, <4>3, <4>4 DEF Next, Step
      <3> QED BY <3>2, <3>3, <3>4
    <2>3. ASSUME NEW k \in Kind, NEW i \in Present(k)
          PROVE  identity[k][i].date \in Date /\ identity'[k][i].date \in Date
      <3>1. Inv' /\ Id(k)' = Id(k) /\ i \in Id(k)
        BY NextInv, IdFacts DEF Id
      <3>2. identity'[k][i] \in IdRow
        <4>1. TypeInv'
          BY <3>1 DEF Inv
        <4>2. identity'[k] \in [Id(k)' -> IdRow]
          BY <4>1 DEF TypeInv
        <4> QED BY <3>1, <4>2
      <3> QED BY <2>1, <3>1, <3>2 DEF IdRow
    <2>4. ASSUME NEW k \in Kind, NEW i \in Present(k)
          PROVE  /\ Len(identity[k][i].date) <= Len(identity'[k][i].date)
                 /\ SubSeq(identity'[k][i].date, 1, Len(identity[k][i].date)) = identity[k][i].date
      BY <2>2, <2>3, BeginsSubSeq DEF Extends
    <2> QED BY <2>2, <2>4 DEF Extends
  <1>2. AnchorsAreKept <=> [][Kept]_vars
    BY DEF AnchorsAreKept
  <1> HIDE DEF Kept
  <1> QED BY <1>1, <1>2, InvHolds, PTL DEF Spec

(* The pages the backend serves have what they refer to behind them.       *)
THEOREM PagesAreSupportedHolds == Spec => []PagesAreSupported
  <1>1. Inv => PagesAreSupported
    <2> SUFFICES ASSUME Inv PROVE PagesAreSupported
      OBVIOUS
    <2>1. ASSUME NEW k \in Kind, NEW c \in Case, NEW i \in Shown(k, c)
          PROVE  Supporting(k, c, i) # {} /\ Supporting(k, c, i) \subseteq cas[c].links
      <3>1. material[k][<<c, i>>] = Cardinality(Supporting(k, c, i)) /\ material[k][<<c, i>>] > 0
        BY DEF Inv, LinksMatchAssignments, Shown, Supporting
      <3>2. Supporting(k, c, i) # {}
        BY <3>1, FS_EmptySet
      <3>3. \A a \in Supporting(k, c, i) : a \in cas[c].links
        <4> SUFFICES ASSUME NEW a \in Supporting(k, c, i) PROVE a \in cas[c].links
          OBVIOUS
        <4>1. PICK r \in assigned[k] : r = <<a, i, c>>
          BY DEF Supporting
        <4>2. r[1] \in cas[r[3]].links
          BY RowFacts
        <4> QED BY <4>1, <4>2
      <3> QED BY <3>2, <3>3
    <2>2. ASSUME NEW c \in Feed, NEW d \in OtherCases(c) PROVE d \in Feed
      <3>1. d \in Case /\ Active(d)
        BY DEF OtherCases
      <3>2. cas[d].links # {}
        <4>1. CASE cas[c].links \cap cas[d].links # {}
          BY <4>1
        <4>2. CASE \E k \in Kind : Shown(k, c) \cap Shown(k, d) # {}
          <5>1. PICK k \in Kind : \E i : i \in Shown(k, d)
            BY <4>2
          <5> QED BY <2>1, <3>1, <5>1
        <4> QED BY <4>1, <4>2 DEF OtherCases
      <3> QED BY <3>1, <3>2 DEF Feed, Public
    <2>3. Feed \subseteq Case /\ "event" \in Kind /\ "entity" \in Kind
      BY DEF Feed, Kind
    <2>4. ASSUME NEW i \in LatestEvents PROVE \E c \in Feed : Supporting("event", c, i) # {}
      BY <2>1, <2>3 DEF LatestEvents
    <2>5. ASSUME NEW i \in SitemapEntities
          PROVE  EntityServed(i) \/ identity["entity"][i].description = "blank"
      <3>1. PICK c \in Feed : i \in Shown("entity", c)
        BY DEF SitemapEntities
      <3>2. PICK a \in Article : <<a, i, c>> \in assigned["entity"]
        BY <2>1, <2>3, <3>1 DEF Supporting
      <3>3. i \in Id("entity") /\ identity["entity"][i].description # "none"
        BY DEF SitemapEntities
      <3>4. identity["entity"][i].description \in Text
        BY <2>3, <3>3, DescriptionAssumption DEF Inv, RowInv, Text
      <3> QED BY <3>1, <3>2, <3>3, <3>4 DEF EntityServed, Text
    <2>6. ASSUME NEW c \in Feed
          PROVE  /\ \A k \in Kind : \A i \in Shown(k, c) :
                       Supporting(k, c, i) # {} /\ Supporting(k, c, i) \subseteq cas[c].links
                 /\ OtherCases(c) \subseteq Feed
      BY <2>1, <2>2, <2>3
    <2> QED BY <2>4, <2>5, <2>6 DEF PagesAreSupported
  <1> QED BY <1>1, InvHolds, PTL
=============================================================================
