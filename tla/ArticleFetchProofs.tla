------------------------- MODULE ArticleFetchProofs -------------------------
(***************************************************************************)
(* What holds of ArticleFetch for any sources, sites, pages, windows,      *)
(* limits, delays and page sizes of the repair, and any number of faults:  *)
(* content and dates are kept, a settled row is not fetched back, and the  *)
(* repair reaches every row it set out for.                                *)
(*                                                                         *)
(* For these the proofs let a pass admit any URLs at all.  What discovery  *)
(* yields (DiscoveryProofs) enters the types, and DiscoveryIsComplete.     *)
(***************************************************************************)
EXTENDS ArticleFetch, DiscoveryProofs

-----------------------------------------------------------------------------
(* The inductive invariant.                                                *)

\* A row has its eight columns, is never more overdue than is distinguished, and
\* has content, a date and an age only when it exists.
RowInv(row) ==
    /\ row = [status |-> row.status, source |-> row.source, url |-> row.url,
              attempt |-> row.attempt, wait |-> row.wait, html |-> row.html,
              at |-> row.at, born |-> row.born]
    /\ row.wait \in Int /\ row.wait >= Null
    /\ row.status = "absent" => row.html = "" /\ row.at = NoDate
    /\ row.status # "absent" => row.born \in Nat \ {0}

RowsInv ==
    /\ article = [i \in Id |-> article[i]]
    /\ \A i \in Id : RowInv(article[i])

PassRecord(r) ==
    r = [pc |-> r.pc, source |-> r.source, last |-> r.last, window |-> r.window,
         limit |-> r.limit, site |-> r.site, found |-> r.found, retried |-> r.retried,
         todo |-> r.todo]

PassesInv ==
    /\ pass = [p \in Pass |-> pass[p]]
    /\ \A p \in Pass : PassRecord(pass[p])

Settled(row) == row.status = "succeeded" \/ Exhausted(row)

\* What is admitted under identity i, by one pass only, is not settled yet.
Unsettled(i) == \A x \in Pending(pass) : Normalize(x[2]) = i => ~Settled(article[i])

AdmittedInv ==
    /\ Doubles(pass) \subseteq doubled
    /\ \A i \in Id \ doubled : Unsettled(i)

\* The repair has nothing to do for i (any more).
Dated(i) == article[i].at # NoDate \/ Html[article[i].html].at = NoDate

\* Row i is on the page in hand, with the content it still has.
OnPage(i) == \E k \in DOMAIN repair.rows : repair.rows[k].id = i
                                         /\ repair.rows[k].html = article[i].html

\* Where the repair is with row i.
Reached(i) ==
    \/ Dated(i)
    \/ repair.pc \in {"page", "rows"} /\ article[i].born > repair.after
    \/ repair.pc = "rows" /\ OnPage(i)

RepairInv ==
    /\ repair = [pc |-> repair.pc, after |-> repair.after, rows |-> repair.rows,
                 missing |-> repair.missing]
    /\ repair.pc \in {"idle", "page", "rows", "done"}
    /\ repair.pc = "rows" => /\ \E S : repair.rows \in Seq(S)
                             /\ repair.rows # <<>>
                             /\ \A k \in DOMAIN repair.rows : repair.rows[k].id \in Stored
    /\ \A i \in repair.missing : /\ i \in Id
                                 /\ article[i].status # "absent"
                                 /\ article[i].html # ""
                                 /\ Reached(i)

Inv == RowsInv /\ PassesInv /\ AdmittedInv /\ RepairInv

-----------------------------------------------------------------------------
(* Storing the result of a fetch.                                          *)

\* What a fetch of u brings for the row of j.
Brought(j, u, new) ==
    /\ j \in Touches(u)
    /\ new.status \in {"succeeded", "failed"}
    /\ new.wait \in {Null, FirstDelay}
    /\ new.html \in {"", u.page}
    /\ new.html = "" => new.at = NoDate
    /\ new.html # "" => new.at = Html[new.html].at
    /\ new.status = "failed" => j = Normalize(u)

\* A row before and after it is stored.
Stores(row, next, new) ==
    /\ RowInv(next)
    /\ next.status = new.status
    /\ next.html = IF new.html # "" THEN new.html ELSE row.html
    /\ next.at = IF new.at # NoDate THEN new.at ELSE row.at
    /\ row.status # "absent" => next.born = row.born

LEMMA DelayTypes ==
    /\ Null \in Int /\ Null <= Null
    /\ FirstDelay \in Int /\ FirstDelay >= Null
    /\ SecondDelay \in Int /\ SecondDelay >= Null
    /\ DailyDelay \in Int /\ DailyDelay >= Null
BY FetchAssumption DEF FetchAssumption, Null

LEMMA AgeIsPositive == Cardinality(Stored) + 1 \in Nat \ {0}
<1>1. IsFiniteSet(Stored)
  BY UrlAssumption, FS_Subset DEF UrlAssumption, Stored
<1> QED
  BY <1>1, FS_CardinalityType

\* Row by row: what is stored over an existing row.
LEMMA MergedRow ==
    ASSUME NEW row, NEW new, RowInv(row), row.status # "absent", new.status # "absent"
    PROVE  /\ Stores(row, Merged(row, new), new)
           /\ Merged(row, new).source = row.source /\ Merged(row, new).url = row.url
           /\ Merged(row, new).attempt = Min({row.attempt + 1, MaxAttempts})
           /\ Merged(row, new).wait \in {Null, SecondDelay, DailyDelay}
<1> DEFINE html == IF new.html # "" THEN new.html ELSE row.html
           at == IF new.at # NoDate THEN new.at ELSE row.at
           attempt == Min({row.attempt + 1, MaxAttempts})
           wait == IF new.status = "succeeded" THEN Null
                   ELSE IF row.attempt <= 1 THEN SecondDelay ELSE DailyDelay
           m == [status |-> new.status, source |-> row.source, url |-> row.url,
                 attempt |-> attempt, wait |-> wait, html |-> html, at |-> at,
                 born |-> row.born]
<1>1. Merged(row, new) = [row EXCEPT !.html = html, !.at = at, !.status = new.status,
                                     !.attempt = attempt, !.wait = wait]
  BY Zenon DEF Merged
<1>2. wait \in Int /\ wait >= Null /\ wait \in {Null, SecondDelay, DailyDelay}
  BY DelayTypes
<1>3. html = IF new.html # "" THEN new.html ELSE row.html
  OBVIOUS
<1>4. at = IF new.at # NoDate THEN new.at ELSE row.at
  OBVIOUS
<1> HIDE DEF html, at, attempt, wait
<1>5. Merged(row, new) = m
  BY <1>1 DEF RowInv
<1>6. RowInv(m)
  BY <1>2 DEF RowInv
<1>7. /\ m.status = new.status /\ m.html = html /\ m.at = at /\ m.born = row.born
      /\ m.source = row.source /\ m.url = row.url /\ m.attempt = attempt /\ m.wait = wait
  OBVIOUS
<1> HIDE DEF m
<1>8. Stores(row, m, new)
  BY <1>3, <1>4, <1>6, <1>7 DEF Stores
<1> QED
  BY <1>2, <1>5, <1>7, <1>8 DEF attempt

LEMMA UpsertStores ==
    ASSUME RowsInv, NEW j, NEW s, NEW u, NEW new, Brought(j, u, new), Upsert(j, s, u, new)
    PROVE  /\ article' = [i \in Id |-> article'[i]]
           /\ \A i \in Id : i # j => article'[i] = article[i]
           /\ j \in Id => Stores(article[j], article'[j], new)
<1> DEFINE fresh == [status |-> new.status, source |-> s, url |-> u, attempt |-> 1,
                     wait |-> new.wait, html |-> new.html, at |-> new.at,
                     born |-> Cardinality(Stored) + 1]
           next(row) == IF row.status = "absent" THEN fresh ELSE Merged(row, new)
<1>1. article' = [i \in Id |-> IF i = j THEN next(article[j]) ELSE article[i]]
  BY DEF Upsert, RowsInv
<1>2. ASSUME j \in Id PROVE Stores(article[j], next(article[j]), new)
  <2>1. RowInv(article[j])
    BY <1>2 DEF RowsInv
  <2>2. CASE article[j].status = "absent"
    BY <2>1, <2>2, AgeIsPositive, DelayTypes DEF Stores, RowInv, Brought
  <2>3. CASE article[j].status # "absent"
    BY <2>1, <2>3, MergedRow DEF Brought
  <2> QED
    BY <2>2, <2>3
<1> HIDE DEF next
<1> QED
  BY <1>1, <1>2

LEMMA IngestStores ==
    ASSUME RowsInv, NEW p, NEW u, Ingest(p, u)
    PROVE  \/ article' = article
           \/ \E j, new : Brought(j, u, new) /\ Upsert(j, pass[p].source, u, new)
<1>1. CASE FetchFails(p, u)
  <2> DEFINE new == [status |-> "failed", html |-> "", at |-> NoDate, wait |-> FirstDelay]
  <2>1. Upsert(Normalize(u), pass[p].source, u, new)
    BY <1>1 DEF FetchFails
  <2>2. Brought(Normalize(u), u, new)
    BY DEF Brought, Touches
  <2> QED
    BY <2>1, <2>2
<1>2. CASE FetchSucceeds(p, u)
  <2> DEFINE Date(html) == IF html = "" THEN NoDate ELSE Html[html].at
             new(html) == [status |-> "succeeded", html |-> html, at |-> Date(html), wait |-> Null]
  <2>1. PICK html \in {"", u.page} :
            IF InWindow(Date(html), pass[p].window)
            THEN Upsert(IF html = "" THEN Normalize(u) ELSE Target(u), pass[p].source, u, new(html))
            ELSE UNCHANGED article
    BY <1>2 DEF FetchSucceeds
  <2>2. Brought(IF html = "" THEN Normalize(u) ELSE Target(u), u, new(html))
    BY DEF Brought, Touches
  <2> QED
    BY <2>1, <2>2
<1>3. CASE FetchRaises(p, u)
  BY <1>3 DEF FetchRaises
<1> QED
  BY <1>1, <1>2, <1>3 DEF Ingest

-----------------------------------------------------------------------------
(* The other ways a row changes.                                           *)

\* Neither status, origin, content nor age of a row changes.
Touched(row, next) ==
    /\ RowInv(next)
    /\ next.status = row.status /\ next.html = row.html /\ next.born = row.born
    /\ next.source = row.source /\ next.url = row.url

Edited(row, attempt, wait, at) ==
    [status |-> row.status, source |-> row.source, url |-> row.url, attempt |-> attempt,
     wait |-> wait, html |-> row.html, at |-> at, born |-> row.born]

\* The three ways a row is edited in place, column by column.
LEMMA EditedRow ==
    ASSUME NEW row, NEW attempt, NEW wait, NEW at, RowInv(row)
    PROVE  /\ [row EXCEPT !.at = at] = Edited(row, row.attempt, row.wait, at)
           /\ [row EXCEPT !.wait = wait] = Edited(row, row.attempt, wait, row.at)
           /\ [row EXCEPT !.attempt = attempt, !.wait = wait] = Edited(row, attempt, wait, row.at)
<1>1. PICK st, so, ur, an, wa, ht, da, bo :
          row = [status |-> st, source |-> so, url |-> ur, attempt |-> an, wait |-> wa,
                 html |-> ht, at |-> da, born |-> bo]
  BY DEF RowInv
<1>2. /\ row.status = st /\ row.source = so /\ row.url = ur /\ row.attempt = an
      /\ row.wait = wa /\ row.html = ht /\ row.at = da /\ row.born = bo
  BY ONLY <1>1
<1>3. [row EXCEPT !.at = at] = Edited(row, row.attempt, row.wait, at)
  BY ONLY <1>1, <1>2 DEF Edited
<1>4. [row EXCEPT !.wait = wait] = Edited(row, row.attempt, wait, row.at)
  BY ONLY <1>1, <1>2 DEF Edited
<1>5. [row EXCEPT !.attempt = attempt, !.wait = wait] = Edited(row, attempt, wait, row.at)
  <2> DEFINE m == [row EXCEPT !.attempt = attempt]
  <2>1. [row EXCEPT !.attempt = attempt, !.wait = wait] = [m EXCEPT !.wait = wait]
    BY ONLY Zenon
  <2>2. m = [status |-> st, source |-> so, url |-> ur, attempt |-> attempt, wait |-> wa,
             html |-> ht, at |-> da, born |-> bo]
    BY ONLY <1>1
  <2> HIDE DEF m
  <2>3. [m EXCEPT !.wait = wait] = Edited(row, attempt, wait, row.at)
    BY ONLY <1>2, <2>2 DEF Edited
  <2> QED
    BY ONLY <2>1, <2>3
<1> QED
  BY <1>3, <1>4, <1>5

LEMMA EditTouches ==
    ASSUME NEW row, NEW attempt, NEW wait, NEW at, RowInv(row),
           wait \in Int, wait >= Null, row.status = "absent" => at = NoDate
    PROVE  /\ Touched(row, Edited(row, attempt, wait, at))
           /\ Edited(row, attempt, wait, at).attempt = attempt
           /\ Edited(row, attempt, wait, at).wait = wait
           /\ Edited(row, attempt, wait, at).at = at
<1> DEFINE m == Edited(row, attempt, wait, at)
<1>1. /\ m = [status |-> m.status, source |-> m.source, url |-> m.url, attempt |-> m.attempt,
              wait |-> m.wait, html |-> m.html, at |-> m.at, born |-> m.born]
      /\ m.status = row.status /\ m.html = row.html /\ m.born = row.born
      /\ m.source = row.source /\ m.url = row.url
      /\ m.at = at /\ m.attempt = attempt /\ m.wait = wait
  BY DEF Edited
<1> HIDE DEF m
<1>2. RowInv(m)
  BY <1>1 DEF RowInv
<1>3. Touched(row, m)
  BY <1>1, <1>2 DEF Touched
<1> QED
  BY <1>1, <1>3 DEF m

LEMMA RepairRowTouches ==
    ASSUME RowsInv, RepairInv, RepairRow
    PROVE  /\ article' = [i \in Id |-> article'[i]]
           /\ \A i \in Id :
                  /\ Touched(article[i], article'[i])
                  /\ article'[i].wait = article[i].wait
                  /\ article'[i].attempt = article[i].attempt
                  /\ article[i].at # NoDate => article'[i].at = article[i].at
           /\ LET row == repair.rows[1]
              IN  /\ article[row.id].at = NoDate => article'[row.id].at = Html[row.html].at
                  /\ \A i \in Id : i # row.id => article'[i] = article[i]
<1> DEFINE row == repair.rows[1]
           at == IF article[row.id].at = NoDate THEN Html[row.html].at ELSE article[row.id].at
           m == [article[row.id] EXCEPT !.at = at]
<1>1. PICK S : repair.rows \in Seq(S) /\ repair.rows # <<>>
  BY DEF RepairRow, RepairInv
<1>2. row = Head(repair.rows) /\ 1 \in DOMAIN repair.rows
  BY <1>1
<1>3. row.id \in Id /\ article[row.id].status # "absent"
  BY <1>2 DEF RepairRow, RepairInv, Stored
<1>4. article' = [article EXCEPT ![row.id].at = at]
  BY <1>2, Zenon DEF RepairRow
<1>5. /\ article[row.id].at = NoDate => at = Html[row.html].at
      /\ article[row.id].at # NoDate => at = article[row.id].at
  OBVIOUS
<1>6. RowInv(article[row.id])
  BY <1>3 DEF RowsInv
<1> HIDE DEF at
<1>7. article' = [i \in Id |-> IF i = row.id THEN m ELSE article[i]]
  BY <1>3, <1>4 DEF RowsInv
<1>8. m = Edited(article[row.id], article[row.id].attempt, article[row.id].wait, at)
  BY <1>6, EditedRow
<1> HIDE DEF m
<1>9. /\ Touched(article[row.id], m)
      /\ m.attempt = article[row.id].attempt /\ m.wait = article[row.id].wait /\ m.at = at
  <2>1. article[row.id].wait \in Int /\ article[row.id].wait >= Null
    BY <1>6 DEF RowInv
  <2> HIDE DEF row
  <2> QED
    BY <1>3, <1>6, <1>8, <2>1, EditTouches
<1>10. \A i \in Id : Touched(article[i], article[i])
  BY DEF RowsInv, Touched
<1>11. article'[row.id] = m /\ \A i \in Id : i # row.id => article'[i] = article[i]
  BY <1>3, <1>7
<1>12. article' = [i \in Id |-> article'[i]]
  BY <1>7
<1> HIDE DEF row
<1>13. \A i \in Id :
         /\ Touched(article[i], article'[i])
         /\ article'[i].wait = article[i].wait
         /\ article'[i].attempt = article[i].attempt
         /\ article[i].at # NoDate => article'[i].at = article[i].at
  <2> SUFFICES ASSUME NEW i \in Id
               PROVE  /\ Touched(article[i], article'[i])
                      /\ article'[i].wait = article[i].wait
                      /\ article'[i].attempt = article[i].attempt
                      /\ article[i].at # NoDate => article'[i].at = article[i].at
    OBVIOUS
  <2>1. CASE i = row.id
    BY <1>5, <1>9, <1>11, <2>1
  <2>2. CASE i # row.id
    BY <1>10, <1>11, <2>2
  <2> QED
    BY <2>1, <2>2
<1>14. article[row.id].at = NoDate => article'[row.id].at = Html[row.html].at
  BY <1>5, <1>9, <1>11
<1> QED
  BY <1>11, <1>12, <1>13, <1>14 DEF row

LEMMA ResetTouches ==
    ASSUME RowsInv, NEW i \in Id, ResetFailed(i)
    PROVE  /\ article' = [j \in Id |-> article'[j]]
           /\ \A j \in Id : j # i => article'[j] = article[j]
           /\ Touched(article[i], article'[i])
           /\ article'[i].at = article[i].at
           /\ article'[i].attempt = 0 /\ article'[i].wait = Null
           /\ article[i].status = "failed"
<1> DEFINE m == [article[i] EXCEPT !.attempt = 0, !.wait = Null]
<1>1. RowInv(article[i]) /\ article[i].status = "failed"
  BY DEF RowsInv, ResetFailed
<1>2. article' = [j \in Id |-> IF j = i THEN m ELSE article[j]]
  BY DEF ResetFailed, RowsInv
<1>3. m = Edited(article[i], 0, Null, article[i].at)
  BY <1>1, EditedRow
<1> HIDE DEF m
<1>4. Touched(article[i], m) /\ m.attempt = 0 /\ m.wait = Null /\ m.at = article[i].at
  BY <1>1, <1>3, DelayTypes, EditTouches
<1> QED
  BY <1>1, <1>2, <1>3, <1>4

LEMMA TickTouches ==
    ASSUME RowsInv, Tick
    PROVE  /\ article' = [i \in Id |-> article'[i]]
           /\ \A i \in Id : /\ Touched(article[i], article'[i])
                            /\ article'[i].at = article[i].at
                            /\ article'[i].attempt = article[i].attempt
                            /\ article'[i].wait <= article[i].wait
<1>1. article' = [i \in Id |-> [article[i] EXCEPT !.wait = Max({@ - 1, Null})]]
  BY DEF Tick
<1>2. ASSUME NEW i \in Id
      PROVE  /\ Touched(article[i], article'[i])
             /\ article'[i].at = article[i].at
             /\ article'[i].attempt = article[i].attempt
             /\ article'[i].wait <= article[i].wait
  <2> DEFINE row == article[i]
             wait == Max({row.wait - 1, Null})
             m == [row EXCEPT !.wait = wait]
  <2>1. RowInv(row)
    BY DEF RowsInv
  <2>2. wait \in Int /\ wait >= Null /\ wait <= row.wait
    <3>1. row.wait \in Int /\ Null \in Int /\ row.wait >= Null
      BY <2>1, DelayTypes DEF RowInv
    <3>2. wait = IF row.wait - 1 >= Null THEN row.wait - 1 ELSE Null
      BY <3>1 DEF Max
    <3> QED
      BY <3>1, <3>2
  <2>3. article'[i] = m
    BY <1>1
  <2> HIDE DEF wait
  <2>4. m = Edited(row, row.attempt, wait, row.at)
    BY <2>1, EditedRow
  <2> HIDE DEF m
  <2>5. Touched(row, m) /\ m.attempt = row.attempt /\ m.wait = wait /\ m.at = row.at
    <3>1. row.status = "absent" => row.at = NoDate
      BY <2>1 DEF RowInv
    <3> HIDE DEF row
    <3> QED
      BY <2>1, <2>2, <2>4, <3>1, EditTouches
  <2> QED
    BY <2>2, <2>3, <2>4, <2>5
<1> QED
  BY <1>1, <1>2

-----------------------------------------------------------------------------
(* Passes.                                                                 *)

\* The four ways a pass is edited: its reads, the next source, what is admitted, and
\* what is left of it.
Reread(r, site, found, retried) ==
    [r EXCEPT !.pc = "admit", !.site = site, !.found = found,
              !.retried = retried]
Turned(r, n) ==
    [r EXCEPT !.pc = "discover", !.source = n, !.site = NoSite, !.found = <<>>,
              !.retried = <<>>]
Admitted(r, todo) ==
    [r EXCEPT !.pc = "ingest", !.todo = todo, !.site = NoSite, !.found = <<>>,
              !.retried = <<>>]
Left(r, todo) == [r EXCEPT !.todo = todo]

\* m is still the same source's turn of the same pass.
SameTurn(m, r) ==
    m.source = r.source /\ m.last = r.last /\ m.window = r.window /\ m.limit = r.limit

LEMMA RereadPass ==
    ASSUME NEW r, PassRecord(r), NEW site, NEW found, NEW retried
    PROVE  /\ PassRecord(Reread(r, site, found, retried)) /\ Reread(r, site, found, retried).todo = r.todo
           /\ SameTurn(Reread(r, site, found, retried), r)
           /\ Reread(r, site, found, retried).pc = "admit"
           /\ Reread(r, site, found, retried).site = site
           /\ Reread(r, site, found, retried).found = found
           /\ Reread(r, site, found, retried).retried = retried
<1>1. PICK a, b, c, d, e, f, g, h, t :
          r = [pc |-> a, source |-> b, last |-> c, window |-> d, limit |-> e, site |-> f,
               found |-> g, retried |-> h, todo |-> t]
  BY DEF PassRecord
<1>2. PICK m : m = Reread(r, site, found, retried)
  OBVIOUS
<1>3. m = [pc |-> "admit", source |-> b, last |-> c, window |-> d, limit |-> e, site |-> site,
           found |-> found, retried |-> retried, todo |-> t]
  BY <1>1, <1>2 DEF Reread
<1>4. r.todo = t
  BY ONLY <1>1
<1>5. PassRecord(m) /\ m.todo = r.todo
  BY ONLY <1>3, <1>4 DEF PassRecord
<1>6. SameTurn(m, r) /\ m.pc = "admit" /\ m.site = site /\ m.found = found /\ m.retried = retried
  BY ONLY <1>1, <1>3 DEF SameTurn
<1> QED
  BY <1>2, <1>5, <1>6

LEMMA TurnedPass ==
    ASSUME NEW r, PassRecord(r), NEW n
    PROVE  /\ PassRecord(Turned(r, n)) /\ Turned(r, n).todo = r.todo
           /\ Turned(r, n).pc = "discover" /\ Turned(r, n).source = n
           /\ Turned(r, n).last = r.last /\ Turned(r, n).window = r.window
           /\ Turned(r, n).limit = r.limit
           /\ Turned(r, n).found = <<>> /\ Turned(r, n).retried = <<>>
<1>1. PICK a, b, c, d, e, f, g, h, t :
          r = [pc |-> a, source |-> b, last |-> c, window |-> d, limit |-> e, site |-> f,
               found |-> g, retried |-> h, todo |-> t]
  BY DEF PassRecord
<1>2. PICK m : m = Turned(r, n)
  OBVIOUS
<1>3. m = [pc |-> "discover", source |-> n, last |-> c, window |-> d, limit |-> e,
           site |-> NoSite, found |-> <<>>, retried |-> <<>>, todo |-> t]
  BY <1>1, <1>2 DEF Turned
<1>4. r.todo = t
  BY ONLY <1>1
<1>5. PassRecord(m) /\ m.todo = r.todo
  BY ONLY <1>3, <1>4 DEF PassRecord
<1>6. /\ m.pc = "discover" /\ m.source = n /\ m.last = r.last /\ m.window = r.window
      /\ m.limit = r.limit /\ m.found = <<>> /\ m.retried = <<>>
  BY ONLY <1>1, <1>3 DEF SameTurn
<1> QED
  BY <1>2, <1>5, <1>6

LEMMA AdmittedPass ==
    ASSUME NEW r, PassRecord(r), NEW todo
    PROVE  /\ PassRecord(Admitted(r, todo)) /\ Admitted(r, todo).todo = todo
           /\ SameTurn(Admitted(r, todo), r)
           /\ Admitted(r, todo).pc = "ingest"
           /\ Admitted(r, todo).found = <<>> /\ Admitted(r, todo).retried = <<>>
<1>1. PICK a, b, c, d, e, f, g, h, t :
          r = [pc |-> a, source |-> b, last |-> c, window |-> d, limit |-> e, site |-> f,
               found |-> g, retried |-> h, todo |-> t]
  BY DEF PassRecord
<1>2. PICK m : m = Admitted(r, todo)
  OBVIOUS
<1>3. m = [pc |-> "ingest", source |-> b, last |-> c, window |-> d, limit |-> e,
           site |-> NoSite, found |-> <<>>, retried |-> <<>>, todo |-> todo]
  BY <1>1, <1>2 DEF Admitted
<1>4. r.todo = t
  BY ONLY <1>1
<1>5. PassRecord(m) /\ m.todo = todo
  BY ONLY <1>3, <1>4 DEF PassRecord
<1>6. SameTurn(m, r) /\ m.pc = "ingest" /\ m.found = <<>> /\ m.retried = <<>>
  BY ONLY <1>1, <1>3 DEF SameTurn
<1> QED
  BY <1>2, <1>5, <1>6

LEMMA LeftPass ==
    ASSUME NEW r, PassRecord(r), NEW todo
    PROVE  /\ PassRecord(Left(r, todo)) /\ Left(r, todo).todo = todo
           /\ SameTurn(Left(r, todo), r)
           /\ Left(r, todo).pc = r.pc /\ Left(r, todo).site = r.site
           /\ Left(r, todo).found = r.found /\ Left(r, todo).retried = r.retried
<1>1. PICK a, b, c, d, e, f, g, h, t :
          r = [pc |-> a, source |-> b, last |-> c, window |-> d, limit |-> e, site |-> f,
               found |-> g, retried |-> h, todo |-> t]
  BY DEF PassRecord
<1>2. PICK m : m = Left(r, todo)
  OBVIOUS
<1>3. m = [pc |-> a, source |-> b, last |-> c, window |-> d, limit |-> e, site |-> f,
           found |-> g, retried |-> h, todo |-> todo]
  BY <1>1, <1>2 DEF Left
<1>4. r.todo = t
  BY ONLY <1>1
<1>5. PassRecord(m) /\ m.todo = todo
  BY ONLY <1>3, <1>4 DEF PassRecord
<1>6. SameTurn(m, r) /\ m.pc = r.pc /\ m.site = r.site /\ m.found = r.found /\ m.retried = r.retried
  BY ONLY <1>1, <1>3 DEF SameTurn
<1> QED
  BY <1>2, <1>5, <1>6

LEMMA PassChanges ==
    ASSUME PassesInv, NEW p \in Pass, NEW m, PassRecord(m), pass' = [pass EXCEPT ![p] = m]
    PROVE  PassesInv' /\ pass'[p] = m /\ \A q \in Pass \ {p} : pass'[q] = pass[q]
<1>1. pass' = [q \in Pass |-> IF q = p THEN m ELSE pass[q]]
  BY DEF PassesInv
<1>2. pass'[p] = m /\ \A q \in Pass \ {p} : pass'[q] = pass[q]
  BY <1>1
<1>3. pass' = [q \in Pass |-> pass'[q]]
  BY <1>1
<1>4. \A q \in Pass : PassRecord(pass'[q])
  BY <1>2 DEF PassesInv
<1> QED
  BY <1>2, <1>3, <1>4 DEF PassesInv

\* Nothing is added to what is admitted.
Shrinks == \A p \in Pass : pass'[p].todo \subseteq pass[p].todo

LEMMA PassShrinks ==
    ASSUME PassesInv, NEW p \in Pass, NEW m, PassRecord(m), m.todo \subseteq pass[p].todo,
           pass' = [pass EXCEPT ![p] = m]
    PROVE  PassesInv' /\ Shrinks
<1>1. PassesInv' /\ pass'[p] = m /\ \A q \in Pass \ {p} : pass'[q] = pass[q]
  BY PassChanges
<1> QED
  BY <1>1 DEF Shrinks

LEMMA IdleIsEmpty == PassRecord(Idle) /\ Idle.todo = {}
BY DEF PassRecord, Idle

LEMMA NextSourceShrinks ==
    ASSUME PassesInv, NEW p \in Pass, Moves(p, NextSource(p))
    PROVE  PassesInv' /\ Shrinks
<1>1. CASE pass[p].source = pass[p].last
  BY <1>1, IdleIsEmpty, PassShrinks DEF Moves, NextSource
<1>2. CASE pass[p].source # pass[p].last
  <2>1. pass' = [pass EXCEPT ![p] = Turned(pass[p], pass[p].source + 1)]
    BY <1>2 DEF Moves, NextSource, Turned
  <2>2. PassRecord(pass[p])
    BY DEF PassesInv
  <2> QED
    BY <2>1, <2>2, TurnedPass, PassShrinks
<1> QED
  BY <1>1, <1>2

LEMMA DoneShrinks ==
    ASSUME PassesInv, NEW p \in Pass, NEW u, Done(p, u)
    PROVE  /\ PassesInv' /\ Shrinks /\ doubled' = Remembered(pass')
           /\ pass'[p].todo = pass[p].todo \ {u}
           /\ \A q \in Pass \ {p} : pass'[q] = pass[q]
<1> DEFINE m == Left(pass[p], pass[p].todo \ {u})
<1>1. pass' = [pass EXCEPT ![p] = m] /\ doubled' = Remembered(pass')
  <2>1. pass' = [pass EXCEPT ![p].todo = pass[p].todo \ {u}]
    BY DEF Done
  <2>2. pass' = [pass EXCEPT ![p] = m]
    BY <2>1, Zenon DEF Left
  <2> QED
    BY <2>2 DEF Done
<1>2. PassRecord(pass[p])
  BY DEF PassesInv
<1>3. PassRecord(m) /\ m.todo = pass[p].todo \ {u}
  BY <1>2, LeftPass
<1> HIDE DEF m
<1>4. PassesInv' /\ Shrinks
  BY <1>1, <1>3, PassShrinks
<1>5. pass'[p] = m /\ \A q \in Pass \ {p} : pass'[q] = pass[q]
  BY <1>1, <1>3, PassChanges
<1> QED
  BY <1>1, <1>3, <1>4, <1>5

LEMMA DieShrinks ==
    ASSUME PassesInv, NEW p \in Pass, Die(p)
    PROVE  PassesInv' /\ Shrinks /\ doubled' = Remembered(pass')
<1>1. pass' = [pass EXCEPT ![p] = Idle] /\ doubled' = Remembered(pass')
  BY DEF Die
<1> QED
  BY <1>1, IdleIsEmpty, PassShrinks

LEMMA DiscoverShrinks ==
    ASSUME PassesInv, NEW p \in Pass, DiscoverSource(p)
    PROVE  PassesInv' /\ Shrinks
<1>1. PICK site, found, retried : pass' = [pass EXCEPT ![p] = Reread(pass[p], site, found, retried)]
  BY DEF DiscoverSource, Moves, Reread
<1>2. PassRecord(pass[p])
  BY DEF PassesInv
<1> DEFINE m == Reread(pass[p], site, found, retried)
<1>3. PassRecord(m) /\ m.todo = pass[p].todo
  BY <1>2, RereadPass
<1> HIDE DEF m
<1> QED
  BY <1>1, <1>3, PassShrinks DEF m

LEMMA StartShrinks ==
    ASSUME PassesInv, NEW p \in Pass, NEW n, NEW l, NEW w, NEW limit,
           Moves(p, [Idle EXCEPT !.pc = "discover", !.source = n, !.last = l,
                                 !.window = w, !.limit = limit])
    PROVE  PassesInv' /\ Shrinks
<1> DEFINE m == [Idle EXCEPT !.pc = "discover", !.source = n, !.last = l,
                             !.window = w, !.limit = limit]
<1>1. PICK r : r = m
  OBVIOUS
<1>2. r = [pc |-> "discover", source |-> n, last |-> l, window |-> w, limit |-> limit,
           site |-> NoSite, found |-> <<>>, retried |-> <<>>, todo |-> {}]
  BY <1>1 DEF Idle
<1>3. PassRecord(r) /\ r.todo = {}
  BY ONLY <1>2 DEF PassRecord
<1>4. pass' = [pass EXCEPT ![p] = m]
  BY DEF Moves
<1> HIDE DEF m
<1> QED
  BY <1>1, <1>3, <1>4, PassShrinks

LEMMA StartTimerShrinks ==
    ASSUME PassesInv, StartTimer
    PROVE  PassesInv' /\ Shrinks
<1> DEFINE m == [Idle EXCEPT !.pc = "discover", !.source = 1, !.last = Len(Source)]
<1>1. PICK r : r = m
  OBVIOUS
<1>2. r = [pc |-> "discover", source |-> 1, last |-> Len(Source), window |-> Unbounded,
           limit |-> 0, site |-> NoSite, found |-> <<>>, retried |-> <<>>, todo |-> {}]
  BY <1>1 DEF Idle
<1>3. PassRecord(r) /\ r.todo = {}
  BY ONLY <1>2 DEF PassRecord
<1>4. pass' = [pass EXCEPT !["timer"] = m] /\ "timer" \in Pass
  BY DEF StartTimer, Moves, Pass
<1> HIDE DEF m
<1> QED
  BY <1>1, <1>3, <1>4, PassShrinks

\* What is admitted is not skippable in the state in which it is admitted.
LEMMA AdmitAdmits ==
    ASSUME PassesInv, NEW p \in Pass, Admit(p)
    PROVE  /\ PassesInv' /\ doubled' = Remembered(pass')
           /\ \A q \in Pass \ {p} : pass'[q] = pass[q]
           /\ \A u \in pass'[p].todo : ~Skippable(article[Normalize(u)])
<1>1. PICK S : /\ pass' = [pass EXCEPT ![p] = Admitted(pass[p],
                              {u \in S : ~Skippable(article[Normalize(u)])})]
               /\ doubled' = Remembered(pass')
  <2> DEFINE all == pass[p].found \o pass[p].retried
             cut == IF pass[p].limit = 0 THEN all
                    ELSE SubSeq(all, 1, Min({pass[p].limit, Len(all)}))
             todo == {u \in ToSet(cut) : ~Skippable(article[Normalize(u)])}
  <2>1. pass' = [pass EXCEPT ![p] = [pass[p] EXCEPT !.pc = "ingest", !.todo = todo,
                     !.site = NoSite, !.found = <<>>, !.retried = <<>>]]
    BY DEF Admit
  <2>2. pass' = [pass EXCEPT ![p] = Admitted(pass[p], todo)]
    BY <2>1 DEF Admitted
  <2>3. doubled' = Remembered(pass')
    BY DEF Admit
  <2> HIDE DEF cut
  <2> QED
    BY <2>2, <2>3
<1> DEFINE todo == {u \in S : ~Skippable(article[Normalize(u)])}
<1>2. PassRecord(pass[p])
  BY DEF PassesInv
<1>3. \A u \in todo : ~Skippable(article[Normalize(u)])
  OBVIOUS
<1>4. pass' = [pass EXCEPT ![p] = Admitted(pass[p], todo)]
  BY <1>1
<1> HIDE DEF todo
<1>5. PassRecord(Admitted(pass[p], todo)) /\ Admitted(pass[p], todo).todo = todo
  BY <1>2, AdmittedPass
<1>6. /\ PassesInv' /\ pass'[p] = Admitted(pass[p], todo)
      /\ \A q \in Pass \ {p} : pass'[q] = pass[q]
  BY <1>4, <1>5, PassChanges
<1> QED
  BY <1>1, <1>3, <1>5, <1>6

-----------------------------------------------------------------------------
(* The invariant is inductive.                                             *)

LEMMA PassesStep ==
    ASSUME PassesInv, [Next]_vars
    PROVE  PassesInv'
<1>1. CASE StartTimer
  BY <1>1, StartTimerShrinks
<1>2. ASSUME NEW first, NEW last, NEW w, NEW n, StartManual(first, last, w, n) PROVE PassesInv'
  BY <1>2, StartShrinks DEF StartManual, Pass
<1>3. ASSUME NEW p \in Pass, StepPass(p) \/ SourceFails(p) \/ Die(p) PROVE PassesInv'
  <2>1. CASE DiscoverSource(p)
    BY <2>1, DiscoverShrinks
  <2>2. CASE Admit(p)
    BY <2>2, AdmitAdmits
  <2>3. CASE FinishSource(p)
    BY <2>3, NextSourceShrinks DEF FinishSource
  <2>4. ASSUME NEW u, Ingest(p, u) PROVE PassesInv'
    BY <2>4, DoneShrinks DEF Ingest
  <2>5. CASE SourceFails(p)
    BY <2>5, NextSourceShrinks DEF SourceFails
  <2>6. CASE Die(p)
    BY <2>6, DieShrinks
  <2> QED
    BY <1>3, <2>1, <2>2, <2>3, <2>4, <2>5, <2>6 DEF StepPass
<1>4. CASE UNCHANGED pass
  BY <1>4 DEF PassesInv, PassRecord
<1> QED
  BY <1>1, <1>2, <1>3, <1>4 DEF Next, vars, StartRepair, RepairPage, RepairRow, EndRepair,
     ResetFailed, Tick

-----------------------------------------------------------------------------
(* What a pass has read.                                                   *)

\* A pass is at one of the sources it was started for, and what it holds when it
\* admits is what the discovery of that source found.
OnItsWay(r) ==
    \/ r.pc = "idle"
    \/ /\ r.last \in 1..Len(Source) /\ r.source \in 1..r.last
       /\ r.window \in Window \cup {Unbounded}
       /\ r.pc = "admit" => /\ r.site \in Site
                            /\ r.found = Discover(Source[r.source], r.site, r.window)

WayInv == \A p \in Pass : OnItsWay(pass[p])

LEMMA SourceFacts ==
    Len(Source) \in Nat \ {0} /\ DOMAIN Source = 1..Len(Source)
<1>1. Source \in Seq(ToSet(Source)) /\ Source # <<>>
  BY WorldAssumption DEF WorldAssumption
<1> QED
  BY <1>1, EmptySeq, LenProperties

LEMMA WayChanges ==
    ASSUME PassesInv, WayInv, NEW p \in Pass, NEW m, PassRecord(m), OnItsWay(m),
           pass' = [pass EXCEPT ![p] = m]
    PROVE  WayInv'
<1>1. pass'[p] = m /\ \A q \in Pass \ {p} : pass'[q] = pass[q]
  BY PassChanges
<1> QED
  BY <1>1 DEF WayInv

LEMMA NextSourceWay ==
    ASSUME PassesInv, WayInv, NEW p \in Pass, pass[p].pc # "idle", Moves(p, NextSource(p))
    PROVE  WayInv'
<1> DEFINE r == pass[p]
           m == Turned(r, r.source + 1)
<1>1. PassRecord(r) /\ OnItsWay(r) /\ r.pc # "idle"
  BY DEF PassesInv, WayInv
<1>2. CASE r.source = r.last
  <2>1. OnItsWay(Idle) /\ PassRecord(Idle)
    BY IdleIsEmpty DEF OnItsWay, Idle
  <2> QED
    BY <1>2, <2>1, WayChanges DEF Moves, NextSource
<1>3. CASE r.source # r.last
  <2>1. pass' = [pass EXCEPT ![p] = m]
    BY <1>3 DEF Moves, NextSource, Turned
  <2>2. /\ PassRecord(m) /\ m.pc = "discover" /\ m.source = r.source + 1
        /\ m.last = r.last /\ m.window = r.window
    BY <1>1, TurnedPass
  <2> HIDE DEF m, r
  <2>3. OnItsWay(m)
    BY <1>1, <1>3, <2>2, SourceFacts DEF OnItsWay
  <2> QED
    BY <2>1, <2>2, <2>3, WayChanges
<1> QED
  BY <1>2, <1>3

LEMMA DiscoverWay ==
    ASSUME PassesInv, WayInv, NEW p \in Pass, DiscoverSource(p)
    PROVE  WayInv'
<1> DEFINE r == pass[p]
<1>1. PassRecord(r) /\ OnItsWay(r) /\ r.pc = "discover"
  BY DEF PassesInv, WayInv, DiscoverSource
<1>2. PICK site \in Site : \E retried :
          pass' = [pass EXCEPT ![p] = Reread(r, site, Discovered[r.source][site][r.window], retried)]
  BY DEF DiscoverSource, Moves, Reread
<1>3. PICK retried :
          pass' = [pass EXCEPT ![p] = Reread(r, site, Discovered[r.source][site][r.window], retried)]
  BY <1>2
<1> DEFINE found == Discovered[r.source][site][r.window]
           m == Reread(r, site, found, retried)
<1>4. found = Discover(Source[r.source], site, r.window)
  <2>1. r.source \in DOMAIN Source /\ r.window \in Window \cup {Unbounded}
    BY <1>1, SourceFacts DEF OnItsWay
  <2> HIDE DEF r
  <2> QED
    BY <2>1 DEF Discovered
<1>5. /\ PassRecord(m) /\ SameTurn(m, r) /\ m.site = site /\ m.found = found
  <2> HIDE DEF found, r
  <2> QED
    BY <1>1, RereadPass
<1>6. pass' = [pass EXCEPT ![p] = m]
  BY <1>3
<1> HIDE DEF m, found, r
<1>7. OnItsWay(m)
  BY <1>1, <1>4, <1>5 DEF OnItsWay, SameTurn
<1> QED
  BY <1>5, <1>6, <1>7, WayChanges

LEMMA AdmitWay ==
    ASSUME PassesInv, WayInv, NEW p \in Pass, Admit(p)
    PROVE  WayInv'
<1> DEFINE r == pass[p]
<1>1. PassRecord(r) /\ OnItsWay(r) /\ r.pc = "admit"
  BY DEF PassesInv, WayInv, Admit
<1>2. PICK todo : pass' = [pass EXCEPT ![p] = Admitted(r, todo)]
  BY DEF Admit, Admitted
<1> DEFINE m == Admitted(r, todo)
<1>3. PassRecord(m) /\ SameTurn(m, r) /\ m.pc = "ingest"
  BY <1>1, AdmittedPass
<1> HIDE DEF m, r
<1>4. OnItsWay(m)
  BY <1>1, <1>3 DEF OnItsWay, SameTurn
<1> QED
  BY <1>2, <1>3, <1>4, WayChanges DEF m

LEMMA IngestWay ==
    ASSUME PassesInv, WayInv, NEW p \in Pass, NEW u, Ingest(p, u)
    PROVE  WayInv'
<1> DEFINE r == pass[p]
           todo == r.todo \ {u}
           m == Left(r, todo)
<1>1. PassRecord(r) /\ OnItsWay(r) /\ r.pc = "ingest"
  BY DEF PassesInv, WayInv, Ingest
<1>2. pass' = [pass EXCEPT ![p] = m]
  <2>1. pass' = [pass EXCEPT ![p].todo = pass[p].todo \ {u}]
    BY DEF Ingest, Done
  <2> QED
    BY <2>1, Zenon DEF Left
<1>3. PassRecord(m) /\ SameTurn(m, r) /\ m.pc = r.pc
  BY <1>1, LeftPass
<1> HIDE DEF m, r, todo
<1>4. OnItsWay(m)
  BY <1>1, <1>3 DEF OnItsWay, SameTurn
<1> QED
  BY <1>2, <1>3, <1>4, WayChanges

LEMMA StartWay ==
    ASSUME PassesInv, WayInv, NEW p \in Pass, NEW n, NEW l, NEW w, NEW limit,
           l \in 1..Len(Source), n \in 1..l, w \in Window \cup {Unbounded},
           Moves(p, [Idle EXCEPT !.pc = "discover", !.source = n, !.last = l,
                                 !.window = w, !.limit = limit])
    PROVE  WayInv'
<1> DEFINE m == [Idle EXCEPT !.pc = "discover", !.source = n, !.last = l,
                             !.window = w, !.limit = limit]
<1>1. PICK r : r = m
  OBVIOUS
<1>2. r = [pc |-> "discover", source |-> n, last |-> l, window |-> w, limit |-> limit,
           site |-> NoSite, found |-> <<>>, retried |-> <<>>, todo |-> {}]
  BY <1>1 DEF Idle
<1>3. PassRecord(r) /\ r.pc = "discover" /\ r.source = n /\ r.last = l /\ r.window = w
  BY ONLY <1>2 DEF PassRecord
<1>4. pass' = [pass EXCEPT ![p] = r]
  BY <1>1 DEF Moves
<1> HIDE DEF m
<1>5. OnItsWay(r)
  BY <1>3 DEF OnItsWay
<1> QED
  BY <1>3, <1>4, <1>5, WayChanges

LEMMA WayStep ==
    ASSUME PassesInv, WayInv, [Next]_vars
    PROVE  WayInv'
<1>1. CASE StartTimer
  <2>1. Moves("timer", [Idle EXCEPT !.pc = "discover", !.source = 1, !.last = Len(Source),
                                    !.window = Unbounded, !.limit = 0])
    <3>1. PICK r : r = [Idle EXCEPT !.pc = "discover", !.source = 1, !.last = Len(Source)]
      OBVIOUS
    <3>2. PICK m : m = [Idle EXCEPT !.pc = "discover", !.source = 1, !.last = Len(Source),
                                    !.window = Unbounded, !.limit = 0]
      OBVIOUS
    <3>3. r = [pc |-> "discover", source |-> 1, last |-> Len(Source), window |-> Unbounded,
               limit |-> 0, site |-> NoSite, found |-> <<>>, retried |-> <<>>, todo |-> {}]
      BY <3>1 DEF Idle
    <3>4. m = [pc |-> "discover", source |-> 1, last |-> Len(Source), window |-> Unbounded,
               limit |-> 0, site |-> NoSite, found |-> <<>>, retried |-> <<>>, todo |-> {}]
      BY <3>2 DEF Idle
    <3>5. pass' = [pass EXCEPT !["timer"] = r]
      BY <1>1, <3>1 DEF StartTimer, Moves
    <3>6. r = m
      BY <3>3, <3>4, Zenon
    <3> QED
      BY <3>2, <3>5, <3>6, Zenon DEF Moves
  <2>2. "timer" \in Pass /\ Len(Source) \in 1..Len(Source) /\ 1 \in 1..Len(Source)
    BY SourceFacts DEF Pass
  <2> QED
    BY <2>1, <2>2, StartWay
<1>2. ASSUME NEW first \in DOMAIN Source, NEW last \in DOMAIN Source, NEW w \in Window, NEW n,
             StartManual(first, last, w, n)
      PROVE  WayInv'
  <2>1. last \in 1..Len(Source) /\ first \in 1..last
    <3>1. <<first, last>> = <<1, Len(Source)>> \/ first = last
      BY <1>2 DEF StartManual
    <3> QED
      BY <3>1, SourceFacts
  <2>2. Moves("manual", [Idle EXCEPT !.pc = "discover", !.source = first, !.last = last,
                                     !.window = w, !.limit = n])
    BY <1>2 DEF StartManual
  <2>3. "manual" \in Pass
    BY DEF Pass
  <2> QED
    BY <2>1, <2>2, <2>3, StartWay
<1>3. ASSUME NEW p \in Pass, StepPass(p) \/ SourceFails(p) \/ Die(p) PROVE WayInv'
  <2>1. CASE DiscoverSource(p)
    BY <2>1, DiscoverWay
  <2>2. CASE Admit(p)
    BY <2>2, AdmitWay
  <2>3. CASE FinishSource(p)
    BY <2>3, NextSourceWay DEF FinishSource
  <2>4. ASSUME NEW u, Ingest(p, u) PROVE WayInv'
    BY <2>4, IngestWay
  <2>5. CASE SourceFails(p)
    BY <2>5, NextSourceWay DEF SourceFails
  <2>6. CASE Die(p)
    <3>1. pass' = [pass EXCEPT ![p] = Idle] /\ OnItsWay(Idle)
      BY <2>6 DEF Die, OnItsWay, Idle
    <3> QED
      BY <3>1, IdleIsEmpty, WayChanges
  <2> QED
    BY <1>3, <2>1, <2>2, <2>3, <2>4, <2>5, <2>6 DEF StepPass
<1>4. CASE UNCHANGED pass
  BY <1>4 DEF WayInv
<1> QED
  BY <1>1, <1>2, <1>3, <1>4 DEF Next, vars, StartRepair, RepairPage, RepairRow, EndRepair,
     ResetFailed, Tick

\* Only these steps write to the articles.
Writes == \/ \E p \in Pass : \E u \in pass[p].todo : Ingest(p, u)
          \/ RepairRow \/ Tick
          \/ \E i \in Id : ResetFailed(i)

LEMMA OthersDoNotWrite ==
    ASSUME [Next]_vars
    PROVE  Writes \/ article' = article
BY DEF Writes, Next, vars, StartTimer, StartManual, StepPass, DiscoverSource, Admit, FinishSource,
   SourceFails, Die, StartRepair, RepairPage, EndRepair

LEMMA RowsStep ==
    ASSUME RowsInv, RepairInv, [Next]_vars
    PROVE  RowsInv'
<1>1. CASE article' = article
  BY <1>1 DEF RowsInv
<1>2. ASSUME NEW p \in Pass, NEW u, Ingest(p, u) PROVE RowsInv'
  <2>1. SUFFICES ASSUME NEW j, NEW new, Brought(j, u, new), Upsert(j, pass[p].source, u, new)
                 PROVE  RowsInv'
    BY <1>1, <1>2, IngestStores
  <2>2. /\ article' = [i \in Id |-> article'[i]]
        /\ \A i \in Id : i # j => article'[i] = article[i]
        /\ j \in Id => Stores(article[j], article'[j], new)
    BY <2>1, UpsertStores
  <2> QED
    BY <2>2 DEF RowsInv, Stores
<1>3. CASE RepairRow
  BY <1>3, RepairRowTouches DEF RowsInv, Touched
<1>4. CASE Tick
  BY <1>4, TickTouches DEF RowsInv, Touched
<1>5. ASSUME NEW i \in Id, ResetFailed(i) PROVE RowsInv'
  BY <1>5, ResetTouches DEF RowsInv, Touched
<1> QED
  BY <1>1, <1>2, <1>3, <1>4, <1>5, OthersDoNotWrite DEF Writes

LEMMA PendingAre ==
    /\ \A x : x \in Pending(pass) <=> \E p \in Pass : \E u \in pass[p].todo : x = <<p, u>>
    /\ \A x : x \in Pending(pass') <=> \E p \in Pass : \E u \in pass'[p].todo : x = <<p, u>>
BY DEF Pending

LEMMA AdmittedKept ==
    ASSUME AdmittedInv,
           \/ doubled' = Remembered(pass')
           \/ doubled' = doubled /\ Pending(pass') \subseteq Pending(pass),
           \A i \in Id \ doubled : \A x \in Pending(pass') :
               Normalize(x[2]) = i /\ i \notin Doubles(pass') => ~Settled(article'[i])
    PROVE  AdmittedInv'
<1>1. Doubles(pass') \subseteq doubled'
  BY DEF AdmittedInv, Remembered, Doubles
<1>2. ASSUME NEW i \in Id \ doubled', NEW x \in Pending(pass'), Normalize(x[2]) = i
      PROVE  ~Settled(article'[i])
  <2>1. i \in Touches(x[2])
    BY <1>2 DEF Touches
  <2>2. i \notin doubled /\ i \notin Doubles(pass')
    BY <1>1, <2>1 DEF Remembered
  <2> QED
    BY <1>2, <2>2
<1> QED
  BY <1>1, <1>2 DEF AdmittedInv, Unsettled, Pending, Doubles, Settled, Exhausted

LEMMA ShrinksPending ==
    ASSUME Shrinks
    PROVE  Pending(pass') \subseteq Pending(pass)
BY PendingAre DEF Shrinks

\* An identity written to while another fetch of it is pending was doubled.
LEMMA WrittenTwiceIsDoubled ==
    ASSUME AdmittedInv, NEW p \in Pass, NEW u \in pass[p].todo, NEW i \in Id, i \in Touches(u),
           NEW x \in Pending(pass), Normalize(x[2]) = i, x # <<p, u>>
    PROVE  i \in doubled
<1>1. <<p, u>> \in Pending(pass) /\ <<p, u>>[2] = u
  BY PendingAre
<1>2. i \in Touches(x[2])
  BY DEF Touches
<1>3. i \in Doubles(pass)
  BY <1>1, <1>2 DEF Doubles
<1> QED
  BY <1>3 DEF AdmittedInv

LEMMA IngestKeepsAdmitted ==
    ASSUME RowsInv, PassesInv, AdmittedInv, NEW p \in Pass, NEW u, Ingest(p, u)
    PROVE  AdmittedInv'
<1>1. /\ Shrinks /\ doubled' = Remembered(pass')
      /\ pass'[p].todo = pass[p].todo \ {u}
      /\ u \in pass[p].todo
  BY DoneShrinks DEF Ingest
<1>2. ASSUME NEW i \in Id \ doubled, NEW x \in Pending(pass'), Normalize(x[2]) = i
      PROVE  ~Settled(article'[i])
  <2>1. x \in Pending(pass)
    BY <1>1, ShrinksPending
  <2>2. x # <<p, u>>
    <3>1. PICK q \in Pass : \E v \in pass'[q].todo : x = <<q, v>>
      BY PendingAre
    <3> QED
      BY <3>1, <1>1
  <2>3. i \notin Touches(u)
    BY <1>1, <1>2, <2>1, <2>2, WrittenTwiceIsDoubled
  <2>4. article'[i] = article[i]
    <3>1. CASE article' = article
      BY <3>1
    <3>2. ASSUME NEW j, NEW new, Brought(j, u, new), Upsert(j, pass[p].source, u, new)
          PROVE  article'[i] = article[i]
      BY <2>3, <3>2, UpsertStores DEF Brought
    <3> QED
      BY <3>1, <3>2, IngestStores
  <2> QED
    BY <1>2, <2>1, <2>4 DEF AdmittedInv, Unsettled
<1> QED
  BY <1>1, <1>2, AdmittedKept

LEMMA AdmitKeepsAdmitted ==
    ASSUME PassesInv, AdmittedInv, NEW p \in Pass, Admit(p)
    PROVE  AdmittedInv'
<1>1. /\ doubled' = Remembered(pass')
      /\ \A q \in Pass \ {p} : pass'[q] = pass[q]
      /\ \A u \in pass'[p].todo : ~Skippable(article[Normalize(u)])
      /\ article' = article
  BY AdmitAdmits DEF Admit
<1>2. ASSUME NEW i \in Id \ doubled, NEW x \in Pending(pass'), Normalize(x[2]) = i
      PROVE  ~Settled(article'[i])
  <2>1. PICK q \in Pass : \E v \in pass'[q].todo : x = <<q, v>>
    BY PendingAre
  <2>2. PICK v \in pass'[q].todo : x = <<q, v>>
    BY <2>1
  <2>3. x[2] = v
    BY <2>2
  <2>4. CASE q = p
    BY <1>1, <1>2, <2>3, <2>4 DEF Skippable, Settled, Exhausted
  <2>5. CASE q # p
    <3>1. x \in Pending(pass)
      BY <1>1, <2>2, <2>5, PendingAre
    <3> QED
      BY <1>1, <1>2, <3>1 DEF AdmittedInv, Unsettled
  <2> QED
    BY <2>4, <2>5
<1> QED
  BY <1>1, <1>2, AdmittedKept

\* A step that admits nothing, and settles nothing by itself.
LEMMA QuietKeepsAdmitted ==
    ASSUME AdmittedInv, Shrinks, doubled' = Remembered(pass') \/ doubled' = doubled,
           \A i \in Id : Settled(article'[i]) => Settled(article[i])
    PROVE  AdmittedInv'
<1>1. Pending(pass') \subseteq Pending(pass)
  BY ShrinksPending
<1>2. \A i \in Id \ doubled : \A x \in Pending(pass') :
         Normalize(x[2]) = i /\ i \notin Doubles(pass') => ~Settled(article'[i])
  BY <1>1 DEF AdmittedInv, Unsettled
<1> QED
  BY <1>1, <1>2, AdmittedKept

LEMMA AdmittedStep ==
    ASSUME RowsInv, PassesInv, RepairInv, AdmittedInv, [Next]_vars
    PROVE  AdmittedInv'
<1> DEFINE Quiet == \A i \in Id : Settled(article'[i]) => Settled(article[i])
<1>0. article' = article => Quiet
  OBVIOUS
<1>1. CASE StartTimer
  BY <1>1, <1>0, StartTimerShrinks, QuietKeepsAdmitted DEF StartTimer
<1>2. ASSUME NEW first, NEW last, NEW w, NEW n, StartManual(first, last, w, n) PROVE AdmittedInv'
  <2>1. Shrinks
    BY <1>2, StartShrinks DEF StartManual, Pass
  <2> QED
    BY <1>2, <2>1, <1>0, QuietKeepsAdmitted DEF StartManual
<1>3. ASSUME NEW p \in Pass, StepPass(p) \/ SourceFails(p) \/ Die(p) PROVE AdmittedInv'
  <2>1. CASE DiscoverSource(p)
    BY <2>1, <1>0, DiscoverShrinks, QuietKeepsAdmitted DEF DiscoverSource
  <2>2. CASE Admit(p)
    BY <2>2, AdmitKeepsAdmitted
  <2>3. CASE FinishSource(p)
    BY <2>3, <1>0, NextSourceShrinks, QuietKeepsAdmitted DEF FinishSource
  <2>4. ASSUME NEW u, Ingest(p, u) PROVE AdmittedInv'
    BY <2>4, IngestKeepsAdmitted
  <2>5. CASE SourceFails(p)
    BY <2>5, <1>0, NextSourceShrinks, QuietKeepsAdmitted DEF SourceFails
  <2>6. CASE Die(p)
    BY <2>6, <1>0, DieShrinks, QuietKeepsAdmitted DEF Die
  <2> QED
    BY <1>3, <2>1, <2>2, <2>3, <2>4, <2>5, <2>6 DEF StepPass
<1>4. ASSUME Quiet, UNCHANGED <<pass, doubled>> PROVE AdmittedInv'
  <2>1. Shrinks
    BY <1>4 DEF Shrinks
  <2> QED
    BY <1>4, <2>1, QuietKeepsAdmitted
<1>5. CASE StartRepair \/ RepairPage \/ EndRepair
  BY <1>5, <1>0, <1>4 DEF StartRepair, RepairPage, EndRepair
<1>6. CASE RepairRow
  <2>1. Quiet
    BY <1>6, RepairRowTouches DEF Touched, Settled, Exhausted
  <2> QED
    BY <1>4, <1>6, <2>1 DEF RepairRow
<1>7. CASE Tick
  <2>1. Quiet
    BY <1>7, TickTouches DEF Touched, Settled, Exhausted
  <2> QED
    BY <1>4, <1>7, <2>1 DEF Tick
<1>8. ASSUME NEW i \in Id, ResetFailed(i) PROVE AdmittedInv'
  <2>1. Quiet
    <3>1. ~Settled(article'[i])
      BY <1>8, ResetTouches, FetchAssumption DEF Touched, Settled, Exhausted, FetchAssumption
    <3> QED
      BY <1>8, <3>1, ResetTouches
  <2> QED
    BY <1>4, <1>8, <2>1 DEF ResetFailed
<1>9. CASE UNCHANGED vars
  BY <1>9, <1>0, <1>4 DEF vars
<1> HIDE DEF Quiet
<1> QED
  BY <1>1, <1>2, <1>3, <1>5, <1>6, <1>7, <1>8, <1>9 DEF Next

\* As far as the repair can tell, row i is what it was, or it needs no repair now.
Undisturbed(i) ==
    article[i].status # "absent" =>
        /\ article'[i].status # "absent"
        /\ article[i].html # "" => /\ article'[i].html # ""
                                  /\ \/ Dated(i)'
                                     \/ /\ article'[i].html = article[i].html
                                        /\ article'[i].at = article[i].at
                                        /\ article'[i].born = article[i].born

LEMMA UndisturbedKeepsRepair ==
    ASSUME RepairInv, repair' = repair, \A i \in Id : Undisturbed(i)
    PROVE  RepairInv'
<1>1. ASSUME NEW i \in repair.missing
      PROVE  /\ i \in Id /\ article'[i].status # "absent" /\ article'[i].html # ""
             /\ Reached(i)'
  <2>1. i \in Id /\ article[i].status # "absent" /\ article[i].html # "" /\ Reached(i)
    BY DEF RepairInv
  <2>2. CASE Dated(i)'
    BY <2>1, <2>2 DEF Undisturbed, Reached
  <2>3. CASE /\ article'[i].html = article[i].html
             /\ article'[i].at = article[i].at
             /\ article'[i].born = article[i].born
    BY <2>1, <2>3 DEF Undisturbed, Reached, Dated, OnPage
  <2> QED
    BY <2>1, <2>2, <2>3 DEF Undisturbed
<1>2. Stored \subseteq Stored'
  BY DEF Stored, Undisturbed
<1> QED
  BY <1>1, <1>2 DEF RepairInv

LEMMA IngestKeepsRepair ==
    ASSUME RowsInv, RepairInv, NEW p \in Pass, NEW u, Ingest(p, u)
    PROVE  RepairInv'
<1>1. repair' = repair
  BY DEF Ingest
<1>2. CASE article' = article
  BY <1>1, <1>2, UndisturbedKeepsRepair DEF Undisturbed
<1>3. ASSUME NEW j, NEW new, Brought(j, u, new), Upsert(j, pass[p].source, u, new)
      PROVE  RepairInv'
  <2>1. /\ \A i \in Id : i # j => article'[i] = article[i]
        /\ j \in Id => Stores(article[j], article'[j], new)
    BY <1>3, UpsertStores
  <2>2. ASSUME j \in Id PROVE Undisturbed(j)
    <3>1. CASE new.html = ""
      BY <1>3, <2>1, <2>2, <3>1 DEF Stores, Brought, Undisturbed
    <3>2. CASE new.html # ""
      <4>1. article'[j].html = new.html /\ article'[j].status # "absent"
        BY <1>3, <2>1, <2>2, <3>2 DEF Stores, Brought
      <4>2. CASE new.at = NoDate
        BY <1>3, <3>2, <4>1, <4>2 DEF Brought, Undisturbed, Dated
      <4>3. CASE new.at # NoDate
        <5>1. article'[j].at = new.at
          BY <2>1, <2>2, <4>3 DEF Stores
        <5> QED
          BY <3>2, <4>1, <4>3, <5>1 DEF Undisturbed, Dated
      <4> QED
        BY <4>2, <4>3
    <3> QED
      BY <3>1, <3>2
  <2>3. \A i \in Id : Undisturbed(i)
    BY <2>1, <2>2 DEF Undisturbed
  <2> QED
    BY <1>1, <2>3, UndisturbedKeepsRepair
<1> QED
  BY <1>2, <1>3, IngestStores

LEMMA AgeType ==
    ASSUME RowsInv, NEW i \in Id, Repairable(i)
    PROVE  /\ article[i].status # "absent" /\ article[i].html # ""
           /\ article[i].born \in Int /\ article[i].born > 0
<1>1. article[i].status # "absent" /\ article[i].html # ""
  BY DEF Repairable
<1>2. RowInv(article[i])
  BY DEF RowsInv
<1>3. article[i].born \in Nat \ {0}
  BY <1>1, <1>2 DEF RowInv
<1>4. \A b \in Nat \ {0} : b \in Int /\ b > 0
  OBVIOUS
<1> QED
  BY ONLY <1>1, <1>3, <1>4

LEMMA StartRepairReaches ==
    ASSUME RowsInv, StartRepair
    PROVE  RepairInv'
<1>1. PICK r : r = repair'
  OBVIOUS
<1>2. r = [pc |-> "page", after |-> 0, rows |-> <<>>, missing |-> {i \in Id : Repairable(i)}]
  BY <1>1 DEF StartRepair, NoRepair
<1>3. /\ r = [pc |-> r.pc, after |-> r.after, rows |-> r.rows, missing |-> r.missing]
      /\ r.pc = "page" /\ r.after = 0 /\ r.missing = {i \in Id : Repairable(i)}
  BY ONLY <1>2
<1>4. \A i \in Id : Repairable(i) =>
         article[i].status # "absent" /\ article[i].html # "" /\ article[i].born > 0
  BY AgeType
<1>5. article' = article
  BY DEF StartRepair
<1> QED
  BY <1>1, <1>3, <1>4, <1>5 DEF RepairInv, Reached

LEMMA EndRepairForgets ==
    ASSUME EndRepair
    PROVE  RepairInv'
<1>1. /\ NoRepair = [pc |-> NoRepair.pc, after |-> NoRepair.after, rows |-> NoRepair.rows,
                     missing |-> NoRepair.missing]
      /\ NoRepair.pc = "idle" /\ NoRepair.missing = {}
  BY DEF NoRepair
<1>2. repair' = NoRepair
  BY DEF EndRepair
<1> QED
  BY <1>1, <1>2 DEF RepairInv

\* A row that was to come is on the page in hand, or still to come.
LEMMA PageReaches ==
    ASSUME RowsInv, RepairInv, RepairPage
    PROVE  RepairInv'
<1> DEFINE S == {i \in Id : Repairable(i) /\ article[i].born > repair.after}
<1>1. PICK rows \in Oldest(S, RepairBatch) : ReadsPage(rows, article[Last(rows)].born)
  BY DEF RepairPage
<1>2. article' = article /\ repair.pc = "page"
  BY DEF RepairPage
<1>3. \A i \in repair.missing : ~Dated(i) => i \in S
  BY <1>2 DEF RepairInv, Reached, Dated, Repairable
<1>4. PICK n \in 0..RepairBatch : rows \in [1..n -> S]
  BY <1>1 DEF Oldest
<1>5. n \in Nat /\ Len(rows) = n /\ DOMAIN rows = 1..n /\ rows \in Seq(S)
  BY <1>4, FetchAssumption DEF FetchAssumption
<1>6. PICK a, b, c, d : repair = [pc |-> a, after |-> b, rows |-> c, missing |-> d]
  BY DEF RepairInv
<1>7. repair.missing = d
  BY ONLY <1>6
<1>8. PICK r : r = repair'
  OBVIOUS
<1>9. CASE rows = <<>>
  <2>1. S = {}
    <3>1. n = 0
      BY <1>5, <1>9
    <3>2. ToSet(rows) = S
      BY <1>1, <1>5, <3>1, FetchAssumption DEF Oldest, FetchAssumption
    <3> QED
      BY <1>9, <3>2 DEF ToSet
  <2>2. r = [pc |-> "done", after |-> b, rows |-> c, missing |-> d]
    BY <1>1, <1>6, <1>8, <1>9 DEF ReadsPage
  <2>3. /\ r = [pc |-> r.pc, after |-> r.after, rows |-> r.rows, missing |-> r.missing]
        /\ r.pc = "done" /\ r.missing = repair.missing
    BY ONLY <1>7, <2>2
  <2>4. \A i \in repair.missing : Dated(i)
    BY <1>3, <2>1
  <2> HIDE DEF S
  <2> QED
    BY <1>2, <1>8, <2>3, <2>4 DEF RepairInv, Reached, Dated
<1>10. CASE rows # <<>>
  <2> DEFINE Page == [k \in DOMAIN rows |-> [id |-> rows[k], html |-> article[rows[k]].html]]
             last == article[Last(rows)].born
  <2>1. r = [pc |-> "rows", after |-> last, rows |-> Page, missing |-> d]
    BY <1>1, <1>6, <1>8, <1>10 DEF ReadsPage
  <2>2. /\ r = [pc |-> r.pc, after |-> r.after, rows |-> r.rows, missing |-> r.missing]
        /\ r.pc = "rows" /\ r.after = last /\ r.rows = Page /\ r.missing = repair.missing
    BY ONLY <1>7, <2>1
  <2>3. n \in DOMAIN rows /\ last = article[rows[n]].born
    BY <1>4, <1>5, <1>10 DEF Last
  <2>4. /\ Page \in Seq([id : S, html : {article[i].html : i \in S}]) /\ DOMAIN Page = DOMAIN rows
        /\ Page # <<>>
        /\ \A k \in DOMAIN Page : /\ Page[k].id = rows[k] /\ Page[k].id \in S
                                  /\ Page[k].html = article[rows[k]].html
    <3>1. \A k \in DOMAIN rows : rows[k] \in S
      BY <1>4, <1>5
    <3> HIDE DEF S
    <3> QED
      BY <1>5, <2>3, <3>1
  <2>5. ASSUME NEW i \in repair.missing, ~Dated(i)
        PROVE  \/ \E k \in DOMAIN Page : Page[k].id = i /\ Page[k].html = article[i].html
               \/ article[i].born > last
    <3>1. i \in S /\ last \in Int /\ article[i].born \in Int
      <4>1. i \in S
        BY <1>3, <2>5
      <4>2. rows[n] \in S
        BY <1>4, <1>5, <2>3
      <4> QED
        BY <2>3, <4>1, <4>2, AgeType
    <3> HIDE DEF S, Page, last
    <3>2. CASE i \in ToSet(rows)
      BY <2>4, <3>2 DEF ToSet
    <3>3. CASE i \notin ToSet(rows)
      <4>1. article[rows[n]].born < article[i].born
        BY <1>1, <2>3, <3>1, <3>3 DEF Oldest
      <4> QED
        BY <2>3, <3>1, <4>1
    <3> QED
      BY <3>2, <3>3
  <2>6. S \subseteq Stored
    BY DEF Stored, Repairable
  <2>7. /\ \E T : Page \in Seq(T)
        /\ \A k \in DOMAIN Page : Page[k].id \in Stored
    BY <2>4, <2>6
  <2>8. Page # <<>>
    BY <2>4
  <2> HIDE DEF S, Page, last
  <2>9. ASSUME NEW i \in repair.missing PROVE Reached(i)'
    <3>1. CASE Dated(i)
      BY <1>2, <3>1 DEF Reached, Dated
    <3>2. CASE ~Dated(i)
      BY <1>2, <1>8, <2>2, <2>5, <3>2 DEF Reached, OnPage
    <3> QED
      BY <3>1, <3>2
  <2>10. Stored' = Stored
    BY <1>2 DEF Stored
  <2>11. repair.missing = repair'.missing
    BY <1>8, <2>2
  <2>12. \A i \in repair'.missing : /\ i \in Id /\ article'[i].status # "absent"
                                    /\ article'[i].html # "" /\ Reached(i)'
    BY <1>2, <2>9, <2>11 DEF RepairInv
  <2> QED
    BY <1>8, <2>2, <2>7, <2>8, <2>10, <2>12 DEF RepairInv
<1> QED
  BY <1>9, <1>10

\* The row at the head of the page leaves it dated, the others stay on it.
LEMMA RowReaches ==
    ASSUME RowsInv, RepairInv, RepairRow
    PROVE  RepairInv'
<1> DEFINE rows == repair.rows
           rest == Tail(rows)
           pc == IF Len(rows) = 1 THEN "page" ELSE "rows"
<1>1. repair.pc = "rows" /\ repair' = [repair EXCEPT !.rows = rest, !.pc = pc]
  BY DEF RepairRow
<1>2. PICK S : rows \in Seq(S) /\ rows # <<>> /\ \A k \in DOMAIN rows : rows[k].id \in Stored
  BY <1>1 DEF RepairInv
<1>3. /\ rest \in Seq(S) /\ Len(rows) \in Nat \ {0} /\ DOMAIN rows = 1..Len(rows)
      /\ DOMAIN rest = 1..(Len(rows) - 1)
      /\ \A k \in DOMAIN rest : k + 1 \in DOMAIN rows /\ rest[k] = rows[k + 1]
  BY <1>2
<1>4. PICK a, b, c, d : repair = [pc |-> a, after |-> b, rows |-> c, missing |-> d]
  BY DEF RepairInv
<1>5. b = repair.after /\ d = repair.missing
  BY ONLY <1>4
<1>6. PICK r : r = repair'
  OBVIOUS
<1> HIDE DEF rest, pc
<1>7. r = [pc |-> pc, after |-> b, rows |-> rest, missing |-> d]
  BY <1>1, <1>4, <1>6
<1>8. /\ r = [pc |-> r.pc, after |-> r.after, rows |-> r.rows, missing |-> r.missing]
      /\ r.pc = pc /\ r.after = repair.after /\ r.rows = rest /\ r.missing = repair.missing
  BY ONLY <1>5, <1>7
<1>9. /\ \A i \in Id : /\ Touched(article[i], article'[i])
                       /\ article[i].at # NoDate => article'[i].at = article[i].at
      /\ article[rows[1].id].at = NoDate => article'[rows[1].id].at = Html[rows[1].html].at
  BY RepairRowTouches
<1>10. pc = "rows" => rest # <<>>
  <2>1. pc = "rows" => Len(rows) # 1
    BY DEF pc
  <2>2. Len(rows) # 1 => 1 \in DOMAIN rest
    <3> HIDE DEF rows
    <3>1. Len(rows) # 1 => 1 \in 1..(Len(rows) - 1)
      BY <1>3
    <3> QED
      BY <1>3, <3>1
  <2> QED
    BY <2>1, <2>2
<1>11. pc \in {"page", "rows"} /\ (pc = "page" => Len(rows) = 1)
  BY DEF pc
<1>12. \A k \in DOMAIN rest : rest[k].id \in Stored'
  <2>1. Stored \subseteq Stored'
    BY <1>9 DEF Stored, Touched
  <2> QED
    BY <1>2, <1>3, <2>1
<1>13. ASSUME NEW i \in repair.missing
       PROVE  /\ i \in Id /\ article'[i].status # "absent" /\ article'[i].html # ""
              /\ Reached(i)'
  <2>1. i \in Id /\ article[i].status # "absent" /\ article[i].html # "" /\ Reached(i)
    BY DEF RepairInv
  <2>2. /\ article'[i].status # "absent" /\ article'[i].html = article[i].html
        /\ article'[i].born = article[i].born
        /\ article[i].at # NoDate => article'[i].at = article[i].at
    BY <1>9, <2>1 DEF Touched
  <2>3. CASE Dated(i)
    BY <2>1, <2>2, <2>3 DEF Reached, Dated
  <2>4. CASE repair.pc \in {"page", "rows"} /\ article[i].born > repair.after
    BY <1>6, <1>8, <1>11, <2>1, <2>2, <2>4 DEF Reached
  <2>5. CASE OnPage(i) /\ ~Dated(i)
    <3>1. PICK k \in DOMAIN rows : rows[k].id = i /\ rows[k].html = article[i].html
      BY <2>5 DEF OnPage
    <3>2. CASE k = 1
      <4>1. article[i].at = NoDate
        BY <2>5 DEF Dated
      <4>2. article'[i].at = Html[article[i].html].at
        BY <1>9, <3>1, <3>2, <4>1
      <4> QED
        BY <2>1, <2>2, <4>2 DEF Reached, Dated
    <3>3. CASE k # 1
      <4> HIDE DEF rows
      <4>1. k - 1 \in DOMAIN rest /\ rest[k - 1] = rows[k] /\ Len(rows) # 1
        BY <1>3, <3>1, <3>3
      <4>2. OnPage(i)'
        BY <1>6, <1>8, <2>2, <3>1, <4>1 DEF OnPage
      <4> QED
        BY <1>6, <1>8, <1>11, <2>1, <2>2, <4>1, <4>2 DEF Reached
    <3> QED
      BY <3>2, <3>3
  <2> QED
    BY <2>1, <2>2, <2>3, <2>4, <2>5 DEF Reached
<1>14. repair'.pc = "rows" => /\ \E T : repair'.rows \in Seq(T)
                              /\ repair'.rows # <<>>
                              /\ \A k \in DOMAIN repair'.rows : repair'.rows[k].id \in Stored'
  BY <1>3, <1>6, <1>8, <1>10, <1>12
<1>15. repair'.missing = repair.missing
  BY <1>6, <1>8
<1>16. \A i \in repair'.missing : /\ i \in Id /\ article'[i].status # "absent"
                                  /\ article'[i].html # "" /\ Reached(i)'
  BY <1>13, <1>15
<1>17. repair'.pc \in {"idle", "page", "rows", "done"}
  BY <1>6, <1>8, <1>11
<1> HIDE DEF rows
<1> QED
  BY <1>6, <1>8, <1>14, <1>16, <1>17 DEF RepairInv

LEMMA RepairStep ==
    ASSUME RowsInv, PassesInv, RepairInv, [Next]_vars
    PROVE  RepairInv'
<1>1. CASE StartRepair
  BY <1>1, StartRepairReaches
<1>2. CASE RepairPage
  BY <1>2, PageReaches
<1>3. CASE RepairRow
  BY <1>3, RowReaches
<1>4. CASE EndRepair
  BY <1>4, EndRepairForgets
<1>5. ASSUME NEW p \in Pass, NEW u, Ingest(p, u) PROVE RepairInv'
  BY <1>5, IngestKeepsRepair
<1>6. ASSUME NEW i \in Id, ResetFailed(i) PROVE RepairInv'
  <2>1. \A j \in Id : Undisturbed(j)
    BY <1>6, ResetTouches DEF Touched, Undisturbed
  <2> QED
    BY <1>6, <2>1, UndisturbedKeepsRepair DEF ResetFailed
<1>7. CASE Tick
  <2>1. \A j \in Id : Undisturbed(j)
    BY <1>7, TickTouches DEF Touched, Undisturbed
  <2> QED
    BY <1>7, <2>1, UndisturbedKeepsRepair DEF Tick
<1>8. CASE UNCHANGED <<article, repair>>
  BY <1>8, UndisturbedKeepsRepair DEF Undisturbed
<1> QED
  BY <1>1, <1>2, <1>3, <1>4, <1>5, <1>6, <1>7, <1>8
  DEF Next, vars, StepPass, StartTimer, StartManual, DiscoverSource, Admit, FinishSource,
      SourceFails, Die

LEMMA InitInv == Init => Inv
<1> SUFFICES ASSUME Init PROVE Inv
  OBVIOUS
<1>1. RowsInv
  <2>1. PICK q \in Legacy :
            article = [i \in Id |-> IF \E k \in DOMAIN q : Normalize(q[k]) = i
                                THEN LegacyRow(q, CHOOSE k \in DOMAIN q : Normalize(q[k]) = i)
                                ELSE Absent]
    BY DEF Init
  <2>2. \A k \in DOMAIN q : k \in Nat \ {0}
    BY UrlAssumption DEF UrlAssumption
  <2>3. ASSUME NEW k \in DOMAIN q PROVE RowInv(LegacyRow(q, k))
    BY <2>2, DelayTypes DEF RowInv, LegacyRow
  <2>4. RowInv(Absent)
    BY DelayTypes DEF RowInv, Absent
  <2>5. ASSUME NEW i \in Id PROVE RowInv(article[i])
    BY <2>1, <2>3, <2>4
  <2> QED
    BY <2>1, <2>5 DEF RowsInv
<1>2. PassesInv /\ \A p \in Pass : pass[p].todo = {}
  BY IdleIsEmpty DEF Init, PassesInv
<1>3. Pending(pass) = {}
  BY <1>2 DEF Pending
<1>4. AdmittedInv
  BY <1>3 DEF AdmittedInv, Unsettled, Doubles
<1>5. /\ NoRepair = [pc |-> NoRepair.pc, after |-> NoRepair.after, rows |-> NoRepair.rows,
                     missing |-> NoRepair.missing]
      /\ NoRepair.pc = "idle" /\ NoRepair.missing = {}
  BY DEF NoRepair
<1>6. RepairInv
  BY <1>5 DEF Init, RepairInv
<1> QED
  BY <1>1, <1>2, <1>4, <1>6 DEF Inv

\* The inductive invariant: the shape of rows, passes and the repair, what is admitted
\* under one identity by two passes, and how far the repair has come.
THEOREM InvHolds == Spec => []Inv
<1>1. Init => Inv
  BY InitInv
<1>2. Inv /\ [Next]_vars => Inv'
  BY RowsStep, PassesStep, AdmittedStep, RepairStep DEF Inv
<1> QED
  BY <1>1, <1>2, PTL DEF Spec

-----------------------------------------------------------------------------
(* The properties.                                                         *)

\* The repair of publication dates ends with every row it set out for dated, or
\* undatable from its page (repair_missing_published_at), for any page size.
THEOREM RepairReachesAllHolds == Spec => []RepairReachesAll
<1>1. Inv => RepairReachesAll
  BY DEF Inv, RepairInv, Reached, Dated, RepairReachesAll
<1> QED
  BY <1>1, InvHolds, PTL

TextKept(i) ==
    /\ article[i].html # "" => article'[i].html # ""
    /\ article[i].at # NoDate =>
           article'[i].at # NoDate /\ (repair' # repair => article'[i].at = article[i].at)

\* Neither a late fetch, nor a failure, nor the repair takes content or a date away
\* (upsert_article, update_article_published_at).
THEOREM ContentIsKeptHolds == Spec => ContentIsKept
<1>1. Inv /\ [Next]_vars => \A i \in Id : TextKept(i)
  <2> SUFFICES ASSUME Inv, [Next]_vars PROVE \A i \in Id : TextKept(i)
    OBVIOUS
  <2> USE DEF Inv
  <2>1. CASE article' = article
    BY <2>1 DEF TextKept
  <2>2. ASSUME NEW p \in Pass, NEW u, Ingest(p, u) PROVE \A i \in Id : TextKept(i)
    <3>1. SUFFICES ASSUME NEW j, NEW new, Brought(j, u, new), Upsert(j, pass[p].source, u, new)
                   PROVE  \A i \in Id : TextKept(i)
      BY <2>1, <2>2, IngestStores
    <3>2. /\ \A i \in Id : i # j => article'[i] = article[i]
          /\ j \in Id => Stores(article[j], article'[j], new)
      BY <3>1, UpsertStores
    <3>3. repair' = repair
      BY <2>2 DEF Ingest
    <3> QED
      BY <3>2, <3>3 DEF Stores, TextKept
  <2>3. CASE RepairRow
    BY <2>3, RepairRowTouches DEF Touched, TextKept
  <2>4. CASE Tick
    BY <2>4, TickTouches DEF Touched, TextKept
  <2>5. ASSUME NEW i \in Id, ResetFailed(i) PROVE \A j \in Id : TextKept(j)
    BY <2>5, ResetTouches DEF Touched, TextKept
  <2> QED
    BY <2>1, <2>2, <2>3, <2>4, <2>5, OthersDoNotWrite DEF Writes
<1>2. (\A i \in Id : TextKept(i)) =>
        \A i \in Id :
          /\ article[i].html # "" => article'[i].html # ""
          /\ article[i].at # NoDate =>
                 article'[i].at # NoDate /\ (repair' # repair => article'[i].at = article[i].at)
  BY DEF TextKept
<1> QED
  BY <1>1, <1>2, InvHolds, PTL DEF Spec, ContentIsKept

\* What is settled is only undone by the operator's reset, or by one of two passes
\* that had both admitted the article (_run_source, skippable_identity_urls).
THEOREM SettledIsFinalHolds == Spec => SettledIsFinal
<1> DEFINE Final(i) ==
      /\ article[i].status = "succeeded" => article'[i].status = "succeeded"
      /\ Exhausted(article[i]) =>
             \/ article'[i].status = "succeeded"
             \/ article'[i].attempt = 0
             \/ article'[i].wait <= article[i].wait
<1>1. ASSUME Inv, [Next]_vars, NEW i \in Id \ doubled PROVE Final(i)
  <2>1. RowsInv /\ PassesInv /\ AdmittedInv /\ RepairInv
    BY <1>1 DEF Inv
  <2>2. article[i].wait <= article[i].wait
    <3>1. article[i].wait \in Int
      BY <2>1 DEF RowsInv, RowInv
    <3> QED
      BY <3>1
  <2>3. CASE article'[i] = article[i]
    BY <2>2, <2>3
  <2>4. ASSUME NEW p \in Pass, NEW u \in pass[p].todo, Ingest(p, u) PROVE Final(i)
    <3>1. CASE article' = article
      BY <2>3, <3>1
    <3>2. ASSUME NEW j, NEW new, Brought(j, u, new), Upsert(j, pass[p].source, u, new)
          PROVE  Final(i)
      <4>1. CASE i # j
        BY <2>1, <2>3, <3>2, <4>1, UpsertStores
      <4>2. CASE i = j /\ new.status = "succeeded"
        <5>1. Stores(article[i], article'[i], new)
          BY <2>1, <3>2, <4>2, UpsertStores
        <5>2. article'[i].status = "succeeded"
          BY <4>2, <5>1 DEF Stores
        <5> QED
          BY <5>2
      <4>3. CASE i = j /\ new.status = "failed"
        <5>1. <<p, u>> \in Pending(pass) /\ Normalize(<<p, u>>[2]) = i
          BY <3>2, <4>3, PendingAre DEF Brought
        <5>2. ~Settled(article[i])
          BY <2>1, <5>1 DEF AdmittedInv, Unsettled
        <5> QED
          BY <5>2 DEF Settled
      <4> QED
        BY <3>2, <4>1, <4>2, <4>3 DEF Brought
    <3> QED
      BY <2>1, <2>4, <3>1, <3>2, IngestStores
  <2>5. CASE RepairRow
    BY <2>1, <2>2, <2>5, RepairRowTouches DEF Touched
  <2>6. CASE Tick
    BY <2>1, <2>6, TickTouches DEF Touched
  <2>7. ASSUME NEW j \in Id, ResetFailed(j) PROVE Final(i)
    BY <2>1, <2>3, <2>7, ResetTouches DEF Touched
  <2> QED
    BY <1>1, <2>3, <2>4, <2>5, <2>6, <2>7, OthersDoNotWrite DEF Writes
<1>2. Inv /\ [Next]_vars =>
        \A i \in Id \ doubled :
          /\ article[i].status = "succeeded" => article'[i].status = "succeeded"
          /\ Exhausted(article[i]) =>
                 \/ article'[i].status = "succeeded"
                 \/ article'[i].attempt = 0
                 \/ article'[i].wait <= article[i].wait
  BY <1>1
<1> QED
  BY <1>2, InvHolds, PTL DEF Spec, SettledIsFinal

\* Whatever sources, sites and windows there are: what a pass holds when it admits is
\* what the source's channels offered, each URL once and no more than the limit, and
\* below the limit nothing is missing (discover_article_urls, discover_sitemap_urls).
THEOREM DiscoveryIsCompleteHolds == Spec => []DiscoveryIsComplete
<1>1. Init => PassesInv /\ WayInv
  BY IdleIsEmpty DEF Init, PassesInv, WayInv, OnItsWay, Idle
<1>2. PassesInv /\ WayInv /\ [Next]_vars => (PassesInv /\ WayInv)'
  BY PassesStep, WayStep
<1>3. PassesInv /\ WayInv => DiscoveryIsComplete
  <2> SUFFICES ASSUME WayInv, NEW p \in Pass, pass[p].pc = "admit"
               PROVE  IsComplete(pass[p].found, Source[pass[p].source], pass[p].site, pass[p].window)
    BY DEF DiscoveryIsComplete
  <2> DEFINE r == pass[p]
  <2>1. /\ r.source \in 1..r.last /\ r.last \in 1..Len(Source) /\ r.site \in Site
        /\ r.found = Discover(Source[r.source], r.site, r.window)
    BY DEF WayInv, OnItsWay
  <2> HIDE DEF r
  <2>2. r.source \in DOMAIN Source
    BY <2>1, SourceFacts
  <2>3. IsSource(Source[r.source]) /\ IsSite(r.site)
    BY <2>1, <2>2, WorldAssumption DEF WorldAssumption
  <2>4. IsComplete(r.found, Source[r.source], r.site, r.window)
    BY <2>1, <2>3, Complete
  <2> QED
    BY <2>4 DEF r
<1> QED
  BY <1>1, <1>2, <1>3, PTL DEF Spec

-----------------------------------------------------------------------------
(***************************************************************************)
(* Types.  What is stored are URLs of pages that exist, under identities   *)
(* that some URL has: a pass only takes up what discovery found, or what a *)
(* failed row kept.                                                        *)
(***************************************************************************)

Delay == {FirstDelay, SecondDelay, DailyDelay}

RowTyped(row) ==
    /\ row.status \in {"absent", "succeeded", "failed"}
    /\ row.source \in 0..Len(Source)
    /\ row.url \in Url \cup {NoUrl}
    /\ row.attempt \in 0..MaxAttempts
    /\ row.wait <= Max(Delay)
    /\ row.html \in DOMAIN Html \cup {""}
    /\ row.at \in Nat
    /\ row.born \in 0..Cardinality(Id)
    /\ row.status # "absent" => row.url \in Url
    /\ row.status = "absent" => /\ row.source = 0 /\ row.url = NoUrl /\ row.attempt = 0
                                /\ row.html = "" /\ row.at = NoDate /\ row.born = 0

PassTyped(r) ==
    /\ r.pc \in {"idle", "discover", "admit", "ingest"}
    /\ r.source \in 0..Len(Source)
    /\ r.limit \in Nat
    /\ r.found \in Seq(Url) /\ r.retried \in Seq(Url)
    /\ r.todo \in SUBSET Url

RepairTyped ==
    /\ repair.after \in 0..Cardinality(Id)
    /\ repair.pc = "rows" => \A k \in DOMAIN repair.rows : repair.rows[k].html \in DOMAIN Html

TypesInv ==
    /\ \A i \in Id : RowTyped(article[i])
    /\ \A p \in Pass : PassTyped(pass[p])
    /\ RepairTyped
    /\ doubled \subseteq Id
    /\ faults \in 0..MaxFaults

LEMMA UrlFacts ==
    ASSUME NEW u \in Url
    PROVE  Normalize(u) \in Id /\ u.page \in DOMAIN Html /\ Target(u) \in Id
<1>1. Normalize(u) \in Id /\ u.page \in DOMAIN Html
  BY DEF Id, Url
<1> DEFINE c == Html[u.page].canonical
<1>2. CASE c = NoUrl
  BY <1>1, <1>2 DEF Target, IdentityUrl
<1>3. CASE c # NoUrl
  <2>1. c \in Canonical /\ c.page \in DOMAIN Html
    BY <1>1, <1>3, PageAssumption DEF Canonical, PageAssumption
  <2>2. Target(u) = Normalize(c)
    BY <1>3 DEF Target, IdentityUrl
  <2> HIDE DEF c
  <2>3. c \in Seen
    BY <2>1 DEF Seen
  <2>4. c \in Url
    BY <2>1, <2>3 DEF Url
  <2> QED
    BY <1>1, <2>2, <2>4 DEF Id
<1> QED
  BY <1>2, <1>3, <1>1

\* A link of a site that a source allows, with and without its fragment.
LEMMA InWorld ==
    ASSUME NEW k \in DOMAIN Source, NEW site \in Site, NEW u \in Listed(site), u # NoUrl,
           Allowed(u, Source[k])
    PROVE  u \in Url /\ Bare(u) \in Url
<1>1. u.page \in DOMAIN Html /\ u \in Seen
  BY PageAssumption DEF PageAssumption, Seen
<1>2. Normalize(u).page = u.page
  BY DEF Normalize
<1> QED
  BY <1>1, <1>2 DEF Url, Bare

LEMMA DiscoverTypes ==
    ASSUME NEW k \in DOMAIN Source, NEW site \in Site, NEW w
    PROVE  Discover(Source[k], site, w) \in Seq(Url)
<1> DEFINE source == Source[k]
           found == Discover(source, site, w)
           mapped == {site[o[1]].entries[o[2]].url : o \in Offers(source, site, w)}
           offered == mapped \cup FeedOffers(source, site, w) \cup SectionOffers(source, site)
<1>1. IsSource(source) /\ IsSite(site)
  BY WorldAssumption DEF WorldAssumption
<1>2. found \in Seq(Address) /\ ToSet(found) \subseteq offered
  BY <1>1, Complete DEF IsComplete
<1>3. \A name \in DOMAIN site : \A e \in ToSet(site[name].entries) : e.url \in Listed(site)
  BY DEF Listed
<1>4. ASSUME NEW name \in DOMAIN site, NEW e \in ToSet(site[name].entries), Qualifies(e, source, w)
      PROVE  e.url \in Url
  BY <1>3, <1>4, InWorld DEF Qualifies
<1>5. ASSUME NEW o \in Offers(source, site, w)
      PROVE  site[o[1]].entries[o[2]].url \in Url
  <2>0. PICK s \in DOMAIN site : \E n \in DOMAIN site[s].entries :
            o = <<s, n>> /\ Qualifies(site[s].entries[n], source, w)
    BY <1>5 DEF Offers, Reachable
  <2>1. PICK i \in DOMAIN site[s].entries :
            o = <<s, i>> /\ Qualifies(site[s].entries[i], source, w)
    BY <2>0
  <2>2. site[s].entries[i] \in ToSet(site[s].entries)
    BY <2>1 DEF ToSet
  <2> QED
    BY <1>4, <2>1, <2>2
<1>6. \A names : \A d \in Came(site, names) : \E name \in DOMAIN site : d = site[name]
  BY DEF Came
<1>7. FeedOffers(source, site, w) \subseteq Url
  BY <1>4, <1>6 DEF FeedOffers
<1>8. ASSUME NEW v \in SectionOffers(source, site)
      PROVE  v \in Url
  <2>1. PICK d \in Came(site, source.sections) : \E e \in ToSet(d.entries) :
            e.url # NoUrl /\ Allowed(Bare(e.url), source) /\ v = Bare(e.url)
    BY DEF SectionOffers
  <2>5. PICK name \in DOMAIN site : d = site[name]
    BY <1>6
  <2>2. PICK e \in ToSet(site[name].entries) :
            e.url # NoUrl /\ Allowed(Bare(e.url), source) /\ v = Bare(e.url)
    BY <2>1, <2>5
  <2>3. Bare(e.url).page = e.url.page
    BY DEF Bare, Normalize
  <2>4. Allowed(e.url, source)
    BY <2>2, <2>3 DEF Allowed
  <2> QED
    BY <1>3, <2>2, <2>4, InWorld
<1>9. offered \subseteq Url
  BY <1>5, <1>7, <1>8
<1> HIDE DEF offered, found
<1>10. ToSet(found) \subseteq Url
  BY <1>2, <1>9
<1>11. found \in Seq(Url)
  <2>1. Len(found) \in Nat /\ found \in [1..Len(found) -> Address] /\ DOMAIN found = 1..Len(found)
    BY <1>2, LenProperties
  <2>2. \A n \in 1..Len(found) : found[n] \in Url
    BY <1>10, <2>1 DEF ToSet
  <2>3. found \in [1..Len(found) -> Url]
    BY <2>1, <2>2
  <2> QED
    BY <2>1, <2>3
<1> QED
  BY <1>11 DEF found

-----------------------------------------------------------------------------
(* Rows keep their types.                                                  *)

LEMMA DelayTop ==
    /\ Max(Delay) \in Nat /\ Null <= Max(Delay) /\ 0 <= Max(Delay)
    /\ \A d \in Delay : d <= Max(Delay)
<1>1. Delay \subseteq Nat /\ Delay # {}
  BY FetchAssumption DEF FetchAssumption, Delay
<1>2. IsFiniteSet(Delay)
  <2>1. Delay = (({} \cup {FirstDelay}) \cup {SecondDelay}) \cup {DailyDelay}
    BY DEF Delay
  <2> QED
    BY <2>1, FS_EmptySet, FS_AddElement
<1>3. Max(Delay) \in Delay /\ \A d \in Delay : d <= Max(Delay)
  BY <1>1, <1>2, MaxOfNaturals
<1>4. Max(Delay) \in Nat /\ \A d \in Delay : d <= Max(Delay)
  BY <1>1, <1>3
<1> HIDE DEF Delay
<1>5. Null <= 0
  BY FetchAssumption DEF FetchAssumption, Null
<1> QED
  BY <1>4, <1>5, DelayTypes

LEMMA TouchesAreIds ==
    ASSUME NEW u \in Url
    PROVE  Touches(u) \subseteq Id
BY UrlFacts DEF Touches

\* The place of a new row in the order of creation.
LEMMA BornFits ==
    ASSUME NEW j \in Id, article[j].status = "absent"
    PROVE  Cardinality(Stored) + 1 \in 0..Cardinality(Id)
<1>1. j \notin Stored /\ Stored \cup {j} \subseteq Id
  BY DEF Stored
<1>2. IsFiniteSet(Id)
  BY UrlAssumption DEF UrlAssumption
<1>3. IsFiniteSet(Stored)
  BY <1>1, <1>2, FS_Subset
<1>4. Cardinality(Stored \cup {j}) = Cardinality(Stored) + 1
  BY <1>1, <1>3, FS_AddElement
<1>5. Cardinality(Stored \cup {j}) <= Cardinality(Id)
  BY <1>1, <1>2, FS_Subset
<1>6. Cardinality(Stored) \in Nat /\ Cardinality(Id) \in Nat
  BY <1>2, <1>3, FS_CardinalityType
<1> QED
  BY <1>4, <1>5, <1>6

LEMMA UpsertTypes ==
    ASSUME RowsInv, \A i \in Id : RowTyped(article[i]),
           NEW u \in Url, NEW s \in 0..Len(Source), NEW j, NEW new,
           Brought(j, u, new), Upsert(j, s, u, new)
    PROVE  \A i \in Id : RowTyped(article'[i])
<1> DEFINE fresh == [status |-> new.status, source |-> s, url |-> u, attempt |-> 1,
                     wait |-> new.wait, html |-> new.html, at |-> new.at,
                     born |-> Cardinality(Stored) + 1]
           next(row) == IF row.status = "absent" THEN fresh ELSE Merged(row, new)
           row == article[j]
<1>1. article' = [i \in Id |-> IF i = j THEN next(article[j]) ELSE article[i]]
  BY DEF Upsert, RowsInv
<1>2. j \in Id /\ RowInv(row) /\ RowTyped(row)
  BY TouchesAreIds DEF Brought, RowsInv
<1>3. /\ new.html \in DOMAIN Html \cup {""} /\ new.at \in Nat
      /\ new.status \in {"succeeded", "failed"} /\ new.status # "absent"
      /\ new.wait \in {Null, FirstDelay}
  <2>1. u.page \in DOMAIN Html /\ Html[u.page].at \in Nat
    BY UrlFacts, PageAssumption DEF PageAssumption
  <2>2. new.html \in {"", u.page} /\ new.status \in {"succeeded", "failed"}
        /\ new.wait \in {Null, FirstDelay}
    BY DEF Brought
  <2>3. new.at = NoDate \/ new.at = Html[u.page].at
    BY DEF Brought
  <2>4. new.at \in Nat
    BY <2>1, <2>3 DEF NoDate
  <2>5. new.html \in DOMAIN Html \cup {""}
    BY <2>1, <2>2
  <2>6. new.status # "absent"
    BY <2>2
  <2> QED
    BY <2>2, <2>4, <2>5, <2>6
<1>4. MaxAttempts \in Nat /\ 1 \in 0..MaxAttempts
  BY FetchAssumption DEF FetchAssumption
<1>5. ASSUME row.status = "absent" PROVE RowTyped(next(row))
  <2>1. /\ fresh.status = new.status /\ fresh.source = s /\ fresh.url = u /\ fresh.attempt = 1
        /\ fresh.wait = new.wait /\ fresh.html = new.html /\ fresh.at = new.at
        /\ fresh.born = Cardinality(Stored) + 1
    OBVIOUS
  <2>2. fresh.born \in 0..Cardinality(Id)
    BY <1>2, <1>5, <2>1, BornFits
  <2>3. fresh.wait <= Max(Delay)
    BY <1>3, <2>1, DelayTop DEF Delay
  <2>4. next(row) = fresh
    BY <1>5
  <2> HIDE DEF fresh, next
  <2> QED
    BY <1>3, <1>4, <2>1, <2>2, <2>3, <2>4 DEF RowTyped
<1>6. ASSUME row.status # "absent" PROVE RowTyped(next(row))
  <2> DEFINE m == Merged(row, new)
  <2>1. /\ Stores(row, m, new) /\ m.source = row.source /\ m.url = row.url
        /\ m.attempt = Min({row.attempt + 1, MaxAttempts})
        /\ m.wait \in {Null, SecondDelay, DailyDelay}
    BY <1>2, <1>3, <1>6, MergedRow
  <2>2. next(row) = m
    BY <1>6
  <2> HIDE DEF m, next, row
  <2>3. m.attempt \in 0..MaxAttempts
    <3>1. row.attempt \in 0..MaxAttempts
      BY <1>2 DEF RowTyped
    <3>2. row.attempt + 1 \in Nat
      BY <1>4, <3>1
    <3>3. m.attempt = IF row.attempt + 1 <= MaxAttempts THEN row.attempt + 1 ELSE MaxAttempts
      BY <1>4, <2>1, <3>2, MinOfTwo
    <3> QED
      BY <1>4, <3>2, <3>3
  <2>4. m.wait <= Max(Delay)
    BY <2>1, DelayTop DEF Delay
  <2> QED
    BY <1>2, <1>3, <1>6, <2>1, <2>2, <2>3, <2>4 DEF RowTyped, Stores
<1>7. RowTyped(next(row))
  BY <1>5, <1>6
<1> HIDE DEF next, row
<1> QED
  BY <1>1, <1>7 DEF row

\* A row that is edited in place.
LEMMA EditTypes ==
    ASSUME NEW row, NEW next, RowTyped(row), Touched(row, next),
           next.attempt = row.attempt \/ (row.status # "absent" /\ next.attempt = 0),
           next.wait <= Max(Delay), next.at \in Nat
    PROVE  RowTyped(next)
<1>1. 0 \in 0..MaxAttempts
  BY FetchAssumption DEF FetchAssumption
<1>2. next.status = "absent" => next.at = NoDate
  BY DEF Touched, RowInv
<1> QED
  BY <1>1, <1>2 DEF RowTyped, Touched

LEMMA RowsStepTypes ==
    ASSUME Inv, WayInv, TypesInv, [Next]_vars
    PROVE  \A i \in Id : RowTyped(article'[i])
<1> USE DEF Inv
<1>0. \A i \in Id : RowTyped(article[i])
  BY DEF TypesInv
<1>1. ASSUME NEW p \in Pass, NEW u \in pass[p].todo, Ingest(p, u)
      PROVE  \A i \in Id : RowTyped(article'[i])
  <2>1. u \in Url /\ pass[p].source \in 0..Len(Source)
    BY <1>1 DEF TypesInv, PassTyped
  <2>2. CASE article' = article
    BY <1>0, <2>2
  <2>3. ASSUME NEW j, NEW new, Brought(j, u, new), Upsert(j, pass[p].source, u, new)
        PROVE  \A i \in Id : RowTyped(article'[i])
    BY <1>0, <2>1, <2>3, UpsertTypes
  <2> QED
    BY <1>1, <2>2, <2>3, IngestStores
<1>2. CASE RepairRow
  <2> DEFINE row == repair.rows[1]
  <2>1. /\ \A i \in Id : /\ Touched(article[i], article'[i])
                         /\ article'[i].wait = article[i].wait
                         /\ article'[i].attempt = article[i].attempt
                         /\ article[i].at # NoDate => article'[i].at = article[i].at
        /\ article[row.id].at = NoDate => article'[row.id].at = Html[row.html].at
        /\ \A i \in Id : i # row.id => article'[i] = article[i]
    BY <1>2, RepairRowTouches
  <2>2. row.html \in DOMAIN Html
    <3>1. repair.pc = "rows" /\ repair.rows # <<>> /\ \E S : repair.rows \in Seq(S)
      BY <1>2 DEF RepairRow, RepairInv
    <3>2. 1 \in DOMAIN repair.rows
      BY <3>1
    <3> QED
      BY <3>1, <3>2 DEF TypesInv, RepairTyped
  <2>3. Html[row.html].at \in Nat
    BY <2>2, PageAssumption DEF PageAssumption
  <2> HIDE DEF row
  <2> SUFFICES ASSUME NEW i \in Id PROVE RowTyped(article'[i])
    OBVIOUS
  <2>4. article[i].at \in Nat /\ article[i].wait <= Max(Delay)
    BY <1>0 DEF RowTyped
  <2>5. article'[i].at \in Nat
    BY <2>1, <2>3, <2>4
  <2> QED
    BY <1>0, <2>1, <2>4, <2>5, EditTypes
<1>3. CASE Tick
  <2> SUFFICES ASSUME NEW i \in Id PROVE RowTyped(article'[i])
    OBVIOUS
  <2>1. /\ Touched(article[i], article'[i]) /\ article'[i].at = article[i].at
        /\ article'[i].attempt = article[i].attempt /\ article'[i].wait <= article[i].wait
    BY <1>3, TickTouches
  <2>2. article'[i].wait \in Int /\ article[i].wait \in Int
    BY <2>1 DEF Touched, RowInv, RowsInv
  <2>3. article[i].at \in Nat /\ article[i].wait <= Max(Delay)
    BY <1>0 DEF RowTyped
  <2>4. article'[i].wait <= Max(Delay)
    BY <2>1, <2>2, <2>3, DelayTop
  <2> QED
    BY <1>0, <2>1, <2>3, <2>4, EditTypes
<1>4. ASSUME NEW j \in Id, ResetFailed(j)
      PROVE  \A i \in Id : RowTyped(article'[i])
  <2>1. /\ \A i \in Id : i # j => article'[i] = article[i]
        /\ Touched(article[j], article'[j]) /\ article'[j].at = article[j].at
        /\ article'[j].attempt = 0 /\ article'[j].wait = Null /\ article[j].status = "failed"
    BY <1>4, ResetTouches
  <2>2. article[j].at \in Nat /\ article'[j].wait <= Max(Delay)
    BY <1>0, <2>1, DelayTop DEF RowTyped
  <2>3. RowTyped(article'[j])
    BY <1>0, <2>1, <2>2, EditTypes
  <2> QED
    BY <1>0, <2>1, <2>3
<1> QED
  BY <1>0, <1>1, <1>2, <1>3, <1>4, OthersDoNotWrite DEF Writes

-----------------------------------------------------------------------------
(* Passes keep their types.                                                *)

LEMMA TypesChange ==
    ASSUME PassesInv, \A p \in Pass : PassTyped(pass[p]),
           NEW p \in Pass, NEW m, PassRecord(m), PassTyped(m), pass' = [pass EXCEPT ![p] = m]
    PROVE  \A q \in Pass : PassTyped(pass'[q])
<1>1. pass'[p] = m /\ \A q \in Pass \ {p} : pass'[q] = pass[q]
  BY PassChanges
<1> QED
  BY <1>1

LEMMA IdleIsTyped == PassTyped(Idle) /\ PassRecord(Idle)
<1>1. 0 \in 0..Len(Source)
  BY SourceFacts
<1>2. <<>> \in Seq(Url)
  BY EmptySeq
<1> QED
  BY <1>1, <1>2, IdleIsEmpty DEF PassTyped, Idle

LEMMA LimitType == ASSUME NEW w PROVE DiscoveryLimit(w) \in Nat
BY LimitsAssumption, MaxOfTwo DEF DiscoveryLimit, LimitsAssumption

\* The rows of due failures have URLs.
LEMMA RetriedTypes ==
    ASSUME Inv, \A i \in Id : RowTyped(article[i]), NEW s, NEW limit \in Nat,
           NEW due \in DueFailed(s, limit), NEW listed
    PROVE  LET stored == [k \in DOMAIN due |-> article[due[k]].url]
           IN  Select(stored, {u \in ToSet(stored) : Normalize(u) \notin listed}) \in Seq(Url)
<1> DEFINE D == {i \in Id : Due(article[i], s)}
           stored == [k \in DOMAIN due |-> article[due[k]].url]
<1>1. PICK q \in SetToSeqs(D) : due = Cut(q, limit)
  BY DEF DueFailed, Cut
<1>2. IsFiniteSet(D) /\ Cardinality(D) \in Nat
  BY UrlAssumption, FS_Subset, FS_CardinalityType DEF UrlAssumption
<1>3. q \in [1..Cardinality(D) -> D]
  BY DEF SetToSeqs
<1>4. \A i \in D : article[i].url \in Url
  BY DEF Due, RowTyped
<1> HIDE DEF D
<1>5. q \in Seq(D)
  BY <1>2, <1>3
<1>6. due \in Seq(D)
  BY <1>1, <1>5, CutFacts
<1>7. stored \in Seq(Url)
  <2>1. Len(due) \in Nat /\ DOMAIN due = 1..Len(due) /\ \A k \in 1..Len(due) : due[k] \in D
    BY <1>6, LenProperties
  <2>2. stored \in [1..Len(due) -> Url]
    BY <1>4, <2>1
  <2> QED
    BY <2>1, <2>2
<1> HIDE DEF stored
<1>8. Select(stored, {u \in ToSet(stored) : Normalize(u) \notin listed}) \in Seq(Url)
  BY <1>7, SelectFacts
<1> QED
  BY <1>8 DEF stored

LEMMA DiscoverSourceTypes ==
    ASSUME Inv, WayInv, TypesInv, NEW p \in Pass, DiscoverSource(p)
    PROVE  \A q \in Pass : PassTyped(pass'[q])
<1> USE DEF Inv
<1> DEFINE r == pass[p]
           limit == DiscoveryLimit(r.window)
           Urled(due) == [k \in DOMAIN due |-> article[due[k]].url]
           Retried(site, due) ==
               LET listed == {Normalize(u) : u \in ToSet(Discovered[r.source][site][r.window])}
               IN  Select(Urled(due), {u \in ToSet(Urled(due)) : Normalize(u) \notin listed})
           m(site, due) == Reread(r, site, Discovered[r.source][site][r.window], Retried(site, due))
<1>1. PassRecord(r) /\ OnItsWay(r) /\ PassTyped(r) /\ r.pc = "discover"
  BY DEF PassesInv, WayInv, DiscoverSource, TypesInv
<1>2. PICK site \in Site, due \in DueFailed(r.source, limit) : pass' = [pass EXCEPT ![p] = m(site, due)]
  BY DEF DiscoverSource, Moves, Reread
<1>3. r.source \in DOMAIN Source /\ r.window \in Window \cup {Unbounded}
  <2> HIDE DEF r
  <2> QED
    BY <1>1, SourceFacts DEF OnItsWay
<1>4. Discovered[r.source][site][r.window] = Discover(Source[r.source], site, r.window)
  <2> HIDE DEF r
  <2> QED
    BY <1>3 DEF Discovered
<1>5. Discovered[r.source][site][r.window] \in Seq(Url)
  BY <1>3, <1>4, DiscoverTypes
<1>6. Retried(site, due) \in Seq(Url)
  <2>1. limit \in Nat
    BY LimitType
  <2>2. \A i \in Id : RowTyped(article[i])
    BY DEF TypesInv
  <2>3. PICK listed : listed = {Normalize(u) : u \in ToSet(Discovered[r.source][site][r.window])}
    OBVIOUS
  <2>4. Retried(site, due) =
            Select(Urled(due), {u \in ToSet(Urled(due)) : Normalize(u) \notin listed})
    BY <2>3
  <2> HIDE DEF limit, Retried
  <2>5. due \in DueFailed(r.source, limit)
    BY <1>2
  <2> HIDE DEF r
  <2>6. Select(Urled(due), {u \in ToSet(Urled(due)) : Normalize(u) \notin listed}) \in Seq(Url)
    BY <2>1, <2>2, <2>5, RetriedTypes
  <2> QED
    BY <2>4, <2>6
<1> HIDE DEF Retried
<1>7. /\ PassRecord(m(site, due)) /\ m(site, due).todo = r.todo
      /\ SameTurn(m(site, due), r) /\ m(site, due).pc = "admit"
      /\ m(site, due).found = Discovered[r.source][site][r.window]
      /\ m(site, due).retried = Retried(site, due)
  <2> HIDE DEF r
  <2> QED
    BY <1>1, RereadPass
<1>8. PassTyped(m(site, due))
  <2> HIDE DEF m, r
  <2> QED
    BY <1>1, <1>5, <1>6, <1>7 DEF PassTyped, SameTurn
<1> HIDE DEF m, r
<1> QED
  BY <1>2, <1>7, <1>8, TypesChange DEF TypesInv

LEMMA AdmitTypes ==
    ASSUME Inv, TypesInv, NEW p \in Pass, Admit(p)
    PROVE  \A q \in Pass : PassTyped(pass'[q])
<1> USE DEF Inv
<1> DEFINE r == pass[p]
           all == r.found \o r.retried
           cut == IF r.limit = 0 THEN all ELSE SubSeq(all, 1, Min({r.limit, Len(all)}))
           todo == {u \in ToSet(cut) : ~Skippable(article[Normalize(u)])}
           m == Admitted(r, todo)
<1>1. PassRecord(r) /\ PassTyped(r)
  BY DEF PassesInv, TypesInv
<1>2. pass' = [pass EXCEPT ![p] = m]
  <2>1. pass' = [pass EXCEPT ![p] = [r EXCEPT !.pc = "ingest", !.todo = todo,
                     !.site = NoSite, !.found = <<>>, !.retried = <<>>]]
    BY DEF Admit
  <2> QED
    BY <2>1 DEF Admitted
<1> HIDE DEF r
<1>3. all \in Seq(Url)
  BY <1>1, ConcatFacts DEF PassTyped
<1> HIDE DEF all
<1>4. cut \in Seq(Url)
  <2>1. CASE r.limit = 0
    BY <1>3, <2>1
  <2>2. CASE r.limit # 0
    <3>1. cut = Cut(all, r.limit)
      BY <2>2 DEF Cut
    <3>2. r.limit \in Nat
      BY <1>1 DEF PassTyped
    <3> QED
      BY <1>3, <3>1, <3>2, CutFacts
  <2> QED
    BY <2>1, <2>2
<1> HIDE DEF cut
<1>5. todo \subseteq Url
  <2>1. ToSet(cut) \subseteq Url
    BY <1>4, LenProperties DEF ToSet
  <2> QED
    BY <2>1
<1> HIDE DEF todo
<1>6. /\ PassRecord(m) /\ m.todo = todo /\ SameTurn(m, r) /\ m.pc = "ingest"
      /\ m.found = <<>> /\ m.retried = <<>>
  BY <1>1, AdmittedPass
<1> HIDE DEF m
<1>7. <<>> \in Seq(Url)
  BY EmptySeq
<1>8. PassTyped(m)
  BY <1>1, <1>5, <1>6, <1>7 DEF PassTyped, SameTurn
<1> QED
  BY <1>2, <1>6, <1>8, TypesChange DEF TypesInv

LEMMA NextSourceTypes ==
    ASSUME Inv, WayInv, TypesInv, NEW p \in Pass, pass[p].pc # "idle", Moves(p, NextSource(p))
    PROVE  \A q \in Pass : PassTyped(pass'[q])
<1> USE DEF Inv
<1> DEFINE r == pass[p]
           m == Turned(r, r.source + 1)
<1>1. PassRecord(r) /\ OnItsWay(r) /\ PassTyped(r) /\ r.pc # "idle"
  BY DEF PassesInv, WayInv, TypesInv
<1>2. CASE r.source = r.last
  BY <1>2, IdleIsTyped, TypesChange DEF Moves, NextSource, TypesInv
<1>3. CASE r.source # r.last
  <2>1. pass' = [pass EXCEPT ![p] = m]
    BY <1>3 DEF Moves, NextSource, Turned
  <2>2. /\ PassRecord(m) /\ m.todo = r.todo /\ m.pc = "discover" /\ m.source = r.source + 1
        /\ m.limit = r.limit /\ m.found = <<>> /\ m.retried = <<>>
    BY <1>1, TurnedPass
  <2>3. <<>> \in Seq(Url)
    BY EmptySeq
  <2> HIDE DEF m, r
  <2>4. m.source \in 0..Len(Source)
    BY <1>1, <1>3, <2>2, SourceFacts DEF OnItsWay
  <2>5. PassTyped(m)
    BY <1>1, <2>2, <2>3, <2>4 DEF PassTyped
  <2> QED
    BY <2>1, <2>2, <2>5, TypesChange DEF TypesInv
<1> QED
  BY <1>2, <1>3

LEMMA IngestTypes ==
    ASSUME Inv, TypesInv, NEW p \in Pass, NEW u, Ingest(p, u)
    PROVE  \A q \in Pass : PassTyped(pass'[q])
<1> USE DEF Inv
<1> DEFINE r == pass[p]
           todo == r.todo \ {u}
           m == Left(r, todo)
<1>1. PassRecord(r) /\ PassTyped(r)
  BY DEF PassesInv, TypesInv
<1>2. pass' = [pass EXCEPT ![p] = m]
  <2>1. pass' = [pass EXCEPT ![p].todo = pass[p].todo \ {u}]
    BY DEF Ingest, Done
  <2> QED
    BY <2>1, Zenon DEF Left
<1>3. PassRecord(m) /\ SameTurn(m, r) /\ m.pc = r.pc /\ m.todo = todo
      /\ m.found = r.found /\ m.retried = r.retried
  BY <1>1, LeftPass
<1> HIDE DEF m, r
<1>4. PassTyped(m)
  BY <1>1, <1>3 DEF PassTyped, SameTurn
<1> QED
  BY <1>2, <1>3, <1>4, TypesChange DEF TypesInv

LEMMA StartTypes ==
    ASSUME Inv, TypesInv, NEW p \in Pass, NEW n \in 0..Len(Source), NEW l, NEW w,
           NEW limit \in Nat, NEW m,
           m = [pc |-> "discover", source |-> n, last |-> l, window |-> w, limit |-> limit,
                site |-> NoSite, found |-> <<>>, retried |-> <<>>, todo |-> {}],
           Moves(p, m)
    PROVE  \A q \in Pass : PassTyped(pass'[q])
<1>1. PassRecord(m)
  BY ONLY m = [pc |-> "discover", source |-> n, last |-> l, window |-> w, limit |-> limit,
               site |-> NoSite, found |-> <<>>, retried |-> <<>>, todo |-> {}]
     DEF PassRecord
<1>2. <<>> \in Seq(Url)
  BY EmptySeq
<1>3. PassTyped(m)
  BY <1>2 DEF PassTyped
<1> QED
  BY <1>1, <1>3, TypesChange DEF Moves, TypesInv, Inv

LEMMA PassesStepTypes ==
    ASSUME Inv, WayInv, TypesInv, [Next]_vars
    PROVE  \A q \in Pass : PassTyped(pass'[q])
<1>1. CASE StartTimer
  <2>1. PICK m : m = [Idle EXCEPT !.pc = "discover", !.source = 1, !.last = Len(Source)]
    OBVIOUS
  <2>2. m = [pc |-> "discover", source |-> 1, last |-> Len(Source), window |-> Unbounded,
             limit |-> 0, site |-> NoSite, found |-> <<>>, retried |-> <<>>, todo |-> {}]
    BY <2>1 DEF Idle
  <2>3. Moves("timer", m)
    BY <1>1, <2>1 DEF StartTimer
  <2>4. "timer" \in Pass /\ 1 \in 0..Len(Source)
    BY SourceFacts DEF Pass
  <2> QED
    BY <2>2, <2>3, <2>4, StartTypes
<1>2. ASSUME NEW first \in DOMAIN Source, NEW last \in DOMAIN Source, NEW w \in Window,
             NEW n \in Limit, StartManual(first, last, w, n)
      PROVE  \A q \in Pass : PassTyped(pass'[q])
  <2>1. PICK m : m = [Idle EXCEPT !.pc = "discover", !.source = first, !.last = last,
                                  !.window = w, !.limit = n]
    OBVIOUS
  <2>2. m = [pc |-> "discover", source |-> first, last |-> last, window |-> w,
             limit |-> n, site |-> NoSite, found |-> <<>>, retried |-> <<>>, todo |-> {}]
    BY <2>1 DEF Idle
  <2>3. Moves("manual", m)
    BY <1>2, <2>1 DEF StartManual
  <2>4. "manual" \in Pass /\ first \in 0..Len(Source) /\ n \in Nat
    BY SourceFacts, FetchAssumption DEF Pass, FetchAssumption
  <2> QED
    BY <2>2, <2>3, <2>4, StartTypes
<1>3. ASSUME NEW p \in Pass, StepPass(p) \/ SourceFails(p) \/ Die(p)
      PROVE  \A q \in Pass : PassTyped(pass'[q])
  <2>1. CASE DiscoverSource(p)
    BY <2>1, DiscoverSourceTypes
  <2>2. CASE Admit(p)
    BY <2>2, AdmitTypes
  <2>3. CASE FinishSource(p)
    BY <2>3, NextSourceTypes DEF FinishSource
  <2>4. ASSUME NEW u, Ingest(p, u) PROVE \A q \in Pass : PassTyped(pass'[q])
    BY <2>4, IngestTypes
  <2>5. CASE SourceFails(p)
    BY <2>5, NextSourceTypes DEF SourceFails
  <2>6. CASE Die(p)
    <3>1. pass' = [pass EXCEPT ![p] = Idle]
      BY <2>6 DEF Die
    <3> QED
      BY <3>1, IdleIsTyped, TypesChange DEF TypesInv, Inv
  <2> QED
    BY <1>3, <2>1, <2>2, <2>3, <2>4, <2>5, <2>6 DEF StepPass
<1>4. CASE UNCHANGED pass
  BY <1>4 DEF TypesInv
<1> QED
  BY <1>1, <1>2, <1>3, <1>4 DEF Next, vars, StartRepair, RepairPage, RepairRow, EndRepair,
     ResetFailed, Tick

-----------------------------------------------------------------------------
(* The repair, the history and the initial state.                          *)

LEMMA RepairStepTypes ==
    ASSUME Inv, TypesInv, [Next]_vars
    PROVE  RepairTyped'
<1> USE DEF Inv
<1>0. RepairTyped /\ 0 \in 0..Cardinality(Id)
  <2>1. Cardinality(Id) \in Nat
    BY UrlAssumption, FS_CardinalityType DEF UrlAssumption
  <2> QED
    BY <2>1 DEF TypesInv
<1>1. PICK a, b, c, d : repair = [pc |-> a, after |-> b, rows |-> c, missing |-> d]
  BY DEF RepairInv
<1>2. repair.after = b /\ repair.rows = c /\ repair.pc = a
  BY ONLY <1>1
<1>3. CASE StartRepair
  <2>1. PICK r : r = [NoRepair EXCEPT !.pc = "page", !.missing = {i \in Id : Repairable(i)}]
    OBVIOUS
  <2>2. r.pc = "page" /\ r.after = 0
    BY <2>1 DEF NoRepair
  <2>3. repair' = r
    BY <1>3, <2>1 DEF StartRepair
  <2> QED
    BY <1>0, <2>2, <2>3 DEF RepairTyped
<1>4. CASE RepairPage
  <2> DEFINE S == {i \in Id : Repairable(i) /\ article[i].born > repair.after}
  <2>1. PICK rows \in Oldest(S, RepairBatch) : ReadsPage(rows, article[Last(rows)].born)
    BY <1>4 DEF RepairPage
  <2>2. PICK n \in 0..RepairBatch : rows \in [1..n -> S]
    BY <2>1 DEF Oldest
  <2>3. n \in Nat /\ Len(rows) = n /\ DOMAIN rows = 1..n
    BY <2>2, FetchAssumption DEF FetchAssumption
  <2>4. PICK r : r = repair'
    OBVIOUS
  <2>5. CASE rows = <<>>
    <3>1. r = [pc |-> "done", after |-> b, rows |-> c, missing |-> d]
      BY <1>1, <2>1, <2>4, <2>5 DEF ReadsPage
    <3>2. r.pc = "done" /\ r.after = b
      BY ONLY <3>1
    <3> QED
      BY <1>0, <1>2, <2>4, <3>2 DEF RepairTyped
  <2>6. CASE rows # <<>>
    <3> DEFINE Page == [k \in DOMAIN rows |-> [id |-> rows[k], html |-> article[rows[k]].html]]
               last == article[Last(rows)].born
    <3>1. r = [pc |-> "rows", after |-> last, rows |-> Page, missing |-> d]
      BY <1>1, <2>1, <2>4, <2>6 DEF ReadsPage
    <3>2. r.pc = "rows" /\ r.after = last /\ r.rows = Page
      BY ONLY <3>1
    <3>3. \A i \in S : article[i].html \in DOMAIN Html /\ article[i].born \in 0..Cardinality(Id)
      BY DEF TypesInv, RowTyped, Repairable
    <3>4. n \in DOMAIN rows /\ Last(rows) = rows[n] /\ \A k \in DOMAIN rows : rows[k] \in S
      <4> HIDE DEF S
      <4> QED
        BY <2>2, <2>3, <2>6 DEF Last
    <3>5. last \in 0..Cardinality(Id)
      BY <3>3, <3>4
    <3>6. DOMAIN Page = DOMAIN rows /\ \A k \in DOMAIN Page : Page[k].html \in DOMAIN Html
      BY <3>3, <3>4
    <3> HIDE DEF Page, last
    <3> QED
      BY <2>4, <3>2, <3>5, <3>6 DEF RepairTyped
  <2> QED
    BY <2>5, <2>6
<1>5. CASE RepairRow
  <2> DEFINE rest == Tail(repair.rows)
             pc == IF Len(repair.rows) = 1 THEN "page" ELSE "rows"
  <2>1. repair.pc = "rows" /\ repair' = [repair EXCEPT !.rows = rest, !.pc = pc]
    BY <1>5 DEF RepairRow
  <2>2. PICK S : repair.rows \in Seq(S) /\ repair.rows # <<>>
    BY <2>1 DEF RepairInv
  <2>3. \A k \in DOMAIN rest : k + 1 \in DOMAIN repair.rows /\ rest[k] = repair.rows[k + 1]
    BY <2>2
  <2> HIDE DEF rest, pc
  <2>4. PICK r : r = repair'
    OBVIOUS
  <2>5. r = [pc |-> pc, after |-> b, rows |-> rest, missing |-> d]
    BY <1>1, <2>1, <2>4
  <2>6. r.after = b /\ r.rows = rest
    BY ONLY <2>5
  <2>7. \A k \in DOMAIN rest : rest[k].html \in DOMAIN Html
    BY <1>0, <2>1, <2>3 DEF RepairTyped
  <2> QED
    BY <1>0, <1>2, <2>4, <2>6, <2>7 DEF RepairTyped
<1>6. CASE EndRepair
  <2>1. NoRepair.pc = "idle" /\ NoRepair.after = 0
    BY DEF NoRepair
  <2>2. repair' = NoRepair
    BY <1>6 DEF EndRepair
  <2> QED
    BY <1>0, <2>1, <2>2 DEF RepairTyped
<1>7. CASE UNCHANGED repair
  BY <1>0, <1>7 DEF RepairTyped
<1> QED
  BY <1>3, <1>4, <1>5, <1>6, <1>7
  DEF Next, vars, StepPass, StartTimer, StartManual, DiscoverSource, Admit, FinishSource,
      SourceFails, Die, Ingest, ResetFailed, Tick

LEMMA HistoryStep ==
    ASSUME doubled \subseteq Id, faults \in 0..MaxFaults, [Next]_vars
    PROVE  doubled' \subseteq Id /\ faults' \in 0..MaxFaults
<1>1. \A ps : Remembered(ps) \subseteq Id
  BY DEF Remembered, Doubles
<1>2. doubled' = doubled \/ \E ps : doubled' = Remembered(ps)
  <2>1. ASSUME NEW p, Admit(p) \/ Die(p) PROVE \E ps : doubled' = Remembered(ps)
    BY <2>1 DEF Admit, Die
  <2>2. ASSUME NEW p, NEW u, Ingest(p, u) PROVE \E ps : doubled' = Remembered(ps)
    BY <2>2 DEF Ingest, Done
  <2> QED
    BY <2>1, <2>2
    DEF Next, vars, StepPass, StartTimer, StartManual, DiscoverSource, FinishSource, SourceFails,
        StartRepair, RepairPage, RepairRow, EndRepair, ResetFailed, Tick
<1>3. faults' = faults \/ Fault
  BY DEF Next, vars, StepPass, StartTimer, StartManual, DiscoverSource, Admit, FinishSource,
         SourceFails, Die, Ingest, FetchFails, FetchSucceeds, FetchRaises,
         StartRepair, RepairPage, RepairRow, EndRepair, ResetFailed, Tick
<1>4. faults' \in 0..MaxFaults
  BY <1>3, FetchAssumption DEF Fault, FetchAssumption
<1> QED
  BY <1>1, <1>2, <1>4

\* A row of an earlier release is one of as many as there are identities at least.
LEMMA LegacyTypes ==
    ASSUME NEW q \in Legacy, NEW k \in DOMAIN q
    PROVE  RowTyped(LegacyRow(q, k))
<1>1. q \in Seq(Url) /\ \A i, j \in DOMAIN q : Normalize(q[i]) = Normalize(q[j]) => i = j
  BY UrlAssumption DEF UrlAssumption
<1>2. Len(q) \in Nat /\ DOMAIN q = 1..Len(q) /\ \A i \in 1..Len(q) : q[i] \in Url
  BY <1>1, LenProperties
<1> DEFINE ids == [i \in 1..Len(q) |-> Normalize(q[i])]
<1>3. ids \in Seq(Id) /\ Len(ids) = Len(q) /\ DOMAIN ids = 1..Len(q)
  <2>1. ids \in [1..Len(q) -> Id]
    BY <1>2, UrlFacts
  <2> QED
    BY <1>2, <2>1
<1>4. Distinct(ids)
  BY <1>1, <1>2, <1>3 DEF Distinct
<1>5. ToSet(ids) \subseteq Id
  BY <1>3, LenProperties DEF ToSet
<1> HIDE DEF ids
<1>6. Cardinality(ToSet(ids)) = Len(q)
  BY <1>3, <1>4, SizeOfList
<1>7. Len(q) <= Cardinality(Id) /\ Cardinality(Id) \in Nat
  BY <1>5, <1>6, UrlAssumption, FS_Subset, FS_CardinalityType DEF UrlAssumption
<1>8. k \in 0..Cardinality(Id)
  BY <1>2, <1>7
<1> DEFINE row == LegacyRow(q, k)
<1>9. /\ row.status = "succeeded" /\ row.source = 1 /\ row.url = q[k] /\ row.attempt = 1
      /\ row.wait = Null /\ row.html = q[k].page /\ row.at = NoDate /\ row.born = k
  BY DEF LegacyRow
<1> HIDE DEF row
<1>10. q[k] \in Url /\ q[k].page \in DOMAIN Html
  BY <1>2, UrlFacts
<1>11. 1 \in 0..Len(Source) /\ 1 \in 0..MaxAttempts
  BY SourceFacts, FetchAssumption DEF FetchAssumption
<1>12. row.at \in Nat /\ row.wait <= Max(Delay)
  BY <1>9, DelayTop DEF NoDate
<1>13. row.html \in DOMAIN Html \cup {""} /\ row.url \in Url \cup {NoUrl}
  BY <1>9, <1>10
<1>14. RowTyped(row)
  BY <1>8, <1>9, <1>10, <1>11, <1>12, <1>13 DEF RowTyped
<1> QED
  BY <1>14 DEF row

LEMMA AbsentTypes == RowTyped(Absent)
<1> DEFINE row == Absent
<1>1. /\ row.status = "absent" /\ row.source = 0 /\ row.url = NoUrl /\ row.attempt = 0
      /\ row.wait = Null /\ row.html = "" /\ row.at = NoDate /\ row.born = 0
  BY DEF Absent
<1>2. 0 \in 0..Len(Source) /\ 0 \in 0..MaxAttempts /\ 0 \in 0..Cardinality(Id)
  <2>1. Cardinality(Id) \in Nat
    BY UrlAssumption, FS_CardinalityType DEF UrlAssumption
  <2> QED
    BY <2>1, SourceFacts, FetchAssumption DEF FetchAssumption
<1> HIDE DEF row
<1>3. row.at \in Nat /\ row.wait <= Max(Delay)
  <2>1. row.at = 0 /\ row.wait = Null
    BY <1>1 DEF NoDate
  <2> QED
    BY ONLY <2>1, DelayTop
<1>4. row.html \in DOMAIN Html \cup {""} /\ row.url \in Url \cup {NoUrl}
  BY <1>1
<1>5. RowTyped(row)
  BY <1>1, <1>2, <1>3, <1>4 DEF RowTyped
<1> QED
  BY <1>5 DEF row

LEMMA InitTypes == Init => TypesInv
<1> SUFFICES ASSUME Init PROVE TypesInv
  OBVIOUS
<1>1. ASSUME NEW i \in Id PROVE RowTyped(article[i])
  <2>1. PICK q \in Legacy :
            article = [j \in Id |-> IF \E k \in DOMAIN q : Normalize(q[k]) = j
                                THEN LegacyRow(q, CHOOSE k \in DOMAIN q : Normalize(q[k]) = j)
                                ELSE Absent]
    BY DEF Init
  <2> QED
    BY <2>1, LegacyTypes, AbsentTypes
<1>2. \A p \in Pass : PassTyped(pass[p])
  BY IdleIsTyped DEF Init
<1>3. RepairTyped
  <2>1. NoRepair.pc = "idle" /\ NoRepair.after = 0
    BY DEF NoRepair
  <2>2. Cardinality(Id) \in Nat
    BY UrlAssumption, FS_CardinalityType DEF UrlAssumption
  <2> QED
    BY <2>1, <2>2 DEF Init, RepairTyped
<1>4. doubled \subseteq Id /\ faults \in 0..MaxFaults
  BY FetchAssumption DEF Init, FetchAssumption
<1> QED
  BY <1>1, <1>2, <1>3, <1>4 DEF TypesInv

LEMMA TypesStep ==
    ASSUME Inv, WayInv, TypesInv, [Next]_vars
    PROVE  TypesInv'
<1>1. doubled' \subseteq Id /\ faults' \in 0..MaxFaults
  BY HistoryStep DEF TypesInv
<1>2. RepairTyped' /\ \A p \in Pass : PassTyped(pass'[p])
  BY RepairStepTypes, PassesStepTypes
<1>3. \A i \in Id : RowTyped(article'[i])
  BY RowsStepTypes
<1> QED
  BY <1>1, <1>2, <1>3 DEF TypesInv

LEMMA TypesGiveTypeOK ==
    ASSUME Inv, TypesInv
    PROVE  TypeOK
<1> USE DEF Inv
<1>1. ASSUME NEW i \in Id
      PROVE  /\ article[i] \in Row
             /\ article[i].status = "absent" <=> article[i] = [Absent EXCEPT !.wait = article[i].wait]
  <2>1. PICK row : row = article[i]
    OBVIOUS
  <2>2. RowInv(row) /\ RowTyped(row)
    BY <2>1 DEF RowsInv, TypesInv
  <2>3. PICK st, so, ur, an, wa, ht, da, bo :
            row = [status |-> st, source |-> so, url |-> ur, attempt |-> an, wait |-> wa,
                   html |-> ht, at |-> da, born |-> bo]
    BY <2>2 DEF RowInv
  <2>4. /\ row.status = st /\ row.source = so /\ row.url = ur /\ row.attempt = an
        /\ row.wait = wa /\ row.html = ht /\ row.at = da /\ row.born = bo
    BY ONLY <2>3
  <2>5. row \in Row
    <3>1. wa \in Null..Max(Delay)
      <4>1. wa \in Int /\ Null <= wa
        BY <2>2, <2>4 DEF RowInv
      <4>2. wa <= Max(Delay)
        BY <2>2, <2>4 DEF RowTyped
      <4>3. Null \in Int /\ Max(Delay) \in Int
        BY DelayTypes, DelayTop
      <4> QED
        BY ONLY <4>1, <4>2, <4>3
    <3>2. /\ st \in {"absent", "succeeded", "failed"} /\ so \in 0..Len(Source)
          /\ ur \in Url \cup {NoUrl} /\ an \in 0..MaxAttempts
          /\ ht \in DOMAIN Html \cup {""} /\ da \in Nat /\ bo \in 0..Cardinality(Id)
      BY <2>2, <2>4 DEF RowTyped
    <3> QED
      BY ONLY <2>3, <3>1, <3>2 DEF Row, Delay
  <2>6. PICK none : none = [Absent EXCEPT !.wait = row.wait]
    OBVIOUS
  <2>7. none = [status |-> "absent", source |-> 0, url |-> NoUrl, attempt |-> 0, wait |-> wa,
                html |-> "", at |-> NoDate, born |-> 0]
    BY <2>4, <2>6 DEF Absent
  <2>8. row.status = "absent" => row = none
    BY <2>2, <2>3, <2>4, <2>7 DEF RowTyped
  <2>9. row = none => row.status = "absent"
    <3>1. none.status = "absent"
      BY ONLY <2>7
    <3> QED
      BY ONLY <3>1
  <2> QED
    BY <2>1, <2>5, <2>6, <2>8, <2>9
<1>2. article \in [Id -> Row]
  BY <1>1 DEF RowsInv
<1>3. ASSUME NEW p \in Pass
      PROVE  /\ pass[p].pc \in {"idle", "discover", "admit", "ingest"}
             /\ pass[p].source \in 0..Len(Source)
             /\ ToSet(pass[p].found \o pass[p].retried) \subseteq Url
             /\ pass[p].todo \subseteq Url
  <2>1. PassTyped(pass[p])
    BY DEF TypesInv
  <2>2. pass[p].found \o pass[p].retried \in Seq(Url)
    BY <2>1, ConcatFacts DEF PassTyped
  <2>3. ToSet(pass[p].found \o pass[p].retried) \subseteq Url
    <3> DEFINE all == pass[p].found \o pass[p].retried
    <3>1. all \in Seq(Url)
      BY <2>2
    <3> HIDE DEF all
    <3>2. ToSet(all) \subseteq Url
      BY <3>1, LenProperties DEF ToSet
    <3> QED
      BY <3>2 DEF all
  <2> QED
    BY <2>1, <2>3 DEF PassTyped
<1> QED
  BY <1>1, <1>2, <1>3 DEF TypeOK, TypesInv, RepairTyped, RepairInv

\* Rows, passes and the repair have their types: whatever a pass takes up and whatever
\* row it stores is a URL of a page, under an identity some URL has, and the order of
\* creation never outgrows the identities (upsert_article, skippable_identity_urls).
THEOREM TypeCorrect == Spec => []TypeOK
<1>1. Init => PassesInv /\ WayInv
  BY IdleIsEmpty DEF Init, PassesInv, WayInv, OnItsWay, Idle
<1>2. PassesInv /\ WayInv /\ [Next]_vars => (PassesInv /\ WayInv)'
  BY PassesStep, WayStep
<1>3. Inv /\ WayInv /\ TypesInv /\ [Next]_vars => TypesInv'
  BY TypesStep
<1>4. Inv /\ TypesInv => TypeOK
  BY TypesGiveTypeOK
<1> QED
  BY <1>1, <1>2, <1>3, <1>4, InitTypes, InvHolds, PTL DEF Spec
=============================================================================
