------------------------- MODULE CaseCurationProofs -------------------------
(***************************************************************************)
(* Proofs about the curation of cases, for any articles, any number of     *)
(* cases, revisions, handlers and queued jobs, and commits that may fail.  *)
(*                                                                         *)
(* The argument is about single rows of the cases table: RowInv says what  *)
(* every row satisfies, Evolves how a row may change in one step, and each *)
(* audit keeps in SnapInv what it knows of its row however it evolves.     *)
(***************************************************************************)
EXTENDS CaseCuration, TLAPS, FiniteSetTheorems,
        SequenceTheorems, WellFoundedInduction

(* The count is the number of links, an audited revision is one the case   *)
(* has had, and the current one was audited with the links of today.       *)
RowInv(r) ==
    /\ r \in Row
    /\ IsFiniteSet(r.links)
    /\ r.count = Cardinality(r.links)
    /\ r.audited <= r.rev
    /\ r.audited = r.rev => r.seen = r.links

(* Revisions never go back, links change with the revision only, and the   *)
(* dossier of a terminal case does not change at all.                      *)
Evolves(r, q) ==
    r.status # "absent" =>
        /\ q.status # "absent"
        /\ r.rev <= q.rev
        /\ q.links # r.links => r.rev < q.rev
        /\ r.status \in {"hidden", "merged"} =>
               q.status = r.status /\ q.links = r.links /\ q.into = r.into

(* What a handler's snapshot s says of the row r of its case.              *)
SnapInv(s, r) ==
    /\ r.status # "absent"
    /\ s.rev <= r.rev
    /\ (s.phase = "cards" /\ r.status = "active" /\ r.rev = s.rev) => r.links = s.articles

(* A duplicate audit compares a case with others.                          *)
PairInv(p) == p.case \notin p.rest /\ p.other # p.case

Inv ==
    /\ TypeOK
    /\ \A c \in Case : RowInv(cas[c])
    /\ \A s \in audit : SnapInv(s, cas[s.job[2]])
    /\ \A p \in pair : PairInv(p)
    /\ \A o \in owed : o.jobs # <<>>

-----------------------------------------------------------------------------
(* Square buckets.                                                         *)

LEMMA LeastNatural ==
  ASSUME NEW T \in SUBSET Nat, T # {}
  PROVE  \E m \in T : \A k \in T : m <= k
  <1> DEFINE R == OpToRel(<, Nat)
  <1>1. IsWellFoundedOn(R, Nat)
    BY NatLessThanWellFounded
  <1>2. \A x, y \in Nat : x < y => <<x, y>> \in R
    BY DEF OpToRel
  <1> HIDE DEF R
  <1>3. PICK m \in T : \A k \in T : ~ (<<k, m>> \in R)
    BY <1>1, WFMin
  <1>4. \A k \in T : ~(k < m) /\ k \in Nat /\ m \in Nat
    BY <1>2, <1>3
  <1>5. \A k \in T : m <= k
    BY <1>4
  <1> QED BY <1>5

(* Bucket is the integer square root of every number of articles.          *)
LEMMA BucketIsRoot ==
  ASSUME NEW n \in Nat
  PROVE  /\ Bucket(n) \in 0..n
         /\ Bucket(n) * Bucket(n) <= n
         /\ n < (Bucket(n) + 1) * (Bucket(n) + 1)
  <1> DEFINE T == {k \in Nat : n < (k + 1) * (k + 1)}
  <1>1. n < (n + 1) * (n + 1)
    OBVIOUS
  <1>2. PICK m \in T : \A k \in T : m <= k
    BY <1>1, LeastNatural
  <1>3. m * m <= n /\ m <= n
    <2>1. CASE m = 0
      BY <1>2, <2>1
    <2>2. CASE m # 0
      <3>1. m - 1 \in Nat /\ m - 1 \notin T
        BY <1>2, <2>2
      <3>2. m * m <= n
        BY <3>1, <1>2
      <3>3. m <= m * m
        BY <2>2
      <3> QED BY <3>2, <3>3
    <2> QED BY <2>1, <2>2
  <1>4. \E k \in 0..n : k * k <= n /\ n < (k + 1) * (k + 1)
    BY <1>2, <1>3
  <1> QED BY <1>4 DEF Bucket

-----------------------------------------------------------------------------
(* Rows.  Each lemma is about one statement that writes a case.            *)

LEMMA RowFields ==
  ASSUME NEW r \in Row
  PROVE  /\ r.status \in {"absent", "active", "hidden", "merged"}
         /\ r.links \in SUBSET Article /\ r.seen \in SUBSET Article
         /\ r.count \in Nat /\ r.rev \in Nat /\ r.audited \in Nat
         /\ r.summary \in BOOLEAN /\ r.refreshed \in Nat /\ r.into \in Nat
  BY DEF Row

LEMMA NewCaseRow ==
  ASSUME NEW links \in SUBSET Article, IsFiniteSet(links),
         NEW audited \in {0, 1}, NEW summary \in BOOLEAN
  PROVE  /\ RowInv(NewCase(links, audited, summary))
         /\ NewCase(links, audited, summary).status = "active"
         /\ NewCase(links, audited, summary).links = links
  <1>1. Cardinality(links) \in Nat
    BY FS_CardinalityType
  <1> QED BY <1>1 DEF NewCase, RowInv, Row

LEMMA AbsentRow == RowInv(Absent) /\ Absent.status = "absent"
  <1>1. IsFiniteSet({}) /\ Cardinality({}) = 0
    BY FS_EmptySet
  <1> DEFINE n == NewCase({}, 0, FALSE)
  <1>2. n \in Row /\ n.links = {} /\ n.count = 0 /\ n.rev = 1 /\ n.audited = 0
    BY <1>1 DEF NewCase, Row
  <1>3. Absent = [n EXCEPT !.status = "absent"]
    BY DEF Absent
  <1> HIDE DEF n
  <1>4. /\ Absent \in Row
        /\ Absent.status = "absent" /\ Absent.links = {} /\ Absent.count = 0
        /\ Absent.rev = 1 /\ Absent.audited = 0
    BY <1>2, <1>3 DEF Row
  <1> QED BY <1>1, <1>4 DEF RowInv

LEMMA LinkedRow ==
  ASSUME NEW r, RowInv(r), r.status = "active", NEW a \in Article, a \notin r.links
  PROVE  RowInv(Linked(r, a)) /\ Evolves(r, Linked(r, a)) /\ Linked(r, a).status = "active"
  <1>1. /\ IsFiniteSet(r.links \cup {a})
        /\ Cardinality(r.links \cup {a}) = Cardinality(r.links) + 1
    BY FS_AddElement DEF RowInv
  <1>2. /\ Linked(r, a) = [r EXCEPT !.links = r.links \cup {a}, !.count = r.count + 1,
                                    !.rev = r.rev + 1]
        /\ r \in Row /\ r.links \cup {a} \in SUBSET Article
        /\ r.count + 1 \in Nat /\ r.rev + 1 \in Nat
    BY RowFields DEF Linked, RowInv
  <1>3. /\ Linked(r, a) \in Row
        /\ Linked(r, a).status = "active"
        /\ Linked(r, a).links = r.links \cup {a}
        /\ Linked(r, a).count = r.count + 1
        /\ Linked(r, a).rev = r.rev + 1
        /\ Linked(r, a).audited = r.audited
    BY <1>2 DEF Row
  <1> QED BY <1>1, <1>2, <1>3, RowFields DEF RowInv, Evolves

LEMMA RecordedRow ==
  ASSUME NEW r, RowInv(r), NEW s \in Snapshot, r.rev = s.rev, r.links = s.articles
  PROVE  /\ RowInv(Recorded(r, s)) /\ Evolves(r, Recorded(r, s))
         /\ Recorded(r, s).status = r.status /\ Recorded(r, s).links = r.links
         /\ Recorded(r, s).summary = r.summary
  <1>1. /\ Recorded(r, s) = [r EXCEPT !.audited = s.rev, !.seen = s.articles]
        /\ r \in Row /\ s.rev \in Nat /\ s.articles \in SUBSET Article
    BY DEF Recorded, RowInv, Snapshot
  <1>2. /\ Recorded(r, s) \in Row
        /\ Recorded(r, s).status = r.status /\ Recorded(r, s).into = r.into
        /\ Recorded(r, s).links = r.links /\ Recorded(r, s).count = r.count
        /\ Recorded(r, s).rev = r.rev /\ Recorded(r, s).audited = s.rev
        /\ Recorded(r, s).seen = s.articles /\ Recorded(r, s).summary = r.summary
    BY <1>1 DEF Row
  <1> QED BY <1>1, <1>2, RowFields DEF RowInv, Evolves

LEMMA DecidedRow ==
  ASSUME NEW r, RowInv(r), r.status = "active",
         NEW s \in Snapshot, r.rev = s.rev, r.links = s.articles,
         NEW original \in SUBSET s.articles, NEW changed \in BOOLEAN,
         original # s.articles => changed
  PROVE  /\ RowInv(Decided(r, s, original, changed))
         /\ Evolves(r, Decided(r, s, original, changed))
         /\ Decided(r, s, original, changed).status = "active"
  <1> DEFINE q == Decided(r, s, original, changed)
             n == IF changed THEN s.rev + 1 ELSE s.rev
  <1>1. IsFiniteSet(original) /\ Cardinality(original) \in Nat
    BY FS_Subset, FS_CardinalityType DEF RowInv
  <1>2. r \in Row /\ n \in Nat /\ s.rev \in Nat /\ original \in SUBSET Article
    BY DEF RowInv, Snapshot
  <1>3. q = [r EXCEPT !.links = original, !.count = Cardinality(original),
                      !.rev = n, !.audited = n, !.summary = TRUE, !.seen = original]
    BY DEF Decided
  <1> HIDE DEF q
  <1>4. /\ q \in Row
        /\ q.status = "active" /\ q.links = original /\ q.count = Cardinality(original)
        /\ q.rev = n /\ q.audited = n /\ q.seen = original
    BY <1>1, <1>2, <1>3 DEF Row
  <1>5. RowInv(q)
    BY <1>1, <1>2, <1>4 DEF RowInv
  <1>6. Evolves(r, q)
    BY <1>2, <1>4 DEF Evolves
  <1> QED BY <1>4, <1>5, <1>6 DEF q

LEMMA MergedRow ==
  ASSUME NEW r, RowInv(r), r.status = "active", NEW b, RowInv(b)
  PROVE  /\ RowInv(Merged(r, b)) /\ Evolves(r, Merged(r, b))
         /\ Merged(r, b).status = "active"
         /\ Merged(r, b).links = r.links \cup b.links
  <1> DEFINE all == r.links \cup b.links
  <1>1. IsFiniteSet(all) /\ Cardinality(all) \in Nat
    BY FS_Union, FS_CardinalityType DEF RowInv
  <1>2. r \in Row /\ b \in Row /\ all \in SUBSET Article /\ r.rev + 1 \in Nat
    BY RowFields DEF RowInv
  <1>3. Merged(r, b) = [r EXCEPT !.links = all, !.rev = r.rev + 1, !.count = Cardinality(all)]
    BY DEF Merged
  <1>4. /\ Merged(r, b) \in Row
        /\ Merged(r, b).status = "active" /\ Merged(r, b).links = all
        /\ Merged(r, b).count = Cardinality(all) /\ Merged(r, b).rev = r.rev + 1
        /\ Merged(r, b).audited = r.audited
    BY <1>1, <1>2, <1>3 DEF Row
  <1> QED BY <1>1, <1>2, <1>4, RowFields DEF RowInv, Evolves

(* A change of the status, the survivor, the summary or the bucket only.   *)
LEMMA SameEvidenceRow ==
  ASSUME NEW r, RowInv(r), NEW q \in Row, q.status # "absent" \/ r.status = "absent",
         r.status \in {"hidden", "merged"} => q.status = r.status /\ q.into = r.into,
         q.links = r.links, q.count = r.count, q.rev = r.rev, q.audited = r.audited,
         q.seen = r.seen
  PROVE  RowInv(q) /\ Evolves(r, q)
  BY RowFields DEF RowInv, Evolves

LEMMA SameRow == ASSUME NEW r, RowInv(r) PROVE Evolves(r, r)
  BY RowFields DEF RowInv, Evolves

(* A snapshot stays true of its row however the row evolves.               *)
LEMMA SnapshotKept ==
  ASSUME NEW s \in Snapshot, NEW r \in Row, NEW q \in Row, SnapInv(s, r), Evolves(r, q)
  PROVE  SnapInv(s, q)
  <1>1. s.rev \in Nat /\ r.rev \in Nat /\ q.rev \in Nat
    BY RowFields DEF Snapshot
  <1>2. /\ r.status # "absent" /\ q.status # "absent"
        /\ s.rev <= r.rev /\ r.rev <= q.rev
        /\ q.links # r.links => r.rev < q.rev
        /\ r.status \in {"hidden", "merged"} => q.status = r.status
    BY DEF SnapInv, Evolves
  <1>3. r.status \in {"active", "hidden", "merged"}
    BY <1>2, RowFields
  <1> QED BY <1>1, <1>2, <1>3 DEF SnapInv

-----------------------------------------------------------------------------
(* Steps.                                                                  *)

LEMMA InvFacts ==
  ASSUME Inv
  PROVE  /\ cas \in [Case -> Row] /\ vector \subseteq Case /\ todo \subseteq Job
         /\ audit \subseteq Snapshot /\ pair \subseteq Pair /\ owed \subseteq Owed
         /\ \A c \in Case : cas[c] \in Row /\ RowInv(cas[c]) /\ Evolves(cas[c], cas[c])
  BY SameRow DEF Inv, TypeOK, RowInv

(* How the cases may change in one step.                                   *)
CasesEvolve ==
    /\ cas' \in [Case -> Row]
    /\ \A c \in Case : RowInv(cas'[c]) /\ Evolves(cas[c], cas'[c])

(* A step under which every case evolves preserves Inv if what it adds to  *)
(* the handlers is good.                                                   *)
LEMMA GoodStep ==
  ASSUME Inv, CasesEvolve, vector' \subseteq Case, todo' \subseteq Job,
         \A s \in audit' : s \in audit \/ (s \in Snapshot /\ SnapInv(s, cas'[s.job[2]])),
         \A p \in pair' : p \in pair \/ (p \in Pair /\ PairInv(p)),
         \A o \in owed' : o \in owed \/ (o \in Owed /\ o.jobs # <<>>)
  PROVE  Inv'
  <1>1. \A s \in audit' : s \in Snapshot /\ SnapInv(s, cas'[s.job[2]])
    <2> SUFFICES ASSUME NEW s \in audit', s \in audit
                 PROVE  s \in Snapshot /\ SnapInv(s, cas'[s.job[2]])
      OBVIOUS
    <2>1. s \in Snapshot /\ s.job[2] \in Case /\ SnapInv(s, cas[s.job[2]])
      BY DEF Inv, TypeOK, Snapshot, Job
    <2>2. /\ cas[s.job[2]] \in Row /\ cas'[s.job[2]] \in Row
          /\ Evolves(cas[s.job[2]], cas'[s.job[2]])
      BY <2>1, InvFacts DEF CasesEvolve
    <2> QED BY <2>1, <2>2, SnapshotKept
  <1>2. TypeOK'
    BY <1>1 DEF Inv, TypeOK, CasesEvolve
  <1> QED BY <1>1, <1>2 DEF Inv, CasesEvolve

LEMMA CasesUnchanged == ASSUME Inv, cas' = cas PROVE CasesEvolve
  BY InvFacts DEF CasesEvolve

(* One case is rewritten.                                                  *)
LEMMA OneCase ==
  ASSUME Inv, NEW c \in Case, NEW q, RowInv(q), Evolves(cas[c], q),
         cas' = [cas EXCEPT ![c] = q]
  PROVE  CasesEvolve
  <1>1. q \in Row
    BY DEF RowInv
  <1> QED BY <1>1, InvFacts DEF CasesEvolve

LEMMA ResolveStep ==
  ASSUME Inv, NEW a \in Article, NEW existing \in SUBSET Case, NEW new \in SUBSET Case,
         Resolve(a, existing, new)
  PROVE  CasesEvolve /\ Inv'
  <1>1. ASSUME NEW c \in Case
        PROVE  RowInv(cas'[c]) /\ Evolves(cas[c], cas'[c])
    <2>1. RowInv(cas[c]) /\ Evolves(cas[c], cas[c]) /\ a \notin cas[c].links
      BY InvFacts DEF Resolve
    <2>2. CASE c \in existing
      <3>1. cas'[c] = Linked(cas[c], a) /\ cas[c].status = "active"
        BY <2>2 DEF Resolve, Active
      <3> QED BY <2>1, <3>1, LinkedRow
    <2>3. CASE c \notin existing /\ c \in new
      <3>1. cas'[c] = NewCase({a}, 0, FALSE) /\ cas[c].status = "absent"
        BY <2>3 DEF Resolve, Fresh
      <3>2. IsFiniteSet({a})
        BY FS_Singleton
      <3>3. RowInv(NewCase({a}, 0, FALSE))
        BY <3>2, NewCaseRow
      <3> QED BY <3>1, <3>3 DEF Evolves
    <2>4. CASE c \notin existing /\ c \notin new
      BY <2>1, <2>4 DEF Resolve
    <2> QED BY <2>2, <2>3, <2>4
  <1>2. CasesEvolve
    <2>1. cas' = [c \in Case |-> cas'[c]]
      BY DEF Resolve
    <2> QED BY <1>1, <2>1 DEF CasesEvolve, RowInv
  <1> QED BY <1>2, GoodStep, InvFacts DEF Resolve

LEMMA EventsStep ==
  ASSUME Inv, NEW a \in Article, NEW touched \in SUBSET Case, ResolveEvents(a, touched)
  PROVE  CasesEvolve /\ Inv'
  BY CasesUnchanged, GoodStep, InvFacts DEF ResolveEvents

LEMMA StartAuditStep ==
  ASSUME Inv, NEW j \in Job, StartAudit(j)
  PROVE  CasesEvolve /\ Inv'
  <1> DEFINE c == j[2]
             s == [job |-> j, rev |-> cas[c].rev, phase |-> "case", articles |-> {}]
  <1>1. c \in Case /\ cas[c] \in Row /\ cas[c].rev \in Nat
    BY InvFacts, RowFields DEF Job
  <1>2. s \in Snapshot /\ s.job[2] = c /\ s.rev = cas[c].rev /\ s.phase = "case"
    BY <1>1 DEF Snapshot
  <1>3. audit' \subseteq audit \/ (Active(c) /\ audit' \subseteq audit \cup {s})
    BY DEF StartAudit
  <1> HIDE DEF s
  <1>4. Active(c) => SnapInv(s, cas[c])
    BY <1>1, <1>2 DEF SnapInv, Active
  <1>5. CasesEvolve
    BY CasesUnchanged DEF StartAudit
  <1> QED BY <1>1, <1>2, <1>3, <1>4, <1>5, GoodStep, InvFacts DEF StartAudit

LEMMA ReadCardsStep ==
  ASSUME Inv, NEW s \in audit, ReadCards(s)
  PROVE  CasesEvolve /\ Inv'
  <1> DEFINE c == s.job[2]
             t == [s EXCEPT !.phase = "cards", !.articles = cas[c].links]
  <1>1. /\ s \in Snapshot /\ c \in Case /\ cas[c].links \in SUBSET Article
        /\ SnapInv(s, cas[c])
    BY InvFacts, RowFields DEF Inv, Snapshot, Job
  <1>2. /\ t \in Snapshot /\ t.job = s.job /\ t.rev = s.rev
        /\ t.articles = cas[c].links
    BY <1>1 DEF Snapshot
  <1>3. audit' \subseteq audit \cup {t} /\ cas' = cas
    BY DEF ReadCards
  <1> HIDE DEF t
  <1>4. SnapInv(t, cas[c])
    BY <1>1, <1>2 DEF SnapInv
  <1>5. CasesEvolve
    BY <1>3, CasesUnchanged
  <1> QED BY <1>1, <1>2, <1>3, <1>4, <1>5, GoodStep, InvFacts DEF ReadCards

(* Audits that publish: the case is the one the audit read.                *)
LEMMA UnchangedCase ==
  ASSUME Inv, NEW s \in audit, Unchanged(s)
  PROVE  /\ s \in Snapshot /\ s.job[2] \in Case /\ s.job \in Job
         /\ cas[s.job[2]].status = "active"
         /\ cas[s.job[2]].rev = s.rev
         /\ cas[s.job[2]].links = s.articles
         /\ RowInv(cas[s.job[2]])
  BY DEF Inv, TypeOK, Snapshot, Job, SnapInv, Unchanged, Active

LEMMA AuditEndsStep ==
  ASSUME Inv, NEW s \in audit, AuditOfInactive(s) \/ AuditSuperseded(s)
  PROVE  CasesEvolve /\ Inv'
  <1>1. s.job \in Job /\ cas' = cas /\ audit' \subseteq audit /\ todo' \subseteq Job
    BY InvFacts DEF Snapshot, AuditOfInactive, AuditSuperseded
  <1>2. CasesEvolve
    BY <1>1, CasesUnchanged
  <1> QED BY <1>1, <1>2, GoodStep, InvFacts DEF AuditOfInactive, AuditSuperseded

LEMMA InconclusiveStep ==
  ASSUME Inv, NEW s \in audit, CoherenceInconclusive(s)
  PROVE  CasesEvolve /\ Inv'
  <1> DEFINE c == s.job[2]
             q == Recorded(cas[c], s)
  <1>1. cas' = [cas EXCEPT ![c] = q]
    BY DEF CoherenceInconclusive
  <1>2. c \in Case /\ RowInv(q) /\ Evolves(cas[c], q)
    BY UnchangedCase, RecordedRow DEF CoherenceInconclusive
  <1> HIDE DEF c, q
  <1>3. CasesEvolve
    BY <1>1, <1>2, OneCase
  <1> QED BY <1>3, GoodStep, InvFacts DEF CoherenceInconclusive

LEMMA DecidedStep ==
  ASSUME Inv, NEW s \in audit, NEW original \in SUBSET s.articles,
         NEW story \in SUBSET s.articles, NEW new \in SUBSET Case,
         CoherenceDecided(s, original, story, new)
  PROVE  CasesEvolve /\ Inv'
  <1> DEFINE c == s.job[2]
             changed == new # {} \/ original # s.articles
             more == IF new = {} THEN <<>> ELSE Requests(CHOOSE d \in new : TRUE)
             jobs == Requests(c) \o more
             o == [job |-> s.job, jobs |-> jobs]
  <1>1. /\ s \in Snapshot /\ c \in Case /\ s.job \in Job
        /\ cas[c].status = "active" /\ cas[c].rev = s.rev /\ cas[c].links = s.articles
        /\ RowInv(cas[c])
    BY UnchangedCase DEF CoherenceDecided
  <1>2. RowInv(NewCase(story, 1, TRUE))
    <2>1. IsFiniteSet(story) /\ story \in SUBSET Article
      BY <1>1, FS_Subset DEF RowInv, Snapshot
    <2> QED BY <2>1, NewCaseRow
  <1>3. ASSUME NEW d \in Case
        PROVE  RowInv(cas'[d]) /\ Evolves(cas[d], cas'[d])
    <2>1. CASE d = c
      <3>1. cas'[d] = Decided(cas[c], s, original, changed)
        BY <2>1 DEF CoherenceDecided
      <3>2. changed \in BOOLEAN /\ (original # s.articles => changed)
        OBVIOUS
      <3> HIDE DEF changed
      <3> QED BY <1>1, <2>1, <3>1, <3>2, DecidedRow
    <2>2. CASE d # c /\ d \in new
      <3>1. cas'[d] = NewCase(story, 1, TRUE) /\ cas[d].status = "absent"
        BY <2>2 DEF CoherenceDecided, Fresh
      <3> QED BY <1>2, <3>1 DEF Evolves
    <2>3. CASE d # c /\ d \notin new
      <3>1. cas'[d] = cas[d]
        BY <2>3 DEF CoherenceDecided
      <3> QED BY <3>1, InvFacts
    <2> QED BY <2>1, <2>2, <2>3
  <1>4. CasesEvolve
    <2>1. cas' = [d \in Case |-> cas'[d]]
      BY DEF CoherenceDecided
    <2> QED BY <1>3, <2>1 DEF CasesEvolve, RowInv
  <1>5. o \in Owed /\ o.jobs # <<>>
    <2>1. ASSUME NEW d \in Case
          PROVE  Requests(d) \in Seq(Job) /\ Len(Requests(d)) = 2
      BY DEF Requests, Job, Kind
    <2>2. new # {} => (CHOOSE d \in new : TRUE) \in Case
      OBVIOUS
    <2>3. more \in Seq(Job) /\ Requests(c) \in Seq(Job) /\ Requests(c) # <<>>
      <3>1. Requests(c) \in Seq(Job) /\ Len(Requests(c)) = 2
        BY <1>1, <2>1
      <3>2. Requests(c) # <<>>
        BY DEF Requests
      <3>3. CASE new = {}
        BY <3>1, <3>3, <3>2, EmptySeq
      <3>4. CASE new # {}
        <4> DEFINE e == CHOOSE d \in new : TRUE
        <4>1. e \in Case /\ more = Requests(e)
          BY <2>2, <3>4
        <4> HIDE DEF e, more
        <4>2. more \in Seq(Job)
          BY <2>1, <4>1
        <4> QED BY <3>1, <3>2, <4>2
      <3> QED BY <3>3, <3>4
    <2> HIDE DEF more
    <2>4. jobs \in Seq(Job)
      BY <2>3, ConcatProperties
    <2>5. jobs # <<>>
      BY <2>3, ConcatProperties, EmptySeq
    <2> QED BY <1>1, <2>4, <2>5 DEF Owed
  <1>6. owed' = owed \cup {o} /\ audit' \subseteq audit /\ vector' = vector \cup {c} \cup new
    BY DEF CoherenceDecided
  <1> HIDE DEF o, c
  <1> QED BY <1>1, <1>4, <1>5, <1>6, GoodStep, InvFacts DEF CoherenceDecided

LEMMA HideStep ==
  ASSUME Inv, NEW s \in audit, Hide(s)
  PROVE  CasesEvolve /\ Inv'
  <1> DEFINE c == s.job[2]
             q == [cas[c] EXCEPT !.status = "hidden"]
  <1>1. cas' = [cas EXCEPT ![c] = q]
    BY DEF Hide
  <1>2. c \in Case /\ RowInv(cas[c]) /\ cas[c].status = "active" /\ cas[c] \in Row
    BY UnchangedCase DEF Hide, RowInv
  <1>3. /\ q \in Row /\ q.status = "hidden" /\ q.links = cas[c].links
        /\ q.count = cas[c].count /\ q.rev = cas[c].rev
        /\ q.audited = cas[c].audited /\ q.seen = cas[c].seen
    BY <1>2 DEF Row
  <1> HIDE DEF q
  <1>4. RowInv(q) /\ Evolves(cas[c], q)
    BY <1>2, <1>3, SameEvidenceRow
  <1>5. CasesEvolve
    BY <1>1, <1>2, <1>4, OneCase
  <1> QED BY <1>5, GoodStep, InvFacts DEF Hide

LEMMA HideRolledBackStep ==
  ASSUME Inv, NEW s \in audit, HideRolledBack(s)
  PROVE  CasesEvolve /\ Inv'
  <1>1. s.job \in Job /\ todo' \subseteq todo \cup {s.job}
    BY InvFacts DEF HideRolledBack, Snapshot, Retried
  <1> QED BY <1>1, CasesUnchanged, GoodStep, InvFacts DEF HideRolledBack

LEMMA KeepStep ==
  ASSUME Inv, NEW s \in audit, Keep(s)
  PROVE  CasesEvolve /\ Inv'
  <1> DEFINE o == [job |-> s.job, jobs |-> <<<<"duplicates", s.job[2]>>>>]
  <1>1. s.job \in Job /\ <<"duplicates", s.job[2]>> \in Job
    BY InvFacts DEF Snapshot, Job, Kind
  <1>2. o \in Owed /\ o.jobs # <<>>
    BY <1>1 DEF Owed
  <1>3. owed' \subseteq owed \cup {o}
    BY DEF Keep
  <1> HIDE DEF o
  <1> QED BY <1>2, <1>3, CasesUnchanged, GoodStep, InvFacts DEF Keep

LEMMA StartDuplicatesStep ==
  ASSUME Inv, NEW c \in Case, StartDuplicates(c)
  PROVE  CasesEvolve /\ Inv'
  <1> DEFINE p == [case |-> c, rest |-> Candidates(c), other |-> 0, rev |-> 0, otherRev |-> 0]
  <1>1. Candidates(c) \subseteq Case \ {c} /\ 0 \notin Case
    BY DEF Candidates, Case
  <1>2. p \in Pair /\ PairInv(p)
    BY <1>1 DEF Pair, PairInv
  <1>3. pair' \subseteq pair \cup {p}
    BY DEF StartDuplicates
  <1> HIDE DEF p
  <1> QED BY <1>2, <1>3, CasesUnchanged, GoodStep, InvFacts DEF StartDuplicates

LEMMA PairFacts ==
  ASSUME Inv, NEW p \in pair
  PROVE  /\ p \in Pair /\ p.case \in Case /\ p.rest \in SUBSET Case
         /\ p.other \in Case \cup {0}
         /\ p.case \notin p.rest /\ p.other # p.case
         /\ <<"duplicates", p.case>> \in Job
  BY InvFacts DEF Inv, Pair, PairInv, Job, Kind

(* Going to the next candidate.                                            *)
LEMMA NextPairGood ==
  ASSUME Inv, NEW p \in pair, NextPair(p)
  PROVE  \A x \in pair' : x \in pair \/ (x \in Pair /\ PairInv(x))
  <1> DEFINE q == [p EXCEPT !.other = 0, !.rev = 0, !.otherRev = 0]
  <1>1. q \in Pair /\ PairInv(q)
    <2>1. 0 \notin Case
      BY DEF Case
    <2> QED BY <2>1, PairFacts DEF Pair, PairInv
  <1> QED BY <1>1 DEF NextPair

LEMMA ReadPairStep ==
  ASSUME Inv, NEW p \in pair, NEW d \in p.rest, ReadPair(p, d)
  PROVE  CasesEvolve /\ Inv'
  <1> DEFINE w == [p EXCEPT !.rest = p.rest \ {d}]
             q == [w EXCEPT !.other = d, !.rev = cas[p.case].rev, !.otherRev = cas[d].rev]
  <1>1. /\ p \in Pair /\ p.case \in Case /\ d \in Case /\ d # p.case
        /\ cas[p.case].rev \in Nat /\ cas[d].rev \in Nat
    BY PairFacts, InvFacts, RowFields
  <1>2. /\ w \in Pair /\ w.case = p.case /\ w.rest = p.rest \ {d} /\ w.other = p.other
    BY <1>1 DEF Pair
  <1>3. pair' \subseteq pair \cup {w, q} /\ cas' = cas
    BY DEF ReadPair
  <1> HIDE DEF w
  <1>4. /\ q \in Pair /\ q.case = p.case /\ q.rest = p.rest \ {d} /\ q.other = d
    BY <1>1, <1>2 DEF Pair
  <1> HIDE DEF q
  <1>5. PairInv(w) /\ PairInv(q)
    BY <1>1, <1>2, <1>4, PairFacts DEF PairInv
  <1>6. CasesEvolve
    BY <1>3, CasesUnchanged
  <1> QED BY <1>2, <1>3, <1>4, <1>5, <1>6, GoodStep, InvFacts DEF ReadPair

(* The survivor and the absorbed case of a pair, and what a merge writes.  *)
LEMMA MergeFacts ==
  ASSUME Inv, NEW p \in pair, PairUnchanged(p)
  PROVE  LET s == Survivor(p.case, p.other)
             b == IF s = p.case THEN p.other ELSE p.case
         IN  /\ s \in Case /\ b \in Case /\ s # b
             /\ cas[s].status = "active" /\ cas[b].status = "active"
             /\ \A x \in Case : x \notin {p.case, p.other} => x \notin {s, b}
  BY PairFacts DEF PairUnchanged, Survivor, Active

LEMMA MergeRows ==
  ASSUME Inv, NEW p \in pair, Merge(p)
  PROVE  LET s == Survivor(p.case, p.other)
             b == IF s = p.case THEN p.other ELSE p.case
         IN  /\ cas' \in [Case -> Row]
             /\ cas'[s] = Merged(cas[s], cas[b])
             /\ cas'[b] = [cas[b] EXCEPT !.status = "merged", !.into = s]
             /\ \A x \in Case \ {s, b} : cas'[x] = cas[x]
  <1> DEFINE s == Survivor(p.case, p.other)
             b == IF s = p.case THEN p.other ELSE p.case
             m == Merged(cas[s], cas[b])
             q == [cas[b] EXCEPT !.status = "merged", !.into = s]
             one == [cas EXCEPT ![s] = m]
  <1>1. s \in Case /\ b \in Case /\ s # b /\ cas[s].status = "active"
    BY MergeFacts DEF Merge
  <1>2. cas' = [cas EXCEPT ![s] = m, ![b].status = "merged", ![b].into = s]
    BY DEF Merge
  <1>3. RowInv(cas[s]) /\ RowInv(cas[b]) /\ cas[b] \in Row /\ cas \in [Case -> Row]
    BY <1>1, InvFacts
  <1>4. m \in Row
    BY <1>1, <1>3, MergedRow DEF RowInv
  <1>5. q \in Row
    <2>1. s \in Nat
      BY <1>1 DEF Case
    <2> HIDE DEF s, b
    <2> QED BY <1>3, <2>1 DEF Row
  <1>6. cas' = [cas EXCEPT ![s] = m, ![b] = q]
    <2> HIDE DEF s, b, m
    <2> QED BY <1>1, <1>2, <1>3, <1>4
  <1> HIDE DEF s, b, m, q
  <1>7. /\ cas' \in [Case -> Row] /\ cas'[s] = m /\ cas'[b] = q
        /\ \A x \in Case \ {s, b} : cas'[x] = cas[x]
    BY <1>1, <1>3, <1>4, <1>5, <1>6
  <1> QED BY <1>7 DEF s, b, m, q

LEMMA MergeStep ==
  ASSUME Inv, NEW p \in pair, Merge(p)
  PROVE  CasesEvolve /\ Inv'
  <1> DEFINE s == Survivor(p.case, p.other)
             b == IF s = p.case THEN p.other ELSE p.case
             q == [cas[b] EXCEPT !.status = "merged", !.into = s]
  <1>1. /\ s \in Case /\ b \in Case /\ s # b
        /\ cas[s].status = "active" /\ cas[b].status = "active"
    BY MergeFacts DEF Merge
  <1>2. /\ cas' \in [Case -> Row] /\ cas'[s] = Merged(cas[s], cas[b]) /\ cas'[b] = q
        /\ \A x \in Case \ {s, b} : cas'[x] = cas[x]
    BY MergeRows
  <1>3. vector' \subseteq Case /\ todo' \subseteq Job
    <2>1. <<"refresh", s>> \in Job
      BY <1>1 DEF Job, Kind
    <2>2. vector' = (vector \cup {s}) \ {b} /\ todo' = todo \cup {<<"refresh", s>>}
      BY DEF Merge, MergedVectors
    <2> QED BY <1>1, <2>1, <2>2, InvFacts
  <1>4. RowInv(cas'[s]) /\ Evolves(cas[s], cas'[s])
    BY <1>1, <1>2, InvFacts, MergedRow
  <1>5. RowInv(cas'[b]) /\ Evolves(cas[b], cas'[b])
    <2> HIDE DEF s, b
    <2>1. cas[b] \in Row /\ RowInv(cas[b]) /\ q \in Row
      BY <1>1, <1>2, InvFacts
    <2>2. /\ q.status = "merged" /\ q.links = cas[b].links /\ q.count = cas[b].count
          /\ q.rev = cas[b].rev /\ q.audited = cas[b].audited /\ q.seen = cas[b].seen
      BY <2>1 DEF Row
    <2> HIDE DEF q
    <2> QED BY <1>1, <1>2, <2>1, <2>2, SameEvidenceRow
  <1> HIDE DEF s, b, q
  <1>6. CasesEvolve
    <2>1. ASSUME NEW x \in Case
          PROVE  RowInv(cas'[x]) /\ Evolves(cas[x], cas'[x])
      BY <1>2, <1>4, <1>5, InvFacts
    <2> QED BY <1>2, <2>1 DEF CasesEvolve
  <1>7. \A x \in pair' : x \in pair \/ (x \in Pair /\ PairInv(x))
    BY NextPairGood DEF Merge
  <1> QED BY <1>3, <1>6, <1>7, GoodStep, InvFacts DEF Merge

LEMMA MergeRolledBackStep ==
  ASSUME Inv, NEW p \in pair, MergeRolledBack(p)
  PROVE  CasesEvolve /\ Inv'
  <1> DEFINE s == Survivor(p.case, p.other)
             b == IF s = p.case THEN p.other ELSE p.case
  <1>1. s \in Case /\ <<"duplicates", p.case>> \in Job
    BY MergeFacts, PairFacts DEF MergeRolledBack
  <1>2. <<"refresh", s>> \in Job
    BY <1>1 DEF Job, Kind
  <1>3. /\ vector' = (vector \cup {s}) \ {b} /\ pair' \subseteq pair
        /\ todo' \subseteq todo \cup {<<"duplicates", p.case>>, <<"refresh", s>>}
    BY DEF MergeRolledBack, MergedVectors, Retried
  <1> HIDE DEF s, b
  <1>4. vector' \subseteq Case /\ todo' \subseteq Job
    BY <1>1, <1>2, <1>3, InvFacts
  <1> QED BY <1>3, <1>4, CasesUnchanged, GoodStep, InvFacts DEF MergeRolledBack

LEMMA PairEndsStep ==
  ASSUME Inv, NEW p \in pair, NoMerge(p) \/ DuplicatesDone(p)
  PROVE  CasesEvolve /\ Inv'
  <1>1. \A x \in pair' : x \in pair \/ (x \in Pair /\ PairInv(x))
    BY NextPairGood DEF NoMerge, DuplicatesDone
  <1> QED BY <1>1, CasesUnchanged, GoodStep, InvFacts DEF NoMerge, DuplicatesDone

LEMMA NonEmptyTail ==
  ASSUME NEW S, NEW s \in Seq(S), s # <<>>, Len(s) # 1
  PROVE  Tail(s) # <<>>
  <1>1. Len(s) \in Nat \ {0} /\ Len(Tail(s)) = Len(s) - 1 /\ Len(<<>>) = 0
    BY EmptySeq, HeadTailProperties
  <1>2. Len(Tail(s)) # Len(<<>>)
    BY <1>1
  <1> QED BY <1>2

LEMMA FollowStep ==
  ASSUME Inv, NEW o \in owed, Follow(o)
  PROVE  CasesEvolve /\ Inv'
  <1> DEFINE q == [o EXCEPT !.jobs = Tail(o.jobs)]
  <1>1. o \in Owed /\ o.jobs \in Seq(Job) /\ o.jobs # <<>>
    BY InvFacts DEF Inv, Owed
  <1>2. Head(o.jobs) \in Job /\ Tail(o.jobs) \in Seq(Job)
        /\ Len(Tail(o.jobs)) = Len(o.jobs) - 1 /\ Len(o.jobs) \in Nat
    BY <1>1, HeadTailProperties, LenProperties
  <1>3. q \in Owed /\ q.jobs = Tail(o.jobs)
    BY <1>1, <1>2 DEF Owed
  <1>4. /\ todo' \subseteq todo \cup {Head(o.jobs)}
        /\ owed' \subseteq owed \cup (IF Len(o.jobs) = 1 THEN {} ELSE {q})
    BY DEF Follow
  <1> HIDE DEF q
  <1>5. Len(o.jobs) # 1 => q.jobs # <<>>
    BY <1>1, <1>3, NonEmptyTail
  <1> QED BY <1>2, <1>3, <1>4, <1>5, CasesUnchanged, GoodStep, InvFacts DEF Follow

LEMMA RefreshStep ==
  ASSUME Inv, NEW c \in Case, Refresh(c)
  PROVE  CasesEvolve /\ Inv'
  <1> DEFINE q == [cas[c] EXCEPT !.summary = TRUE, !.refreshed = Bucket(cas[c].count)]
  <1>1. cas[c] \in Row /\ RowInv(cas[c]) /\ Bucket(cas[c].count) \in Nat
    <2>1. cas[c] \in Row /\ RowInv(cas[c]) /\ cas[c].count \in Nat
      BY InvFacts, RowFields
    <2>2. Bucket(cas[c].count) \in 0..cas[c].count
      BY <2>1, BucketIsRoot
    <2> QED BY <2>1, <2>2
  <1>2. /\ q \in Row /\ q.status = cas[c].status /\ q.links = cas[c].links
        /\ q.count = cas[c].count /\ q.rev = cas[c].rev /\ q.into = cas[c].into
        /\ q.audited = cas[c].audited /\ q.seen = cas[c].seen
    BY <1>1 DEF Row
  <1>3. cas' = [cas EXCEPT ![c] = q]
    BY InvFacts DEF Refresh
  <1> HIDE DEF q
  <1>4. RowInv(q) /\ Evolves(cas[c], q)
    BY <1>1, <1>2, SameEvidenceRow
  <1>5. CasesEvolve
    BY <1>3, <1>4, OneCase
  <1> QED BY <1>5, GoodStep, InvFacts DEF Refresh

LEMMA AbandonStep ==
  ASSUME Inv, Abandon
  PROVE  CasesEvolve /\ Inv'
  <1>1. /\ \A s \in audit : s.job \in Job
        /\ \A p \in pair : <<"duplicates", p.case>> \in Job
        /\ \A o \in owed : o.job \in Job
    BY InvFacts, PairFacts DEF Snapshot, Owed
  <1>2. todo' \subseteq Job /\ audit' \subseteq audit /\ pair' \subseteq pair /\ owed' \subseteq owed
    BY <1>1, InvFacts DEF Abandon, Retried
  <1> QED BY <1>2, CasesUnchanged, GoodStep, InvFacts DEF Abandon

LEMMA PlannerStep ==
  ASSUME Inv, NEW c \in Case,
         PlanRefresh(c) \/ PlanAudit(c) \/ PlanAgain(c) \/ RerunInterest(c)
  PROVE  CasesEvolve /\ Inv'
  <1>1. \A k \in Kind : <<k, c>> \in Job
    BY DEF Job
  <1>2. todo' \subseteq Job
    BY <1>1, InvFacts DEF PlanRefresh, PlanAudit, PlanAgain, RerunInterest, Ensure, Kind
  <1> QED BY <1>2, CasesUnchanged, GoodStep, InvFacts
          DEF PlanRefresh, PlanAudit, PlanAgain, RerunInterest, Ensure

-----------------------------------------------------------------------------
(* The invariant, and the properties that follow from it.                  *)

LEMMA InitInv == Init => Inv
  <1>1. \A r : RowInv(r) => r \in Row
    BY DEF RowInv
  <1> QED BY <1>1, AbsentRow DEF Init, Inv, TypeOK

LEMMA NextInv == Inv /\ [Next]_vars => CasesEvolve /\ Inv'
  <1> SUFFICES ASSUME Inv, [Next]_vars
               PROVE  CasesEvolve /\ Inv'
    OBVIOUS
  <1>1. CASE UNCHANGED vars
    BY <1>1, CasesUnchanged DEF vars, Inv, TypeOK
  <1>2. ASSUME NEW a \in Article, NEW existing \in SUBSET Case, NEW new \in SUBSET Case,
               Resolve(a, existing, new)
        PROVE  CasesEvolve /\ Inv'
    BY <1>2, ResolveStep
  <1>3. ASSUME NEW a \in Article, NEW touched \in SUBSET Case, ResolveEvents(a, touched)
        PROVE  CasesEvolve /\ Inv'
    BY <1>3, EventsStep
  <1>4. ASSUME NEW j \in Job, StartAudit(j)
        PROVE  CasesEvolve /\ Inv'
    BY <1>4, StartAuditStep
  <1>5. ASSUME NEW s \in audit, ReadCards(s) \/ Publish(s) \/ HideRolledBack(s)
        PROVE  CasesEvolve /\ Inv'
    BY <1>5, ReadCardsStep, AuditEndsStep, InconclusiveStep, DecidedStep, HideStep,
       HideRolledBackStep, KeepStep DEF Publish
  <1>6. ASSUME NEW c \in Case,
               \/ StartDuplicates(c) \/ Refresh(c) \/ PlanRefresh(c) \/ PlanAudit(c)
               \/ PlanAgain(c) \/ RerunInterest(c)
        PROVE  CasesEvolve /\ Inv'
    BY <1>6, StartDuplicatesStep, RefreshStep, PlannerStep
  <1>7. ASSUME NEW p \in pair,
               \/ \E d \in p.rest : ReadPair(p, d)
               \/ Merge(p) \/ MergeRolledBack(p) \/ NoMerge(p) \/ DuplicatesDone(p)
        PROVE  CasesEvolve /\ Inv'
    BY <1>7, ReadPairStep, MergeStep, MergeRolledBackStep, PairEndsStep
  <1>8. ASSUME NEW o \in owed, Follow(o)
        PROVE  CasesEvolve /\ Inv'
    BY <1>8, FollowStep
  <1>9. CASE Abandon
    BY <1>9, AbandonStep
  <1> QED BY <1>1, <1>2, <1>3, <1>4, <1>5, <1>6, <1>7, <1>8, <1>9 DEF Next

(* The steps that write a case.                                            *)
LEMMA Writers ==
  ASSUME [Next]_vars
  PROVE  \/ cas' = cas
         \/ \E a \in Article : \E existing, new \in SUBSET Case : Resolve(a, existing, new)
         \/ \E s \in audit :
               \/ CoherenceInconclusive(s) \/ Hide(s)
               \/ \E original, story \in SUBSET s.articles, new \in SUBSET Case :
                       CoherenceDecided(s, original, story, new)
         \/ \E p \in pair : Merge(p)
         \/ \E c \in Case : Refresh(c)
  <1>1. UNCHANGED vars => cas' = cas
    BY DEF vars
  <1>2. \A a, touched : ResolveEvents(a, touched) => cas' = cas
    BY DEF ResolveEvents
  <1>3. \A j : StartAudit(j) => cas' = cas
    BY DEF StartAudit
  <1>4. \A s : (\/ ReadCards(s) \/ AuditOfInactive(s) \/ AuditSuperseded(s)
               \/ Keep(s) \/ HideRolledBack(s)) => cas' = cas
    BY DEF ReadCards, AuditOfInactive, AuditSuperseded, Keep, HideRolledBack
  <1>5. \A c : (\/ StartDuplicates(c) \/ PlanRefresh(c) \/ PlanAudit(c)
               \/ PlanAgain(c) \/ RerunInterest(c)) => cas' = cas
    BY DEF StartDuplicates, PlanRefresh, PlanAudit, PlanAgain, RerunInterest, Ensure
  <1>6. \A p : (\/ \E d : ReadPair(p, d)
               \/ MergeRolledBack(p) \/ NoMerge(p) \/ DuplicatesDone(p)) => cas' = cas
    BY DEF ReadPair, MergeRolledBack, NoMerge, DuplicatesDone
  <1>7. \A o : Follow(o) => cas' = cas
    BY DEF Follow
  <1>8. Abandon => cas' = cas
    BY DEF Abandon
  <1> QED BY <1>1, <1>2, <1>3, <1>4, <1>5, <1>6, <1>7, <1>8 DEF Next, Publish

(* The inductive invariant: what every row satisfies by itself, and what   *)
(* each audit and each pair under judgement knows of its rows.             *)
THEOREM InvHolds == Spec => []Inv
  BY InitInv, NextInv, PTL DEF Spec

(* Rows, vectors, jobs and handlers keep their types, for any number of    *)
(* cases and handlers.                                                     *)
THEOREM TypeCorrect == Spec => []TypeOK
  BY InvHolds, PTL DEF Inv

(* What an audit publishes is about the articles it has read: as long as   *)
(* the revision is the one it saw, so are the links.                       *)
THEOREM SnapshotIsCurrentHolds == Spec => []SnapshotIsCurrent
  <1>1. Inv => SnapshotIsCurrent
    BY UnchangedCase DEF SnapshotIsCurrent
  <1> QED BY <1>1, InvHolds, PTL

(* article_count is the number of links through any resolutions, splits    *)
(* and merges.                                                             *)
THEOREM CountsMatchHolds == Spec => []CountsMatch
  <1>1. Inv => CountsMatch
    BY DEF Inv, RowInv, CountsMatch
  <1> QED BY <1>1, InvHolds, PTL

(* A case the planner does not audit again has the links its last          *)
(* coherence audit left.                                                   *)
THEOREM AuditedEvidenceHolds == Spec => []AuditedEvidence
  <1>1. ASSUME Inv, NEW c \in Case, Active(c), ~DueAudit(c)
        PROVE  cas[c].seen = cas[c].links
    <2>1. RowInv(cas[c]) /\ cas[c].rev \in Nat /\ cas[c].audited \in Nat
      BY <1>1, InvFacts, RowFields
    <2>2. cas[c].audited = cas[c].rev
      BY <1>1, <2>1 DEF DueAudit, RowInv
    <2> QED BY <2>1, <2>2 DEF RowInv
  <1>2. Inv => AuditedEvidence
    BY <1>1 DEF AuditedEvidence
  <1> QED BY <1>2, InvHolds, PTL

(* No step changes the status, the links or the survivor of a hidden or    *)
(* merged case, whatever is in flight.                                     *)
THEOREM TerminalDossierHolds == Spec => TerminalDossier
  <1> DEFINE Keeps == \A c \in Case :
          cas[c].status \in {"hidden", "merged"} =>
              /\ cas'[c].status = cas[c].status
              /\ cas'[c].links = cas[c].links
              /\ cas'[c].into = cas[c].into
  <1>1. CasesEvolve => Keeps
    BY DEF CasesEvolve, Evolves
  <1>2. Inv /\ [Next]_vars => [Keeps]_vars
    BY <1>1, NextInv
  <1> QED BY <1>2, InvHolds, PTL DEF Spec, TerminalDossier

(* What two action properties say of one case c in one step.               *)
KeepsEvidence(c) ==
    (Active(c) /\ cas'[c].status = "merged") =>
        LET s == cas'[c].into IN
        cas'[s].status = "active" /\ cas[c].links \cup cas[s].links \subseteq cas'[s].links

IsSeen(c) ==
    /\ cas'[c].status = "active"
    /\ cas'[c].links # cas[c].links \/ cas'[c].summary # cas[c].summary
    => c \in vector'

(* Both hold of a case a step does not write, or leaves active, unmerged   *)
(* and in the index.                                                       *)
LEMMA UntouchedKeeps == ASSUME NEW c, cas'[c] = cas[c] PROVE KeepsEvidence(c) /\ IsSeen(c)
  BY DEF KeepsEvidence, IsSeen, Active

LEMMA ResolveKeeps ==
  ASSUME Inv, NEW a \in Article, NEW existing \in SUBSET Case, NEW new \in SUBSET Case,
         Resolve(a, existing, new), NEW c \in Case
  PROVE  KeepsEvidence(c) /\ IsSeen(c)
  <1>1. CASE c \in existing \cup new
    <2>1. c \in vector'
      BY <1>1 DEF Resolve
    <2>2. cas'[c].status # "merged"
      <3>1. CASE c \in existing
        <4>1. cas'[c] = Linked(cas[c], a) /\ cas[c].status = "active"
          BY <3>1 DEF Resolve, Active
        <4>2. RowInv(cas[c]) /\ a \notin cas[c].links
          BY InvFacts DEF Resolve
        <4> QED BY <4>1, <4>2, LinkedRow
      <3>2. CASE c \notin existing
        BY <1>1, <3>2 DEF Resolve, NewCase
      <3> QED BY <3>1, <3>2
    <2> QED BY <2>1, <2>2 DEF KeepsEvidence, IsSeen
  <1>2. CASE c \notin existing \cup new
    BY <1>2, UntouchedKeeps DEF Resolve
  <1> QED BY <1>1, <1>2

LEMMA InconclusiveKeeps ==
  ASSUME Inv, NEW s \in audit, CoherenceInconclusive(s), NEW c \in Case
  PROVE  KeepsEvidence(c) /\ IsSeen(c)
  <1> DEFINE d == s.job[2]
             q == Recorded(cas[d], s)
  <1>1. cas' = [cas EXCEPT ![d] = q] /\ cas \in [Case -> Row]
    BY InvFacts DEF CoherenceInconclusive
  <1>2. d \in Case /\ q.status = "active" /\ q.links = cas[d].links /\ q.summary = cas[d].summary
    BY UnchangedCase, RecordedRow DEF CoherenceInconclusive
  <1> HIDE DEF d, q
  <1>3. CASE c = d
    BY <1>1, <1>2, <1>3 DEF KeepsEvidence, IsSeen
  <1>4. CASE c # d
    BY <1>1, <1>4, UntouchedKeeps
  <1> QED BY <1>3, <1>4

LEMMA DecidedKeeps ==
  ASSUME Inv, NEW s \in audit, NEW original \in SUBSET s.articles,
         NEW story \in SUBSET s.articles, NEW new \in SUBSET Case,
         CoherenceDecided(s, original, story, new), NEW c \in Case
  PROVE  KeepsEvidence(c) /\ IsSeen(c)
  <1>1. CASE c = s.job[2]
    <2> DEFINE changed == new # {} \/ original # s.articles
    <2>1. cas'[c] = Decided(cas[c], s, original, changed) /\ c \in vector'
      BY <1>1 DEF CoherenceDecided
    <2>2. changed \in BOOLEAN /\ (original # s.articles => changed)
      OBVIOUS
    <2> HIDE DEF changed
    <2>3. cas'[c].status = "active"
      BY <1>1, <2>1, <2>2, UnchangedCase, DecidedRow DEF CoherenceDecided
    <2> QED BY <2>1, <2>3 DEF KeepsEvidence, IsSeen
  <1>2. CASE c # s.job[2] /\ c \in new
    <2>1. cas'[c] = NewCase(story, 1, TRUE) /\ c \in vector'
      BY <1>2 DEF CoherenceDecided
    <2>2. cas'[c].status = "active"
      BY <2>1 DEF NewCase
    <2> QED BY <2>1, <2>2 DEF KeepsEvidence, IsSeen
  <1>3. CASE c # s.job[2] /\ c \notin new
    BY <1>3, UntouchedKeeps DEF CoherenceDecided
  <1> QED BY <1>1, <1>2, <1>3

LEMMA HideKeeps ==
  ASSUME Inv, NEW s \in audit, Hide(s), NEW c \in Case
  PROVE  KeepsEvidence(c) /\ IsSeen(c)
  <1> DEFINE d == s.job[2]
             q == [cas[d] EXCEPT !.status = "hidden"]
  <1>1. cas' = [cas EXCEPT ![d] = q] /\ cas \in [Case -> Row] /\ d \in Case
    BY InvFacts, UnchangedCase DEF Hide
  <1>2. q.status = "hidden"
    <2>1. cas[d] \in Row
      BY <1>1
    <2> QED BY <2>1 DEF Row
  <1> HIDE DEF d, q
  <1>3. CASE c = d
    BY <1>1, <1>2, <1>3 DEF KeepsEvidence, IsSeen
  <1>4. CASE c # d
    BY <1>1, <1>4, UntouchedKeeps
  <1> QED BY <1>3, <1>4

LEMMA MergeKeeps ==
  ASSUME Inv, NEW p \in pair, Merge(p), NEW c \in Case
  PROVE  KeepsEvidence(c) /\ IsSeen(c)
  <1> DEFINE s == Survivor(p.case, p.other)
             b == IF s = p.case THEN p.other ELSE p.case
             q == [cas[b] EXCEPT !.status = "merged", !.into = s]
  <1>1. /\ s \in Case /\ b \in Case /\ s # b
        /\ cas[s].status = "active" /\ cas[b].status = "active"
    BY MergeFacts DEF Merge
  <1>2. /\ cas'[s] = Merged(cas[s], cas[b]) /\ cas'[b] = q
        /\ \A x \in Case \ {s, b} : cas'[x] = cas[x]
    BY MergeRows
  <1>3. vector' = (vector \cup {s}) \ {b}
    BY DEF Merge, MergedVectors
  <1>4. RowInv(cas[s]) /\ RowInv(cas[b]) /\ cas[b] \in Row
    BY <1>1, InvFacts
  <1>5. cas'[s].status = "active" /\ cas'[s].links = cas[s].links \cup cas[b].links
    BY <1>1, <1>2, <1>4, MergedRow
  <1> HIDE DEF s, b
  <1>6. q.status = "merged" /\ q.into = s
    BY <1>4 DEF Row
  <1> HIDE DEF q
  <1>7. CASE c = s
    BY <1>1, <1>3, <1>5, <1>7 DEF KeepsEvidence, IsSeen
  <1>8. CASE c = b
    BY <1>2, <1>5, <1>6, <1>8 DEF KeepsEvidence, IsSeen
  <1>9. CASE c \notin {s, b}
    BY <1>2, <1>9, UntouchedKeeps
  <1> QED BY <1>7, <1>8, <1>9

LEMMA RefreshKeeps ==
  ASSUME Inv, NEW d \in Case, Refresh(d), NEW c \in Case
  PROVE  KeepsEvidence(c) /\ IsSeen(c)
  <1> DEFINE q == [cas[d] EXCEPT !.summary = TRUE, !.refreshed = Bucket(cas[d].count)]
  <1>1. cas' = [cas EXCEPT ![d] = q] /\ cas \in [Case -> Row] /\ cas[d] \in Row
    BY InvFacts DEF Refresh
  <1>2. q.status = cas[d].status /\ d \in vector'
    BY <1>1 DEF Row, Refresh
  <1> HIDE DEF q
  <1>3. CASE c = d
    BY <1>1, <1>2, <1>3 DEF KeepsEvidence, IsSeen, Active
  <1>4. CASE c # d
    BY <1>1, <1>4, UntouchedKeeps
  <1> QED BY <1>3, <1>4

LEMMA NextKeeps ==
  ASSUME Inv, [Next]_vars
  PROVE  \A c \in Case : KeepsEvidence(c) /\ IsSeen(c)
  BY Writers, UntouchedKeeps, ResolveKeeps, InconclusiveKeeps, DecidedKeeps, HideKeeps,
     MergeKeeps, RefreshKeeps

(* A case only becomes merged into an active case that has all its links.  *)
THEOREM MergeKeepsEvidenceHolds == Spec => MergeKeepsEvidence
  <1>1. Inv /\ [Next]_vars => [\A c \in Case : KeepsEvidence(c)]_vars
    BY NextKeeps
  <1> QED BY <1>1, InvHolds, PTL DEF Spec, MergeKeepsEvidence, KeepsEvidence

(* ADR 0002: a case whose links or summary change is in the index, when it *)
(* is active, in the state the change commits.                             *)
THEOREM RetrievalSeesMutationsHolds == Spec => RetrievalSeesMutations
  <1>1. Inv /\ [Next]_vars => [\A c \in Case : IsSeen(c)]_vars
    BY NextKeeps
  <1> QED BY <1>1, InvHolds, PTL DEF Spec, RetrievalSeesMutations, IsSeen
=============================================================================
