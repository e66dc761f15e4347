-------------------------- MODULE LlmCooldownProofs --------------------------
(***************************************************************************)
(* The shared cooldown for any number of processes, any durations and any  *)
(* Retry-After values.                                                     *)
(***************************************************************************)
EXTENDS LlmCooldown, TLAPS

\* Every recorded pause ends by resume_at: the maximum taken under the lock.
PausesStored == \A i \in 1..Len(hist) : hist[i].until <= resume

Unclear == {"ambiguous", "escalated"}

\* The stored evidence is the observation time of a record after which there was
\* neither an explicit Retry-After nor a clearing success.
EvidenceIsRecorded ==
    last # None =>
        \E k \in 1..Len(hist) :
            hist[k].at = last /\ \A n \in k..Len(hist) : hist[n].type \in Unclear

Inv == PausesStored /\ EvidenceIsRecorded /\ EscalationIsJustified

\* A 429 is classified by what it says, and its pause is a natural number.
LEMMA KindAndDuration ==
    ASSUME TypeOK, NEW o \in Seen
    PROVE  /\ Duration(o) \in Nat
           /\ o.after # None => Kind(o) = "explicit"
           /\ o.after = None => Kind(o) \in Unclear
           /\ Kind(o) = "escalated" => Escalates(o)
           /\ Kind(o) \in {"ambiguous", "escalated", "explicit"}
BY DurationAssumption, RetryAfterAssumption
   DEF TypeOK, Seen, Response, Duration, Kind, Unclear, None

\* Appending an event to the history: lengths, old and new elements.
LEMMA AppendEvent ==
    ASSUME NEW h \in Seq(Event), NEW e \in Event
    PROVE  /\ Append(h, e) \in Seq(Event)
           /\ Len(h) \in Nat
           /\ Len(Append(h, e)) = Len(h) + 1
           /\ Append(h, e)[Len(h) + 1] = e
           /\ \A i \in 1..Len(h) : Append(h, e)[i] = h[i]
OBVIOUS

\* The events of a history have natural times.
LEMMA EventTimes ==
    ASSUME NEW h \in Seq(Event), NEW i \in 1..Len(h)
    PROVE  h[i].until \in Nat
<1>1. h[i] \in Event
    OBVIOUS
<1> QED
    BY <1>1 DEF Event

\* TypeOK is inductive: record_rate_limit computes times and counts.
LEMMA TypeInductive ==
    TypeOK /\ [Next]_vars => TypeOK'
<1> SUFFICES ASSUME TypeOK, [Next]_vars PROVE TypeOK'
    OBVIOUS
<1> USE DEF row
<1>1. CASE Tick
    BY <1>1 DEF TypeOK, Tick
<1>2. ASSUME NEW p \in Process, StartPass(p) PROVE TypeOK'
    BY <1>2 DEF TypeOK, StartPass, Pass
<1>3. ASSUME NEW p \in Process, Record(p) PROVE TypeOK'
    <2> DEFINE o == seen[p]
    <2> DEFINE e == [type |-> Kind(o), at |-> o.at, until |-> o.at + Duration(o)]
    <2>1. o \in Seen /\ o.at \in Nat
        BY DEF TypeOK, Seen
    <2>2. Duration(o) \in Nat /\ Kind(o) \in {"ambiguous", "escalated", "explicit"}
        BY <2>1, KindAndDuration
    <2>3. e \in Event
        BY <2>1, <2>2 DEF Event
    <2>4. hist' \in Seq(Event)
        BY <1>3, <2>3, AppendEvent DEF TypeOK, Record
    <2>5. resume' \in Nat
        BY <1>3, <2>1, <2>2 DEF TypeOK, Record, Later
    <2>6. count' \in Nat /\ last' \in Nat \cup {None}
        BY <1>3, <2>1 DEF TypeOK, Record
    <2>7. pass' \in [Process -> Pass]
        BY <1>3 DEF TypeOK, Record, Pass
    <2>8. seen' \in [Process -> Seen]
        BY <1>3 DEF TypeOK, Record, Seen, Nothing, Response
    <2> QED
        BY <1>3, <2>4, <2>5, <2>6, <2>7, <2>8 DEF TypeOK, Record
<1>4. ASSUME NEW p \in Process, Succeed(p) PROVE TypeOK'
    <2> DEFINE e == [type |-> "cleared", at |-> now, until |-> 0]
    <2>1. e \in Event
        BY DEF TypeOK, Event
    <2>2. hist' \in Seq(Event)
        BY <1>4, <2>1, AppendEvent DEF TypeOK, Succeed
    <2> QED
        BY <1>4, <2>2 DEF TypeOK, Succeed
<1>5. ASSUME NEW p \in Process, EndPass(p) PROVE TypeOK'
    BY <1>5 DEF TypeOK, EndPass, Pass
<1>6. ASSUME NEW p \in Process, Crash(p) PROVE TypeOK'
    BY <1>6 DEF TypeOK, Crash, Pass, Seen, Nothing, Response
<1>7. ASSUME NEW p \in Process, NEW after \in Response, Observe(p, after) PROVE TypeOK'
    <2>1. demanded' \in Nat
        BY <1>7, RetryAfterAssumption DEF TypeOK, Observe, Demand, Later, Response
    <2>2. seen' \in [Process -> Seen]
        BY <1>7 DEF TypeOK, Observe, Seen
    <2>3. pass' \in [Process -> Pass]
        BY <1>7 DEF TypeOK, Observe, Pass
    <2> QED
        BY <1>7, <2>1, <2>2, <2>3 DEF TypeOK, Observe
<1>8. ASSUME NEW p \in Process, NEW after \in Response, DeferOnly(p, after) PROVE TypeOK'
    <2>1. demanded' \in Nat
        BY <1>8, RetryAfterAssumption DEF TypeOK, DeferOnly, Demand, Later, Response
    <2> QED
        BY <1>8, <2>1 DEF TypeOK, DeferOnly
<1>9. CASE UNCHANGED vars
    BY <1>9 DEF TypeOK, vars
<1> QED
    BY <1>1, <1>2, <1>3, <1>4, <1>5, <1>6, <1>7, <1>8, <1>9 DEF Next

LEMMA TypeInitial == Init => TypeOK
BY DEF Init, TypeOK, Pass, Seen, Nothing, Response, Event, None

\* The row, the passes and the histories of the cooldown keep their types.
THEOREM TypeCorrect == Spec => []TypeOK
BY TypeInitial, TypeInductive, PTL DEF Spec

-----------------------------------------------------------------------------
(* Steps that leave the history and the row alone preserve Inv; the others *)
(* are Record and Succeed.                                                 *)

LEMMA RecordPreserves ==
    ASSUME TypeOK, Inv, NEW p \in Process, Record(p)
    PROVE  Inv'
<1> DEFINE o == seen[p]
<1> DEFINE e == [type |-> Kind(o), at |-> o.at, until |-> o.at + Duration(o)]
<1>1. o \in Seen /\ o.at \in Nat
    BY DEF TypeOK, Seen
<1>2. /\ Duration(o) \in Nat
      /\ o.after # None => Kind(o) = "explicit"
      /\ o.after = None => Kind(o) \in Unclear
      /\ Kind(o) = "escalated" => Escalates(o)
      /\ Kind(o) \in {"ambiguous", "escalated", "explicit"}
    BY <1>1, KindAndDuration
<1>3. e \in Event /\ hist' = Append(hist, e)
    BY <1>1, <1>2 DEF Event, Record
<1>4. /\ Len(hist) \in Nat
      /\ Len(hist') = Len(hist) + 1
      /\ hist'[Len(hist) + 1] = e
      /\ \A i \in 1..Len(hist) : hist'[i] = hist[i]
    BY <1>3, AppendEvent DEF TypeOK
<1> HIDE DEF e
<1>5. e.type = Kind(o) /\ e.at = o.at /\ e.until = o.at + Duration(o)
    BY DEF e
<1>6. PausesStored'
    <2>1. resume' = Later(o.at + Duration(o), resume)
        BY DEF Record
    <2>2. resume' >= resume /\ resume' >= e.until /\ resume' \in Nat
        BY <1>1, <1>2, <1>5, <2>1 DEF TypeOK, Later
    <2> SUFFICES ASSUME NEW i \in 1..Len(hist') PROVE hist'[i].until <= resume'
        BY DEF PausesStored
    <2>3. CASE i \in 1..Len(hist)
        <3>1. hist[i].until \in Nat
            BY <2>3, EventTimes DEF TypeOK
        <3> QED
            BY <1>4, <2>2, <2>3, <3>1 DEF Inv, PausesStored, TypeOK
    <2>4. CASE i = Len(hist) + 1
        BY <1>1, <1>2, <1>4, <1>5, <2>2, <2>4
    <2> QED
        BY <1>4, <2>3, <2>4
<1>7. EvidenceIsRecorded'
    <2>1. CASE o.after # None
        BY <2>1 DEF Record, EvidenceIsRecorded
    <2>2. CASE o.after = None
        <3>1. last' = e.at /\ e.type \in Unclear
            BY <1>2, <1>5, <2>2 DEF Record
        <3>2. \A n \in (Len(hist) + 1)..Len(hist') : hist'[n].type \in Unclear
            BY <1>4, <3>1
        <3> QED
            BY <1>4, <3>1, <3>2 DEF EvidenceIsRecorded
    <2> QED
        BY <2>1, <2>2
<1>8. EscalationIsJustified'
    <2> SUFFICES ASSUME NEW i \in 1..Len(hist'), hist'[i].type = "escalated"
                 PROVE  \E k \in 1..(i - 1) :
                            /\ hist'[k].at >= hist'[i].at - Window
                            /\ \A n \in k..i : hist'[n].type \in Unclear
        BY DEF EscalationIsJustified, Unclear
    <2>1. CASE i \in 1..Len(hist)
        <3>1. PICK k \in 1..(i - 1) :
                  /\ hist[k].at >= hist[i].at - Window
                  /\ \A n \in k..i : hist[n].type \in Unclear
            BY <1>4, <2>1 DEF Inv, EscalationIsJustified, Unclear
        <3> QED
            BY <1>4, <2>1, <3>1
    <2>2. CASE i = Len(hist) + 1
        <3>1. Escalates(o) /\ o.after = None /\ e.type \in Unclear
            BY <1>2, <1>4, <1>5, <2>2 DEF Unclear
        <3>2. last # None /\ last >= o.at - Window
            BY <3>1 DEF Escalates
        <3>3. PICK k \in 1..Len(hist) :
                  hist[k].at = last /\ \A n \in k..Len(hist) : hist[n].type \in Unclear
            BY <3>2 DEF Inv, EvidenceIsRecorded
        <3>4. hist'[k].at >= hist'[i].at - Window
            BY <1>4, <1>5, <2>2, <3>2, <3>3
        <3>5. \A n \in k..i : hist'[n].type \in Unclear
            BY <1>4, <2>2, <3>1, <3>3
        <3> QED
            BY <1>4, <2>2, <3>4, <3>5
    <2> QED
        BY <1>4, <2>1, <2>2
<1> QED
    BY <1>6, <1>7, <1>8 DEF Inv

LEMMA SucceedPreserves ==
    ASSUME TypeOK, Inv, NEW p \in Process, Succeed(p)
    PROVE  Inv'
<1> DEFINE e == [type |-> "cleared", at |-> now, until |-> 0]
<1>1. e \in Event /\ hist' = Append(hist, e)
    BY DEF TypeOK, Event, Succeed
<1>2. /\ Len(hist) \in Nat
      /\ Len(hist') = Len(hist) + 1
      /\ hist'[Len(hist) + 1] = e
      /\ \A i \in 1..Len(hist) : hist'[i] = hist[i]
    BY <1>1, AppendEvent DEF TypeOK
<1>3. PausesStored'
    BY <1>2 DEF Inv, PausesStored, TypeOK, Succeed
<1>4. EvidenceIsRecorded'
    BY DEF EvidenceIsRecorded, Succeed
<1>5. EscalationIsJustified'
    <2> SUFFICES ASSUME NEW i \in 1..Len(hist'), hist'[i].type = "escalated"
                 PROVE  \E k \in 1..(i - 1) :
                            /\ hist'[k].at >= hist'[i].at - Window
                            /\ \A n \in k..i : hist'[n].type \in Unclear
        BY DEF EscalationIsJustified, Unclear
    <2>1. i \in 1..Len(hist)
        BY <1>2
    <2>2. PICK k \in 1..(i - 1) :
              /\ hist[k].at >= hist[i].at - Window
              /\ \A n \in k..i : hist[n].type \in Unclear
        BY <1>2, <2>1 DEF Inv, EscalationIsJustified, Unclear
    <2> QED
        BY <1>2, <2>1, <2>2
<1> QED
    BY <1>3, <1>4, <1>5 DEF Inv

LEMMA InvInductive ==
    TypeOK /\ Inv /\ [Next]_vars => Inv'
<1> SUFFICES ASSUME TypeOK, Inv, [Next]_vars PROVE Inv'
    OBVIOUS
<1>1. ASSUME NEW p \in Process, Record(p) PROVE Inv'
    BY <1>1, RecordPreserves
<1>2. ASSUME NEW p \in Process, Succeed(p) PROVE Inv'
    BY <1>2, SucceedPreserves
<1>3. ASSUME UNCHANGED <<row, hist>> PROVE Inv'
    BY <1>3 DEF Inv, PausesStored, EvidenceIsRecorded, EscalationIsJustified, row
<1>4. CASE Tick
    BY <1>3, <1>4 DEF Tick
<1>5. ASSUME NEW p \in Process, StartPass(p) \/ EndPass(p) \/ Crash(p) PROVE Inv'
    BY <1>3, <1>5 DEF StartPass, EndPass, Crash
<1>6. ASSUME NEW p \in Process, NEW after \in Response,
             Observe(p, after) \/ DeferOnly(p, after)
      PROVE Inv'
    BY <1>3, <1>6 DEF Observe, DeferOnly
<1>7. CASE UNCHANGED vars
    BY <1>3, <1>7 DEF vars, row
<1> QED
    BY <1>1, <1>2, <1>4, <1>5, <1>6, <1>7 DEF Next

LEMMA InvInitial == Init => Inv
BY DEF Init, Inv, PausesStored, EvidenceIsRecorded, EscalationIsJustified

LEMMA Invariance == Spec => [](TypeOK /\ Inv)
<1>1. Init => TypeOK /\ Inv
    BY TypeInitial, InvInitial
<1>2. TypeOK /\ Inv /\ [Next]_vars => (TypeOK /\ Inv)'
    BY TypeInductive, InvInductive
<1> QED
    BY <1>1, <1>2, PTL DEF Spec

\* The hour-long pause of record_rate_limit is never inferred from one ambiguous
\* 429, nor across an explicit Retry-After or a clearing success.
THEOREM EscalationIsJustifiedHolds == Spec => []EscalationIsJustified
<1>1. TypeOK /\ Inv => EscalationIsJustified
    BY DEF Inv
<1> QED
    BY <1>1, Invariance, PTL

\* log_active_cooldown lets no pass start before the end of every pause recorded
\* by any process, in whatever order the records were committed.
THEOREM PausesAreHonouredHolds == Spec => PausesAreHonoured
<1> DEFINE Honoured ==
        \A p \in Process :
            (pass[p] = "idle" /\ pass'[p] = "open")
                => \A i \in 1..Len(hist) : hist[i].until <= now
<1>1. TypeOK /\ Inv /\ [Next]_vars => [Honoured]_vars
    <2> SUFFICES ASSUME TypeOK, Inv, [Next]_vars,
                        NEW p \in Process, pass[p] = "idle", pass'[p] = "open"
                 PROVE  \A i \in 1..Len(hist) : hist[i].until <= now
        OBVIOUS
    <2>1. StartPass(p)
        BY DEF Next, vars, TypeOK, Tick, StartPass, Record, Succeed, EndPass, Crash,
               Observe, DeferOnly
    <2>2. resume <= now
        BY <2>1 DEF StartPass
    <2> SUFFICES ASSUME NEW i \in 1..Len(hist) PROVE hist[i].until <= now
        OBVIOUS
    <2>3. hist[i].until \in Nat
        BY EventTimes DEF TypeOK
    <2> QED
        BY <2>2, <2>3 DEF Inv, PausesStored, TypeOK
<1> QED
    BY <1>1, Invariance, PTL DEF Spec, PausesAreHonoured
=============================================================================
