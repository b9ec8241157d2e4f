----------------------- MODULE ResponsePipelineProofs -----------------------
(***************************************************************************)
(* Theorems about ResponsePipeline, for any number of processes, rows and  *)
(* deaths.  IInv adds to the invariants of the run what each caller holds  *)
(* in memory: a caller that asks the model or acquires the world owns its  *)
(* row alone, so nobody else fills it, and a caller on the way to the sink *)
(* holds the one adopted output.                                           *)
(***************************************************************************)
EXTENDS ResponsePipeline, NumberedRows

CallType(S) == [Caller -> [stage : Stages, ref : Nat, orphans : SUBSET S, loss : BOOLEAN]]
Started == Observation \ Observed("none")

RowsInv ==
    /\ Started = 1 .. Cardinality(Started)
    /\ \A n \in Invocation : invocation[n].generated => invocation[n] # NoInvocation

OutputInv ==
    /\ \A n \in adopted : target /\ invocation[n].generated /\ invocation[n].faithful
    /\ \A m, n \in adopted : m = n
    /\ \A s \in sink : s.key = s.output
    /\ \A n \in shown : \E s \in sink : s.output = n

\* What a caller holds in memory is still true of the rows.
Holds(c) ==
    /\ call[c].stage = "overwrite" => call[c].ref \in Opened
    /\ call[c].stage \in {"start", "open"} => call[c].ref \in 1 .. projections
    /\ call[c].stage = "acquire" =>
         call[c].ref \in Observation /\ observation[call[c].ref] = "STARTED"
    /\ call[c].stage = "extract" => call[c].ref \in Observed("SUCCEEDED")
    /\ call[c].stage = "asking" => ~invocation[call[c].ref].generated
    /\ call[c].stage \in {"target", "adopt"} => invocation[call[c].ref].generated
    /\ call[c].stage = "adopt" => target
    /\ call[c].stage \in {"accept", "commit"} => call[c].ref \in adopted
    /\ call[c].stage = "commit" => \E s \in sink : s.output = call[c].ref

\* No two callers wait for the answer to one row.
Owning == {"asking", "acquire"}
Owned == \A c, d \in Caller :
    c # d /\ call[c].stage \in Owning /\ call[c].stage = call[d].stage
        => call[c].ref # call[d].ref

IInv == TypeOK /\ RowsInv /\ OutputInv /\ (\A c \in Caller : Holds(c)) /\ Owned

-----------------------------------------------------------------------------
(* Moving one caller. *)

LEMMA GotoFacts ==
  ASSUME NEW S, call \in CallType(S), NEW c \in Caller, NEW st \in Stages, NEW r \in Nat,
         Goto(c, st, r)
  PROVE  /\ call' \in CallType(S)
         /\ call'[c].stage = st
         /\ call'[c].ref = r
         /\ \A d \in Caller \ {c} : call'[d] = call[d]
  BY DEF CallType, Goto, Idle

LEMMA ReturnFacts ==
  ASSUME NEW S, call \in CallType(S), NEW c \in Caller, Return(c)
  PROVE  /\ call' \in CallType(S)
         /\ call'[c].stage = "idle"
         /\ \A d \in Caller \ {c} : call'[d] = call[d]
  BY DEF CallType, Return, Idle, Stages

rows == <<frontier, world, projections, invocation, output>>

\* A step that writes no row and leaves its caller without a row of its own.
LEMMA MoveStep ==
  ASSUME IInv, NEW c \in Caller, UNCHANGED rows, crashes' \in 0 .. MaxCrash,
         call' \in CallType(Opened), Holds(c)', call'[c].stage \notin Owning,
         call'[c].stage \in {"failing", "target", "adopt", "accept", "commit"}
             => call'[c].ref \in Opened,
         \A d \in Caller \ {c} : call'[d] = call[d]
  PROVE  IInv'
<1> USE DEF rows, world, output
<1>1. Opened' = Opened /\ \A s : Observed(s)' = Observed(s)
  BY DEF IInv, Opened, Observed
<1>2. TypeOK'
  BY <1>1 DEF IInv, TypeOK, CallType, Owning
<1>3. RowsInv' /\ OutputInv'
  BY <1>1 DEF IInv, RowsInv, OutputInv, Started
<1>4. \A d \in Caller : Holds(d)'
  BY <1>1 DEF IInv, Holds
<1>5. Owned'
  BY DEF IInv, Owned, Owning
<1> QED
  BY <1>2, <1>3, <1>4, <1>5 DEF IInv

-----------------------------------------------------------------------------
(* The initial state. *)

LEMMA Bounds == MaxObservation \in Nat /\ MaxProjection \in Nat
                /\ MaxInvocation \in Nat /\ MaxCrash \in Nat
  BY BoundsAssumption

LEMMA InitInv == Init => IInv
<1> SUFFICES ASSUME Init PROVE IInv
  OBVIOUS
<1> USE DEF Init
<1>1. Opened = {} /\ Started = {}
  BY DEF Opened, Started, Observed
<1>2. Cardinality({}) = 0 /\ {} = 1 .. 0
  BY FS_EmptySet
<1>3. TypeOK
  <2>1. Opened = 1 .. Cardinality(Opened)
    BY <1>1, <1>2
  <2>2. invocation \in [Invocation ->
          [projection : 0 .. projections, generated : BOOLEAN, faithful : BOOLEAN,
           outcome : {"none", "IN_PROGRESS", "SUCCEEDED", "FAILED", "UNKNOWN"}]]
    BY DEF NoInvocation
  <2>3. call \in [Caller ->
          [stage : Stages, ref : Nat, orphans : SUBSET Opened, loss : BOOLEAN]]
    BY DEF Idle, Stages
  <2>4. \A c \in Caller : call[c].stage = "idle"
    BY DEF Idle
  <2>5. /\ frontier \in BOOLEAN /\ target \in BOOLEAN
        /\ result \in {0} \cup Observed("SUCCEEDED")
        /\ adopted \subseteq Opened /\ shown \subseteq adopted
        /\ sink \subseteq [key : Invocation, output : adopted]
    OBVIOUS
  <2>7. projections \in 0 .. MaxProjection /\ crashes \in 0 .. MaxCrash
    BY Bounds
  <2>8. observation \in [Observation -> {"none", "STARTED", "SUCCEEDED", "FAILED"}]
    OBVIOUS
  <2>6. \A c \in Caller :
           call[c].stage \in {"asking", "failing", "target", "adopt", "accept", "commit"}
               => call[c].ref \in Opened
    BY <2>4
  <2> HIDE DEF Init
  <2> QED
    BY <2>1, <2>2, <2>3, <2>5, <2>6, <2>7, <2>8 DEF TypeOK
<1>4. RowsInv /\ OutputInv
  BY <1>1, <1>2 DEF RowsInv, OutputInv, NoInvocation
<1>5. (\A c \in Caller : Holds(c)) /\ Owned
  BY DEF Holds, Owned, Owning, Idle
<1> QED
  BY <1>3, <1>4, <1>5 DEF IInv

-----------------------------------------------------------------------------
(* Steps that write no row. *)

LEMMA RespondAfterLossStep ==
  ASSUME IInv, NEW c \in Caller, RespondAfterLoss(c) PROVE IInv'
<1>1. call' \in CallType(Opened) /\ call'[c].stage = "reconcile"
  BY DEF RespondAfterLoss, IInv, TypeOK, CallType, Idle, Stages
<1> QED
  BY <1>1, MoveStep DEF RespondAfterLoss, rows, Holds, Owning, IInv, TypeOK, CallType

LEMMA ReadOrphansStep ==
  ASSUME IInv, NEW c \in Caller, ReadOrphans(c) PROVE IInv'
<1> DEFINE open == {n \in Opened : invocation[n].outcome = "IN_PROGRESS"}
           st == IF open = {} THEN "assess" ELSE "unresolved"
<1>0. call \in CallType(Opened) /\ open \in SUBSET Opened /\ st \in Stages
  BY DEF IInv, TypeOK, CallType, Stages
<1>1. call' \in CallType(Opened) /\ call'[c].stage = st
  <2>1. call' = [call EXCEPT ![c].stage = st, ![c].orphans = open]
    BY DEF ReadOrphans
  <2> HIDE DEF open, st
  <2> QED
    BY <1>0, <2>1 DEF CallType
<1>2. \A d \in Caller \ {c} : call'[d] = call[d]
  BY DEF ReadOrphans, IInv, TypeOK
<1>3. UNCHANGED rows /\ crashes' \in 0 .. MaxCrash /\ st \in {"assess", "unresolved"}
  BY DEF ReadOrphans, rows, IInv, TypeOK
<1> HIDE DEF st
<1> QED
  BY <1>1, <1>2, <1>3, MoveStep DEF Holds, Owning

\* The orphans of a caller are rows, and so is the one it overwrites.
LEMMA ReconciledFacts ==
  ASSUME call \in CallType(Opened), NEW c \in Caller, NEW n, Reconciled(c, n)
  PROVE  /\ call' \in CallType(Opened)
         /\ call'[c].stage \in {"assess", "unresolved"}
         /\ \A d \in Caller \ {c} : call'[d] = call[d]
<1> DEFINE rest == call[c].orphans \ {n}
           st == IF rest = {} THEN "assess" ELSE "unresolved"
<1>1. rest \in SUBSET Opened /\ st \in Stages /\ st \in {"assess", "unresolved"}
  BY DEF CallType, Stages
<1>2. call' = [call EXCEPT ![c].stage = st, ![c].orphans = rest, ![c].ref = 0]
  BY DEF Reconciled
<1> HIDE DEF rest, st
<1> QED
  BY <1>1, <1>2, ZenonT(30) DEF CallType

LEMMA ReadOrphanStep ==
  ASSUME IInv, NEW c \in Caller, ReadOrphan(c) PROVE IInv'
<1>0. call \in CallType(Opened)
  BY DEF IInv, TypeOK, CallType
<1> PICK n \in call[c].orphans :
         IF invocation[n].outcome = "IN_PROGRESS"
         THEN call' = [call EXCEPT ![c].stage = "overwrite", ![c].ref = n]
         ELSE Reconciled(c, n)
  BY DEF ReadOrphan
<1>1. CASE invocation[n].outcome = "IN_PROGRESS"
  <2>1. n \in Opened /\ n \in Nat
    BY <1>0 DEF CallType, Opened, Invocation
  <2>2. /\ call' \in CallType(Opened)
        /\ call'[c].stage = "overwrite" /\ call'[c].ref = n
        /\ \A d \in Caller \ {c} : call'[d] = call[d]
    BY <1>0, <1>1, <2>1 DEF CallType, Stages
  <2>3. Holds(c)'
    BY <2>1, <2>2 DEF Holds, ReadOrphan, Opened
  <2> QED
    BY <2>2, <2>3, MoveStep DEF ReadOrphan, rows, Owning, IInv, TypeOK
<1>2. CASE invocation[n].outcome # "IN_PROGRESS"
  BY <1>0, <1>2, ReconciledFacts, MoveStep
  DEF ReadOrphan, rows, Owning, Holds, IInv, TypeOK
<1> QED
  BY <1>1, <1>2

LEMMA AssessStep ==
  ASSUME IInv, NEW c \in Caller, Assess(c) PROVE IInv'
<1>0. call \in CallType(Opened) /\ UNCHANGED rows /\ crashes' \in 0 .. MaxCrash
  BY DEF IInv, TypeOK, CallType, Assess, rows
<1>1. CASE Return(c)
  BY <1>0, <1>1, ReturnFacts, MoveStep DEF Holds, Owning
<1>2. ASSUME NEW n \in adopted, Goto(c, "accept", n) PROVE IInv'
  <2>1. n \in Opened /\ n \in Nat /\ "accept" \in Stages
    BY DEF IInv, TypeOK, Opened, Invocation, Stages
  <2>2. /\ call' \in CallType(Opened)
        /\ call'[c].stage = "accept" /\ call'[c].ref = n
        /\ \A d \in Caller \ {c} : call'[d] = call[d]
    BY <1>0, <1>2, <2>1, GotoFacts
  <2>3. Holds(c)'
    BY <1>0, <2>2 DEF Holds, rows, output
  <2> QED
    BY <1>0, <2>1, <2>2, <2>3, MoveStep DEF Owning
<1>3. CASE Goto(c, "world", 0)
  <2>1. "world" \in Stages /\ 0 \in Nat
    BY DEF Stages
  <2> QED
    BY <1>0, <1>3, <2>1, GotoFacts, MoveStep DEF Holds, Owning
<1>4. ASSUME NEW n \in Opened, invocation[n].generated, Goto(c, "target", n) PROVE IInv'
  <2>1. n \in Nat /\ "target" \in Stages
    BY DEF Opened, Invocation, Stages
  <2>2. /\ call' \in CallType(Opened)
        /\ call'[c].stage = "target" /\ call'[c].ref = n
        /\ \A d \in Caller \ {c} : call'[d] = call[d]
    BY <1>0, <1>4, <2>1, GotoFacts
  <2>3. Holds(c)'
    BY <1>0, <1>4, <2>2 DEF Holds, rows
  <2> QED
    BY <1>0, <1>4, <2>1, <2>2, <2>3, MoveStep DEF Owning
<1>5. CASE projections # 0 /\ Goto(c, "start", projections)
  <2>1. projections \in Nat /\ projections \in 1 .. projections /\ "start" \in Stages
    BY <1>5, BoundsAssumption DEF IInv, TypeOK, Stages
  <2>2. /\ call' \in CallType(Opened)
        /\ call'[c].stage = "start" /\ call'[c].ref = projections
        /\ \A d \in Caller \ {c} : call'[d] = call[d]
    BY <1>0, <1>5, <2>1, GotoFacts
  <2>3. Holds(c)'
    BY <1>0, <2>1, <2>2 DEF Holds, rows
  <2> QED
    BY <1>0, <2>2, <2>3, MoveStep DEF Owning
<1> QED
  BY <1>1, <1>2, <1>3, <1>4, <1>5 DEF Assess, Reusable, InState, Of

LEMMA EnsureWorldResultStep ==
  ASSUME IInv, NEW c \in Caller, EnsureWorldResult(c) PROVE IInv'
<1>0. call \in CallType(Opened) /\ UNCHANGED rows /\ crashes' \in 0 .. MaxCrash
  BY DEF IInv, TypeOK, CallType, EnsureWorldResult, rows
<1>1. CASE Return(c)
  BY <1>0, <1>1, ReturnFacts, MoveStep DEF Holds, Owning
<1>2. ASSUME NEW st \in {"project", "observe"}, Goto(c, st, 0) PROVE IInv'
  <2>1. st \in Stages /\ 0 \in Nat
    BY DEF Stages
  <2> QED
    BY <1>0, <1>2, <2>1, GotoFacts, MoveStep DEF Holds, Owning
<1>3. ASSUME NEW o \in Captured, Goto(c, "extract", o) PROVE IInv'
  <2>1. o \in Nat /\ "extract" \in Stages /\ o \in Observed("SUCCEEDED")
    BY DEF Captured, Observed, Observation, Stages
  <2>2. /\ call' \in CallType(Opened)
        /\ call'[c].stage = "extract" /\ call'[c].ref = o
        /\ \A d \in Caller \ {c} : call'[d] = call[d]
    BY <1>0, <1>3, <2>1, GotoFacts
  <2>3. Holds(c)'
    BY <1>0, <2>1, <2>2 DEF Holds, rows, world, Observed
  <2> QED
    BY <1>0, <2>2, <2>3, MoveStep DEF Owning
<1> QED
  BY <1>1, <1>2, <1>3 DEF EnsureWorldResult

LEMMA CheckInvocationStep ==
  ASSUME IInv, NEW c \in Caller, CheckInvocation(c) PROVE IInv'
<1>0. call \in CallType(Opened) /\ UNCHANGED rows /\ crashes' \in 0 .. MaxCrash
  BY DEF IInv, TypeOK, CallType, CheckInvocation, rows
<1>1. CASE Return(c)
  BY <1>0, <1>1, ReturnFacts, MoveStep DEF Holds, Owning
<1>2. CASE Goto(c, "open", call[c].ref)
  <2>1. call[c].ref \in Nat /\ "open" \in Stages /\ call[c].ref \in 1 .. projections
    BY <1>0 DEF CallType, Stages, IInv, Holds, CheckInvocation
  <2>2. /\ call' \in CallType(Opened)
        /\ call'[c].stage = "open" /\ call'[c].ref = call[c].ref
        /\ \A d \in Caller \ {c} : call'[d] = call[d]
    BY <1>0, <1>2, <2>1, GotoFacts
  <2>3. Holds(c)'
    BY <1>0, <2>1, <2>2 DEF Holds, rows
  <2> QED
    BY <1>0, <2>2, <2>3, MoveStep DEF Owning
<1> QED
  BY <1>1, <1>2 DEF CheckInvocation

LEMMA CheckFailureStep ==
  ASSUME IInv, NEW c \in Caller, CheckFailure(c) PROVE IInv'
<1> DEFINE n == call[c].ref
<1>0. call \in CallType(Opened) /\ UNCHANGED rows /\ crashes' \in 0 .. MaxCrash
  BY DEF IInv, TypeOK, CallType, CheckFailure, rows
<1>1. CASE Return(c)
  BY <1>0, <1>1, ReturnFacts, MoveStep DEF Holds, Owning
<1>2. CASE Goto(c, "failing", n)
  <2>1. n \in Nat /\ n \in Opened /\ "failing" \in Stages
    BY <1>0 DEF CallType, Stages, IInv, TypeOK, CheckFailure
  <2> HIDE DEF n
  <2>2. /\ call' \in CallType(Opened)
        /\ call'[c].stage = "failing" /\ call'[c].ref = n
        /\ \A d \in Caller \ {c} : call'[d] = call[d]
    BY <1>0, <1>2, <2>1, GotoFacts
  <2>3. Holds(c)'
    BY <2>2 DEF Holds
  <2> QED
    BY <1>0, <2>1, <2>2, <2>3, MoveStep DEF Owning
<1> QED
  BY <1>1, <1>2 DEF CheckFailure

LEMMA CrashStep ==
  ASSUME IInv, NEW c \in Caller, Crash(c) PROVE IInv'
<1>1. call \in CallType(Opened) /\ UNCHANGED rows
  BY DEF IInv, TypeOK, CallType, Crash, rows
<1>2. crashes' \in 0 .. MaxCrash
  BY BoundsAssumption DEF IInv, TypeOK, Crash
<1> QED
  BY <1>1, <1>2, ReturnFacts, MoveStep DEF Crash, Holds, Owning

-----------------------------------------------------------------------------
(* Steps on the outcome of an attempt. *)

\* An attempt changes its outcome, its caller goes on without a row of its own.
LEMMA OutcomeStep ==
  ASSUME IInv, NEW c \in Caller, NEW n \in Opened,
         NEW outcome \in {"none", "IN_PROGRESS", "SUCCEEDED", "FAILED", "UNKNOWN"},
         outcome # "none" \/ outcome = invocation[n].outcome,
         invocation' = [invocation EXCEPT ![n].outcome = outcome],
         UNCHANGED <<frontier, world, projections, output, crashes>>,
         call' \in CallType(Opened), call'[c].stage \in {"idle", "assess", "unresolved"},
         \A d \in Caller \ {c} : call'[d] = call[d]
  PROVE  IInv'
<1> USE DEF world, output
<1>0. n \in Invocation /\ invocation[n] # NoInvocation
  BY DEF Opened
<1>1. /\ invocation' \in [Invocation ->
           [projection : 0 .. projections, generated : BOOLEAN, faithful : BOOLEAN,
            outcome : {"none", "IN_PROGRESS", "SUCCEEDED", "FAILED", "UNKNOWN"}]]
      /\ \A m \in Invocation : /\ invocation'[m].generated = invocation[m].generated
                               /\ invocation'[m].faithful = invocation[m].faithful
      /\ \A m \in Invocation \ {n} : invocation'[m] = invocation[m]
      /\ invocation'[n].outcome = outcome
  <2> DEFINE Row == [projection : 0 .. projections, generated : BOOLEAN, faithful : BOOLEAN,
                     outcome : {"none", "IN_PROGRESS", "SUCCEEDED", "FAILED", "UNKNOWN"}]
  <2>1. invocation \in [Invocation -> Row]
    BY DEF IInv, TypeOK
  <2>2. PICK old : old = invocation[n]
    OBVIOUS
  <2>3. PICK new : new = [old EXCEPT !.outcome = outcome]
    OBVIOUS
  <2>4. old \in Row
    BY <1>0, <2>1, <2>2
  <2>5. /\ new \in Row /\ new.outcome = outcome
        /\ new.generated = old.generated /\ new.faithful = old.faithful
    BY <2>3, <2>4
  <2>6. invocation' = [invocation EXCEPT ![n] = new]
    BY <2>2, <2>3
  <2> HIDE DEF Row
  <2>8. /\ invocation' \in [Invocation -> Row] /\ invocation'[n] = new
        /\ \A m \in Invocation \ {n} : invocation'[m] = invocation[m]
    BY <1>0, <2>1, <2>5, <2>6
  <2>9. \A m \in Invocation : /\ invocation'[m].generated = invocation[m].generated
                              /\ invocation'[m].faithful = invocation[m].faithful
    BY <2>2, <2>5, <2>8
  <2>10. invocation'[n].outcome = outcome
    BY <2>5, <2>8
  <2>11. invocation' \in [Invocation ->
           [projection : 0 .. projections, generated : BOOLEAN, faithful : BOOLEAN,
            outcome : {"none", "IN_PROGRESS", "SUCCEEDED", "FAILED", "UNKNOWN"}]]
    BY <2>8, Zenon DEF Row
  <2> QED
    BY <2>8, <2>9, <2>10, <2>11
<1>2. invocation'[n] # NoInvocation
  <2>1. CASE outcome # "none"
    BY <1>1, <2>1 DEF NoInvocation
  <2>2. CASE outcome = invocation[n].outcome
    <3>1. invocation'[n] = invocation[n]
      BY <1>0, <2>2 DEF IInv, TypeOK
    <3> QED
      BY <1>0, <3>1
  <2> QED
    BY <2>1, <2>2
<1>3. Opened' = Opened /\ \A s : Observed(s)' = Observed(s)
  BY <1>0, <1>1, <1>2 DEF Opened, Observed
<1>4. TypeOK'
  <2>1. \A d \in Caller :
           call'[d].stage \in {"asking", "failing", "target", "adopt", "accept", "commit"}
               => call'[d].ref \in Opened
    BY DEF IInv, TypeOK
  <2> QED
    BY <1>1, <1>3, <2>1 DEF IInv, TypeOK, CallType
<1>5. RowsInv'
  BY <1>1, <1>2, <1>3 DEF IInv, RowsInv, Started
<1>6. adopted \subseteq Invocation
  BY DEF IInv, TypeOK, Opened
<1>7. OutputInv'
  BY <1>1, <1>6 DEF IInv, OutputInv
<1>8. \A d \in Caller : Holds(d)'
  <2> TAKE d \in Caller
  <2>1. CASE d = c
    BY <2>1 DEF Holds
  <2>2. CASE d # c
    <3>1. call'[d] = call[d] /\ Holds(d)
      BY <2>2 DEF IInv
    <3>2. call[d].stage \in {"asking", "target", "adopt"} => call[d].ref \in Invocation
      BY DEF IInv, TypeOK, Opened
    <3> QED
      BY <1>1, <1>3, <3>1, <3>2 DEF Holds
  <2> QED
    BY <2>1, <2>2
<1>9. Owned'
  BY DEF IInv, Owned, Owning
<1> QED
  BY <1>4, <1>5, <1>7, <1>8, <1>9 DEF IInv

LEMMA MarkUnknownStep ==
  ASSUME IInv, NEW c \in Caller, MarkUnknown(c) PROVE IInv'
<1>1. call \in CallType(Opened) /\ call[c].ref \in Opened
  BY DEF IInv, TypeOK, CallType, Holds, MarkUnknown
<1> QED
  BY <1>1, ReconciledFacts, OutcomeStep DEF MarkUnknown

LEMMA FailInvocationStep ==
  ASSUME IInv, NEW c \in Caller, FailInvocation(c) PROVE IInv'
<1> DEFINE n == call[c].ref
<1>1. call \in CallType(Opened) /\ n \in Opened
  BY DEF IInv, TypeOK, CallType, FailInvocation
<1>2. PICK outcome \in {"FAILED", "UNKNOWN"} :
           invocation' = [invocation EXCEPT ![n].outcome = outcome]
  BY DEF FailInvocation
<1>3. /\ call' \in CallType(Opened) /\ call'[c].stage = "idle"
      /\ \A d \in Caller \ {c} : call'[d] = call[d]
  BY <1>1, ReturnFacts DEF FailInvocation
<1>4. UNCHANGED <<frontier, world, projections, output, crashes>>
  BY DEF FailInvocation
<1> HIDE DEF n
<1> QED
  BY <1>1, <1>2, <1>3, <1>4, OutcomeStep

-----------------------------------------------------------------------------
(* Steps on the world rows and the projections. *)

\* A call that leaves the world alone is a MoveStep; one that starts an acquisition
\* owns a fresh row.
LEMMA StartObservationStep ==
  ASSUME IInv, NEW c \in Caller, StartObservation(c) PROVE IInv'
<1> DEFINE n == NextObservation
<1>0. call \in CallType(Opened)
  BY DEF IInv, TypeOK, CallType
<1>1. CASE result # 0
  <2>1. UNCHANGED rows /\ crashes' \in 0 .. MaxCrash /\ Return(c)
    BY <1>1 DEF StartObservation, rows, world, IInv, TypeOK
  <2> QED
    BY <1>0, <2>1, ReturnFacts, MoveStep DEF Holds, Owning
<1>2. CASE result = 0
  <2>0. /\ n \in Observation
        /\ observation' = [observation EXCEPT ![n] = "STARTED"]
        /\ Goto(c, "acquire", n)
        /\ UNCHANGED <<frontier, result, projections, invocation, output, crashes>>
    BY <1>2 DEF StartObservation
  <2>1. Started \subseteq 1 .. MaxObservation /\ n = Cardinality(Started) + 1
    BY DEF Started, Observation, NextObservation
  <2>2. n \notin Started /\ Started \cup {n} = 1 .. Cardinality(Started \cup {n})
    BY <2>1, Bounds, NextRow DEF IInv, RowsInv
  <2>3. n \in Nat /\ "acquire" \in Stages /\ observation[n] = "none"
    BY <2>0, <2>2 DEF Observation, Stages, Started, Observed
  <2> HIDE DEF n
  <2>4. /\ call' \in CallType(Opened)
        /\ call'[c].stage = "acquire" /\ call'[c].ref = n
        /\ \A d \in Caller \ {c} : call'[d] = call[d]
    BY <1>0, <2>0, <2>3, GotoFacts
  <2>5. /\ observation' \in [Observation -> {"none", "STARTED", "SUCCEEDED", "FAILED"}]
        /\ observation'[n] = "STARTED"
        /\ \A o \in Observation \ {n} : observation'[o] = observation[o]
    BY <2>0 DEF IInv, TypeOK
  <2>6. Opened' = Opened /\ Observed("SUCCEEDED")' = Observed("SUCCEEDED")
    BY <2>0, <2>3, <2>5 DEF Opened, Observed
  <2>7. Started' = Started \cup {n}
    BY <2>0, <2>3, <2>5 DEF Started, Observed
  <2>8. TypeOK'
    BY <2>0, <2>4, <2>5, <2>6 DEF IInv, TypeOK, CallType, output
  <2>9. RowsInv' /\ OutputInv'
    BY <2>0, <2>2, <2>7 DEF IInv, RowsInv, OutputInv, output
  <2>10. \A d \in Caller : Holds(d)'
    <3> TAKE d \in Caller
    <3>1. CASE d = c
      BY <2>0, <2>4, <2>5, <3>1 DEF Holds
    <3>2. CASE d # c
      <4>1. call'[d] = call[d] /\ Holds(d)
        BY <2>4, <3>2 DEF IInv
      <4>2. call[d].stage = "acquire" => call[d].ref # n
        BY <2>3, <4>1 DEF Holds
      <4> QED
        BY <2>0, <2>5, <2>6, <4>1, <4>2 DEF Holds, output
    <3> QED
      BY <3>1, <3>2
  <2>11. Owned'
    <3>1. \A d \in Caller \ {c} : call'[d].stage = "acquire" => call'[d].ref # n
      BY <2>3, <2>4 DEF IInv, Holds
    <3> QED
      BY <2>4, <3>1 DEF IInv, Owned, Owning
  <2> QED
    BY <2>8, <2>9, <2>10, <2>11 DEF IInv
<1> QED
  BY <1>1, <1>2

LEMMA RecordObservationStep ==
  ASSUME IInv, NEW c \in Caller, RecordObservation(c) PROVE IInv'
<1> DEFINE o == call[c].ref
<1>0. /\ call \in CallType(Opened) /\ call[c].stage = "acquire"
      /\ o \in Observation /\ observation[o] = "STARTED" /\ o \in Nat
  BY DEF IInv, TypeOK, CallType, Holds, RecordObservation, Observation
<1>1. PICK status \in {"SUCCEEDED", "FAILED"} :
         /\ observation' = [observation EXCEPT ![o] = status]
         /\ \/ status = "SUCCEEDED" /\ Goto(c, "extract", o)
            \/ status = "FAILED" /\ Return(c)
  BY DEF RecordObservation
<1>2. UNCHANGED <<frontier, result, projections, invocation, output, crashes>>
  BY DEF RecordObservation
<1>3. \A d \in Caller \ {c} : call[d].stage = "acquire" => call[d].ref # o
  BY <1>0 DEF IInv, Owned, Owning
<1> HIDE DEF o
<1>4. /\ call' \in CallType(Opened)
      /\ \/ status = "SUCCEEDED" /\ call'[c].stage = "extract" /\ call'[c].ref = o
         \/ call'[c].stage = "idle"
      /\ \A d \in Caller \ {c} : call'[d] = call[d]
  <2>1. "extract" \in Stages
    BY DEF Stages
  <2> QED
    BY <1>0, <1>1, <2>1, GotoFacts, ReturnFacts
<1>5. /\ observation' \in [Observation -> {"none", "STARTED", "SUCCEEDED", "FAILED"}]
      /\ observation'[o] = status
      /\ \A e \in Observation \ {o} : observation'[e] = observation[e]
  BY <1>0, <1>1 DEF IInv, TypeOK
<1>6. /\ Opened' = Opened /\ Started' = Started
      /\ Observed("SUCCEEDED") \subseteq Observed("SUCCEEDED")'
  BY <1>0, <1>2, <1>5 DEF Opened, Observed, Started
<1>7. TypeOK'
  BY <1>2, <1>4, <1>5, <1>6 DEF IInv, TypeOK, CallType, output
<1>8. RowsInv' /\ OutputInv'
  BY <1>2, <1>6 DEF IInv, RowsInv, OutputInv, output
<1>9. \A d \in Caller : Holds(d)'
  <2> TAKE d \in Caller
  <2>1. CASE d = c
    BY <1>0, <1>2, <1>4, <1>5, <2>1 DEF Holds, Observed
  <2>2. CASE d # c
    <3>1. call'[d] = call[d] /\ Holds(d)
      BY <1>4, <2>2 DEF IInv
    <3>2. call[d].stage = "acquire" => call[d].ref # o
      BY <1>3, <2>2
    <3> QED
      BY <1>2, <1>5, <1>6, <3>1, <3>2 DEF Holds, output
  <2> QED
    BY <2>1, <2>2
<1>10. Owned'
  BY <1>4 DEF IInv, Owned, Owning
<1> QED
  BY <1>7, <1>8, <1>9, <1>10 DEF IInv

LEMMA AdmitWorldResultStep ==
  ASSUME IInv, NEW c \in Caller, AdmitWorldResult(c) PROVE IInv'
<1> DEFINE o == call[c].ref
<1>0. call \in CallType(Opened) /\ o \in Observed("SUCCEEDED")
  BY DEF IInv, TypeOK, CallType, Holds, AdmitWorldResult
<1>1. UNCHANGED <<frontier, observation, projections, invocation, output, crashes>>
  BY DEF AdmitWorldResult
<1>2. result' \in {result, o} /\ (Goto(c, "project", 0) \/ Return(c))
  BY DEF AdmitWorldResult
<1> HIDE DEF o
<1>3. /\ call' \in CallType(Opened) /\ call'[c].stage \in {"project", "idle"}
      /\ \A d \in Caller \ {c} : call'[d] = call[d]
  <2>1. "project" \in Stages /\ 0 \in Nat
    BY DEF Stages
  <2> QED
    BY <1>0, <1>2, <2>1, GotoFacts, ReturnFacts
<1>4. Opened' = Opened /\ \A s : Observed(s)' = Observed(s)
  BY <1>1 DEF Opened, Observed
<1>5. TypeOK'
  BY <1>0, <1>1, <1>2, <1>3, <1>4 DEF IInv, TypeOK, CallType, output
<1>6. RowsInv' /\ OutputInv'
  BY <1>1, <1>4 DEF IInv, RowsInv, OutputInv, Started, output
<1>7. \A d \in Caller : Holds(d)'
  BY <1>1, <1>3, <1>4 DEF IInv, Holds, output
<1>8. Owned'
  BY <1>3 DEF IInv, Owned, Owning
<1> QED
  BY <1>5, <1>6, <1>7, <1>8 DEF IInv

LEMMA BuildProjectionStep ==
  ASSUME IInv, NEW c \in Caller, BuildProjection(c) PROVE IInv'
<1>0. call \in CallType(Opened) /\ projections \in Nat
  BY Bounds DEF IInv, TypeOK, CallType
<1>1. CASE UNCHANGED projections /\ Return(c)
  <2>1. UNCHANGED rows /\ crashes' \in 0 .. MaxCrash
    BY <1>1 DEF BuildProjection, rows, IInv, TypeOK
  <2> QED
    BY <1>0, <1>1, <2>1, ReturnFacts, MoveStep DEF Holds, Owning
<1>2. CASE /\ projections < MaxProjection /\ projections' = projections + 1
           /\ Goto(c, "start", projections + 1)
  <2>1. UNCHANGED <<frontier, world, invocation, output, crashes>>
    BY DEF BuildProjection
  <2>2. /\ call' \in CallType(Opened)
        /\ call'[c].stage = "start" /\ call'[c].ref = projections'
        /\ \A d \in Caller \ {c} : call'[d] = call[d]
    <3>1. projections + 1 \in Nat /\ "start" \in Stages
      BY <1>0 DEF Stages
    <3> QED
      BY <1>0, <1>2, <3>1, GotoFacts
  <2>3. Opened' = Opened /\ \A s : Observed(s)' = Observed(s)
    BY <2>1 DEF Opened, Observed, world
  <2>4. projections' \in 0 .. MaxProjection /\ 0 .. projections \subseteq 0 .. projections'
        /\ 1 .. projections \subseteq 1 .. projections' /\ projections' \in 1 .. projections'
    BY <1>0, <1>2, Bounds
  <2>5. TypeOK'
    <3>1. invocation' \in [Invocation ->
            [projection : 0 .. projections', generated : BOOLEAN, faithful : BOOLEAN,
             outcome : {"none", "IN_PROGRESS", "SUCCEEDED", "FAILED", "UNKNOWN"}]]
      BY <2>1, <2>4 DEF IInv, TypeOK
    <3>2. \A d \in Caller :
             call'[d].stage \in {"asking", "failing", "target", "adopt", "accept", "commit"}
                 => call'[d].ref \in Opened
      BY <2>2 DEF IInv, TypeOK
    <3> QED
      BY <2>1, <2>2, <2>3, <2>4, <3>1, <3>2 DEF IInv, TypeOK, CallType, output, world
  <2>6. RowsInv' /\ OutputInv'
    BY <2>1, <2>3 DEF IInv, RowsInv, OutputInv, Started, output, world
  <2>7. \A d \in Caller : Holds(d)'
    BY <2>1, <2>2, <2>3, <2>4 DEF IInv, Holds, output, world
  <2>8. Owned'
    BY <2>2 DEF IInv, Owned, Owning
  <2> QED
    BY <2>5, <2>6, <2>7, <2>8 DEF IInv
<1> QED
  BY <1>1, <1>2 DEF BuildProjection

-----------------------------------------------------------------------------
(* A new attempt, and its answer. *)

\* The attempt is the next row: nobody holds it and nothing was adopted from it.
LEMMA OpenInvocationStep ==
  ASSUME IInv, NEW c \in Caller, OpenInvocation(c) PROVE IInv'
<1> DEFINE n == NextInvocation
           row == [NoInvocation EXCEPT !.projection = call[c].ref, !.outcome = "IN_PROGRESS"]
<1>0. /\ call \in CallType(Opened) /\ n \in Invocation /\ n \in Nat
      /\ call[c].ref \in 0 .. projections
      /\ invocation' = [invocation EXCEPT ![n] = row] /\ Goto(c, "asking", n)
      /\ UNCHANGED <<frontier, world, projections, output, crashes>>
  BY DEF IInv, TypeOK, CallType, Holds, OpenInvocation, Invocation
<1>1. Opened \subseteq 1 .. MaxInvocation /\ n = Cardinality(Opened) + 1
  BY DEF Opened, Invocation, NextInvocation
<1>2. n \notin Opened /\ Opened \cup {n} = 1 .. Cardinality(Opened \cup {n})
  BY <1>1, Bounds, NextRow DEF IInv, TypeOK
<1>3. /\ row # NoInvocation /\ ~row.generated
      /\ row \in [projection : 0 .. projections, generated : BOOLEAN, faithful : BOOLEAN,
                  outcome : {"none", "IN_PROGRESS", "SUCCEEDED", "FAILED", "UNKNOWN"}]
  BY <1>0 DEF NoInvocation
<1> HIDE DEF n, row
<1>4. /\ call' \in CallType(Opened)
      /\ call'[c].stage = "asking" /\ call'[c].ref = n
      /\ \A d \in Caller \ {c} : call'[d] = call[d]
  <2>1. "asking" \in Stages
    BY DEF Stages
  <2> QED
    BY <1>0, <2>1, GotoFacts
<1>5. /\ invocation' \in [Invocation ->
            [projection : 0 .. projections, generated : BOOLEAN, faithful : BOOLEAN,
             outcome : {"none", "IN_PROGRESS", "SUCCEEDED", "FAILED", "UNKNOWN"}]]
      /\ invocation'[n] = row
      /\ \A m \in Invocation \ {n} : invocation'[m] = invocation[m]
  BY <1>0, <1>3 DEF IInv, TypeOK
<1>6. /\ Opened' = Opened \cup {n} /\ \A s : Observed(s)' = Observed(s)
      /\ \A m \in Opened : m \in Invocation \ {n}
  BY <1>0, <1>2, <1>3, <1>5 DEF Opened, Observed, world
<1>7. TypeOK'
  <2>1. call' \in CallType(Opened') /\ adopted \subseteq Opened'
    BY <1>4, <1>6 DEF IInv, TypeOK, CallType
  <2>2. \A d \in Caller :
           call'[d].stage \in {"asking", "failing", "target", "adopt", "accept", "commit"}
               => call'[d].ref \in Opened'
    BY <1>4, <1>6 DEF IInv, TypeOK
  <2>3. Opened' = 1 .. Cardinality(Opened')
    BY <1>2, <1>6
  <2> QED
    BY <1>0, <1>5, <1>6, <2>1, <2>2, <2>3 DEF IInv, TypeOK, CallType, world, output
<1>8. RowsInv'
  <2>1. Started' = Started
    BY <1>6 DEF Started
  <2> QED
    BY <1>3, <1>5, <2>1 DEF IInv, RowsInv
<1>9. OutputInv'
  <2>1. \A m \in adopted : invocation'[m] = invocation[m]
    BY <1>5, <1>6 DEF IInv, TypeOK
  <2> QED
    BY <1>0, <2>1 DEF IInv, OutputInv, output
<1>10. \A d \in Caller : Holds(d)'
  <2> TAKE d \in Caller
  <2>1. CASE d = c
    BY <1>3, <1>4, <1>5, <2>1 DEF Holds
  <2>2. CASE d # c
    <3>1. call'[d] = call[d] /\ Holds(d)
      BY <1>4, <2>2 DEF IInv
    <3>2. call[d].stage \in {"asking", "target", "adopt"} =>
            invocation'[call[d].ref] = invocation[call[d].ref]
      BY <1>5, <1>6 DEF IInv, TypeOK
    <3> QED
      BY <1>0, <1>6, <3>1, <3>2 DEF Holds, world, output
  <2> QED
    BY <2>1, <2>2
<1>11. Owned'
  <2>1. \A d \in Caller \ {c} : call[d].stage = "asking" => call[d].ref # n
    BY <1>2 DEF IInv, TypeOK
  <2> QED
    BY <1>4, <2>1 DEF IInv, Owned, Owning
<1> QED
  BY <1>7, <1>8, <1>9, <1>10, <1>11 DEF IInv

\* Nothing was adopted from an attempt that waits for its answer.
LEMMA CompleteInvocationStep ==
  ASSUME IInv, NEW c \in Caller, CompleteInvocation(c) PROVE IInv'
<1> DEFINE n == call[c].ref
<1>0. /\ call \in CallType(Opened) /\ n \in Opened /\ n \in Invocation /\ n \in Nat
      /\ ~invocation[n].generated /\ Goto(c, "target", n)
      /\ UNCHANGED <<frontier, world, projections, output, crashes>>
  BY DEF IInv, TypeOK, CallType, Holds, CompleteInvocation, Opened, Invocation
<1>1. PICK given \in BOOLEAN :
        invocation' = [invocation EXCEPT ![n].outcome = "SUCCEEDED", ![n].generated = TRUE,
                                         ![n].faithful = given]
  BY DEF CompleteInvocation
<1>2. \A d \in Caller \ {c} : call[d].stage = "asking" => call[d].ref # n
  BY DEF IInv, Owned, Owning, CompleteInvocation
<1> HIDE DEF n
<1>3. /\ call' \in CallType(Opened)
      /\ call'[c].stage = "target" /\ call'[c].ref = n
      /\ \A d \in Caller \ {c} : call'[d] = call[d]
  <2>1. "target" \in Stages
    BY DEF Stages
  <2> QED
    BY <1>0, <2>1, GotoFacts
<1>4. /\ invocation' \in [Invocation ->
            [projection : 0 .. projections, generated : BOOLEAN, faithful : BOOLEAN,
             outcome : {"none", "IN_PROGRESS", "SUCCEEDED", "FAILED", "UNKNOWN"}]]
      /\ invocation'[n].generated /\ invocation'[n].outcome = "SUCCEEDED"
      /\ \A m \in Invocation \ {n} : invocation'[m] = invocation[m]
  BY <1>0, <1>1 DEF IInv, TypeOK
<1>5. invocation'[n] # NoInvocation
  BY <1>4 DEF NoInvocation
<1>6. Opened' = Opened /\ \A s : Observed(s)' = Observed(s)
  BY <1>0, <1>4, <1>5 DEF Opened, Observed, world
<1>7. TypeOK'
  <2>1. \A d \in Caller :
           call'[d].stage \in {"asking", "failing", "target", "adopt", "accept", "commit"}
               => call'[d].ref \in Opened
    BY <1>0, <1>3 DEF IInv, TypeOK
  <2> QED
    BY <1>0, <1>3, <1>4, <1>6, <2>1 DEF IInv, TypeOK, CallType, world, output
<1>8. RowsInv'
  BY <1>4, <1>5, <1>6 DEF IInv, RowsInv, Started
<1>9. OutputInv'
  <2>1. \A m \in adopted : m \in Invocation \ {n}
    BY <1>0 DEF IInv, TypeOK, OutputInv, Opened
  <2> QED
    BY <1>0, <1>4, <2>1 DEF IInv, OutputInv, output
<1>10. \A d \in Caller : Holds(d)'
  <2> TAKE d \in Caller
  <2>1. CASE d = c
    BY <1>3, <1>4, <2>1 DEF Holds
  <2>2. CASE d # c
    <3>1. call'[d] = call[d] /\ Holds(d)
      BY <1>3, <2>2 DEF IInv
    <3>2. call[d].stage \in {"asking", "target", "adopt"} => call[d].ref \in Invocation
      BY DEF IInv, TypeOK, Opened
    <3>3. call[d].stage = "asking" => call[d].ref # n
      BY <1>2, <2>2
    <3> QED
      BY <1>0, <1>4, <1>6, <3>1, <3>2, <3>3 DEF Holds, world, output
  <2> QED
    BY <2>1, <2>2
<1>11. Owned'
  BY <1>3 DEF IInv, Owned, Owning
<1> QED
  BY <1>7, <1>8, <1>9, <1>10, <1>11 DEF IInv

-----------------------------------------------------------------------------
(* Steps on the way to the sink. *)

\* The rows of the attempts and of the world stay, and so do their numbers.
LEMMA OutputStep ==
  ASSUME IInv, NEW c \in Caller, frontier' \in BOOLEAN,
         UNCHANGED <<world, projections, invocation, crashes>>,
         target => target', target' \in BOOLEAN,
         adopted \subseteq adopted', adopted' \subseteq Opened, shown' \subseteq adopted',
         sink \subseteq sink', sink' \subseteq [key : Invocation, output : adopted'],
         OutputInv', Holds(c)', call' \in CallType(Opened), call'[c].stage \notin Owning,
         call'[c].stage \in {"failing", "target", "adopt", "accept", "commit"}
             => call'[c].ref \in Opened,
         \A d \in Caller \ {c} : call'[d] = call[d]
  PROVE  IInv'
<1> USE DEF world
<1>1. Opened' = Opened /\ Started' = Started /\ \A s : Observed(s)' = Observed(s)
  BY DEF Opened, Observed, Started
<1>2. TypeOK'
  BY <1>1 DEF IInv, TypeOK, CallType, Owning
<1>3. RowsInv'
  BY <1>1 DEF IInv, RowsInv
<1>4. \A d \in Caller : Holds(d)'
  BY <1>1 DEF IInv, Holds
<1>5. Owned'
  BY DEF IInv, Owned, Owning
<1> QED
  BY <1>2, <1>3, <1>4, <1>5 DEF IInv

LEMMA ResolveTargetStep ==
  ASSUME IInv, NEW c \in Caller, ResolveTarget(c) PROVE IInv'
<1> DEFINE n == call[c].ref
<1>0. /\ call \in CallType(Opened) /\ n \in Nat /\ n \in Opened
      /\ invocation[n].generated /\ "adopt" \in Stages /\ Goto(c, "adopt", n) /\ target'
      /\ UNCHANGED <<frontier, world, projections, invocation, adopted, sink, shown, crashes>>
  BY DEF IInv, TypeOK, CallType, Holds, ResolveTarget, Stages
<1> HIDE DEF n
<1>1. /\ call' \in CallType(Opened)
      /\ call'[c].stage = "adopt" /\ call'[c].ref = n
      /\ \A d \in Caller \ {c} : call'[d] = call[d]
  BY <1>0, GotoFacts
<1>2. OutputInv' /\ Holds(c)'
  BY <1>0, <1>1 DEF IInv, OutputInv, Holds
<1>3. frontier' \in BOOLEAN /\ target' \in BOOLEAN
  BY <1>0 DEF IInv, TypeOK, ResolveTarget
<1>4. adopted' \subseteq Opened /\ shown' \subseteq adopted'
      /\ sink' \subseteq [key : Invocation, output : adopted']
  BY <1>0 DEF IInv, TypeOK
<1> QED
  BY <1>0, <1>1, <1>2, <1>3, <1>4, OutputStep DEF Owning

LEMMA AdoptOutputStep ==
  ASSUME IInv, NEW c \in Caller, AdoptOutput(c) PROVE IInv'
<1> DEFINE n == call[c].ref
<1>0. /\ call \in CallType(Opened) /\ n \in Nat /\ n \in Opened
      /\ invocation[n].generated /\ target
      /\ UNCHANGED <<frontier, world, projections, invocation, target, sink, shown, crashes>>
  BY DEF IInv, TypeOK, CallType, Holds, AdoptOutput
<1>1. CASE Return(c) /\ UNCHANGED adopted
  <2>1. UNCHANGED rows /\ crashes' \in 0 .. MaxCrash
    BY <1>0, <1>1 DEF rows, output, IInv, TypeOK
  <2> QED
    BY <1>0, <1>1, <2>1, ReturnFacts, MoveStep DEF Holds, Owning
<1>2. CASE Adoptable(n) /\ adopted' = adopted \cup {n} /\ Goto(c, "accept", n)
  <2>1. invocation[n].faithful /\ adopted = {} /\ adopted' = {n} /\ "accept" \in Stages
    BY <1>2 DEF Adoptable, Stages
  <2>2. sink \subseteq [key : Invocation, output : adopted'] /\ shown \subseteq adopted'
    BY <2>1 DEF IInv, TypeOK
  <2> HIDE DEF n
  <2>3. /\ call' \in CallType(Opened)
        /\ call'[c].stage = "accept" /\ call'[c].ref = n
        /\ \A d \in Caller \ {c} : call'[d] = call[d]
    BY <1>0, <1>2, <2>1, GotoFacts
  <2>4. OutputInv' /\ Holds(c)'
    BY <1>0, <2>1, <2>3 DEF IInv, OutputInv, Holds
  <2>5. frontier' \in BOOLEAN /\ target' \in BOOLEAN
    BY <1>0 DEF IInv, TypeOK
  <2> QED
    BY <1>0, <2>1, <2>2, <2>3, <2>4, <2>5, OutputStep DEF Owning
<1> QED
  BY <1>1, <1>2 DEF AdoptOutput

\* What the sink may hold after it was asked to accept the adopted output.
LEMMA SinkFacts ==
  ASSUME IInv, NEW n \in adopted,
         sink' \in {sink, sink \cup {[key |-> PresentationKey(n), output |-> n]}},
         UNCHANGED <<adopted, target, invocation, shown>>
  PROVE  /\ OutputInv' /\ sink \subseteq sink'
         /\ adopted' \subseteq Opened /\ shown' \subseteq adopted'
         /\ sink' \subseteq [key : Invocation, output : adopted']
<1>1. n \in Invocation
  BY DEF IInv, TypeOK, Opened
<1>2. OutputInv'
  BY DEF IInv, OutputInv, PresentationKey
<1> QED
  BY <1>1, <1>2 DEF IInv, TypeOK, PresentationKey

LEMMA PresentOutputStep ==
  ASSUME IInv, NEW c \in Caller, PresentOutput(c) PROVE IInv'
<1> DEFINE n == call[c].ref
<1>0. /\ call \in CallType(Opened) /\ n \in Nat /\ n \in adopted /\ n \in Opened
      /\ sink' = sink \cup {[key |-> PresentationKey(n), output |-> n]}
      /\ "commit" \in Stages /\ Goto(c, "commit", n)
      /\ UNCHANGED <<frontier, world, projections, invocation, target, adopted, shown, crashes>>
  BY DEF IInv, TypeOK, CallType, Holds, PresentOutput, Stages
<1> HIDE DEF n
<1>1. /\ call' \in CallType(Opened)
      /\ call'[c].stage = "commit" /\ call'[c].ref = n
      /\ \A d \in Caller \ {c} : call'[d] = call[d]
  BY <1>0, GotoFacts
<1>2. /\ OutputInv' /\ sink \subseteq sink'
      /\ adopted' \subseteq Opened /\ shown' \subseteq adopted'
      /\ sink' \subseteq [key : Invocation, output : adopted']
  BY <1>0, SinkFacts
<1>3. Holds(c)'
  <2> DEFINE s == [key |-> PresentationKey(n), output |-> n]
  <2>1. s \in sink' /\ s.output = n
    BY <1>0
  <2> HIDE DEF s
  <2>2. n \in adopted'
    BY <1>0
  <2> QED
    BY <1>1, <2>1, <2>2 DEF Holds
<1>4. frontier' \in BOOLEAN /\ target' \in BOOLEAN
  BY <1>0 DEF IInv, TypeOK
<1> QED
  BY <1>0, <1>1, <1>2, <1>3, <1>4, OutputStep DEF Owning

LEMMA PresentationLostStep ==
  ASSUME IInv, NEW c \in Caller, PresentationLost(c) PROVE IInv'
<1> DEFINE n == call[c].ref
<1>0. /\ call \in CallType(Opened) /\ n \in adopted /\ Return(c)
      /\ sink' \in {sink, sink \cup {[key |-> PresentationKey(n), output |-> n]}}
      /\ UNCHANGED <<frontier, world, projections, invocation, target, adopted, shown, crashes>>
  BY DEF IInv, TypeOK, CallType, Holds, PresentationLost
<1> HIDE DEF n
<1>1. /\ call' \in CallType(Opened) /\ call'[c].stage = "idle"
      /\ \A d \in Caller \ {c} : call'[d] = call[d]
  BY <1>0, ReturnFacts
<1>2. /\ OutputInv' /\ sink \subseteq sink'
      /\ adopted' \subseteq Opened /\ shown' \subseteq adopted'
      /\ sink' \subseteq [key : Invocation, output : adopted']
  BY <1>0, SinkFacts
<1>3. Holds(c)' /\ frontier' \in BOOLEAN /\ target' \in BOOLEAN
  BY <1>0, <1>1 DEF IInv, TypeOK, Holds
<1> QED
  BY <1>0, <1>1, <1>2, <1>3, OutputStep DEF Owning

LEMMA CommitPresentationStep ==
  ASSUME IInv, NEW c \in Caller, CommitPresentation(c) PROVE IInv'
<1> DEFINE n == call[c].ref
<1>0. /\ call \in CallType(Opened) /\ n \in adopted /\ Return(c)
      /\ (\E s \in sink : s.output = n) /\ shown' = shown \cup {n} /\ frontier' = FALSE
      /\ UNCHANGED <<world, projections, invocation, target, adopted, sink, crashes>>
  BY DEF IInv, TypeOK, CallType, Holds, CommitPresentation
<1> HIDE DEF n
<1>1. /\ call' \in CallType(Opened) /\ call'[c].stage = "idle"
      /\ \A d \in Caller \ {c} : call'[d] = call[d]
  BY <1>0, ReturnFacts
<1>2. OutputInv' /\ Holds(c)'
  BY <1>0, <1>1 DEF IInv, OutputInv, Holds
<1>3. /\ frontier' \in BOOLEAN /\ target' \in BOOLEAN
      /\ adopted' \subseteq Opened /\ shown' \subseteq adopted'
      /\ sink' \subseteq [key : Invocation, output : adopted']
  BY <1>0 DEF IInv, TypeOK
<1> QED
  BY <1>0, <1>1, <1>2, <1>3, OutputStep DEF Owning

LEMMA AdvanceTimelineStep == ASSUME IInv, AdvanceTimeline PROVE IInv'
<1>1. /\ UNCHANGED <<world, projections, invocation, output, call, crashes>>
      /\ frontier' = FALSE
  BY DEF AdvanceTimeline
<1>2. Opened' = Opened /\ Started' = Started /\ \A s : Observed(s)' = Observed(s)
  BY <1>1 DEF Opened, Started, Observed, world
<1>3. TypeOK'
  BY <1>1, <1>2 DEF IInv, TypeOK, world, output
<1>4. RowsInv' /\ OutputInv'
  BY <1>1, <1>2 DEF IInv, RowsInv, OutputInv, output
<1>5. (\A d \in Caller : Holds(d)') /\ Owned'
  BY <1>1, <1>2 DEF IInv, Holds, Owned, output, world
<1> QED
  BY <1>3, <1>4, <1>5 DEF IInv

LEMMA StutterStep == ASSUME IInv, UNCHANGED vars PROVE IInv'
<1>1. UNCHANGED <<frontier, world, projections, invocation, output, call, crashes>>
  BY DEF vars
<1>2. Opened' = Opened /\ Started' = Started /\ \A s : Observed(s)' = Observed(s)
  BY <1>1 DEF Opened, Started, Observed, world
<1>3. TypeOK'
  BY <1>1, <1>2 DEF IInv, TypeOK, world, output
<1>4. RowsInv' /\ OutputInv'
  BY <1>1, <1>2 DEF IInv, RowsInv, OutputInv, output
<1>5. (\A d \in Caller : Holds(d)') /\ Owned'
  BY <1>1, <1>2 DEF IInv, Holds, Owned, output, world
<1> QED
  BY <1>3, <1>4, <1>5 DEF IInv

-----------------------------------------------------------------------------
(* The theorems. *)

\* Every step of every process, its death included, keeps the invariant.
LEMMA StepInv == IInv /\ [Next]_vars => IInv'
<1> SUFFICES ASSUME IInv, [Next]_vars PROVE IInv'
  OBVIOUS
<1>1. ASSUME NEW c \in Caller, Proceed(c) PROVE IInv'
  BY <1>1, ReadOrphansStep, ReadOrphanStep, MarkUnknownStep, AssessStep,
     EnsureWorldResultStep, StartObservationStep, RecordObservationStep,
     AdmitWorldResultStep, BuildProjectionStep, CheckInvocationStep, OpenInvocationStep,
     CheckFailureStep, FailInvocationStep, CompleteInvocationStep,
     ResolveTargetStep, AdoptOutputStep, CommitPresentationStep
  DEF Proceed
<1>2. ASSUME NEW c \in Caller,
             RespondAfterLoss(c) \/ PresentOutput(c) \/ PresentationLost(c) \/ Crash(c)
      PROVE  IInv'
  BY <1>2, RespondAfterLossStep, PresentOutputStep, PresentationLostStep, CrashStep
<1>3. CASE AdvanceTimeline
  BY <1>3, AdvanceTimelineStep
<1>4. CASE UNCHANGED vars
  BY <1>4, StutterStep
<1> QED
  BY <1>1, <1>2, <1>3, <1>4 DEF Next

\* What a caller holds is true of the rows in every reachable state, for every number of
\* callers, rows and deaths.
THEOREM Inductive == Spec => []IInv
<1>1. Init => IInv
  BY InitInv
<1>2. IInv /\ [Next]_vars => IInv'
  BY StepInv
<1> QED
  BY <1>1, <1>2, PTL DEF Spec

\* Rows and memory are well formed whatever the calls of respond do.
THEOREM TypeCorrectness == Spec => []TypeOK
<1>1. IInv => TypeOK
  BY DEF IInv
<1> QED
  BY <1>1, Inductive, PTL

\* However many processes answer the input, die and are run again, one output is adopted,
\* the sink accepts it once, and the Timeline shows only what the sink accepted.
THEOREM OneAnswer == Spec => []OneAnswerShown
<1>1. IInv => OneAnswerShown
  <2> SUFFICES ASSUME IInv PROVE OneAnswerShown
    OBVIOUS
  <2>1. Cardinality(adopted) <= 1
    BY AtMostOne DEF IInv, OutputInv
  <2>2. \A s \in sink : s \in [key : Invocation, output : adopted] /\ s.output \in adopted
    BY DEF IInv, TypeOK
  <2>3. \A s, t \in sink : s = t
    <3> SUFFICES ASSUME NEW s \in sink, NEW t \in sink PROVE s = t
      OBVIOUS
    <3>1. s.output = t.output /\ s.key = t.key
      BY <2>2 DEF IInv, OutputInv
    <3> QED
      BY <2>2, <3>1
  <2>4. Cardinality(sink) <= 1
    BY <2>3, AtMostOne
  <2> QED
    BY <2>1, <2>2, <2>4 DEF IInv, OutputInv, OneAnswerShown
<1> QED
  BY <1>1, Inductive, PTL
=============================================================================
