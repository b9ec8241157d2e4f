------------------------ MODULE CalendarAnswerProofs ------------------------
(***************************************************************************)
(* Theorems about CalendarAnswer, for any number of callers, results,      *)
(* operations and generations.  The argument: an operation number is spent *)
(* for every result at once, and a caller's number is one more than its    *)
(* own result had, so only one result of an interaction is ever taken to   *)
(* the model; its invocations are numbered without gaps, one at a time.    *)
(* The presentation rests on the same numbering of its generations.        *)
(***************************************************************************)
EXTENDS CalendarAnswer, NumberedRows

Invocation == [outcome : {"none", "IN_PROGRESS", "SUCCEEDED", "FAILED"}, faithful : BOOLEAN]

Call == [stage : Stages, result : 0 .. MaxResult, op : 0 .. MaxInvocation + 1,
         gen : 0 .. MaxGeneration + 1, again : BOOLEAN,
         status : {"UNKNOWN", "ACCEPTED", "NOT_ACCEPTED"}]

Live == {"IN_PROGRESS", "SUCCEEDED"}
Stated == [outcome |-> "SUCCEEDED", faithful |-> TRUE]

\* Only an invocation that succeeded can have stated the schedule.
Faithful ==
    \A r \in Result, n \in Operation :
        invocation[r][n].faithful => invocation[r][n].outcome = "SUCCEEDED"

Gapless == \A r \in Result : Invocations(r) = 1 .. Cardinality(Invocations(r))

\* Only one result was ever taken to the model, one invocation at a time.
OneResult ==
    \A r, q \in Result : Invocations(r) # {} /\ Invocations(q) # {} => r = q

OneLive ==
    \A r \in Result : \A n, m \in Operation :
        invocation[r][n].outcome \in Live /\ invocation[r][m].outcome \in Live => n = m

Outputs ==
    /\ \A a \in adopted : invocation[a[1]][a[2]] = Stated
    /\ \A a, b \in adopted : a = b

Answering == Faithful /\ Gapless /\ OneResult /\ OneLive /\ Outputs

Started == {g \in Generation : attempt[g] # "none"}

Numbered == Started = 1 .. Latest

\* A generation is sent only after the ones before it were refused for good.
Refusals ==
    \A g, h \in Generation : attempt[g] # "none" /\ h < g => attempt[h] = "NOT_ACCEPTED"

\* The record of a generation and what became of it at the sink.
Generations ==
    \A g \in Generation :
        /\ attempt[g] = "none" => sink[g] = "none"
        /\ attempt[g] = "ACCEPTED" => sink[g] = "accepted"
        /\ attempt[g] = "NOT_ACCEPTED" => sink[g] = "closed"

Bindings ==
    /\ recorded => Shown # {}
    /\ provenance # 0 => recorded /\ provenance \in Shown

Presentation == Numbered /\ Refusals /\ Generations /\ Bindings

Generating == {"dispatch", "asking", "adopt"}
AtSink == {"send", "sent", "settle", "record", "provenance"}

\* What a call holds in memory is true of the records and of the sink.
Holds(c) ==
    /\ call[c].stage \in {"project", "generate"} \cup Generating => call[c].result \in admitted
    /\ call[c].stage = "dispatch" =>
        \A m \in Operation : m < call[c].op => m \in Invocations(call[c].result)
    /\ call[c].stage \in {"asking", "adopt"} => call[c].op \in Operation
    /\ call[c].stage \in {"looking", "checking"} => Started # {}
    /\ call[c].stage \in AtSink => call[c].gen \in Started
    /\ call[c].stage = "settle" =>
        /\ call[c].status # "UNKNOWN"
        /\ call[c].status = "ACCEPTED" => sink[call[c].gen] = "accepted"
        /\ call[c].status = "NOT_ACCEPTED" => sink[call[c].gen] = "closed"
    /\ call[c].stage \in {"record", "provenance"} => attempt[call[c].gen] = "ACCEPTED"
    /\ call[c].stage = "provenance" => recorded

IInv == TypeOK /\ Answering /\ Presentation /\ (\A c \in Caller : Holds(c))

-----------------------------------------------------------------------------
(* Types. *)

LEMMA Bounds ==
  /\ MaxResult \in Nat \ {0} /\ MaxInvocation \in Nat \ {0} /\ MaxGeneration \in Nat \ {0}
  /\ MaxCrash \in Nat
BY BoundsAssumption

LEMMA Typed ==
  ASSUME TypeOK
  PROVE  /\ call \in [Caller -> Call]
         /\ invocation \in [Result -> [Operation -> Invocation]]
         /\ attempt \in [Generation -> {"none", "UNKNOWN", "ACCEPTED", "NOT_ACCEPTED"}]
         /\ sink \in [Generation -> {"none", "inFlight", "accepted", "closed"}]
         /\ projected \subseteq admitted /\ admitted \subseteq Result
         /\ adopted \subseteq Result \X Operation
BY DEF TypeOK, Call, Invocation

\* A step of one call leaves the others.
Moves(c) ==
    /\ call' \in [Caller -> Call]
    /\ \A d \in Caller \ {c} : call'[d] = call[d]

\* A call names an operation while it generates.
Named(c) == call[c].op # 0 <=> call[c].stage \in Generating

LEMMA NamedCalls == ASSUME TypeOK, NEW c \in Caller PROVE Named(c)
BY DEF TypeOK, Named, Generating

LEMMA IdleCall == /\ Idle \in Call /\ Idle.stage = "idle" /\ Idle.op = 0
BY Bounds DEF Idle, Call, Stages

LEMMA ReturnFacts ==
  ASSUME TypeOK, NEW c \in Caller, Return(c)
  PROVE  Moves(c) /\ call'[c].stage = "idle" /\ Named(c)' /\ Holds(c)'
<1>1. call \in [Caller -> Call]
  BY Typed
<1>2. Moves(c) /\ call'[c] = Idle
  BY <1>1, IdleCall DEF Return, Moves
<1> QED
  BY <1>2, IdleCall DEF Named, Holds, Generating, AtSink

LEMMA GotoFacts ==
  ASSUME TypeOK, NEW c \in Caller, NEW stage \in Stages, Goto(c, stage)
  PROVE  /\ Moves(c) /\ call'[c].stage = stage
         /\ call'[c].result = call[c].result /\ call'[c].op = call[c].op
         /\ call'[c].gen = call[c].gen /\ call'[c].status = call[c].status
<1>1. call \in [Caller -> Call]
  BY Typed
<1> QED
  BY <1>1 DEF Goto, Moves, Call

LEMMA GotoGenerationFacts ==
  ASSUME TypeOK, NEW c \in Caller, NEW stage \in Stages, NEW g \in 0 .. MaxGeneration + 1,
         GotoGeneration(c, stage, g)
  PROVE  Moves(c) /\ call'[c].stage = stage /\ call'[c].gen = g /\ call'[c].op = 0
<1>1. PICK j : j = [Idle EXCEPT !.stage = stage, !.gen = g]
  OBVIOUS
<1>2. j = [stage |-> stage, result |-> 0, op |-> 0, gen |-> g, status |-> "UNKNOWN",
           again |-> FALSE]
  BY <1>1 DEF Idle
<1>3. j \in Call /\ j.stage = stage /\ j.gen = g /\ j.op = 0
  BY <1>2, Bounds DEF Call
<1>4. call' = [call EXCEPT ![c] = j] /\ call \in [Caller -> Call]
  BY <1>1, Typed DEF GotoGeneration
<1> QED
  BY <1>3, <1>4 DEF Moves

\* A call takes a result up.
LEMMA ResultTaken ==
  ASSUME TypeOK, NEW c \in Caller, NEW r \in Result,
         call' = [call EXCEPT ![c] = [Idle EXCEPT !.stage = "project", !.result = r]]
  PROVE  /\ Moves(c) /\ call'[c].stage = "project" /\ call'[c].result = r
         /\ call'[c].op = 0
<1>1. PICK j : j = [Idle EXCEPT !.stage = "project", !.result = r]
  OBVIOUS
<1>2. j = [stage |-> "project", result |-> r, op |-> 0, gen |-> 0, status |-> "UNKNOWN",
           again |-> FALSE]
  BY <1>1 DEF Idle
<1>3. j \in Call /\ j.stage = "project" /\ j.result = r /\ j.op = 0
  BY <1>2, Bounds DEF Call, Stages, Result
<1>4. call' = [call EXCEPT ![c] = j] /\ call \in [Caller -> Call]
  BY <1>1, Typed
<1> QED
  BY <1>3, <1>4 DEF Moves

\* An invocation of one result is written; the others stay.
InvocationWritten(r, n, x) ==
    /\ invocation' \in [Result -> [Operation -> Invocation]]
    /\ invocation'[r][n] = x
    /\ \A q \in Result, m \in Operation :
            q # r \/ m # n => invocation'[q][m] = invocation[q][m]

LEMMA OutcomeSet ==
  ASSUME TypeOK, NEW r \in Result, NEW n \in Operation,
         NEW outcome \in {"IN_PROGRESS", "FAILED"}, ~ invocation[r][n].faithful,
         invocation' = [invocation EXCEPT ![r][n].outcome = outcome]
  PROVE  InvocationWritten(r, n, [outcome |-> outcome, faithful |-> FALSE])
<1>1. invocation \in [Result -> [Operation -> Invocation]]
  BY Typed
<1>2. invocation' \in [Result -> [Operation -> Invocation]]
  BY <1>1 DEF Invocation
<1>3. /\ invocation'[r][n].outcome = outcome
      /\ invocation'[r][n].faithful = invocation[r][n].faithful
  BY <1>1 DEF Invocation
<1>4. invocation[r][n].faithful \in BOOLEAN /\ invocation'[r][n] \in Invocation
  BY <1>1, <1>2 DEF Invocation
<1>5. invocation'[r][n] = [outcome |-> outcome, faithful |-> FALSE]
  BY <1>3, <1>4 DEF Invocation
<1>6. \A q \in Result, m \in Operation :
            q # r \/ m # n => invocation'[q][m] = invocation[q][m]
  BY <1>1
<1> QED
  BY <1>2, <1>5, <1>6 DEF InvocationWritten

LEMMA SuccessSet ==
  ASSUME TypeOK, NEW r \in Result, NEW n \in Operation, NEW faithful \in BOOLEAN,
         invocation' = [invocation EXCEPT
            ![r][n] = [outcome |-> "SUCCEEDED", faithful |-> faithful]]
  PROVE  InvocationWritten(r, n, [outcome |-> "SUCCEEDED", faithful |-> faithful])
<1>1. invocation \in [Result -> [Operation -> Invocation]]
  BY Typed
<1> QED
  BY <1>1 DEF InvocationWritten, Invocation

LEMMA WrittenInvocations ==
  ASSUME NEW r \in Result, NEW n \in Operation, NEW x, x # NoInvocation,
         InvocationWritten(r, n, x)
  PROVE  /\ Invocations(r)' = Invocations(r) \cup {n}
         /\ \A q \in Result \ {r} : Invocations(q)' = Invocations(q)
BY DEF InvocationWritten, Invocations

-----------------------------------------------------------------------------
(* What does not change. *)

\* The records and the sink never take back what calls have learned.
Extends ==
    /\ admitted \subseteq admitted'
    /\ \A r \in Result : Invocations(r) \subseteq Invocations(r)'
    /\ \A g \in Generation :
        /\ attempt[g] # "none" => attempt'[g] # "none"
        /\ attempt[g] = "ACCEPTED" => attempt'[g] = "ACCEPTED"
        /\ sink[g] \in {"accepted", "closed"} => sink'[g] = sink[g]
    /\ recorded => recorded'

LEMMA HoldersKept ==
  ASSUME IInv, Extends, NEW c \in Caller, call'[c] = call[c] PROVE Holds(c)'
<1>1. Holds(c) /\ admitted \subseteq Result
  BY Typed DEF IInv
<1>2. PICK r, g, stage : r = call[c].result /\ g = call[c].gen /\ stage = call[c].stage
  OBVIOUS
<1>3. stage \in Generating \cup {"project", "generate"} => r \in Result
  BY <1>1, <1>2 DEF Holds
<1>4. stage \in AtSink => g \in Generation /\ attempt[g] # "none"
  BY <1>1, <1>2 DEF Holds, Started
<1>5. Started \subseteq Started'
  BY DEF Started, Extends
<1>6. stage \in Generating \cup {"project", "generate"} => call'[c].result \in admitted'
  BY <1>1, <1>2 DEF Holds, Extends
<1>7. stage = "dispatch" =>
        \A m \in Operation : m < call'[c].op => m \in Invocations(r)'
  BY <1>1, <1>2, <1>3 DEF Holds, Extends, Generating
<1>8. stage \in {"looking", "checking"} => Started' # {}
  BY <1>1, <1>2, <1>5 DEF Holds
<1>9. stage \in AtSink => g \in Started'
  BY <1>1, <1>2, <1>5 DEF Holds
<1>10. stage = "settle" =>
        /\ call[c].status # "UNKNOWN"
        /\ call[c].status = "ACCEPTED" => sink'[g] = "accepted"
        /\ call[c].status = "NOT_ACCEPTED" => sink'[g] = "closed"
  BY <1>1, <1>2, <1>4 DEF Holds, Extends, AtSink
<1>11. stage \in {"record", "provenance"} => attempt'[g] = "ACCEPTED"
  BY <1>1, <1>2, <1>4 DEF Holds, Extends, AtSink
<1>12. stage = "provenance" => recorded'
  BY <1>1, <1>2 DEF Holds, Extends
<1>13. stage \in {"asking", "adopt"} => call'[c].op \in Operation
  BY <1>1, <1>2 DEF Holds
<1>14. call'[c].result = r /\ call'[c].gen = g /\ call'[c].stage = stage
       /\ call'[c].status = call[c].status
  BY <1>2
<1> HIDE <1>2
<1> QED
  BY <1>6, <1>7, <1>8, <1>9, <1>10, <1>11, <1>12, <1>13, <1>14 DEF Holds

LEMMA AnsweringKept ==
  ASSUME IInv, UNCHANGED <<invocation, adopted>>
  PROVE  Answering' /\ \A r \in Result : Invocations(r)' = Invocations(r)
<1>1. \A r : Invocations(r)' = Invocations(r)
  BY DEF Invocations
<1>2. Gapless' /\ OneResult'
  BY <1>1 DEF IInv, Answering, Gapless, OneResult
<1>3. Faithful' /\ OneLive' /\ Outputs'
  BY DEF IInv, Answering, Faithful, OneLive, Outputs
<1> QED
  BY <1>1, <1>2, <1>3 DEF Answering

LEMMA PresentationKept ==
  ASSUME IInv, UNCHANGED <<presented, sink>> PROVE Presentation'
<1>1. UNCHANGED <<attempt, recorded, provenance, sink>>
  BY DEF presented
<1>2. Numbered'
  BY <1>1 DEF IInv, Presentation, Numbered, Started, Latest
<1>3. Refusals' /\ Generations' /\ Bindings'
  BY <1>1 DEF IInv, Presentation, Refusals, Generations, Bindings, Shown
<1> QED
  BY <1>2, <1>3 DEF Presentation

\* A step of one call that leaves the records of the presentation.
LEMMA AnswerStep ==
  ASSUME IInv, NEW c \in Caller, Moves(c), Named(c)', Holds(c)',
         UNCHANGED <<frontier, presented, sink>>, crashes' \in 0 .. MaxCrash,
         admitted \subseteq admitted', projected' \subseteq admitted', admitted' \subseteq Result,
         invocation' \in [Result -> [Operation -> Invocation]],
         adopted' \subseteq Result \X Operation, Answering',
         \A r \in Result : Invocations(r) \subseteq Invocations(r)'
  PROVE  IInv'
<1>1. UNCHANGED <<attempt, recorded, provenance, sink, frontier>> /\ TypeOK
  BY DEF presented, IInv
<1>2. Presentation' /\ Extends
  BY <1>1, PresentationKept DEF Extends
<1>3. \A d \in Caller : Holds(d)'
  BY <1>2, HoldersKept DEF Moves
<1>4. \A d \in Caller : Named(d)'
  BY <1>1, NamedCalls DEF Moves, Named
<1>5. TypeOK'
  BY <1>1, <1>4 DEF TypeOK, Moves, Call, Invocation, Named, Generating
<1> QED
  BY <1>2, <1>3, <1>5 DEF IInv

\* A step of one call that writes no record at all.
LEMMA CallStep ==
  ASSUME IInv, NEW c \in Caller, Moves(c), Named(c)', Holds(c)',
         UNCHANGED <<frontier, admitted, answer, presented, sink>>, crashes' \in 0 .. MaxCrash
  PROVE  IInv'
<1>1. UNCHANGED <<projected, invocation, adopted>> /\ TypeOK
  BY DEF answer, IInv
<1>2. Answering' /\ \A r \in Result : Invocations(r)' = Invocations(r)
  BY <1>1, AnsweringKept
<1> QED
  BY <1>1, <1>2, Typed, AnswerStep

\* A step of one call, or of none, that leaves the answer and what it was made from.
LEMMA PresentStep ==
  ASSUME IInv, UNCHANGED <<admitted, answer, crashes>>, frontier' \in BOOLEAN,
         attempt' \in [Generation -> {"none", "UNKNOWN", "ACCEPTED", "NOT_ACCEPTED"}],
         recorded' \in BOOLEAN, provenance' \in 0 .. MaxGeneration,
         sink' \in [Generation -> {"none", "inFlight", "accepted", "closed"}],
         Presentation', call' \in [Caller -> Call],
         \A d \in Caller : call'[d] = call[d] \/ (Named(d)' /\ Holds(d)'),
         \A g \in Generation :
            /\ attempt[g] # "none" => attempt'[g] # "none"
            /\ attempt[g] = "ACCEPTED" => attempt'[g] = "ACCEPTED"
            /\ sink[g] \in {"accepted", "closed"} => sink'[g] = sink[g],
         recorded => recorded'
  PROVE  IInv'
<1>1. UNCHANGED <<projected, invocation, adopted, admitted, crashes>> /\ TypeOK
  BY DEF answer, IInv
<1>2. Answering' /\ \A r \in Result : Invocations(r)' = Invocations(r)
  BY <1>1, AnsweringKept
<1>3. Extends
  BY <1>1, <1>2 DEF Extends
<1>4. \A d \in Caller : Holds(d)'
  BY <1>3, HoldersKept
<1>5. \A d \in Caller : Named(d)'
  BY <1>1, NamedCalls DEF Named
<1>6. TypeOK'
  BY <1>1, <1>5 DEF TypeOK, Call, Named, Generating
<1> QED
  BY <1>2, <1>4, <1>6 DEF IInv

LEMMA InitInv == Init => IInv
<1> SUFFICES ASSUME Init PROVE IInv
  OBVIOUS
<1> USE DEF Init
<1>0. \A c \in Caller : call[c].stage = "idle" /\ call[c].op = 0
  BY IdleCall
<1>1. TypeOK
  <2>1. call \in [Caller -> Call]
    BY IdleCall
  <2>2. NoInvocation \in Invocation
    BY DEF NoInvocation, Invocation
  <2>3. invocation \in [Result -> [Operation -> Invocation]]
    BY <2>2
  <2>4. /\ attempt \in [Generation -> {"none", "UNKNOWN", "ACCEPTED", "NOT_ACCEPTED"}]
        /\ sink \in [Generation -> {"none", "inFlight", "accepted", "closed"}]
    OBVIOUS
  <2>5. /\ frontier \in BOOLEAN /\ projected \subseteq admitted /\ admitted \subseteq Result
        /\ adopted \subseteq Result \X Operation /\ recorded \in BOOLEAN
    OBVIOUS
  <2>6. provenance \in 0 .. MaxGeneration /\ crashes \in 0 .. MaxCrash
    BY Bounds
  <2> HIDE DEF Init
  <2> QED
    BY <1>0, <2>1, <2>3, <2>4, <2>5, <2>6 DEF TypeOK, Call, Invocation
<1>2. Answering
  <2>1. \A r \in Result : Invocations(r) = {}
    BY DEF Invocations
  <2>2. Cardinality({}) = 0 /\ 1 .. 0 = {}
    BY FS_EmptySet
  <2>3. Gapless /\ OneResult
    BY <2>1, <2>2 DEF Gapless, OneResult
  <2>4. Faithful /\ OneLive /\ Outputs
    BY DEF Faithful, OneLive, Outputs, Live, NoInvocation
  <2> QED
    BY <2>3, <2>4 DEF Answering
<1>3. Presentation
  <2>1. Started = {} /\ Latest = Cardinality(Started)
    BY DEF Started, Latest
  <2>2. Latest = 0 /\ 1 .. 0 = {}
    BY <2>1, FS_EmptySet
  <2>3. Numbered
    BY <2>1, <2>2 DEF Numbered
  <2>4. Refusals /\ Generations /\ Bindings
    BY DEF Refusals, Generations, Bindings
  <2> QED
    BY <2>3, <2>4 DEF Presentation
<1>4. \A c \in Caller : Holds(c)
  BY <1>0 DEF Holds, Generating, AtSink
<1> QED
  BY <1>1, <1>2, <1>3, <1>4 DEF IInv

-----------------------------------------------------------------------------
(* From the result to the answer. *)

LEMMA CrashStep == ASSUME IInv, NEW c \in Caller, Crash(c) PROVE IInv'
<1>1. /\ Return(c) /\ TypeOK /\ crashes' \in 0 .. MaxCrash
      /\ UNCHANGED <<frontier, admitted, answer, presented, sink>>
  BY Bounds DEF Crash, IInv, TypeOK
<1> QED
  BY <1>1, ReturnFacts, CallStep

\* A call returns and nothing else happens.
LEMMA ReturnStep ==
  ASSUME IInv, NEW c \in Caller, Return(c),
         UNCHANGED <<frontier, admitted, answer, presented, sink, crashes>>
  PROVE  IInv'
<1>1. TypeOK /\ crashes' \in 0 .. MaxCrash
  BY DEF IInv, TypeOK
<1> QED
  BY <1>1, ReturnFacts, CallStep

\* A call goes to a stage and nothing else happens.
LEMMA GotoStep ==
  ASSUME IInv, NEW c \in Caller, Moves(c), Named(c)', Holds(c)',
         UNCHANGED <<frontier, admitted, answer, presented, sink, crashes>>
  PROVE  IInv'
<1>1. crashes' \in 0 .. MaxCrash
  BY DEF IInv, TypeOK
<1> QED
  BY <1>1, CallStep

LEMMA AdmitResultStep ==
  ASSUME IInv, NEW c \in Caller, NEW r \in Result, AdmitResult(c, r) PROVE IInv'
<1>1. /\ TypeOK /\ admitted' = admitted \cup {r}
      /\ call' = [call EXCEPT ![c] = [Idle EXCEPT !.stage = "project", !.result = r]]
      /\ UNCHANGED <<frontier, answer, presented, sink, crashes>>
  BY DEF AdmitResult, IInv
<1>2. /\ Moves(c) /\ call'[c].stage = "project" /\ call'[c].result = r
      /\ call'[c].op = 0
  BY <1>1, ResultTaken
<1>3. Named(c)' /\ Holds(c)'
  BY <1>1, <1>2 DEF Named, Holds, Generating, AtSink
<1>4. UNCHANGED <<projected, invocation, adopted>> /\ crashes' \in 0 .. MaxCrash
  BY <1>1 DEF answer, TypeOK
<1>5. Answering' /\ \A q \in Result : Invocations(q)' = Invocations(q)
  BY <1>4, AnsweringKept
<1>6. projected' \subseteq admitted' /\ admitted' \subseteq Result
  BY <1>1, <1>4, Typed
<1> QED
  BY <1>1, <1>2, <1>3, <1>4, <1>5, <1>6, Typed, AnswerStep

LEMMA RecoverResultStep ==
  ASSUME IInv, NEW c \in Caller, RecoverResult(c) PROVE IInv'
<1>1. PICK r \in admitted :
        call' = [call EXCEPT ![c] = [Idle EXCEPT !.stage = "project", !.result = r]]
  BY DEF RecoverResult
<1>2. /\ TypeOK /\ r \in Result
      /\ UNCHANGED <<frontier, admitted, answer, presented, sink, crashes>>
  BY Typed DEF RecoverResult, IInv
<1>3. /\ Moves(c) /\ call'[c].stage = "project" /\ call'[c].result = r
      /\ call'[c].op = 0
  BY <1>1, <1>2, ResultTaken
<1>4. Named(c)' /\ Holds(c)'
  BY <1>2, <1>3 DEF Named, Holds, Generating, AtSink
<1> QED
  BY <1>2, <1>3, <1>4, GotoStep

LEMMA BuildProjectionStep ==
  ASSUME IInv, NEW c \in Caller, BuildProjection(c) PROVE IInv'
<1>0. PICK r : r = call[c].result
  OBVIOUS
<1>1. /\ TypeOK /\ Holds(c) /\ call[c].stage = "project"
      /\ UNCHANGED <<frontier, admitted, invocation, adopted, presented, sink, crashes>>
  BY DEF BuildProjection, IInv
<1>2. CASE Return(c) /\ UNCHANGED projected
  BY <1>1, <1>2, ReturnStep DEF answer
<1>3. CASE projected' = projected \cup {r} /\ Goto(c, "generate")
  <2>1. r \in admitted /\ call[c].op = 0
    BY <1>0, <1>1, NamedCalls DEF Holds, Named, Generating
  <2>2. /\ Moves(c) /\ call'[c].stage = "generate" /\ call'[c].result = r
        /\ call'[c].op = 0
    <3>1. "generate" \in Stages
      BY DEF Stages
    <3> QED
      BY <1>0, <1>1, <1>3, <2>1, <3>1, GotoFacts
  <2>3. Named(c)' /\ Holds(c)'
    BY <1>1, <2>1, <2>2 DEF Named, Holds, Generating, AtSink
  <2>4. Answering' /\ \A q \in Result : Invocations(q)' = Invocations(q)
    BY <1>1, AnsweringKept
  <2>5. /\ projected' \subseteq admitted' /\ admitted' \subseteq Result
        /\ crashes' \in 0 .. MaxCrash
    BY <1>1, <1>3, <2>1, Typed DEF TypeOK
  <2> QED
    BY <1>1, <2>2, <2>3, <2>4, <2>5, Typed, AnswerStep
<1> QED
  BY <1>0, <1>2, <1>3 DEF BuildProjection

\* Operations are numbered from one: the next is one more than a projection has.
LEMMA NextInvocationFacts ==
  ASSUME Gapless, NEW r \in Result
  PROVE  /\ NextInvocation(r) \in 1 .. MaxInvocation + 1
         /\ \A m \in Operation : m < NextInvocation(r) => m \in Invocations(r)
<1>1. /\ Invocations(r) = 1 .. Cardinality(Invocations(r))
      /\ Invocations(r) \subseteq 1 .. MaxInvocation
  BY DEF Gapless, Invocations, Operation
<1>2. Cardinality(Invocations(r)) \in Nat /\ Cardinality(Invocations(r)) <= MaxInvocation
  BY <1>1, NextRow, Bounds
<1> QED
  BY <1>1, <1>2, Bounds DEF NextInvocation, Operation

LEMMA GenerateOrRecoverStep ==
  ASSUME IInv, NEW c \in Caller, GenerateOrRecover(c) PROVE IInv'
<1>0. PICK r : r = call[c].result
  OBVIOUS
<1>1. /\ TypeOK /\ Holds(c) /\ call[c].stage = "generate" /\ call \in [Caller -> Call]
      /\ UNCHANGED <<frontier, admitted, answer, presented, sink, crashes>>
  BY Typed DEF GenerateOrRecover, IInv
<1>2. r \in admitted /\ r \in Result
  BY <1>0, <1>1, Typed DEF Holds
<1>3. CASE Return(c)
  BY <1>1, <1>3, ReturnStep
<1>4. ASSUME NEW n \in Invocations(r),
             call' = [call EXCEPT ![c].stage = "adopt", ![c].op = n]
      PROVE  IInv'
  <2>1. n \in Operation /\ n # 0 /\ n \in 0 .. MaxInvocation + 1 /\ "adopt" \in Stages
    BY Bounds DEF Invocations, Operation, Stages
  <2>2. /\ Moves(c) /\ call'[c].stage = "adopt" /\ call'[c].op = n
        /\ call'[c].result = r
    BY <1>0, <1>1, <1>4, <2>1 DEF Moves, Call
  <2>3. Named(c)' /\ Holds(c)'
    BY <1>1, <1>2, <2>1, <2>2 DEF Named, Holds, Generating, AtSink
  <2> QED
    BY <1>1, <2>2, <2>3, GotoStep
<1>5. CASE call' = [call EXCEPT ![c].stage = "dispatch", ![c].op = NextInvocation(r)]
  <2>1. PICK n : n = NextInvocation(r)
    OBVIOUS
  <2>2. /\ n \in 1 .. MaxInvocation + 1
        /\ \A m \in Operation : m < n => m \in Invocations(r)
    BY <1>2, <2>1, NextInvocationFacts DEF IInv, Answering
  <2>3. n # 0 /\ n \in 0 .. MaxInvocation + 1 /\ "dispatch" \in Stages
    BY <2>2, Bounds DEF Stages
  <2>4. /\ Moves(c) /\ call'[c].stage = "dispatch" /\ call'[c].op = n
        /\ call'[c].result = r
    BY <1>0, <1>1, <1>5, <2>1, <2>3 DEF Moves, Call
  <2>5. Named(c)'
    BY <2>3, <2>4 DEF Named, Generating
  <2>6. \A m \in Operation : m < n => m \in Invocations(r)'
    BY <1>1, <2>2 DEF Invocations, answer
  <2>7. Holds(c)'
    BY <1>1, <1>2, <2>4, <2>6 DEF Holds, AtSink
  <2> QED
    BY <1>1, <2>4, <2>5, <2>7, GotoStep
<1> QED
  BY <1>0, <1>3, <1>4, <1>5 DEF GenerateOrRecover

\* A call goes on with the operation that it has, for an answer.
LEMMA KeepOperation ==
  ASSUME IInv, NEW c \in Caller, NEW stage \in {"asking", "adopt"}, Goto(c, stage),
         call[c].stage \in {"dispatch", "asking"}, call[c].op \in Operation,
         UNCHANGED admitted
  PROVE  Moves(c) /\ Named(c)' /\ Holds(c)'
<1>1. TypeOK /\ Holds(c) /\ stage \in Stages
  BY DEF IInv, Stages
<1>2. /\ Moves(c) /\ call'[c].stage = stage /\ call'[c].op = call[c].op
      /\ call'[c].result = call[c].result
  BY <1>1, GotoFacts
<1>3. call[c].op # 0
  BY DEF Operation
<1> QED
  BY <1>1, <1>2, <1>3 DEF Named, Holds, Generating, AtSink

\* Before an operation that no result has used is dispatched, the other results have none.
LEMMA OthersUntouched ==
  ASSUME IInv, NEW r \in Result, NEW n \in Operation, ~ Dispatched(n, r),
         \A m \in Operation : m < n => m \in Invocations(r), NEW q \in Result \ {r}
  PROVE  Invocations(q) = {}
<1> SUFFICES ASSUME Invocations(q) # {} PROVE FALSE
  OBVIOUS
<1>1. 1 \in Invocations(q)
  <2>1. /\ Invocations(q) = 1 .. Cardinality(Invocations(q))
        /\ Invocations(q) \subseteq 1 .. MaxInvocation
    BY DEF IInv, Answering, Gapless, Invocations, Operation
  <2> QED
    BY <2>1, FirstRow, Bounds
<1>2. CASE n = 1
  BY <1>1, <1>2 DEF Dispatched, Invocations
<1>3. CASE n # 1
  <2>1. 1 \in Invocations(r)
    BY <1>3, Bounds DEF Operation
  <2> QED
    BY <1>1, <2>1 DEF IInv, Answering, OneResult
<1> QED
  BY <1>2, <1>3

LEMMA DispatchInvocation ==
  ASSUME IInv, NEW r \in Result, NEW n \in Operation, ~ Dispatched(n, r), MayAsk(r),
         \A m \in Operation : m < n => m \in Invocations(r),
         invocation' = [invocation EXCEPT ![r][n].outcome = "IN_PROGRESS"],
         UNCHANGED adopted
  PROVE  /\ invocation' \in [Result -> [Operation -> Invocation]] /\ Answering'
         /\ \A q \in Result : Invocations(q) \subseteq Invocations(q)'
<1>1. TypeOK /\ Answering /\ invocation \in [Result -> [Operation -> Invocation]]
  BY Typed DEF IInv
<1>2. \A q \in Result : invocation[q][n] = NoInvocation
  BY DEF Dispatched
<1>3. PICK x : x = [outcome |-> "IN_PROGRESS", faithful |-> FALSE]
  OBVIOUS
<1>4. x # NoInvocation /\ x.outcome = "IN_PROGRESS" /\ ~ x.faithful /\ x # Stated
  BY <1>3 DEF NoInvocation, Stated
<1>5. InvocationWritten(r, n, x)
  <2>1. ~ invocation[r][n].faithful
    BY <1>2 DEF NoInvocation
  <2>2. InvocationWritten(r, n, [outcome |-> "IN_PROGRESS", faithful |-> FALSE])
    BY <1>1, <2>1, OutcomeSet
  <2> QED
    BY <1>3, <2>2
<1>6. /\ Invocations(r)' = Invocations(r) \cup {n}
      /\ \A q \in Result \ {r} : Invocations(q)' = Invocations(q)
  BY <1>4, <1>5, WrittenInvocations
<1>7. \A q \in Result \ {r} : Invocations(q) = {}
  BY OthersUntouched
<1>8. Gapless'
  <2>1. /\ Invocations(r) = 1 .. Cardinality(Invocations(r))
        /\ Invocations(r) \subseteq 1 .. MaxInvocation /\ n \in 1 .. MaxInvocation
        /\ n \notin Invocations(r)
    BY <1>1, <1>2 DEF Answering, Gapless, Invocations, Operation
  <2>2. n = Cardinality(Invocations(r)) + 1
    BY <2>1, OnlyNextRow, Bounds DEF Operation
  <2>3. Invocations(r) \cup {n} = 1 .. Cardinality(Invocations(r) \cup {n})
    BY <2>1, <2>2, NextRow, Bounds
  <2> QED
    BY <1>1, <1>6, <2>3 DEF Answering, Gapless
<1>9. OneResult'
  BY <1>6, <1>7 DEF OneResult
<1>10. Faithful'
  <2> SUFFICES ASSUME NEW q \in Result, NEW m \in Operation, invocation'[q][m].faithful
               PROVE  invocation'[q][m].outcome = "SUCCEEDED"
    BY DEF Faithful
  <2>1. q # r \/ m # n
    BY <1>4, <1>5 DEF InvocationWritten
  <2>2. invocation'[q][m] = invocation[q][m]
    BY <1>5, <2>1 DEF InvocationWritten
  <2> QED
    BY <1>1, <2>2 DEF Answering, Faithful
<1>11. OneLive'
  <2>1. \A m \in Operation : invocation[r][m].outcome \notin Live
    BY <1>2 DEF MayAsk, Outcomes, Invocations, NoInvocation, Live
  <2>2. \A m \in Operation \ {n} : invocation'[r][m].outcome \notin Live
    BY <1>5, <2>1 DEF InvocationWritten
  <2>3. \A q \in Result \ {r}, m \in Operation : invocation'[q][m].outcome \notin Live
    BY <1>5, <1>7 DEF InvocationWritten, Invocations, NoInvocation, Live
  <2> QED
    BY <2>2, <2>3 DEF OneLive
<1>12. Outputs'
  <2>1. adopted \subseteq Result \X Operation
    BY <1>1, Typed
  <2>2. ASSUME NEW a \in adopted PROVE invocation'[a[1]][a[2]] = Stated
    <3>1. a[1] \in Result /\ a[2] \in Operation /\ invocation[a[1]][a[2]] = Stated
      BY <1>1, <2>1 DEF Answering, Outputs
    <3>2. a[1] # r \/ a[2] # n
      BY <1>2, <3>1 DEF NoInvocation, Stated
    <3> QED
      BY <1>5, <3>1, <3>2 DEF InvocationWritten
  <2> QED
    BY <1>1, <2>2 DEF Answering, Outputs
<1> QED
  BY <1>5, <1>6, <1>8, <1>9, <1>10, <1>11, <1>12 DEF Answering, InvocationWritten

LEMMA DispatchModelStep ==
  ASSUME IInv, NEW c \in Caller, DispatchModel(c) PROVE IInv'
<1>0. PICK r, n : r = call[c].result /\ n = call[c].op
  OBVIOUS
<1>1. /\ TypeOK /\ Holds(c) /\ call[c].stage = "dispatch" /\ n \in Operation
      /\ UNCHANGED <<frontier, admitted, projected, adopted, presented, sink, crashes>>
  BY <1>0 DEF DispatchModel, IInv
<1>2. /\ r \in admitted /\ r \in Result
      /\ \A m \in Operation : m < n => m \in Invocations(r)
  BY <1>0, <1>1, Typed DEF Holds, Generating
<1>3. CASE Return(c) /\ UNCHANGED invocation
  BY <1>1, <1>3, ReturnStep DEF answer
<1>4. CASE Goto(c, "adopt") /\ UNCHANGED invocation
  BY <1>0, <1>1, <1>4, KeepOperation, GotoStep DEF answer
<1>5. CASE /\ ~ Dispatched(n, r) /\ MayAsk(r) /\ Goto(c, "asking")
           /\ invocation' = [invocation EXCEPT ![r][n].outcome = "IN_PROGRESS"]
  <2>1. /\ invocation' \in [Result -> [Operation -> Invocation]] /\ Answering'
        /\ \A q \in Result : Invocations(q) \subseteq Invocations(q)'
    BY <1>1, <1>2, <1>5, DispatchInvocation
  <2>2. Moves(c) /\ Named(c)' /\ Holds(c)'
    BY <1>0, <1>1, <1>5, KeepOperation
  <2>3. crashes' \in 0 .. MaxCrash
    BY <1>1 DEF TypeOK
  <2> QED
    BY <1>1, <2>1, <2>2, <2>3, Typed, AnswerStep
<1> QED
  BY <1>0, <1>3, <1>4, <1>5 DEF DispatchModel

\* An open invocation is finished: no operation more, and no live one more.
LEMMA FinishedInvocation ==
  ASSUME IInv, NEW r \in Result, NEW n \in Operation,
         invocation[r][n].outcome = "IN_PROGRESS",
         NEW x, x.outcome \in {"SUCCEEDED", "FAILED"}, x.faithful => x.outcome = "SUCCEEDED",
         InvocationWritten(r, n, x), UNCHANGED adopted
  PROVE  Answering' /\ \A q \in Result : Invocations(q) \subseteq Invocations(q)'
<1>1. TypeOK /\ Answering
  BY DEF IInv
<1>2. x # NoInvocation /\ n \in Invocations(r) /\ invocation[r][n] # Stated
  BY DEF NoInvocation, Invocations, Stated
<1>3. \A q \in Result : Invocations(q)' = Invocations(q)
  <2>1. Invocations(r)' = Invocations(r)
    BY <1>2, WrittenInvocations
  <2>2. \A q \in Result \ {r} : Invocations(q)' = Invocations(q)
    BY <1>2, WrittenInvocations
  <2> QED
    BY <2>1, <2>2
<1>4. Gapless' /\ OneResult'
  BY <1>1, <1>3 DEF Answering, Gapless, OneResult
<1>5. Faithful'
  <2> SUFFICES ASSUME NEW q \in Result, NEW m \in Operation, invocation'[q][m].faithful
               PROVE  invocation'[q][m].outcome = "SUCCEEDED"
    BY DEF Faithful
  <2>1. CASE q = r /\ m = n
    BY <2>1 DEF InvocationWritten
  <2>2. CASE q # r \/ m # n
    <3>1. invocation'[q][m] = invocation[q][m]
      BY <2>2 DEF InvocationWritten
    <3> QED
      BY <1>1, <3>1 DEF Answering, Faithful
  <2> QED
    BY <2>1, <2>2
<1>6. OneLive'
  <2>1. \A q \in Result, m \in Operation :
            invocation'[q][m].outcome \in Live => invocation[q][m].outcome \in Live
    <3> SUFFICES ASSUME NEW q \in Result, NEW m \in Operation,
                        invocation'[q][m].outcome \in Live
                 PROVE  invocation[q][m].outcome \in Live
      OBVIOUS
    <3>1. CASE q = r /\ m = n
      BY <3>1 DEF Live
    <3>2. CASE q # r \/ m # n
      BY <3>2 DEF InvocationWritten
    <3> QED
      BY <3>1, <3>2
  <2> QED
    BY <1>1, <2>1 DEF Answering, OneLive
<1>7. Outputs'
  <2>1. ASSUME NEW a \in adopted PROVE invocation'[a[1]][a[2]] = Stated
    <3>1. a[1] \in Result /\ a[2] \in Operation /\ invocation[a[1]][a[2]] = Stated
      BY <1>1, Typed DEF Answering, Outputs
    <3>2. a[1] # r \/ a[2] # n
      BY <1>2, <3>1
    <3> QED
      BY <3>1, <3>2 DEF InvocationWritten
  <2> QED
    BY <1>1, <2>1 DEF Answering, Outputs
<1> QED
  BY <1>3, <1>4, <1>5, <1>6, <1>7 DEF Answering

LEMMA FinishInvocationStep ==
  ASSUME IInv, NEW c \in Caller, FinishInvocation(c) PROVE IInv'
<1>0. PICK r, n : r = call[c].result /\ n = call[c].op
  OBVIOUS
<1>1. /\ TypeOK /\ Holds(c) /\ call[c].stage = "asking"
      /\ invocation[r][n].outcome = "IN_PROGRESS"
      /\ UNCHANGED <<frontier, admitted, projected, adopted, presented, sink, crashes>>
  BY <1>0 DEF FinishInvocation, IInv
<1>2. r \in Result /\ n \in Operation /\ crashes' \in 0 .. MaxCrash
  BY <1>0, <1>1, Typed DEF Holds, Generating, TypeOK
<1>3. ASSUME NEW faithful \in BOOLEAN, Goto(c, "adopt"),
             invocation' = [invocation EXCEPT
                ![r][n] = [outcome |-> "SUCCEEDED", faithful |-> faithful]]
      PROVE  IInv'
  <2>1. PICK x : x = [outcome |-> "SUCCEEDED", faithful |-> faithful]
    OBVIOUS
  <2>2. InvocationWritten(r, n, x) /\ x.outcome = "SUCCEEDED"
    BY <1>1, <1>2, <1>3, <2>1, SuccessSet
  <2>3. Answering' /\ \A q \in Result : Invocations(q) \subseteq Invocations(q)'
    BY <1>1, <1>2, <2>2, FinishedInvocation
  <2>4. Moves(c) /\ Named(c)' /\ Holds(c)'
    BY <1>0, <1>1, <1>2, <1>3, KeepOperation
  <2> QED
    BY <1>1, <1>2, <2>2, <2>3, <2>4, Typed, AnswerStep DEF InvocationWritten
<1>4. CASE invocation' = [invocation EXCEPT ![r][n].outcome = "FAILED"] /\ Return(c)
  <2>1. ~ invocation[r][n].faithful
    BY <1>1, <1>2 DEF IInv, Answering, Faithful
  <2>2. PICK x : x = [outcome |-> "FAILED", faithful |-> FALSE]
    OBVIOUS
  <2>3. InvocationWritten(r, n, [outcome |-> "FAILED", faithful |-> FALSE])
    BY <1>1, <1>2, <1>4, <2>1, OutcomeSet
  <2>4. InvocationWritten(r, n, x) /\ x.outcome = "FAILED" /\ ~ x.faithful
    BY <2>2, <2>3
  <2>5. Answering' /\ \A q \in Result : Invocations(q) \subseteq Invocations(q)'
    BY <1>1, <1>2, <2>4, FinishedInvocation
  <2>6. Moves(c) /\ Named(c)' /\ Holds(c)'
    BY <1>1, <1>4, ReturnFacts
  <2> QED
    BY <1>1, <1>2, <2>4, <2>5, <2>6, Typed, AnswerStep DEF InvocationWritten
<1> QED
  BY <1>0, <1>1, <1>3, <1>4 DEF FinishInvocation

\* The target takes one output, of a plan that states the schedule.
LEMMA AdoptStep == ASSUME IInv, NEW c \in Caller, Adopt(c) PROVE IInv'
<1>0. PICK r, n : r = call[c].result /\ n = call[c].op
  OBVIOUS
<1>1. /\ TypeOK /\ Answering /\ Holds(c) /\ call[c].stage = "adopt"
      /\ UNCHANGED <<frontier, admitted, projected, invocation, presented, sink, crashes>>
  BY DEF Adopt, IInv
<1>2. r \in Result /\ n \in Operation /\ crashes' \in 0 .. MaxCrash
  BY <1>0, <1>1, Typed DEF Holds, Generating, TypeOK
<1>3. CASE Return(c) /\ UNCHANGED adopted
  BY <1>1, <1>3, ReturnStep DEF answer
<1>4. CASE /\ invocation[r][n].faithful /\ TargetOpen(r, n)
           /\ adopted' = adopted \cup {<<r, n>>} /\ GotoGeneration(c, "present", 0)
  <2>1. adopted' = {<<r, n>>}
    BY <1>4 DEF TargetOpen
  <2>2. invocation[r][n] = Stated
    <3>1. invocation[r][n] \in Invocation
      BY <1>1, <1>2, Typed
    <3>2. invocation[r][n].outcome = "SUCCEEDED"
      BY <1>1, <1>2, <1>4 DEF Answering, Faithful
    <3> QED
      BY <1>4, <3>1, <3>2 DEF Invocation, Stated
  <2>3. Outputs'
    BY <1>1, <2>1, <2>2 DEF Outputs
  <2>4. Answering' /\ \A q \in Result : Invocations(q)' = Invocations(q)
    <3>1. \A q : Invocations(q)' = Invocations(q)
      BY <1>1 DEF Invocations
    <3>2. Gapless' /\ OneResult'
      BY <1>1, <3>1 DEF Answering, Gapless, OneResult
    <3>3. Faithful' /\ OneLive'
      BY <1>1 DEF Answering, Faithful, OneLive
    <3> QED
      BY <2>3, <3>1, <3>2, <3>3 DEF Answering
  <2>5. Moves(c) /\ Named(c)' /\ Holds(c)'
    <3>1. "present" \in Stages /\ 0 \in 0 .. MaxGeneration + 1
      BY Bounds DEF Stages
    <3>2. Moves(c) /\ call'[c].stage = "present" /\ call'[c].op = 0
      BY <1>1, <1>4, <3>1, GotoGenerationFacts
    <3> QED
      BY <3>2 DEF Named, Holds, Generating, AtSink
  <2>6. adopted' \subseteq Result \X Operation
    BY <1>2, <2>1
  <2> QED
    BY <1>1, <1>2, <2>4, <2>5, <2>6, Typed, AnswerStep
<1> QED
  BY <1>0, <1>3, <1>4 DEF Adopt

-----------------------------------------------------------------------------
(* Presentation. *)

\* The latest generation is the last that was started.
LEMMA LatestFacts ==
  ASSUME Numbered
  PROVE  /\ Latest \in 0 .. MaxGeneration
         /\ Started = 1 .. Latest
         /\ Started # {} => Latest \in Started
         /\ Latest # 0 => Started # {}
<1>1. Started \subseteq 1 .. MaxGeneration /\ Latest = Cardinality(Started)
  BY DEF Started, Generation, Latest
<1>2. Latest \in Nat /\ Latest <= MaxGeneration
  <2>1. Started = 1 .. Cardinality(Started)
    BY <1>1 DEF Numbered
  <2>2. Cardinality(Started) \in Nat /\ Cardinality(Started) <= MaxGeneration
    BY <1>1, <2>1, NextRow, Bounds
  <2> QED
    BY <1>1, <2>2
<1>3. Latest \in 0 .. MaxGeneration
  BY <1>2, Bounds
<1>4. Started = 1 .. Latest
  BY DEF Numbered
<1>5. Started # {} => Latest \in Started
  BY <1>3, <1>4, Bounds
<1>6. Latest # 0 => Started # {}
  BY <1>3, <1>4, Bounds
<1> QED
  BY <1>3, <1>4, <1>5, <1>6

\* One generation at most is accepted.
LEMMA OneAccepted ==
  ASSUME Refusals, Generations, NEW g \in Generation, NEW h \in Generation,
         sink[g] = "accepted", sink[h] = "accepted"
  PROVE  g = h
<1>1. attempt[g] # "none" /\ attempt[h] # "none"
  BY DEF Generations
<1>2. attempt[g] # "NOT_ACCEPTED" /\ attempt[h] # "NOT_ACCEPTED"
  BY DEF Generations
<1>3. ~ g < h /\ ~ h < g
  BY <1>1, <1>2 DEF Refusals
<1> QED
  BY <1>3 DEF Generation

\* A call takes a status of the sink up.
LEMMA StatusTaken ==
  ASSUME NEW j \in Call, NEW stage \in Stages,
         NEW s \in {"UNKNOWN", "ACCEPTED", "NOT_ACCEPTED"}
  PROVE  [j EXCEPT !.stage = stage, !.status = s] \in Call
<1>1. PICK a : a = [j EXCEPT !.stage = stage]
  OBVIOUS
<1>2. a \in Call
  BY <1>1 DEF Call
<1>3. [a EXCEPT !.status = s] \in Call
  BY <1>2 DEF Call
<1> QED
  BY <1>1, <1>3

LEMMA SettlementTaken ==
  ASSUME NEW j \in Call, NEW stage \in Stages, NEW g \in 0 .. MaxGeneration + 1,
         NEW s \in {"UNKNOWN", "ACCEPTED", "NOT_ACCEPTED"}, NEW again \in BOOLEAN
  PROVE  [j EXCEPT !.stage = stage, !.gen = g, !.status = s, !.again = again] \in Call
<1>1. PICK a : a = [j EXCEPT !.stage = stage]
  OBVIOUS
<1>2. a \in Call
  BY <1>1 DEF Call
<1>3. PICK b : b = [a EXCEPT !.gen = g]
  OBVIOUS
<1>4. b \in Call
  BY <1>2, <1>3 DEF Call
<1>5. PICK d : d = [b EXCEPT !.status = s]
  OBVIOUS
<1>6. d \in Call
  BY <1>4, <1>5 DEF Call
<1>7. [d EXCEPT !.again = again] \in Call
  BY <1>6 DEF Call
<1> QED
  BY <1>1, <1>3, <1>5, <1>7

\* Stages at which a call knows nothing of the presentation.
LEMMA FreshHolds ==
  ASSUME NEW c \in Caller, call'[c].stage \in {"present", "fence"}, call'[c].op = 0
  PROVE  Named(c)' /\ Holds(c)'
BY DEF Named, Holds, Generating, AtSink

\* Stages at which a call holds a generation that was started.
LEMMA AtSinkHolds ==
  ASSUME NEW c \in Caller, call'[c].stage \in AtSink, call'[c].op = 0,
         call'[c].gen \in Started',
         call'[c].stage = "settle" =>
            /\ call'[c].status # "UNKNOWN"
            /\ call'[c].status = "ACCEPTED" => sink'[call'[c].gen] = "accepted"
            /\ call'[c].status = "NOT_ACCEPTED" => sink'[call'[c].gen] = "closed",
         call'[c].stage \in {"record", "provenance"} => attempt'[call'[c].gen] = "ACCEPTED",
         call'[c].stage = "provenance" => recorded'
  PROVE  Named(c)' /\ Holds(c)'
BY DEF Named, Holds, Generating, AtSink

\* A call goes on to fence a generation.
LEMMA ToFence ==
  ASSUME IInv, NEW c \in Caller, NEW g \in 0 .. MaxGeneration + 1,
         GotoGeneration(c, "fence", g)
  PROVE  Moves(c) /\ Named(c)' /\ Holds(c)'
<1>1. TypeOK /\ "fence" \in Stages
  BY DEF IInv, Stages
<1>2. Moves(c) /\ call'[c].stage = "fence" /\ call'[c].op = 0
  BY <1>1, GotoGenerationFacts
<1> QED
  BY <1>2, FreshHolds

LEMMA PresentOrRecoverStep ==
  ASSUME IInv, NEW c \in Caller, PresentOrRecover(c) PROVE IInv'
<1>1. /\ TypeOK /\ Numbered /\ call[c].stage = "present"
      /\ UNCHANGED <<frontier, admitted, answer, presented, sink, crashes>>
  BY DEF PresentOrRecover, IInv, Presentation
<1>2. CASE Latest # 0 /\ Goto(c, "looking")
  <2>1. "looking" \in Stages /\ call[c].op = 0
    BY <1>1, NamedCalls DEF Stages, Named, Generating
  <2>2. Moves(c) /\ call'[c].stage = "looking" /\ call'[c].op = 0
    BY <1>1, <1>2, <2>1, GotoFacts
  <2>3. Started' # {}
    BY <1>1, <1>2, LatestFacts DEF Started, presented
  <2>4. Named(c)' /\ Holds(c)'
    BY <2>2, <2>3 DEF Named, Holds, Generating, AtSink
  <2> QED
    BY <1>1, <2>2, <2>4, GotoStep
<1>3. CASE GotoGeneration(c, "fence", Latest + 1)
  <2>1. PICK g : g = Latest + 1
    OBVIOUS
  <2>2. g \in 0 .. MaxGeneration + 1 /\ GotoGeneration(c, "fence", g)
    BY <1>1, <1>3, <2>1, LatestFacts, Bounds
  <2> QED
    BY <1>1, <2>2, ToFence, GotoStep
<1> QED
  BY <1>2, <1>3 DEF PresentOrRecover

LEMMA MaySendNext ==
  ASSUME Numbered, Refusals, NEW g \in Generation, MaySend(g)
  PROVE  /\ g = Cardinality(Started) + 1 /\ g \notin Started
         /\ \A h \in Generation : h < g => attempt[h] = "NOT_ACCEPTED"
<1>1. /\ Latest \in 0 .. MaxGeneration /\ Started = 1 .. Latest
      /\ Latest = Cardinality(Started) /\ g = Latest + 1
  BY LatestFacts DEF MaySend, Latest, Started
<1>2. g \notin Started
  BY <1>1
<1>3. ASSUME NEW h \in Generation, h < g PROVE attempt[h] = "NOT_ACCEPTED"
  <2>1. Latest \in Generation /\ Latest \in Started /\ attempt[Latest] = "NOT_ACCEPTED"
        /\ attempt[Latest] # "none"
    BY <1>1, <1>3, Bounds DEF MaySend, Generation, Started
  <2>2. CASE h = Latest
    BY <2>1, <2>2
  <2>3. CASE h < Latest
    BY <2>1, <2>3 DEF Refusals
  <2> QED
    BY <1>1, <1>3, <2>2, <2>3 DEF Generation
<1> QED
  BY <1>1, <1>2, <1>3

LEMMA FencePresentationStep ==
  ASSUME IInv, NEW c \in Caller, FencePresentation(c) PROVE IInv'
<1>0. PICK g : g = call[c].gen
  OBVIOUS
<1>1. /\ TypeOK /\ Presentation /\ call[c].stage = "fence" /\ g \in Generation
      /\ attempt \in [Generation -> {"none", "UNKNOWN", "ACCEPTED", "NOT_ACCEPTED"}]
      /\ call[c].op = 0
      /\ UNCHANGED <<frontier, admitted, answer, recorded, provenance, sink, crashes>>
  BY <1>0, Typed, NamedCalls DEF FencePresentation, IInv, Named, Generating
<1>2. CASE Return(c) /\ UNCHANGED attempt
  BY <1>1, <1>2, ReturnStep DEF presented
<1>3. CASE attempt[g] = "ACCEPTED" /\ Goto(c, "record") /\ UNCHANGED attempt
  <2>1. "record" \in Stages /\ "record" \in AtSink /\ g \in Started'
    BY <1>1, <1>3 DEF Stages, AtSink, Started
  <2>2. Moves(c) /\ call'[c].stage = "record" /\ call'[c].op = 0 /\ call'[c].gen = g
    BY <1>0, <1>1, <1>3, <2>1, GotoFacts
  <2>3. Named(c)' /\ Holds(c)'
    BY <1>3, <2>1, <2>2, AtSinkHolds
  <2> QED
    BY <1>1, <1>3, <2>2, <2>3, GotoStep DEF presented
<1>4. CASE attempt' = [attempt EXCEPT ![g] = "UNKNOWN"] /\ Goto(c, "send") /\ MaySend(g)
  <2>1. /\ g = Cardinality(Started) + 1 /\ g \notin Started
        /\ \A h \in Generation : h < g => attempt[h] = "NOT_ACCEPTED"
    BY <1>1, <1>4, MaySendNext DEF Presentation
  <2>2. /\ attempt' \in [Generation -> {"none", "UNKNOWN", "ACCEPTED", "NOT_ACCEPTED"}]
        /\ attempt'[g] = "UNKNOWN" /\ attempt[g] = "none"
        /\ \A h \in Generation \ {g} : attempt'[h] = attempt[h]
    BY <1>1, <1>4, <2>1 DEF Started
  <2>3. Started' = Started \cup {g}
    BY <1>1, <2>2 DEF Started
  <2>4. Numbered'
    <3>1. /\ Started \subseteq 1 .. MaxGeneration /\ Started = 1 .. Cardinality(Started)
          /\ Latest' = Cardinality(Started')
      BY <1>1 DEF Presentation, Numbered, Started, Latest, Generation
    <3>2. Started' = 1 .. Cardinality(Started')
      BY <2>1, <2>3, <3>1, NextRow, Bounds
    <3> QED
      BY <3>1, <3>2 DEF Numbered
  <2>5. Refusals'
    <3> SUFFICES ASSUME NEW x \in Generation, NEW h \in Generation,
                        attempt'[x] # "none", h < x
                 PROVE  attempt'[h] = "NOT_ACCEPTED"
      BY DEF Refusals
    <3>1. attempt[h] = "NOT_ACCEPTED"
      BY <1>1, <2>1, <2>2 DEF Presentation, Refusals
    <3> QED
      BY <2>2, <3>1
  <2>6. Generations' /\ Bindings'
    BY <1>1, <2>2 DEF Presentation, Generations, Bindings, Shown
  <2>7. Moves(c) /\ Named(c)' /\ Holds(c)'
    <3>1. "send" \in Stages /\ "send" \in AtSink
      BY DEF Stages, AtSink
    <3>2. Moves(c) /\ call'[c].stage = "send" /\ call'[c].op = 0 /\ call'[c].gen = g
      BY <1>0, <1>1, <1>4, <3>1, GotoFacts
    <3> QED
      BY <2>3, <3>1, <3>2, AtSinkHolds
  <2>8. frontier' \in BOOLEAN /\ recorded' \in BOOLEAN /\ provenance' \in 0 .. MaxGeneration
        /\ sink' \in [Generation -> {"none", "inFlight", "accepted", "closed"}]
    BY <1>1 DEF TypeOK
  <2> QED
    BY <1>1, <2>2, <2>4, <2>5, <2>6, <2>7, <2>8, PresentStep DEF Presentation, Moves
<1> QED
  BY <1>0, <1>2, <1>3, <1>4 DEF FencePresentation

\* A step of the sink for one generation that is not settled there.
LEMMA SinkStep ==
  ASSUME IInv, NEW g \in Generation, attempt[g] # "none",
         sink[g] \in {"none", "inFlight"}, NEW s \in {"inFlight", "accepted", "closed"},
         sink' = [sink EXCEPT ![g] = s], UNCHANGED presented
  PROVE  /\ Presentation'
         /\ sink' \in [Generation -> {"none", "inFlight", "accepted", "closed"}]
         /\ \A h \in Generation : sink[h] \in {"accepted", "closed"} => sink'[h] = sink[h]
<1>1. /\ sink \in [Generation -> {"none", "inFlight", "accepted", "closed"}]
      /\ UNCHANGED <<attempt, recorded, provenance>> /\ Presentation
  BY Typed DEF IInv, presented
<1>2. /\ sink' \in [Generation -> {"none", "inFlight", "accepted", "closed"}]
      /\ \A h \in Generation \ {g} : sink'[h] = sink[h]
  BY <1>1
<1>3. Numbered' /\ Refusals'
  BY <1>1 DEF Presentation, Numbered, Started, Latest, Refusals
<1>4. Generations'
  BY <1>1, <1>2 DEF Presentation, Generations
<1>5. Bindings'
  <2>1. Shown \subseteq Shown'
    BY <1>2 DEF Shown
  <2> QED
    BY <1>1, <2>1 DEF Presentation, Bindings
<1> QED
  BY <1>2, <1>3, <1>4, <1>5 DEF Presentation

LEMMA SendPayloadStep == ASSUME IInv, NEW c \in Caller, SendPayload(c) PROVE IInv'
<1>0. PICK g : g = call[c].gen
  OBVIOUS
<1>1. /\ TypeOK /\ Holds(c) /\ call[c].stage = "send" /\ Goto(c, "sent") /\ call[c].op = 0
      /\ sink' = [sink EXCEPT ![g] = IF @ = "none" THEN "inFlight" ELSE @]
      /\ sink \in [Generation -> {"none", "inFlight", "accepted", "closed"}]
      /\ UNCHANGED <<frontier, admitted, answer, presented, crashes>>
  BY <1>0, Typed, NamedCalls DEF SendPayload, IInv, Named, Generating
<1>2. g \in Generation /\ g \in Started /\ attempt[g] # "none"
  BY <1>0, <1>1 DEF Holds, AtSink, Started
<1>3. /\ Presentation'
      /\ sink' \in [Generation -> {"none", "inFlight", "accepted", "closed"}]
      /\ \A h \in Generation : sink[h] \in {"accepted", "closed"} => sink'[h] = sink[h]
  <2>1. CASE sink[g] = "none"
    <3>1. sink' = [sink EXCEPT ![g] = "inFlight"]
      BY <1>1, <2>1
    <3> QED
      BY <1>1, <1>2, <2>1, <3>1, SinkStep
  <2>2. CASE sink[g] # "none"
    <3>1. sink' = sink
      BY <1>1, <2>2
    <3> QED
      BY <1>1, <3>1, PresentationKept
  <2> QED
    BY <2>1, <2>2
<1>4. Moves(c) /\ Named(c)' /\ Holds(c)'
  <2>1. "sent" \in Stages /\ "sent" \in AtSink
    BY DEF Stages, AtSink
  <2>2. Moves(c) /\ call'[c].stage = "sent" /\ call'[c].op = 0 /\ call'[c].gen = g
    BY <1>0, <1>1, <2>1, GotoFacts
  <2>3. g \in Started'
    BY <1>1, <1>2 DEF Started, presented
  <2> QED
    BY <2>1, <2>2, <2>3, AtSinkHolds
<1>5. UNCHANGED <<attempt, recorded, provenance>>
  BY <1>1 DEF presented
<1>6. /\ frontier' \in BOOLEAN /\ recorded' \in BOOLEAN /\ provenance' \in 0 .. MaxGeneration
      /\ attempt' \in [Generation -> {"none", "UNKNOWN", "ACCEPTED", "NOT_ACCEPTED"}]
  BY <1>1, <1>5 DEF TypeOK
<1> QED
  BY <1>1, <1>3, <1>4, <1>5, <1>6, PresentStep DEF Moves

LEMMA SinkMovesStep ==
  ASSUME IInv, NEW g \in Generation, SinkAccepts(g) \/ SinkCloses(g) PROVE IInv'
<1>1. /\ TypeOK /\ UNCHANGED <<frontier, admitted, answer, presented, call, crashes>>
      /\ attempt[g] # "none" /\ sink[g] \in {"none", "inFlight"}
  BY DEF SinkAccepts, SinkCloses, IInv, Presentation, Generations
<1>2. PICK s \in {"accepted", "closed"} : sink' = [sink EXCEPT ![g] = s]
  BY DEF SinkAccepts, SinkCloses
<1>3. /\ Presentation'
      /\ sink' \in [Generation -> {"none", "inFlight", "accepted", "closed"}]
      /\ \A h \in Generation : sink[h] \in {"accepted", "closed"} => sink'[h] = sink[h]
  BY <1>1, <1>2, SinkStep
<1>4. UNCHANGED <<attempt, recorded, provenance>>
  BY <1>1 DEF presented
<1>5. /\ frontier' \in BOOLEAN /\ recorded' \in BOOLEAN /\ provenance' \in 0 .. MaxGeneration
      /\ attempt' \in [Generation -> {"none", "UNKNOWN", "ACCEPTED", "NOT_ACCEPTED"}]
      /\ call' \in [Caller -> Call]
  <2>1. call' \in [Caller -> Call]
    BY <1>1, Typed
  <2> QED
    BY <1>1, <1>4, <2>1 DEF TypeOK
<1> QED
  BY <1>1, <1>3, <1>4, <1>5, PresentStep

\* A terminal status is what became of the generation.
LEMMA TerminalStatus ==
  ASSUME NEW g, NEW s \in Statuses(g), s # "UNKNOWN"
  PROVE  /\ s \in {"ACCEPTED", "NOT_ACCEPTED"}
         /\ s = "ACCEPTED" => sink[g] = "accepted"
         /\ s = "NOT_ACCEPTED" => sink[g] = "closed"
BY DEF Statuses

LEMMA ReceiveStatusStep == ASSUME IInv, NEW c \in Caller, ReceiveStatus(c) PROVE IInv'
<1>0. PICK g : g = call[c].gen
  OBVIOUS
<1>1. /\ TypeOK /\ Holds(c) /\ call[c].stage = "sent" /\ call[c].op = 0
      /\ call \in [Caller -> Call]
      /\ UNCHANGED <<frontier, admitted, answer, presented, sink, crashes>>
  BY Typed, NamedCalls DEF ReceiveStatus, IInv, Named, Generating
<1>2. g \in Started /\ Started' = Started
  BY <1>0, <1>1 DEF Holds, AtSink, Started, presented
<1>3. PICK s \in Statuses(g) :
        call' = [call EXCEPT ![c].stage = IF s = "UNKNOWN" THEN "checking" ELSE "settle",
                             ![c].status = s]
  BY <1>0 DEF ReceiveStatus, Answers
<1>4. PICK stage : stage = IF s = "UNKNOWN" THEN "checking" ELSE "settle"
  OBVIOUS
<1>5. s \in {"UNKNOWN", "ACCEPTED", "NOT_ACCEPTED"} /\ stage \in Stages
  BY <1>4, TerminalStatus DEF Stages
<1>6. /\ Moves(c) /\ call'[c].stage = stage /\ call'[c].status = s
      /\ call'[c].op = 0 /\ call'[c].gen = g
  <2>1. call' = [call EXCEPT ![c].stage = stage, ![c].status = s]
    BY <1>3, <1>4
  <2>2. call' \in [Caller -> Call] /\ \A d \in Caller \ {c} : call'[d] = call[d]
    <3>1. PICK j : j = [call[c] EXCEPT !.stage = stage, !.status = s]
      OBVIOUS
    <3>2. j \in Call
      BY <1>1, <1>5, <3>1, StatusTaken
    <3>3. call' = [call EXCEPT ![c] = j]
      BY <1>1, <2>1, <3>1
    <3> QED
      BY <1>1, <3>2, <3>3
  <2>3. /\ call'[c].stage = stage /\ call'[c].status = s
        /\ call'[c].op = call[c].op /\ call'[c].gen = call[c].gen
    BY <1>1, <2>1 DEF Call
  <2> QED
    BY <1>0, <1>1, <2>2, <2>3 DEF Moves
<1>7. CASE s = "UNKNOWN"
  <2>1. call'[c].stage = "checking" /\ Started' # {}
    BY <1>2, <1>4, <1>6, <1>7
  <2>2. Named(c)' /\ Holds(c)'
    BY <1>6, <2>1 DEF Named, Holds, Generating, AtSink
  <2> QED
    BY <1>1, <1>6, <2>2, GotoStep
<1>8. CASE s # "UNKNOWN"
  <2>1. call'[c].stage = "settle" /\ "settle" \in AtSink
    BY <1>4, <1>6, <1>8 DEF AtSink
  <2>2. /\ call'[c].status # "UNKNOWN"
        /\ call'[c].status = "ACCEPTED" => sink'[call'[c].gen] = "accepted"
        /\ call'[c].status = "NOT_ACCEPTED" => sink'[call'[c].gen] = "closed"
    BY <1>1, <1>6, <1>8, TerminalStatus
  <2>3. Named(c)' /\ Holds(c)'
    BY <1>2, <1>6, <2>1, <2>2, AtSinkHolds
  <2> QED
    BY <1>1, <1>6, <2>3, GotoStep
<1> QED
  BY <1>7, <1>8

\* A call has the acceptance of a generation to record.
LEMMA ToRecord ==
  ASSUME IInv, NEW c \in Caller, NEW g \in Generation, GotoGeneration(c, "record", g),
         attempt'[g] = "ACCEPTED"
  PROVE  Moves(c) /\ Named(c)' /\ Holds(c)'
<1>1. /\ TypeOK /\ "record" \in Stages /\ "record" \in AtSink /\ g \in 0 .. MaxGeneration + 1
      /\ g \in Started'
  BY Bounds DEF IInv, Stages, AtSink, Generation, Started
<1>2. Moves(c) /\ call'[c].stage = "record" /\ call'[c].gen = g /\ call'[c].op = 0
  BY <1>1, GotoGenerationFacts
<1> QED
  BY <1>1, <1>2, AtSinkHolds

LEMMA RecoverPresentationStep ==
  ASSUME IInv, NEW c \in Caller, RecoverPresentation(c) PROVE IInv'
<1>0. PICK g : g = Latest
  OBVIOUS
<1>1. /\ TypeOK /\ Holds(c) /\ Numbered /\ call[c].stage \in {"looking", "checking"}
      /\ call[c].op = 0 /\ call \in [Caller -> Call]
      /\ UNCHANGED <<frontier, admitted, answer, presented, sink, crashes>>
  BY Typed, NamedCalls DEF RecoverPresentation, IInv, Presentation, Named, Generating
<1>2. g \in Started /\ g \in Generation
  BY <1>0, <1>1, LatestFacts DEF Holds, Started
<1>3. g \in 0 .. MaxGeneration + 1 /\ g + 1 \in 0 .. MaxGeneration + 1
  BY <1>2, Bounds DEF Generation
<1>4. CASE Return(c)
  BY <1>1, <1>4, ReturnStep
<1>5. CASE attempt[g] = "ACCEPTED" /\ GotoGeneration(c, "record", g)
  BY <1>1, <1>2, <1>5, ToRecord, GotoStep DEF presented
<1>6. CASE GotoGeneration(c, "fence", g + 1)
  BY <1>1, <1>3, <1>6, ToFence, GotoStep
<1>7. ASSUME NEW s \in Statuses(g), s # "UNKNOWN", NEW again \in BOOLEAN,
             call' = [call EXCEPT ![c].stage = "settle", ![c].gen = g,
                                  ![c].status = s, ![c].again = again]
      PROVE  IInv'
  <2>1. "settle" \in Stages /\ "settle" \in AtSink /\ s \in {"ACCEPTED", "NOT_ACCEPTED"}
    BY <1>7, TerminalStatus DEF Stages, AtSink
  <2>2. call' \in [Caller -> Call] /\ \A d \in Caller \ {c} : call'[d] = call[d]
    <3>1. PICK j : j = [call[c] EXCEPT !.stage = "settle", !.gen = g, !.status = s,
                                       !.again = again]
      OBVIOUS
    <3>2. j \in Call
      BY <1>1, <1>3, <1>7, <2>1, <3>1, SettlementTaken
    <3>3. call' = [call EXCEPT ![c] = j]
      BY <1>1, <1>7, <3>1
    <3> QED
      BY <1>1, <3>2, <3>3
  <2>3. /\ call'[c].stage = "settle" /\ call'[c].gen = g /\ call'[c].status = s
        /\ call'[c].op = 0
    BY <1>1, <1>3, <1>7, <2>1 DEF Call
  <2>4. g \in Started'
    BY <1>1, <1>2 DEF Started, presented
  <2>5. Named(c)' /\ Holds(c)'
    BY <1>1, <1>7, <2>1, <2>3, <2>4, TerminalStatus, AtSinkHolds
  <2> QED
    BY <1>1, <2>2, <2>5, GotoStep DEF Moves
<1> QED
  BY <1>0, <1>4, <1>5, <1>6, <1>7 DEF RecoverPresentation

\* What a call settles is what became of the generation at the sink.
LEMMA SettleStep == ASSUME IInv, NEW c \in Caller, Settle(c) PROVE IInv'
<1>0. PICK g, s : g = call[c].gen /\ s = call[c].status
  OBVIOUS
<1>1. /\ TypeOK /\ Presentation /\ Holds(c) /\ call[c].stage = "settle"
      /\ attempt \in [Generation -> {"none", "UNKNOWN", "ACCEPTED", "NOT_ACCEPTED"}]
      /\ s \in {"UNKNOWN", "ACCEPTED", "NOT_ACCEPTED"}
      /\ UNCHANGED <<frontier, admitted, answer, recorded, provenance, sink, crashes>>
  BY <1>0, Typed DEF Settle, IInv, Call
<1>2. /\ g \in Generation /\ attempt[g] # "none" /\ s \in {"ACCEPTED", "NOT_ACCEPTED"}
      /\ s = "ACCEPTED" => sink[g] = "accepted"
      /\ s = "NOT_ACCEPTED" => sink[g] = "closed"
  BY <1>0, <1>1 DEF Holds, AtSink, Started
<1>3. CASE Return(c) /\ UNCHANGED attempt
  BY <1>1, <1>3, ReturnStep DEF presented
<1>4. CASE /\ attempt[g] \in {"UNKNOWN", s} /\ attempt' = [attempt EXCEPT ![g] = s]
           /\ \/ s = "ACCEPTED" /\ GotoGeneration(c, "record", g)
              \/ GotoGeneration(c, "fence", g + 1)
              \/ Return(c)
  <2>1. /\ attempt' \in [Generation -> {"none", "UNKNOWN", "ACCEPTED", "NOT_ACCEPTED"}]
        /\ attempt'[g] = s
        /\ \A h \in Generation \ {g} : attempt'[h] = attempt[h]
    BY <1>1, <1>2, <1>4
  <2>2. Started' = Started
    BY <1>2, <2>1 DEF Started
  <2>3. Numbered'
    BY <1>1, <2>2 DEF Presentation, Numbered, Latest, Started
  <2>4. Refusals'
    <3> SUFFICES ASSUME NEW x \in Generation, NEW h \in Generation,
                        attempt'[x] # "none", h < x
                 PROVE  attempt'[h] = "NOT_ACCEPTED"
      BY DEF Refusals
    <3>1. attempt[x] # "none"
      BY <1>2, <2>1
    <3>2. attempt[h] = "NOT_ACCEPTED"
      BY <1>1, <3>1 DEF Presentation, Refusals
    <3> QED
      BY <1>4, <2>1, <3>2
  <2>5. Generations' /\ Bindings'
    BY <1>1, <1>2, <2>1 DEF Presentation, Generations, Bindings, Shown
  <2>6. \A x \in Generation : /\ attempt[x] # "none" => attempt'[x] # "none"
                              /\ attempt[x] = "ACCEPTED" => attempt'[x] = "ACCEPTED"
    BY <1>2, <1>4, <2>1
  <2>7. Moves(c) /\ Named(c)' /\ Holds(c)'
    <3>1. CASE s = "ACCEPTED" /\ GotoGeneration(c, "record", g)
      BY <1>2, <2>1, <3>1, ToRecord
    <3>2. CASE GotoGeneration(c, "fence", g + 1)
      <4>1. g + 1 \in 0 .. MaxGeneration + 1
        BY <1>2, Bounds DEF Generation
      <4> QED
        BY <3>2, <4>1, ToFence
    <3>3. CASE Return(c)
      BY <1>1, <3>3, ReturnFacts
    <3> QED
      BY <1>4, <3>1, <3>2, <3>3
  <2>8. frontier' \in BOOLEAN /\ recorded' \in BOOLEAN /\ provenance' \in 0 .. MaxGeneration
        /\ sink' \in [Generation -> {"none", "inFlight", "accepted", "closed"}]
    BY <1>1 DEF TypeOK
  <2> QED
    BY <1>1, <2>1, <2>3, <2>4, <2>5, <2>6, <2>7, <2>8, PresentStep DEF Presentation, Moves
<1> QED
  BY <1>0, <1>3, <1>4 DEF Settle

LEMMA RecordPresentationStep ==
  ASSUME IInv, NEW c \in Caller, RecordPresentation(c) PROVE IInv'
<1>0. PICK g : g = call[c].gen
  OBVIOUS
<1>1. /\ TypeOK /\ Presentation /\ Holds(c) /\ call[c].stage = "record" /\ call[c].op = 0
      /\ UNCHANGED <<admitted, answer, attempt, provenance, sink, crashes>>
  BY NamedCalls DEF RecordPresentation, IInv, Named, Generating
<1>2. CASE Return(c) /\ UNCHANGED <<recorded, frontier>>
  BY <1>1, <1>2, ReturnStep DEF presented
<1>3. CASE /\ recorded' = TRUE /\ frontier' = (frontier /\ recorded)
           /\ Goto(c, "provenance")
  <2>1. g \in Generation /\ g \in Started' /\ attempt'[g] = "ACCEPTED" /\ sink[g] = "accepted"
    BY <1>0, <1>1 DEF Holds, AtSink, Started, Presentation, Generations
  <2>2. Moves(c) /\ Named(c)' /\ Holds(c)'
    <3>1. "provenance" \in Stages /\ "provenance" \in AtSink
      BY DEF Stages, AtSink
    <3>2. /\ Moves(c) /\ call'[c].stage = "provenance" /\ call'[c].op = 0
          /\ call'[c].gen = g
      BY <1>0, <1>1, <1>3, <3>1, GotoFacts
    <3> QED
      BY <1>3, <2>1, <3>1, <3>2, AtSinkHolds
  <2>3. Numbered' /\ Refusals' /\ Generations'
    BY <1>1 DEF Presentation, Numbered, Started, Latest, Refusals, Generations
  <2>4. Bindings'
    <3>1. Shown' = Shown /\ g \in Shown
      BY <1>1, <2>1 DEF Shown
    <3> QED
      BY <1>1, <1>3, <3>1 DEF Presentation, Bindings
  <2>5. /\ frontier' \in BOOLEAN /\ recorded' \in BOOLEAN /\ provenance' \in 0 .. MaxGeneration
        /\ attempt' \in [Generation -> {"none", "UNKNOWN", "ACCEPTED", "NOT_ACCEPTED"}]
        /\ sink' \in [Generation -> {"none", "inFlight", "accepted", "closed"}]
    BY <1>1, <1>3 DEF TypeOK
  <2> QED
    BY <1>1, <1>3, <2>2, <2>3, <2>4, <2>5, PresentStep DEF Presentation, Moves
<1> QED
  BY <1>2, <1>3 DEF RecordPresentation

LEMMA BindProvenanceStep ==
  ASSUME IInv, NEW c \in Caller, BindProvenance(c) PROVE IInv'
<1>0. PICK g : g = call[c].gen
  OBVIOUS
<1>1. /\ TypeOK /\ Presentation /\ Holds(c) /\ call[c].stage = "provenance" /\ Return(c)
      /\ provenance' = IF provenance = 0 THEN g ELSE provenance
      /\ UNCHANGED <<frontier, admitted, answer, attempt, recorded, sink, crashes>>
  BY <1>0 DEF BindProvenance, IInv
<1>2. g \in Generation /\ sink[g] = "accepted" /\ recorded
  BY <1>0, <1>1 DEF Holds, AtSink, Started, Presentation, Generations
<1>3. Moves(c) /\ Named(c)' /\ Holds(c)'
  BY <1>1, ReturnFacts
<1>4. Numbered' /\ Refusals' /\ Generations'
  BY <1>1 DEF Presentation, Numbered, Started, Latest, Refusals, Generations
<1>5. Bindings'
  <2>1. Shown' = Shown /\ g \in Shown
    BY <1>1, <1>2 DEF Shown
  <2> QED
    BY <1>1, <1>2, <2>1 DEF Presentation, Bindings
<1>6. /\ frontier' \in BOOLEAN /\ recorded' \in BOOLEAN /\ provenance' \in 0 .. MaxGeneration
      /\ attempt' \in [Generation -> {"none", "UNKNOWN", "ACCEPTED", "NOT_ACCEPTED"}]
      /\ sink' \in [Generation -> {"none", "inFlight", "accepted", "closed"}]
  <2>1. g \in 0 .. MaxGeneration
    BY <1>2, Bounds DEF Generation
  <2> QED
    BY <1>1, <2>1 DEF TypeOK
<1> QED
  BY <1>1, <1>3, <1>4, <1>5, <1>6, PresentStep DEF Presentation, Moves

LEMMA AdvanceTimelineStep == ASSUME IInv, AdvanceTimeline PROVE IInv'
<1>1. /\ TypeOK /\ frontier' = FALSE
      /\ UNCHANGED <<admitted, answer, presented, sink, call, crashes>>
  BY DEF AdvanceTimeline, IInv
<1>2. Presentation'
  BY <1>1, PresentationKept
<1>3. UNCHANGED <<attempt, recorded, provenance>> /\ call' \in [Caller -> Call]
  BY <1>1, Typed DEF presented
<1>4. /\ frontier' \in BOOLEAN /\ recorded' \in BOOLEAN /\ provenance' \in 0 .. MaxGeneration
      /\ attempt' \in [Generation -> {"none", "UNKNOWN", "ACCEPTED", "NOT_ACCEPTED"}]
      /\ sink' \in [Generation -> {"none", "inFlight", "accepted", "closed"}]
  BY <1>1, <1>3 DEF TypeOK
<1> QED
  BY <1>1, <1>2, <1>3, <1>4, PresentStep

-----------------------------------------------------------------------------
(* The invariant is inductive. *)

LEMMA ProceedStep == ASSUME IInv, NEW c \in Caller, Proceed(c) PROVE IInv'
BY BuildProjectionStep, GenerateOrRecoverStep, DispatchModelStep, FinishInvocationStep,
   AdoptStep, PresentOrRecoverStep, FencePresentationStep, SendPayloadStep,
   ReceiveStatusStep, RecoverPresentationStep, SettleStep, RecordPresentationStep,
   BindProvenanceStep DEF Proceed

LEMMA StepInv == IInv /\ [Next]_vars => IInv'
<1> SUFFICES ASSUME IInv, [Next]_vars PROVE IInv'
  OBVIOUS
<1>1. CASE Next
  <2>1. ASSUME NEW c \in Caller,
               \/ \E r \in Result : AdmitResult(c, r)
               \/ RecoverResult(c) \/ Proceed(c) \/ Crash(c)
        PROVE  IInv'
    BY <2>1, AdmitResultStep, RecoverResultStep, ProceedStep, CrashStep
  <2>2. CASE \E g \in Generation : SinkAccepts(g) \/ SinkCloses(g)
    BY <2>2, SinkMovesStep
  <2>3. CASE AdvanceTimeline
    BY <2>3, AdvanceTimelineStep
  <2> QED
    BY <1>1, <2>1, <2>2, <2>3 DEF Next
<1>2. CASE UNCHANGED vars
  <2>1. /\ UNCHANGED <<frontier, admitted, answer, presented, sink, call, crashes>>
        /\ UNCHANGED <<attempt, recorded, provenance>> /\ TypeOK /\ Presentation'
    BY <1>2, PresentationKept DEF vars, presented, IInv
  <2>2. /\ frontier' \in BOOLEAN /\ recorded' \in BOOLEAN /\ provenance' \in 0 .. MaxGeneration
        /\ attempt' \in [Generation -> {"none", "UNKNOWN", "ACCEPTED", "NOT_ACCEPTED"}]
        /\ sink' \in [Generation -> {"none", "inFlight", "accepted", "closed"}]
        /\ call' \in [Caller -> Call]
    BY <2>1, Typed DEF TypeOK
  <2> QED
    BY <2>1, <2>2, PresentStep
<1> QED
  BY <1>1, <1>2

\* The strengthened invariant holds in every reachable state.
THEOREM Inductive == Spec => []IInv
BY InitInv, StepInv, PTL DEF Spec

\* Every variable keeps its type, for any number of calls of respond.
THEOREM TypeCorrectness == Spec => []TypeOK
<1>1. IInv => TypeOK
  BY DEF IInv
<1> QED
  BY <1>1, Inductive, PTL

\* However many calls of respond run at once and whichever results they took up, the
\* model has one dispatch at most that is open or has succeeded (generate_answer_plan),
\* and one output is adopted, of a plan that states the schedule (adopt_schedule_output).
THEOREM OneAnswerHolds == Spec => []OneAnswer
<1>1. IInv => OneAnswer
  <2> SUFFICES ASSUME IInv PROVE OneAnswer
    OBVIOUS
  <2> DEFINE L == {a \in Result \X Operation :
                      invocation[a[1]][a[2]].outcome \in {"IN_PROGRESS", "SUCCEEDED"}}
  <2>1. Faithful /\ OneResult /\ OneLive /\ Outputs
    BY DEF IInv, Answering
  <2>2. ASSUME NEW a \in L, NEW b \in L PROVE a = b
    <3>1. /\ a[1] \in Result /\ a[2] \in Operation /\ b[1] \in Result /\ b[2] \in Operation
          /\ a = <<a[1], a[2]>> /\ b = <<b[1], b[2]>>
          /\ invocation[a[1]][a[2]].outcome \in Live /\ invocation[b[1]][b[2]].outcome \in Live
      BY <2>2 DEF Live
    <3>2. a[2] \in Invocations(a[1]) /\ b[2] \in Invocations(b[1])
      BY <3>1 DEF Invocations, NoInvocation, Live
    <3>3. a[1] = b[1]
      BY <2>1, <3>1, <3>2 DEF OneResult
    <3>4. a[2] = b[2]
      BY <2>1, <3>1, <3>3 DEF OneLive
    <3> QED
      BY <3>1, <3>3, <3>4
  <2>3. Cardinality(L) <= 1
    BY <2>2, AtMostOne
  <2>4. Cardinality(adopted) <= 1
    BY <2>1, AtMostOne DEF Outputs
  <2> QED
    BY <2>1, <2>3, <2>4 DEF OneAnswer, Outputs, Stated
<1> QED
  BY <1>1, Inductive, PTL

\* The counterpart sees the answer once, and what the attempts, the Timeline event and
\* its provenance say of it is what became of it at the sink (_settle_attempt,
\* _commit_accepted_presentation).
THEOREM ShownOnceAsRecordedHolds == Spec => []ShownOnceAsRecorded
<1>1. IInv => ShownOnceAsRecorded
  <2> SUFFICES ASSUME IInv PROVE ShownOnceAsRecorded
    OBVIOUS
  <2>1. Refusals /\ Generations /\ Bindings
    BY DEF IInv, Presentation
  <2>2. \A g, h \in Shown : g = h
    BY <2>1, OneAccepted DEF Shown
  <2>3. Cardinality(Shown) <= 1
    BY <2>2, AtMostOne
  <2> QED
    BY <2>1, <2>3 DEF ShownOnceAsRecorded, Generations, Bindings
<1> QED
  BY <1>1, Inductive, PTL

=============================================================================
