------------------------ MODULE CalendarResultProofs ------------------------
(***************************************************************************)
(* Theorems about CalendarResult, for any number of callers, operations,   *)
(* generations, credentials and routes.  The argument: generations are     *)
(* numbered without gaps and every one but the last is refused for good,   *)
(* so one at most can be accepted; a terminal state of the record and of   *)
(* the sink is never left, so what a caller learned of a generation stays  *)
(* true until it writes it; and whoever waits for the model waits alone.   *)
(***************************************************************************)
EXTENDS CalendarResult, NumberedRows

\* What the ledger says is so, and the whole chain from the confirmed Effect to the
\* presentation stands on it.
Chain ==
    /\ ledger = "effect" => events # {}
    /\ ledger \in {"open", "noEffect"} => events = {}
    /\ projection => ledger = "effect"
    /\ adopted => projection
    /\ \A g \in Generation : attempt[g] # "NONE" => adopted

Live == {"IN_PROGRESS", "UNKNOWN", "SUCCEEDED"}

\* One invocation at most has succeeded or may yet.
Plans ==
    /\ \A o, q \in PlanOperation : invocation[o] \in Live /\ invocation[q] \in Live => o = q
    /\ \A o \in PlanOperation : invocation[o] = "SUCCEEDED" <=> plan = o

Started == {g \in Generation : attempt[g] # "NONE"}

Numbered == Started = 1 .. Latest

\* A generation is sent only after the ones before it were refused for good.
Refusals ==
    \A g, h \in Generation : attempt[g] # "NONE" /\ h < g => attempt[h] = "NOT_ACCEPTED"

\* The record of a generation and what became of it at the sink.
Generations ==
    \A g \in Generation :
        /\ attempt[g] = "NONE" => sink[g] = "none"
        /\ attempt[g] = "ACCEPTED" => sink[g] = "accepted"
        /\ attempt[g] = "NOT_ACCEPTED" => sink[g] = "closed"

Bindings ==
    /\ recorded # 0 => recorded \in Generation /\ attempt[recorded] = "ACCEPTED"
    /\ provenance # 0 => provenance = recorded

Asking == {"asked", "planned"}
AtSink == {"send", "sent", "settle", "record", "provenance"}

\* What a caller holds in memory is true of the records and of the sink.
Holds(w) ==
    /\ pc[w] \in {"looking", "checking"} => Started # {}
    /\ pc[w] \in AtSink => job[w].gen \in Started
    /\ pc[w] = "settle" =>
        /\ job[w].answer \in {"ACCEPTED", "NOT_ACCEPTED"}
        /\ job[w].answer = "ACCEPTED" => sink[job[w].gen] = "accepted"
        /\ job[w].answer = "NOT_ACCEPTED" => sink[job[w].gen] = "closed"
    /\ pc[w] \in {"record", "provenance"} => attempt[job[w].gen] = "ACCEPTED"
    /\ pc[w] = "provenance" => recorded # 0

\* A caller that waits for the model waits for its own open invocation, alone.
Waits ==
    /\ \A w \in Worker : pc[w] \in Asking => invocation[job[w].op] = "IN_PROGRESS"
    /\ \A v, w \in Worker : pc[v] \in Asking /\ pc[w] \in Asking => v = w

IInv ==
    /\ TypeOK /\ Chain /\ Plans
    /\ Numbered /\ Refusals /\ Generations /\ Bindings
    /\ (\A w \in Worker : Holds(w)) /\ Waits

Job == [run : BOOLEAN, op : PlanOperation, gen : 0 .. MaxGeneration + 1,
        answer : AcceptanceState, resend : BOOLEAN]

-----------------------------------------------------------------------------
(* Sets of generations and of operations. *)

LEMMA Bounds ==
  /\ MaxGeneration \in Nat /\ MaxChange \in Nat /\ MaxCrash \in Nat
  /\ RunPlan \in PlanOperation
  /\ Nothing \notin Credential /\ Nothing \notin Route /\ Nothing \notin PlanOperation
BY ResultAssumption

\* The latest generation is the last that was started.
LEMMA LatestFacts ==
  ASSUME Numbered
  PROVE  /\ Latest \in 0 .. MaxGeneration
         /\ Started = 1 .. Latest
         /\ Started # {} => Latest \in Started
         /\ Latest # 0 => Started # {}
<1>1. Started \subseteq 1 .. MaxGeneration /\ Latest = Cardinality(Started)
  BY DEF Started, Generation, Latest
<1>2. Latest \in Nat /\ Latest <= MaxGeneration
  <2>1. Started = 1 .. Cardinality(Started)
    BY <1>1 DEF Numbered
  <2>2. Cardinality(Started) \in Nat /\ Cardinality(Started) <= MaxGeneration
    BY <1>1, <2>1, NextRow, Bounds
  <2> QED
    BY <1>1, <2>2
<1> QED
  BY <1>2, Bounds DEF Numbered

\* One generation at most is accepted.
LEMMA OneAccepted ==
  ASSUME Refusals, Generations, NEW g \in Generation, NEW h \in Generation,
         sink[g] = "accepted", sink[h] = "accepted"
  PROVE  g = h
<1>1. attempt[g] # "NONE" /\ attempt[h] # "NONE"
  BY DEF Generations
<1>2. attempt[g] # "NOT_ACCEPTED" /\ attempt[h] # "NOT_ACCEPTED"
  BY DEF Generations
<1>3. ~ g < h /\ ~ h < g
  BY <1>1, <1>2 DEF Refusals
<1> QED
  BY <1>3 DEF Generation

-----------------------------------------------------------------------------
(* What the steps do to their caller. *)

LEMMA Typed ==
  ASSUME TypeOK
  PROVE  /\ pc \in [Worker -> Stage] /\ job \in [Worker -> Job]
         /\ invocation \in [PlanOperation -> InvocationOutcome]
         /\ attempt \in [Generation -> AcceptanceState]
         /\ sink \in [Generation -> {"none", "inFlight", "accepted", "closed"}]
         /\ \A w \in Worker : /\ job[w].op \in PlanOperation
                              /\ job[w].gen \in 0 .. MaxGeneration + 1
                              /\ job[w].answer \in AcceptanceState
<1>1. job \in [Worker -> Job]
  BY DEF TypeOK, Job
<1>2. \A w \in Worker : /\ job[w].op \in PlanOperation
                        /\ job[w].gen \in 0 .. MaxGeneration + 1
                        /\ job[w].answer \in AcceptanceState
  BY <1>1 DEF Job
<1> QED
  BY <1>1, <1>2 DEF TypeOK

Others(w) == \A v \in Worker \ {w} : pc'[v] = pc[v] /\ job'[v] = job[v]

LEMMA GotoFacts ==
  ASSUME TypeOK, NEW w \in Worker, NEW stage \in Stage, Goto(w, stage)
  PROVE  /\ pc' \in [Worker -> Stage] /\ pc'[w] = stage
         /\ \A v \in Worker \ {w} : pc'[v] = pc[v]
BY DEF Goto, TypeOK

LEMMA ReturnFacts ==
  ASSUME TypeOK, NEW w \in Worker, Return(w)
  PROVE  /\ pc' \in [Worker -> Stage] /\ job' \in [Worker -> Job]
         /\ pc'[w] = "idle" /\ Others(w)
<1>1. NoJob \in Job /\ "idle" \in Stage
  BY Bounds DEF NoJob, Job, Stage, AcceptanceState
<1>2. job \in [Worker -> Job] /\ pc \in [Worker -> Stage]
  BY Typed
<1> QED
  BY <1>1, <1>2 DEF Return, Goto, Others

\* A step of the caller alone to another stage.
LEMMA StayFacts ==
  ASSUME TypeOK, NEW w \in Worker, NEW stage \in Stage, Goto(w, stage), UNCHANGED job
  PROVE  /\ pc' \in [Worker -> Stage] /\ job' \in [Worker -> Job]
         /\ pc'[w] = stage /\ job'[w] = job[w] /\ Others(w)
BY GotoFacts, Typed DEF Others

LEMMA ContinueFacts ==
  ASSUME TypeOK, NEW w \in Worker, NEW stage \in Stage, Continue(w, stage)
  PROVE  /\ pc' \in [Worker -> Stage] /\ job' \in [Worker -> Job]
         /\ pc'[w] = "idle" \/ (pc'[w] = stage /\ job'[w] = job[w])
         /\ Others(w)
<1>1. CASE job[w].run
  BY <1>1, StayFacts DEF Continue
<1>2. CASE ~ job[w].run
  BY <1>2, ReturnFacts DEF Continue
<1> QED
  BY <1>1, <1>2

\* A caller takes a generation to another stage.
LEMMA TakeFacts ==
  ASSUME TypeOK, NEW w \in Worker, NEW stage \in Stage, Goto(w, stage),
         NEW g \in 0 .. MaxGeneration + 1, job' = [job EXCEPT ![w].gen = g]
  PROVE  /\ pc' \in [Worker -> Stage] /\ job' \in [Worker -> Job]
         /\ pc'[w] = stage /\ job'[w].gen = g /\ job'[w].op = job[w].op /\ Others(w)
<1>1. job \in [Worker -> Job]
  BY Typed
<1> QED
  BY <1>1, GotoFacts DEF Job, Others

-----------------------------------------------------------------------------
(* What does not change. *)

\* The records and the sink never take back what callers have learned.
Extends ==
    /\ \A g \in Generation :
         /\ attempt[g] # "NONE" => attempt'[g] # "NONE"
         /\ attempt[g] = "ACCEPTED" => attempt'[g] = "ACCEPTED"
         /\ sink[g] \in {"accepted", "closed"} => sink'[g] = sink[g]
    /\ recorded # 0 => recorded' # 0

LEMMA HoldersKept ==
  ASSUME IInv, Extends, NEW w \in Worker,
         pc'[w] = "idle" \/ (pc'[w] = pc[w] /\ job'[w] = job[w])
  PROVE  Holds(w)'
<1>1. CASE pc'[w] = "idle"
  BY <1>1 DEF Holds, AtSink
<1>2. CASE pc'[w] = pc[w] /\ job'[w] = job[w]
  <2>1. Holds(w)
    BY DEF IInv
  <2>2. \A g \in Started : g \in Started'
    BY DEF Extends, Started
  <2>3. Started \subseteq Generation
    BY DEF Started
  <2>4. CASE pc[w] \in AtSink
    <3>1. PICK g : g = job[w].gen
      OBVIOUS
    <3>2. g \in Started /\ g \in Generation
      BY <2>1, <2>3, <2>4, <3>1 DEF Holds
    <3> QED
      BY <1>2, <2>1, <2>2, <2>4, <3>1, <3>2 DEF Holds, AtSink, Extends
  <2>5. CASE pc[w] \notin AtSink
    BY <1>2, <2>1, <2>2, <2>5 DEF Holds, AtSink
  <2> QED
    BY <2>4, <2>5
<1> QED
  BY <1>1, <1>2

\* Whoever waits still waits alone.
LEMMA WaitsKept ==
  ASSUME IInv, NEW w \in Worker, Others(w), UNCHANGED invocation,
         pc'[w] \in Asking => pc[w] \in Asking /\ job'[w].op = job[w].op
  PROVE  Waits'
BY DEF IInv, Waits, Others

Presentation == Numbered /\ Refusals /\ Generations /\ Bindings

LEMMA PresentationKept ==
  ASSUME IInv, UNCHANGED <<presented, sink>>
  PROVE  Presentation' /\ Extends
<1> USE DEF presented
<1>1. Numbered'
  BY DEF IInv, Numbered, Started, Latest
<1>2. Refusals' /\ Generations' /\ Bindings'
  BY DEF IInv, Refusals, Generations, Bindings
<1> QED
  BY <1>1, <1>2 DEF Presentation, Extends

\* A step of a caller that writes none of the records of completion and presentation.
LEMMA CallerStep ==
  ASSUME IInv, NEW w \in Worker, TypeOK',
         UNCHANGED <<upstream, completion, presented, sink>>, Others(w),
         pc'[w] = "idle" \/ Holds(w)',
         pc'[w] \in Asking => pc[w] \in Asking /\ job'[w].op = job[w].op
  PROVE  IInv'
<1>1. Chain' /\ Plans'
  BY DEF IInv, Chain, Plans, upstream, completion, presented
<1>2. Presentation' /\ Extends
  BY PresentationKept
<1>3. Waits'
  BY WaitsKept DEF completion
<1>4. \A v \in Worker : Holds(v)'
  BY <1>2, HoldersKept DEF Others
<1> QED
  BY <1>1, <1>2, <1>3, <1>4 DEF IInv, Presentation

LEMMA InitInv == Init => IInv
<1> SUFFICES ASSUME Init PROVE IInv
  OBVIOUS
<1> USE DEF Init
<1>1. TypeOK
  <2>1. NoJob \in Job
    BY Bounds DEF NoJob, Job, AcceptanceState
  <2>2. "idle" \in Stage
    BY DEF Stage
  <2>3. events \subseteq {"event"} /\ ledger \in Outcome!Ledger
    BY DEF Outcome!Init, Outcome!Ledger
  <2>4. job \in [Worker -> Job] /\ pc \in [Worker -> Stage]
    BY <2>1, <2>2
  <2>5. /\ invocation \in [PlanOperation -> InvocationOutcome]
        /\ planRoute \in [PlanOperation -> Route \cup {Nothing}]
        /\ attempt \in [Generation -> AcceptanceState]
        /\ sink \in [Generation -> {"none", "inFlight", "accepted", "closed"}]
    BY DEF InvocationOutcome, AcceptanceState
  <2>6. /\ recorded \in 0 .. MaxGeneration /\ provenance \in 0 .. MaxGeneration
        /\ changes \in 0 .. MaxChange /\ crashes \in 0 .. MaxCrash
    BY Bounds
  <2>7. /\ credential \in Credential \cup {Nothing} /\ route \in Route \cup {Nothing}
        /\ disclosable \in BOOLEAN /\ pinned \in Credential \cup {Nothing}
        /\ transport \in {"none", "matched", "unknown"}
        /\ projection \in BOOLEAN /\ plan \in PlanOperation \cup {Nothing}
        /\ adopted \in BOOLEAN
    OBVIOUS
  <2> HIDE DEF Init
  <2> QED
    BY <2>3, <2>4, <2>5, <2>6, <2>7 DEF TypeOK, Job
<1>2. Chain
  BY DEF Chain, Outcome!Init
<1>3. Plans
  BY Bounds DEF Plans, Live
<1>4. Numbered
  <2>1. Started = {}
    BY DEF Started
  <2>2. Latest = Cardinality(Started)
    BY DEF Latest, Started
  <2>3. Latest = 0 /\ 1 .. 0 = {}
    BY <2>1, <2>2, FS_EmptySet
  <2> QED
    BY <2>1, <2>3 DEF Numbered
<1>5. Refusals /\ Generations /\ Bindings
  BY DEF Refusals, Generations, Bindings
<1>6. (\A w \in Worker : Holds(w)) /\ Waits
  BY DEF Holds, Waits, AtSink, Asking
<1> QED
  BY <1>1, <1>2, <1>3, <1>4, <1>5, <1>6 DEF IInv

-----------------------------------------------------------------------------
(* The steps of callers that write no record. *)

LEMMA CallTyped ==
  ASSUME TypeOK, pc' \in [Worker -> Stage], job' \in [Worker -> Job],
         UNCHANGED <<upstream, config, completion, presented, sink>>,
         pinned' \in Credential \cup {Nothing}, transport' \in {"none", "matched", "unknown"},
         crashes' \in 0 .. MaxCrash
  PROVE  TypeOK'
BY DEF TypeOK, Job, upstream, config, completion, presented

\* A caller goes to a stage that needs no more than what it holds, or returns.
LEMMA PlainStep ==
  ASSUME IInv, NEW w \in Worker,
         pc' \in [Worker -> Stage], job' \in [Worker -> Job], Others(w),
         UNCHANGED <<upstream, config, execution, completion, presented, sink, crashes>>,
         pc'[w] = "idle" \/ Holds(w)',
         pc'[w] \in Asking => pc[w] \in Asking /\ job'[w].op = job[w].op
  PROVE  IInv'
<1>1. TypeOK'
  BY CallTyped DEF IInv, TypeOK, execution
<1> QED
  BY <1>1, CallerStep

\* Stages at which a caller knows nothing of the presentation.
Early == {"transport", "effect", "project", "generate", "adopt", "present", "fence"}

LEMMA EarlyHolds == ASSUME NEW w \in Worker, pc'[w] \in Early PROVE Holds(w)'
BY DEF Early, Holds, AtSink

LEMMA EarlyStages == Early \subseteq Stage /\ Early \cap Asking = {} /\ "idle" \notin Asking
BY DEF Early, Stage, Asking

LEMMA StartRunStep == ASSUME IInv, NEW w \in Worker, StartRun(w) PROVE IInv'
<1>1. /\ TypeOK /\ Goto(w, "transport") /\ job' = [job EXCEPT ![w].run = TRUE]
      /\ pinned' \in Credential \cup {Nothing}
      /\ UNCHANGED <<upstream, config, transport, completion, presented, sink, crashes>>
  BY DEF IInv, StartRun, TypeOK, SelectedCredential
<1>2. pc' \in [Worker -> Stage] /\ pc'[w] = "transport" /\ "transport" \in Early
      /\ job' \in [Worker -> Job] /\ Others(w)
  <2>1. "transport" \in Early
    BY DEF Early
  <2>2. job \in [Worker -> Job]
    BY <1>1, Typed
  <2>3. job' \in [Worker -> Job] /\ \A v \in Worker \ {w} : job'[v] = job[v]
    BY <1>1, <2>2 DEF Job
  <2> QED
    BY <1>1, <2>1, <2>3, GotoFacts, EarlyStages DEF Others
<1>3. TypeOK'
  BY <1>1, <1>2, CallTyped DEF TypeOK
<1> QED
  BY <1>1, <1>2, <1>3, EarlyHolds, EarlyStages, CallerStep

LEMMA DispatchStep == ASSUME IInv, NEW w \in Worker, Dispatch(w) PROVE IInv'
<1>1. /\ TypeOK /\ transport' \in {"none", "matched", "unknown"}
      /\ UNCHANGED <<upstream, config, pinned, completion, presented, sink, crashes>>
  BY DEF IInv, Dispatch, TypeOK
<1>2. /\ pc' \in [Worker -> Stage] /\ job' \in [Worker -> Job] /\ Others(w)
      /\ pc'[w] \in Early \cup {"idle"}
  <2>1. CASE Goto(w, "effect") /\ UNCHANGED job
    <3>1. "effect" \in Early
      BY DEF Early
    <3> QED
      BY <1>1, <2>1, <3>1, StayFacts, EarlyStages
  <2>2. CASE Return(w)
    BY <1>1, <2>2, ReturnFacts
  <2> QED
    BY <2>1, <2>2 DEF Dispatch
<1>3. TypeOK'
  BY <1>1, <1>2, CallTyped DEF TypeOK
<1> QED
  BY <1>1, <1>2, <1>3, EarlyHolds, EarlyStages, CallerStep

LEMMA CrashStep == ASSUME IInv, NEW w \in Worker, Crash(w) PROVE IInv'
<1>1. /\ TypeOK /\ Return(w) /\ crashes' \in 0 .. MaxCrash
      /\ UNCHANGED <<upstream, config, execution, completion, presented, sink>>
  BY Bounds DEF IInv, Crash, TypeOK
<1>2. TypeOK'
  BY <1>1, ReturnFacts, CallTyped DEF TypeOK, execution
<1> QED
  BY <1>1, <1>2, ReturnFacts, EarlyStages, CallerStep

LEMMA RefusedStep == ASSUME IInv, NEW w \in Worker, Refused(w) PROVE IInv'
<1>1. /\ TypeOK /\ Return(w)
      /\ UNCHANGED <<upstream, config, execution, completion, presented, sink, crashes>>
  BY DEF IInv, Refused
<1> QED
  BY <1>1, ReturnFacts, EarlyStages, PlainStep

LEMMA ReplayGenerationStep ==
  ASSUME IInv, NEW w \in Worker, ReplayGeneration(w) PROVE IInv'
<1>1. /\ TypeOK /\ Continue(w, "adopt") /\ "adopt" \in Early
      /\ UNCHANGED <<upstream, config, execution, completion, presented, sink, crashes>>
  BY DEF IInv, ReplayGeneration, Early
<1>2. /\ pc' \in [Worker -> Stage] /\ job' \in [Worker -> Job] /\ Others(w)
      /\ pc'[w] \in Early \cup {"idle"}
  BY <1>1, ContinueFacts, EarlyStages
<1> QED
  BY <1>1, <1>2, EarlyHolds, EarlyStages, PlainStep

\* A caller takes an operation up.
LEMMA TakeOperation ==
  ASSUME IInv, NEW w \in Worker, NEW stage \in Early, Goto(w, stage),
         NEW o \in PlanOperation, job' = [job EXCEPT ![w].op = o],
         UNCHANGED <<upstream, config, execution, completion, presented, sink, crashes>>
  PROVE  IInv'
<1>1. TypeOK /\ job \in [Worker -> Job] /\ stage \in Stage
  BY Typed, EarlyStages DEF IInv
<1>2. job' \in [Worker -> Job] /\ Others(w) /\ pc' \in [Worker -> Stage] /\ pc'[w] = stage
  BY <1>1, GotoFacts DEF Job, Others
<1> QED
  BY <1>2, EarlyHolds, EarlyStages, PlainStep

LEMMA CallGenerateStep ==
  ASSUME IInv, NEW w \in Worker, NEW o \in PlanOperation, CallGenerate(w, o) PROVE IInv'
<1>1. "generate" \in Early
  BY DEF Early
<1> QED
  BY <1>1, TakeOperation DEF CallGenerate

LEMMA CallAdoptStep == ASSUME IInv, NEW w \in Worker, CallAdopt(w) PROVE IInv'
<1>1. PICK o : o = plan
  OBVIOUS
<1>2. "adopt" \in Early /\ o \in PlanOperation /\ job' = [job EXCEPT ![w].op = o]
  BY <1>1 DEF Early, CallAdopt, IInv, TypeOK
<1> QED
  BY <1>2, TakeOperation DEF CallAdopt

\* A caller takes a generation up.
LEMMA TakeGeneration ==
  ASSUME IInv, NEW w \in Worker, NEW stage \in Stage \ Asking, Goto(w, stage),
         NEW g \in 0 .. MaxGeneration + 1, job' = [job EXCEPT ![w].gen = g],
         stage \in Early \/ Holds(w)',
         UNCHANGED <<upstream, config, execution, completion, presented, sink, crashes>>
  PROVE  IInv'
<1>1. TypeOK
  BY DEF IInv
<1>2. /\ pc' \in [Worker -> Stage] /\ job' \in [Worker -> Job]
      /\ pc'[w] = stage /\ Others(w)
  BY <1>1, TakeFacts
<1> QED
  BY <1>2, EarlyHolds, PlainStep

LEMMA CallPresentStep == ASSUME IInv, NEW w \in Worker, CallPresent(w) PROVE IInv'
<1>1. PICK g : g = Latest + 1
  OBVIOUS
<1>2. "fence" \in Early /\ g \in 0 .. MaxGeneration + 1 /\ job' = [job EXCEPT ![w].gen = g]
  BY <1>1, LatestFacts, Bounds DEF Early, CallPresent, IInv
<1> QED
  BY <1>2, EarlyStages, TakeGeneration DEF CallPresent

\* A caller looks at a generation that exists.
LEMMA LookStep ==
  ASSUME IInv, NEW w \in Worker, NEW stage \in {"looking", "checking"},
         Goto(w, stage), UNCHANGED job, Started # {},
         UNCHANGED <<upstream, config, execution, completion, presented, sink, crashes>>
  PROVE  IInv'
<1>1. TypeOK /\ stage \in Stage /\ stage \notin Asking
  BY DEF IInv, Stage, Asking
<1>2. /\ pc' \in [Worker -> Stage] /\ job' \in [Worker -> Job]
      /\ pc'[w] = stage /\ Others(w)
  BY <1>1, StayFacts
<1>3. Holds(w)'
  BY <1>2 DEF Holds, AtSink, Started, presented
<1> QED
  BY <1>1, <1>2, <1>3, PlainStep

LEMMA CallRecoverStep == ASSUME IInv, NEW w \in Worker, CallRecover(w) PROVE IInv'
BY LatestFacts, LookStep DEF CallRecover, IInv

LEMMA PresentOrRecoverStep ==
  ASSUME IInv, NEW w \in Worker, PresentOrRecover(w) PROVE IInv'
<1>1. UNCHANGED <<upstream, config, execution, completion, presented, sink, crashes>>
  BY DEF PresentOrRecover
<1>2. CASE Latest # 0 /\ Goto(w, "looking") /\ UNCHANGED job
  BY <1>1, <1>2, LatestFacts, LookStep DEF IInv
<1>3. CASE Goto(w, "fence") /\ job' = [job EXCEPT ![w].gen = Latest + 1]
  <2>1. PICK g : g = Latest + 1
    OBVIOUS
  <2>2. "fence" \in Early /\ g \in 0 .. MaxGeneration + 1 /\ job' = [job EXCEPT ![w].gen = g]
    BY <1>3, <2>1, LatestFacts, Bounds DEF Early, IInv
  <2> QED
    BY <1>1, <1>3, <2>2, EarlyStages, TakeGeneration
<1> QED
  BY <1>2, <1>3 DEF PresentOrRecover

\* A terminal answer is what became of the generation.
LEMMA TerminalAnswer ==
  ASSUME NEW g, NEW answer \in Answers(g), answer # "UNKNOWN"
  PROVE  /\ answer \in {"ACCEPTED", "NOT_ACCEPTED"}
         /\ answer = "ACCEPTED" => sink[g] = "accepted"
         /\ answer = "NOT_ACCEPTED" => sink[g] = "closed"
BY DEF Answers

LEMMA RecoverStep == ASSUME IInv, NEW w \in Worker, Recover(w) PROVE IInv'
<1>1. /\ UNCHANGED <<upstream, config, execution, completion, presented, sink, crashes>>
      /\ TypeOK /\ Holds(w) /\ pc[w] \in {"looking", "checking"} /\ Numbered
      /\ job \in [Worker -> Job]
  BY Typed DEF Recover, IInv
<1>2. PICK g : g = Latest
  OBVIOUS
<1>3. g \in Started /\ g \in Generation /\ g \in 0 .. MaxGeneration + 1
      /\ g + 1 \in 0 .. MaxGeneration + 1 /\ attempt[g] # "NONE"
  <2>1. g \in Started
    BY <1>1, <1>2, LatestFacts DEF Holds
  <2> QED
    BY <2>1, Bounds DEF Started, Generation
<1>4. CASE Return(w)
  BY <1>1, <1>4, ReturnFacts, EarlyStages, PlainStep
<1>5. CASE attempt[g] = "ACCEPTED" /\ Goto(w, "record") /\ job' = [job EXCEPT ![w].gen = g]
  <2>1. "record" \in Stage \ Asking
    BY DEF Stage, Asking
  <2>2. Holds(w)'
    BY <1>1, <1>3, <1>5, <2>1, TakeFacts DEF Holds, AtSink, Started, presented
  <2> QED
    BY <1>1, <1>3, <1>5, <2>1, <2>2, TakeGeneration
<1>6. CASE Goto(w, "fence") /\ job' = [job EXCEPT ![w].gen = g + 1]
  <2>1. "fence" \in Early
    BY DEF Early
  <2> QED
    BY <1>1, <1>3, <1>6, <2>1, EarlyStages, TakeGeneration
<1>7. ASSUME NEW answer \in Answers(g), answer # "UNKNOWN", NEW again \in BOOLEAN,
             Goto(w, "settle"),
             job' = [job EXCEPT ![w].gen = g, ![w].answer = answer, ![w].resend = again]
      PROVE  IInv'
  <2>1. "settle" \in Stage /\ "settle" \notin Asking /\ answer \in AcceptanceState
    BY <1>7, TerminalAnswer DEF Stage, Asking, AcceptanceState
  <2>2. /\ job' \in [Worker -> Job] /\ job'[w].gen = g /\ job'[w].answer = answer
        /\ \A v \in Worker \ {w} : job'[v] = job[v]
    BY <1>1, <1>3, <1>7, <2>1 DEF Job
  <2>3. /\ pc' \in [Worker -> Stage] /\ pc'[w] = "settle" /\ Others(w)
    BY <1>1, <1>7, <2>1, <2>2, GotoFacts DEF Others
  <2>4. Holds(w)'
    BY <1>1, <1>3, <1>7, <2>2, <2>3, TerminalAnswer DEF Holds, AtSink, Started, presented
  <2> QED
    BY <1>1, <2>1, <2>2, <2>3, <2>4, PlainStep
<1>8. attempt[g] \in {"ACCEPTED", "NOT_ACCEPTED", "UNKNOWN"}
  BY <1>1, <1>3, Typed DEF AcceptanceState
<1> QED
  BY <1>2, <1>4, <1>5, <1>6, <1>7, <1>8 DEF Recover

LEMMA ReplayPresentationStep ==
  ASSUME IInv, NEW w \in Worker, ReplayPresentation(w) PROVE IInv'
<1>1. /\ UNCHANGED <<upstream, config, execution, completion, presented, sink, crashes>>
      /\ TypeOK /\ job[w].gen \in Generation
  BY DEF ReplayPresentation, IInv
<1>2. CASE Return(w)
  BY <1>1, <1>2, ReturnFacts, EarlyStages, PlainStep
<1>3. CASE attempt[job[w].gen] = "ACCEPTED" /\ Goto(w, "record") /\ UNCHANGED job
  <2>1. "record" \in Stage /\ "record" \notin Asking
    BY DEF Stage, Asking
  <2>2. /\ pc' \in [Worker -> Stage] /\ job' \in [Worker -> Job] /\ Others(w)
        /\ pc'[w] = "record" /\ job'[w] = job[w]
    BY <1>1, <1>3, <2>1, StayFacts
  <2>3. Holds(w)'
    BY <1>1, <1>3, <2>2 DEF Holds, AtSink, Started, presented
  <2> QED
    BY <1>1, <2>1, <2>2, <2>3, PlainStep
<1> QED
  BY <1>2, <1>3 DEF ReplayPresentation

LEMMA ReceiveStatusStep ==
  ASSUME IInv, NEW w \in Worker, ReceiveStatus(w) PROVE IInv'
<1>1. /\ UNCHANGED <<upstream, config, execution, completion, presented, sink, crashes>>
      /\ TypeOK /\ Holds(w) /\ pc[w] = "sent" /\ job \in [Worker -> Job]
  BY Typed DEF ReceiveStatus, IInv
<1>2. PICK g : g = job[w].gen
  OBVIOUS
<1>3. g \in Started /\ Started' = Started
  BY <1>1, <1>2 DEF Holds, AtSink, Started, presented
<1>4. CASE Continue(w, "checking")
  <2>1. "checking" \in Stage /\ "checking" \notin Asking
    BY DEF Stage, Asking
  <2>2. /\ pc' \in [Worker -> Stage] /\ job' \in [Worker -> Job] /\ Others(w)
        /\ pc'[w] \in {"idle", "checking"}
    BY <1>1, <1>4, <2>1, ContinueFacts
  <2>3. pc'[w] = "checking" => Holds(w)'
    BY <1>3 DEF Holds, AtSink
  <2> QED
    BY <1>1, <2>1, <2>2, <2>3, EarlyStages, PlainStep
<1>5. ASSUME NEW answer \in Answers(g), answer # "UNKNOWN",
             Goto(w, "settle"), job' = [job EXCEPT ![w].answer = answer]
      PROVE  IInv'
  <2>1. "settle" \in Stage /\ "settle" \notin Asking /\ answer \in AcceptanceState
    BY <1>5, TerminalAnswer DEF Stage, Asking, AcceptanceState
  <2>2. /\ job' \in [Worker -> Job] /\ job'[w].gen = g /\ job'[w].answer = answer
        /\ \A v \in Worker \ {w} : job'[v] = job[v]
    BY <1>1, <1>2, <1>5, <2>1 DEF Job
  <2>3. /\ pc' \in [Worker -> Stage] /\ pc'[w] = "settle" /\ Others(w)
    BY <1>1, <1>5, <2>1, <2>2, GotoFacts DEF Others
  <2>4. Holds(w)'
    BY <1>1, <1>3, <1>5, <2>2, <2>3, TerminalAnswer DEF Holds, AtSink
  <2> QED
    BY <1>1, <2>1, <2>2, <2>3, <2>4, PlainStep
<1> QED
  BY <1>2, <1>4, <1>5 DEF ReceiveStatus

-----------------------------------------------------------------------------
(* Steps of the Action, the configuration and the completion. *)

\* A step that leaves the presentation and what the callers hold of it.
LEMMA UpstreamStep ==
  ASSUME IInv, TypeOK', Chain', Plans', Waits', UNCHANGED <<presented, sink>>,
         \A v \in Worker : \/ pc'[v] \in Early \cup Asking \cup {"idle"}
                           \/ pc'[v] = pc[v] /\ job'[v] = job[v]
  PROVE  IInv'
<1>1. Presentation' /\ Extends
  BY PresentationKept
<1>2. ASSUME NEW v \in Worker PROVE Holds(v)'
  <2>1. CASE pc'[v] \in Early \cup Asking
    BY <2>1, EarlyHolds DEF Holds, AtSink, Asking
  <2>2. CASE pc'[v] = "idle" \/ (pc'[v] = pc[v] /\ job'[v] = job[v])
    BY <1>1, <2>2, HoldersKept
  <2> QED
    BY <2>1, <2>2
<1> QED
  BY <1>1, <1>2 DEF IInv, Presentation

LEMMA ExecutionStepStep == ASSUME IInv, ExecutionStep PROVE IInv'
<1>1. /\ Outcome!Next
      /\ UNCHANGED <<config, execution, completion, presented, sink, pc, job, crashes>>
  BY DEF ExecutionStep
<1> USE DEF IInv
<1>2. events' \subseteq {"event"} /\ ledger' \in Outcome!Ledger
  BY <1>1 DEF Outcome!Next, Outcome!Commit, Outcome!Happen, Outcome!ConfirmEffect,
              Outcome!ConfirmNoEffect, Outcome!Reopen, Outcome!Ledger, TypeOK
<1>3. TypeOK'
  BY <1>1, <1>2 DEF TypeOK, config, execution, completion, presented
<1>4. Chain'
  <2>1. /\ ledger' = "effect" => events' # {}
        /\ ledger' \in {"open", "noEffect"} => events' = {}
        /\ ledger = "effect" => ledger' = "effect"
    BY <1>1 DEF Chain, Outcome!Next, Outcome!Commit, Outcome!Happen, Outcome!ConfirmEffect,
                Outcome!ConfirmNoEffect, Outcome!Reopen
  <2> QED
    BY <1>1, <2>1 DEF Chain, completion, presented
<1>5. Plans' /\ Waits'
  BY <1>1 DEF Plans, Waits, completion
<1> QED
  BY <1>1, <1>3, <1>4, <1>5, UpstreamStep

LEMMA ChangeConfigurationStep == ASSUME IInv, ChangeConfiguration PROVE IInv'
<1>1. /\ UNCHANGED <<upstream, execution, completion, presented, sink, pc, job, crashes>>
      /\ changes' \in 0 .. MaxChange
  BY Bounds DEF ChangeConfiguration, IInv, TypeOK
<1>2. /\ credential' \in Credential \cup {Nothing} /\ route' \in Route \cup {Nothing}
      /\ disclosable' \in BOOLEAN
  BY DEF ChangeConfiguration, ChangeCredential, ChangeRoute, ChangeDisclosure, IInv, TypeOK
<1>3. TypeOK'
  BY <1>1, <1>2 DEF IInv, TypeOK, upstream, execution, completion, presented
<1>4. Chain' /\ Plans' /\ Waits'
  BY <1>1 DEF IInv, Chain, Plans, Waits, upstream, completion, presented
<1> QED
  BY <1>1, <1>3, <1>4, UpstreamStep

LEMMA AdmitEffectStep == ASSUME IInv, NEW w \in Worker, AdmitEffect(w) PROVE IInv'
<1>1. /\ Goto(w, "project") /\ UNCHANGED job /\ "project" \in Early
      /\ UNCHANGED <<config, execution, completion, presented, sink, crashes>>
      /\ Outcome!ConfirmEffect \/ (ledger = "effect" /\ UNCHANGED upstream)
      /\ TypeOK
  BY DEF AdmitEffect, CompletionConfirmed, Early, IInv
<1>2. events' = events /\ events # {} /\ ledger' = "effect"
  BY <1>1 DEF Outcome!ConfirmEffect, upstream, IInv, Chain
<1>3. /\ pc' \in [Worker -> Stage] /\ job' \in [Worker -> Job] /\ Others(w)
      /\ pc'[w] = "project"
  BY <1>1, StayFacts, EarlyStages
<1>4. TypeOK'
  <2>1. ledger' \in Outcome!Ledger
    BY <1>2 DEF Outcome!Ledger
  <2> QED
    BY <1>1, <1>2, <1>3, <2>1
    DEF TypeOK, Job, config, execution, completion, presented
<1>5. Chain' /\ Plans'
  BY <1>1, <1>2 DEF IInv, Chain, Plans, completion, presented
<1>6. Waits'
  BY <1>1, <1>3, EarlyStages, WaitsKept DEF completion
<1> QED
  BY <1>1, <1>3, <1>4, <1>5, <1>6, UpstreamStep DEF Others

LEMMA BuildProjectionStep ==
  ASSUME IInv, NEW w \in Worker, BuildProjection(w) PROVE IInv'
<1>1. /\ TypeOK /\ ledger = "effect" /\ projection' = TRUE
      /\ Goto(w, "generate") /\ UNCHANGED job /\ "generate" \in Early
      /\ UNCHANGED <<upstream, config, execution, invocation, planRoute, plan, adopted,
                     presented, sink, crashes>>
  BY DEF BuildProjection, CompletionConfirmed, Early, IInv
<1>2. /\ pc' \in [Worker -> Stage] /\ job' \in [Worker -> Job] /\ Others(w)
      /\ pc'[w] = "generate"
  BY <1>1, StayFacts, EarlyStages
<1>3. TypeOK'
  BY <1>1, <1>2 DEF TypeOK, Job, upstream, config, execution, presented
<1>4. Chain' /\ Plans'
  BY <1>1 DEF IInv, Chain, Plans, upstream, presented
<1>5. Waits'
  BY <1>1, <1>2, EarlyStages, WaitsKept
<1> QED
  BY <1>1, <1>2, <1>3, <1>4, <1>5, UpstreamStep DEF Others

\* Nobody waits for the model when it may be asked.
LEMMA DispatchModelStep ==
  ASSUME IInv, NEW w \in Worker, DispatchModel(w) PROVE IInv'
<1>0. PICK o : o = job[w].op
  OBVIOUS
<1>1. /\ TypeOK /\ o \in PlanOperation /\ invocation \in [PlanOperation -> InvocationOutcome]
      /\ plan = Nothing
      /\ \A q \in PlanOperation : invocation[q] \notin {"IN_PROGRESS", "UNKNOWN"}
      /\ invocation' = [invocation EXCEPT ![o] = "IN_PROGRESS"]
      /\ Goto(w, "asked") /\ UNCHANGED job /\ "asked" \in Stage
      /\ UNCHANGED <<upstream, config, execution, projection, plan, adopted, presented,
                     sink, crashes>>
  BY <1>0, Typed DEF DispatchModel, MayAskModel, Stage, IInv
<1>2. planRoute' \in [PlanOperation -> Route \cup {Nothing}]
  BY <1>1 DEF DispatchModel, SelectedRoute, TypeOK
<1>3. /\ pc' \in [Worker -> Stage] /\ job' \in [Worker -> Job] /\ Others(w)
      /\ pc'[w] = "asked" /\ job'[w].op = o
  BY <1>0, <1>1, StayFacts
<1>4. /\ invocation' \in [PlanOperation -> InvocationOutcome]
      /\ invocation'[o] = "IN_PROGRESS"
      /\ \A q \in PlanOperation \ {o} : invocation'[q] = invocation[q]
  BY <1>1 DEF InvocationOutcome
<1>5. TypeOK'
  BY <1>1, <1>2, <1>3, <1>4 DEF TypeOK, Job, upstream, config, execution, presented
<1>6. \A q \in PlanOperation \ {o} : invocation'[q] \notin Live
  <2>1. \A q \in PlanOperation : invocation[q] # "SUCCEEDED"
    BY <1>1, Bounds DEF IInv, Plans
  <2> QED
    BY <1>1, <1>4, <2>1 DEF Live
<1>7. Chain' /\ Plans'
  <2>1. Chain'
    BY <1>1 DEF IInv, Chain, upstream, presented
  <2>2. \A q \in PlanOperation : invocation'[q] # "SUCCEEDED" /\ plan' # q
    BY <1>1, <1>4, <1>6, Bounds DEF Live
  <2> QED
    BY <1>6, <2>1, <2>2 DEF Plans
<1>8. Waits'
  <2>1. \A v \in Worker : pc[v] \notin Asking
    BY <1>1, Typed DEF IInv, Waits
  <2> QED
    BY <1>3, <1>4, <2>1 DEF Waits, Others
<1> QED
  BY <1>1, <1>3, <1>5, <1>7, <1>8, UpstreamStep DEF Others, Asking

\* The invocation of a caller that waits is the only one that lives.
LEMMA OwnInvocation ==
  ASSUME IInv, NEW w \in Worker, pc[w] \in Asking
  PROVE  /\ job[w].op \in PlanOperation /\ invocation[job[w].op] = "IN_PROGRESS"
         /\ plan # job[w].op
         /\ \A q \in PlanOperation : q # job[w].op => invocation[q] \notin Live
         /\ \A v \in Worker : pc[v] \in Asking => v = w
<1>1. job[w].op \in PlanOperation /\ invocation[job[w].op] = "IN_PROGRESS"
  BY Typed DEF IInv, Waits
<1> QED
  BY <1>1 DEF IInv, Waits, Plans, Live

LEMMA ModelAnswersStep ==
  ASSUME IInv, NEW w \in Worker, ModelAnswers(w) PROVE IInv'
<1>0. PICK o : o = job[w].op
  OBVIOUS
<1>1. /\ TypeOK /\ pc[w] \in Asking /\ invocation \in [PlanOperation -> InvocationOutcome]
      /\ UNCHANGED <<upstream, config, execution, projection, planRoute, plan, adopted,
                     presented, sink, crashes>>
  BY Typed DEF ModelAnswers, Asking, IInv
<1>2. CASE Goto(w, "planned") /\ UNCHANGED <<invocation, job>>
  <2>1. /\ pc' \in [Worker -> Stage] /\ job' \in [Worker -> Job] /\ Others(w)
        /\ pc'[w] \in Asking /\ job'[w] = job[w]
    <3>1. "planned" \in Stage /\ "planned" \in Asking
      BY DEF Stage, Asking
    <3> QED
      BY <1>1, <1>2, <3>1, StayFacts
  <2>2. TypeOK'
    BY <1>1, <1>2, <2>1 DEF TypeOK, Job, upstream, config, execution, presented
  <2>3. Chain' /\ Plans' /\ Waits'
    <3>1. Waits'
      BY <1>1, <1>2, <2>1, WaitsKept
    <3> QED
      BY <1>1, <1>2, <3>1 DEF IInv, Chain, Plans, upstream, presented
  <2> QED
    BY <1>1, <2>1, <2>2, <2>3, UpstreamStep DEF Others
<1>3. ASSUME NEW outcome \in {"FAILED", "UNKNOWN"}, Return(w),
             invocation' = [invocation EXCEPT ![o] = outcome]
      PROVE  IInv'
  <2>1. /\ pc' \in [Worker -> Stage] /\ job' \in [Worker -> Job] /\ Others(w)
        /\ pc'[w] = "idle"
    BY <1>1, <1>3, ReturnFacts
  <2>2. /\ o \in PlanOperation /\ plan # o
        /\ invocation' \in [PlanOperation -> InvocationOutcome]
        /\ invocation'[o] = outcome
        /\ \A q \in PlanOperation \ {o} : invocation'[q] = invocation[q]
                                         /\ invocation'[q] \notin Live
    BY <1>0, <1>1, <1>3, OwnInvocation DEF InvocationOutcome
  <2>3. TypeOK'
    BY <1>1, <2>1, <2>2 DEF TypeOK, Job, upstream, config, execution, presented
  <2>4. Chain' /\ Plans'
    <3>1. Chain'
      BY <1>1 DEF IInv, Chain, upstream, presented
    <3>2. \A q \in PlanOperation : invocation'[q] = "SUCCEEDED" <=> plan' = q
      BY <1>1, <1>3, <2>2 DEF IInv, Plans
    <3> QED
      BY <2>2, <3>1, <3>2 DEF Plans
  <2>5. Waits'
    <3>1. \A v \in Worker : pc'[v] \notin Asking
      BY <1>1, <2>1, OwnInvocation DEF Others, Asking
    <3> QED
      BY <3>1 DEF Waits
  <2> QED
    BY <1>1, <2>1, <2>3, <2>4, <2>5, UpstreamStep DEF Others
<1> QED
  BY <1>0, <1>2, <1>3 DEF ModelAnswers

LEMMA CommitPlanStep == ASSUME IInv, NEW w \in Worker, CommitPlan(w) PROVE IInv'
<1>0. PICK o : o = job[w].op
  OBVIOUS
<1>1. /\ TypeOK /\ pc[w] \in Asking /\ invocation \in [PlanOperation -> InvocationOutcome]
      /\ plan = Nothing /\ plan' = o
      /\ invocation' = [invocation EXCEPT ![o] = "SUCCEEDED"]
      /\ Continue(w, "adopt") /\ "adopt" \in Early
      /\ UNCHANGED <<upstream, config, execution, projection, planRoute, adopted,
                     presented, sink, crashes>>
  BY <1>0, Typed DEF CommitPlan, Asking, Early, IInv
<1>2. /\ pc' \in [Worker -> Stage] /\ job' \in [Worker -> Job] /\ Others(w)
      /\ pc'[w] \in Early \cup {"idle"}
  BY <1>1, ContinueFacts, EarlyStages
<1>3. /\ o \in PlanOperation
      /\ invocation' \in [PlanOperation -> InvocationOutcome]
      /\ invocation'[o] = "SUCCEEDED"
      /\ \A q \in PlanOperation \ {o} : invocation'[q] \notin Live
  BY <1>0, <1>1, OwnInvocation DEF InvocationOutcome
<1>4. TypeOK'
  BY <1>1, <1>2, <1>3 DEF TypeOK, Job, upstream, config, execution, presented
<1>5. Chain' /\ Plans'
  <2>1. Chain'
    BY <1>1 DEF IInv, Chain, upstream, presented
  <2>2. \A q \in PlanOperation : invocation'[q] = "SUCCEEDED" <=> plan' = q
    BY <1>1, <1>3 DEF Live
  <2> QED
    BY <1>3, <2>1, <2>2 DEF Plans
<1>6. Waits'
  <2>1. \A v \in Worker : pc'[v] \notin Asking
    BY <1>1, <1>2, OwnInvocation, EarlyStages DEF Others
  <2> QED
    BY <2>1 DEF Waits
<1> QED
  BY <1>1, <1>2, <1>4, <1>5, <1>6, UpstreamStep DEF Others

LEMMA AdoptStep == ASSUME IInv, NEW w \in Worker, Adopt(w) PROVE IInv'
<1>1. /\ TypeOK /\ projection /\ adopted' = TRUE
      /\ Continue(w, "present") /\ "present" \in Early
      /\ UNCHANGED <<upstream, config, execution, projection, invocation, planRoute, plan,
                     presented, sink, crashes>>
  BY DEF Adopt, CompletionProjected, Early, IInv
<1>2. /\ pc' \in [Worker -> Stage] /\ job' \in [Worker -> Job] /\ Others(w)
      /\ pc'[w] \in Early \cup {"idle"}
  BY <1>1, ContinueFacts, EarlyStages
<1>3. TypeOK'
  BY <1>1, <1>2 DEF TypeOK, Job, upstream, config, execution, presented
<1>4. Chain' /\ Plans'
  BY <1>1 DEF IInv, Chain, Plans, upstream, presented
<1>5. Waits'
  BY <1>1, <1>2, EarlyStages, WaitsKept
<1> QED
  BY <1>1, <1>2, <1>3, <1>4, <1>5, UpstreamStep DEF Others

-----------------------------------------------------------------------------
(* Steps of the presentation and of the sink. *)

LEMMA PresentationTyped ==
  ASSUME TypeOK, UNCHANGED <<upstream, config, execution, completion, crashes>>,
         pc' \in [Worker -> Stage], job' \in [Worker -> Job],
         attempt' \in [Generation -> AcceptanceState],
         recorded' \in 0 .. MaxGeneration, provenance' \in 0 .. MaxGeneration,
         sink' \in [Generation -> {"none", "inFlight", "accepted", "closed"}]
  PROVE  TypeOK'
BY DEF TypeOK, Job, upstream, config, execution, completion

\* A step that writes the records of the presentation or moves the sink.
LEMMA PresentStep ==
  ASSUME IInv, TypeOK', Presentation', Extends, Waits', UNCHANGED <<upstream, completion>>,
         \A g \in Generation : attempt'[g] # "NONE" => attempt[g] # "NONE" \/ adopted,
         \A v \in Worker : pc'[v] = "idle" \/ Holds(v)' \/ (pc'[v] = pc[v] /\ job'[v] = job[v])
  PROVE  IInv'
<1>1. Chain' /\ Plans'
  BY DEF IInv, Chain, Plans, upstream, completion
<1>2. \A v \in Worker : Holds(v)'
  BY HoldersKept
<1> QED
  BY <1>1, <1>2 DEF IInv, Presentation

\* The only generation that may be sent is the next one.
LEMMA NextGeneration ==
  ASSUME Numbered, NEW g \in Generation, MaySendGeneration(g)
  PROVE  g = Latest + 1
<1>1. Latest \in 0 .. MaxGeneration /\ Started = 1 .. Latest
  BY LatestFacts
<1>2. g \notin Started /\ \A h \in Generation : h < g => h \in Started
  BY DEF MaySendGeneration, Started
<1>3. g >= Latest + 1
  BY <1>1, <1>2, Bounds DEF Generation
<1>4. CASE g > Latest + 1
  <2>1. Latest + 1 \in Generation /\ Latest + 1 < g
    BY <1>1, <1>4, Bounds DEF Generation
  <2>2. Latest + 1 \in Started
    BY <1>2, <2>1
  <2> QED
    BY <1>1, <2>2, Bounds
<1> QED
  BY <1>1, <1>3, <1>4, Bounds DEF Generation

LEMMA FencePresentationStep ==
  ASSUME IInv, NEW w \in Worker, FencePresentation(w) PROVE IInv'
<1>0. PICK g : g = job[w].gen
  OBVIOUS
<1>1. /\ TypeOK /\ g \in Generation /\ MaySendGeneration(g) /\ adopted
      /\ attempt' = [attempt EXCEPT ![g] = "UNKNOWN"]
      /\ Goto(w, "send") /\ UNCHANGED job /\ "send" \in Stage /\ "send" \notin Asking
      /\ UNCHANGED <<upstream, config, execution, completion, recorded, provenance, sink,
                     crashes>>
      /\ attempt \in [Generation -> AcceptanceState]
  BY <1>0, Typed
  DEF FencePresentation, DisclosureAllowed, OutputAdopted, Stage, Asking, IInv
<1>2. /\ attempt' \in [Generation -> AcceptanceState] /\ attempt'[g] = "UNKNOWN"
      /\ attempt[g] = "NONE"
      /\ \A h \in Generation \ {g} : attempt'[h] = attempt[h]
  BY <1>1 DEF AcceptanceState, MaySendGeneration
<1>3. /\ pc' \in [Worker -> Stage] /\ job' \in [Worker -> Job] /\ Others(w)
      /\ pc'[w] = "send" /\ job'[w].gen = g
  BY <1>0, <1>1, StayFacts
<1>4. TypeOK'
  BY <1>1, <1>2, <1>3, PresentationTyped DEF TypeOK
<1>5. Started' = Started \cup {g}
  BY <1>1, <1>2 DEF Started
<1>6. Numbered'
  <2>1. Started \subseteq 1 .. MaxGeneration /\ Started = 1 .. Cardinality(Started)
        /\ Latest = Cardinality(Started) /\ Latest' = Cardinality(Started')
    BY DEF IInv, Numbered, Started, Latest, Generation
  <2>2. g = Cardinality(Started) + 1
    BY <1>1, <2>1, NextGeneration DEF IInv
  <2>3. Started' = 1 .. Cardinality(Started')
    BY <1>5, <2>1, <2>2, NextRow, Bounds
  <2> QED
    BY <2>1, <2>3 DEF Numbered
<1>7. Refusals'
  <2> SUFFICES ASSUME NEW x \in Generation, NEW h \in Generation,
                      attempt'[x] # "NONE", h < x
               PROVE  attempt'[h] = "NOT_ACCEPTED"
    BY DEF Refusals
  <2>1. attempt[h] = "NOT_ACCEPTED"
    BY <1>1, <1>2 DEF IInv, Refusals, MaySendGeneration
  <2> QED
    BY <1>2, <2>1
<1>8. Generations' /\ Bindings' /\ Extends
  <2>1. Generations'
    BY <1>1, <1>2 DEF IInv, Generations
  <2>2. Bindings' /\ Extends
    BY <1>1, <1>2 DEF IInv, Bindings, Extends
  <2> QED
    BY <2>1, <2>2
<1>9. Holds(w)'
  BY <1>3, <1>5 DEF Holds, AtSink
<1>10. Waits'
  BY <1>1, <1>3, WaitsKept DEF completion
<1> QED
  BY <1>1, <1>3, <1>4, <1>6, <1>7, <1>8, <1>9, <1>10, PresentStep DEF Others, Presentation

\* A step of the sink for one generation that is not settled there.
LEMMA SinkStep ==
  ASSUME IInv, NEW g \in Generation, attempt[g] # "NONE",
         sink[g] \in {"none", "inFlight"}, NEW s \in {"inFlight", "accepted", "closed"},
         sink' = [sink EXCEPT ![g] = s], UNCHANGED presented
  PROVE  Presentation' /\ Extends
         /\ sink' \in [Generation -> {"none", "inFlight", "accepted", "closed"}]
<1>1. /\ sink \in [Generation -> {"none", "inFlight", "accepted", "closed"}]
      /\ UNCHANGED <<attempt, recorded, provenance>>
  BY Typed DEF IInv, presented
<1>2. /\ sink' \in [Generation -> {"none", "inFlight", "accepted", "closed"}]
      /\ \A h \in Generation \ {g} : sink'[h] = sink[h]
  BY <1>1
<1>3. Numbered' /\ Refusals' /\ Bindings'
  BY <1>1 DEF IInv, Numbered, Started, Latest, Refusals, Bindings
<1>4. Generations' /\ Extends
  BY <1>1, <1>2 DEF IInv, Generations, Extends
<1> QED
  BY <1>2, <1>3, <1>4 DEF Presentation

LEMMA SendPayloadStep ==
  ASSUME IInv, NEW w \in Worker, SendPayload(w) PROVE IInv'
<1>0. PICK g : g = job[w].gen
  OBVIOUS
<1>1. /\ TypeOK /\ Goto(w, "sent") /\ UNCHANGED job /\ "sent" \in Stage
      /\ "sent" \notin Asking /\ Holds(w) /\ pc[w] = "send"
      /\ sink' = [sink EXCEPT ![g] = IF @ = "none" THEN "inFlight" ELSE @]
      /\ sink \in [Generation -> {"none", "inFlight", "accepted", "closed"}]
      /\ UNCHANGED <<upstream, config, execution, completion, presented, crashes>>
  BY <1>0, Typed DEF SendPayload, Stage, Asking, IInv
<1>2. g \in Generation /\ g \in Started /\ attempt[g] # "NONE"
  BY <1>0, <1>1 DEF Holds, AtSink, Started
<1>3. /\ Presentation' /\ Extends
      /\ sink' \in [Generation -> {"none", "inFlight", "accepted", "closed"}]
  <2>1. CASE sink[g] = "none"
    <3>1. sink' = [sink EXCEPT ![g] = "inFlight"]
      BY <1>1, <2>1
    <3> QED
      BY <1>1, <1>2, <2>1, <3>1, SinkStep
  <2>2. CASE sink[g] # "none"
    <3>1. sink' = sink
      BY <1>1, <2>2
    <3> QED
      BY <1>1, <3>1, PresentationKept
  <2> QED
    BY <2>1, <2>2
<1>4. /\ pc' \in [Worker -> Stage] /\ job' \in [Worker -> Job] /\ Others(w)
      /\ pc'[w] = "sent" /\ job'[w] = job[w]
  BY <1>1, StayFacts
<1>5. TypeOK'
  BY <1>1, <1>3, <1>4, PresentationTyped DEF TypeOK, presented
<1>6. Holds(w)'
  BY <1>0, <1>1, <1>2, <1>4 DEF Holds, AtSink, Started, presented
<1>7. Waits'
  BY <1>1, <1>4, WaitsKept DEF completion
<1>8. \A x \in Generation : attempt'[x] # "NONE" => attempt[x] # "NONE"
  BY <1>1 DEF presented
<1> QED
  BY <1>1, <1>3, <1>4, <1>5, <1>6, <1>7, <1>8, PresentStep DEF Others

LEMMA SinkMovesStep ==
  ASSUME IInv, NEW g \in Generation, SinkAccepts(g) \/ SinkCloses(g) PROVE IInv'
<1>1. /\ TypeOK /\ UNCHANGED <<upstream, config, execution, completion, presented, pc, job,
                               crashes>>
      /\ attempt[g] # "NONE" /\ sink[g] \in {"none", "inFlight"}
  BY DEF SinkAccepts, SinkCloses, IInv, Generations
<1>2. PICK s \in {"accepted", "closed"} : sink' = [sink EXCEPT ![g] = s]
  BY DEF SinkAccepts, SinkCloses
<1>3. /\ Presentation' /\ Extends
      /\ sink' \in [Generation -> {"none", "inFlight", "accepted", "closed"}]
  BY <1>1, <1>2, SinkStep
<1>4. TypeOK'
  <2>1. pc' \in [Worker -> Stage] /\ job' \in [Worker -> Job]
    BY <1>1, Typed
  <2> QED
    BY <1>1, <1>3, <2>1, PresentationTyped DEF TypeOK, presented
<1>5. Waits'
  BY <1>1 DEF IInv, Waits, completion
<1>6. \A x \in Generation : attempt'[x] # "NONE" => attempt[x] # "NONE"
  BY <1>1 DEF presented
<1> QED
  BY <1>1, <1>3, <1>4, <1>5, <1>6, PresentStep

\* What a caller settles is what became of the generation at the sink.
LEMMA SettleStep == ASSUME IInv, NEW w \in Worker, Settle(w) PROVE IInv'
<1>0. PICK g, answer : g = job[w].gen /\ answer = job[w].answer
  OBVIOUS
<1>1. /\ TypeOK /\ Holds(w) /\ pc[w] = "settle"
      /\ attempt[g] \in {"UNKNOWN", answer}
      /\ attempt' = [attempt EXCEPT ![g] = answer]
      /\ UNCHANGED <<upstream, config, execution, completion, recorded, provenance, sink,
                     crashes>>
      /\ attempt \in [Generation -> AcceptanceState]
  BY <1>0, Typed DEF Settle, IInv
<1>2. /\ g \in Generation /\ attempt[g] # "NONE" /\ answer \in {"ACCEPTED", "NOT_ACCEPTED"}
      /\ answer = "ACCEPTED" => sink[g] = "accepted"
      /\ answer = "NOT_ACCEPTED" => sink[g] = "closed"
  BY <1>0, <1>1 DEF Holds, AtSink, Started
<1>3. /\ attempt' \in [Generation -> AcceptanceState] /\ attempt'[g] = answer
      /\ \A h \in Generation \ {g} : attempt'[h] = attempt[h]
  BY <1>1, <1>2 DEF AcceptanceState
<1>4. Started' = Started
  BY <1>2, <1>3 DEF Started
<1>5. Presentation' /\ Extends
  <2>1. Numbered'
    BY <1>4 DEF IInv, Numbered, Latest, Started
  <2>2. Refusals'
    <3> SUFFICES ASSUME NEW x \in Generation, NEW h \in Generation,
                        attempt'[x] # "NONE", h < x
                 PROVE  attempt'[h] = "NOT_ACCEPTED"
      BY DEF Refusals
    <3>1. attempt[x] # "NONE"
      BY <1>2, <1>3
    <3>2. attempt[h] = "NOT_ACCEPTED"
      BY <3>1 DEF IInv, Refusals
    <3> QED
      BY <1>1, <1>3, <3>2
  <2>3. Generations'
    BY <1>1, <1>2, <1>3 DEF IInv, Generations
  <2>4. Extends
    BY <1>1, <1>2, <1>3 DEF Extends
  <2>5. Bindings'
    BY <1>1, <2>4 DEF IInv, Bindings, Extends
  <2> QED
    BY <2>1, <2>2, <2>3, <2>4, <2>5 DEF Presentation
<1>6. \A x \in Generation : attempt'[x] # "NONE" => attempt[x] # "NONE"
  BY <1>2, <1>3
<1>7. /\ pc' \in [Worker -> Stage] /\ job' \in [Worker -> Job] /\ Others(w)
      /\ pc'[w] \notin Asking /\ (pc'[w] = "idle" \/ Holds(w)')
  <2>1. CASE answer = "ACCEPTED" /\ Goto(w, "record") /\ UNCHANGED job
    <3>1. "record" \in Stage /\ "record" \notin Asking
      BY DEF Stage, Asking
    <3>2. /\ pc' \in [Worker -> Stage] /\ job' \in [Worker -> Job] /\ Others(w)
          /\ pc'[w] = "record" /\ job'[w] = job[w]
      BY <1>1, <2>1, <3>1, StayFacts
    <3>3. Holds(w)'
      BY <1>0, <1>2, <1>3, <2>1, <3>2 DEF Holds, AtSink, Started
    <3> QED
      BY <3>1, <3>2, <3>3
  <2>2. CASE Goto(w, "fence") /\ job' = [job EXCEPT ![w].gen = g + 1]
    <3>1. "fence" \in Early /\ g + 1 \in 0 .. MaxGeneration + 1
      BY <1>2, Bounds DEF Early, Generation
    <3>2. /\ pc' \in [Worker -> Stage] /\ job' \in [Worker -> Job] /\ Others(w)
          /\ pc'[w] = "fence"
      BY <1>1, <2>2, <3>1, EarlyStages, TakeFacts
    <3> QED
      BY <3>1, <3>2, EarlyHolds, EarlyStages
  <2>3. CASE Return(w)
    BY <1>1, <2>3, ReturnFacts, EarlyStages
  <2> QED
    BY <1>0, <2>1, <2>2, <2>3 DEF Settle
<1>8. TypeOK'
  BY <1>1, <1>3, <1>7, PresentationTyped DEF TypeOK
<1>9. Waits'
  BY <1>1, <1>7, WaitsKept DEF completion
<1> QED
  BY <1>1, <1>5, <1>6, <1>7, <1>8, <1>9, PresentStep DEF Others

LEMMA RecordPresentationStep ==
  ASSUME IInv, NEW w \in Worker, RecordPresentation(w) PROVE IInv'
<1>0. PICK g : g = job[w].gen
  OBVIOUS
<1>1. /\ TypeOK /\ Holds(w) /\ pc[w] = "record" /\ attempt[g] = "ACCEPTED"
      /\ recorded' = IF recorded = 0 THEN g ELSE recorded
      /\ Goto(w, "provenance") /\ UNCHANGED job
      /\ "provenance" \in Stage /\ "provenance" \notin Asking
      /\ UNCHANGED <<upstream, config, execution, completion, attempt, provenance, sink,
                     crashes>>
  BY <1>0 DEF RecordPresentation, Stage, Asking, IInv
<1>2. g \in Generation /\ g \in Started /\ g # 0 /\ g \in 0 .. MaxGeneration
  BY <1>0, <1>1, Bounds DEF Holds, AtSink, Started, Generation
<1>3. recorded' # 0 /\ recorded' \in 0 .. MaxGeneration /\ (recorded # 0 => recorded' = recorded)
  BY <1>1, <1>2 DEF TypeOK
<1>4. Presentation' /\ Extends
  <2>1. Numbered' /\ Refusals' /\ Generations'
    BY <1>1 DEF IInv, Numbered, Started, Latest, Refusals, Generations
  <2>2. Bindings'
    BY <1>1, <1>2 DEF IInv, Bindings
  <2>3. Extends
    BY <1>1, <1>3 DEF Extends
  <2> QED
    BY <2>1, <2>2, <2>3 DEF Presentation
<1>5. /\ pc' \in [Worker -> Stage] /\ job' \in [Worker -> Job] /\ Others(w)
      /\ pc'[w] = "provenance" /\ job'[w] = job[w]
  BY <1>1, StayFacts
<1>6. Holds(w)'
  BY <1>0, <1>1, <1>2, <1>3, <1>5 DEF Holds, AtSink, Started
<1>7. TypeOK'
  BY <1>1, <1>3, <1>5, PresentationTyped DEF TypeOK
<1>8. Waits'
  BY <1>1, <1>5, WaitsKept DEF completion
<1> QED
  BY <1>1, <1>4, <1>5, <1>6, <1>7, <1>8, PresentStep DEF Others

\* The generation that a caller binds is the one that the Timeline shows.
LEMMA BindProvenanceStep ==
  ASSUME IInv, NEW w \in Worker, BindProvenance(w) PROVE IInv'
<1>0. PICK g : g = job[w].gen
  OBVIOUS
<1>1. /\ TypeOK /\ Holds(w) /\ pc[w] = "provenance" /\ provenance' = g /\ Return(w)
      /\ UNCHANGED <<upstream, config, execution, completion, attempt, recorded, sink,
                     crashes>>
  BY <1>0 DEF BindProvenance, IInv
<1>2. g \in Generation /\ attempt[g] = "ACCEPTED" /\ recorded # 0
  BY <1>0, <1>1 DEF Holds, AtSink, Started
<1>3. recorded \in Generation /\ attempt[recorded] = "ACCEPTED"
  BY <1>2 DEF IInv, Bindings
<1>4. g = recorded
  <2>1. sink[g] = "accepted" /\ sink[recorded] = "accepted"
    BY <1>2, <1>3 DEF IInv, Generations
  <2>2. PICK r \in Generation : r = recorded
    BY <1>3
  <2> QED
    BY <1>2, <2>1, <2>2, OneAccepted DEF IInv
<1>5. Presentation' /\ Extends
  <2>1. Numbered' /\ Refusals' /\ Generations'
    BY <1>1 DEF IInv, Numbered, Started, Latest, Refusals, Generations
  <2>2. Bindings' /\ Extends
    BY <1>1, <1>3, <1>4 DEF Bindings, Extends
  <2> QED
    BY <2>1, <2>2 DEF Presentation
<1>6. /\ pc' \in [Worker -> Stage] /\ job' \in [Worker -> Job] /\ Others(w)
      /\ pc'[w] = "idle"
  BY <1>1, ReturnFacts
<1>7. TypeOK'
  BY <1>1, <1>4, <1>6, PresentationTyped DEF TypeOK
<1>8. Waits'
  BY <1>1, <1>6, EarlyStages, WaitsKept DEF completion
<1> QED
  BY <1>1, <1>5, <1>6, <1>7, <1>8, PresentStep DEF Others

-----------------------------------------------------------------------------
(* The invariant is inductive. *)

LEMMA ProceedStep == ASSUME IInv, NEW w \in Worker, Proceed(w) PROVE IInv'
BY DispatchStep, AdmitEffectStep, BuildProjectionStep, DispatchModelStep,
   ReplayGenerationStep, ModelAnswersStep, CommitPlanStep, AdoptStep,
   PresentOrRecoverStep, RecoverStep, FencePresentationStep, ReplayPresentationStep,
   SendPayloadStep, ReceiveStatusStep, SettleStep, RecordPresentationStep,
   BindProvenanceStep, RefusedStep DEF Proceed

LEMMA StepInv == IInv /\ [Next]_vars => IInv'
<1> SUFFICES ASSUME IInv, [Next]_vars PROVE IInv'
  OBVIOUS
<1>1. CASE Next
  <2>1. CASE \E w \in Worker : \/ StartRun(w) \/ CallAdopt(w) \/ CallPresent(w)
                               \/ CallRecover(w) \/ Proceed(w) \/ Crash(w)
    BY <2>1, StartRunStep, CallAdoptStep, CallPresentStep, CallRecoverStep, ProceedStep,
       CrashStep
  <2>2. CASE ExecutionStep \/ ChangeConfiguration
    BY <2>2, ExecutionStepStep, ChangeConfigurationStep
  <2>3. CASE \E w \in Worker, o \in PlanOperation : CallGenerate(w, o)
    BY <2>3, CallGenerateStep
  <2>4. CASE \E g \in Generation : SinkAccepts(g) \/ SinkCloses(g)
    BY <2>4, SinkMovesStep
  <2> QED
    BY <1>1, <2>1, <2>2, <2>3, <2>4 DEF Next
<1>2. CASE UNCHANGED vars
  <2>1. UNCHANGED <<upstream, config, execution, completion, presented, sink, pc, job, crashes>>
    BY <1>2 DEF vars
  <2>2. TypeOK'
    BY <2>1 DEF IInv, TypeOK, upstream, config, execution, completion, presented
  <2>3. Chain' /\ Plans' /\ Waits'
    BY <2>1 DEF IInv, Chain, Plans, Waits, upstream, completion, presented
  <2> QED
    BY <2>1, <2>2, <2>3, UpstreamStep
<1> QED
  BY <1>1, <1>2

\* The strengthened invariant holds in every reachable state.
THEOREM Inductive == Spec => []IInv
BY InitInv, StepInv, PTL DEF Spec

\* Every variable keeps its type, for any number of callers.
THEOREM TypeCorrectness == Spec => []TypeOK
<1>1. IInv => TypeOK
  BY DEF IInv
<1> QED
  BY <1>1, Inductive, PTL

\* However many callers present, retry and recover (present_output,
\* recover_presentation), the counterpart is shown the result once.
THEOREM ShownAtMostOnceHolds == Spec => []ShownAtMostOnce
<1>1. IInv => ShownAtMostOnce
  <2> SUFFICES ASSUME IInv PROVE ShownAtMostOnce
    OBVIOUS
  <2>1. \A g, h \in Shown : g = h
    BY OneAccepted DEF Shown, IInv
  <2> QED
    BY <2>1, AtMostOne DEF ShownAtMostOnce
<1> QED
  BY <1>1, Inductive, PTL

\* Nothing is shown before the event exists and its Effect is confirmed
\* (build_completion_projection, adopt_mutation_output, present_output).
THEOREM ReportedIsRealHolds == Spec => []ReportedIsReal
<1>1. IInv => ReportedIsReal
  <2> SUFFICES ASSUME IInv, Shown # {} PROVE events # {} /\ ledger = "effect"
    BY DEF ReportedIsReal
  <2>1. PICK g \in Generation : sink[g] = "accepted"
    BY DEF Shown
  <2>2. attempt[g] # "NONE"
    BY <2>1 DEF IInv, Generations
  <2> QED
    BY <2>2 DEF IInv, Chain
<1> QED
  BY <1>1, Inductive, PTL

\* One invocation of generate_result_plan at most succeeds or may yet succeed, and the
\* plan of the projection is the output of the one that did.
THEOREM OneLivePlanHolds == Spec => []OneLivePlan
<1>1. IInv => OneLivePlan
  <2> SUFFICES ASSUME IInv PROVE OneLivePlan
    OBVIOUS
  <2> DEFINE L == {o \in PlanOperation :
                      invocation[o] \in {"IN_PROGRESS", "UNKNOWN", "SUCCEEDED"}}
  <2>1. \A o, q \in L : o = q
    BY DEF IInv, Plans, Live
  <2>2. Cardinality(L) <= 1
    BY <2>1, AtMostOne
  <2> QED
    BY <2>2 DEF OneLivePlan, IInv, Plans
<1> QED
  BY <1>1, Inductive, PTL

\* The attempts, the Timeline event and its provenance agree with what the sink did
\* (_settle_attempt, _commit_accepted_presentation).
THEOREM RecordMatchesSinkHolds == Spec => []RecordMatchesSink
<1>1. IInv => RecordMatchesSink
  BY DEF IInv, Generations, Bindings, RecordMatchesSink
<1> QED
  BY <1>1, Inductive, PTL

=============================================================================
