--------------------------- MODULE CalendarAnswer ---------------------------
(* Answering a calendar question from what was read: the second half of              *)
(* PersonalCalendarResponseCoordinator.respond.  A context projection of one world   *)
(* result, an answer plan generated from it by a model, the plan's adoption as the   *)
(* companion's output, the presentation attempts with their content-free recovery,   *)
(* and the Timeline event.  CalendarAcquisition is the first half; here its outcome  *)
(* is the set of results it has admitted, which may be more than one.                *)
(*                                                                                   *)
(* A Caller is one call of respond for the interaction; several run at once, each    *)
(* may stop at any point and be run again.  The transactions modelled as one step    *)
(* write before they decide, validate what they read by compare-and-set, or are      *)
(* decided by a unique key.                                                          *)
EXTENDS Naturals, FiniteSets

CONSTANTS
    Caller,         \* concurrent calls of respond
    MaxResult,      \* admitted world results explored
    MaxInvocation,  \* generation operations the coordinator derives, as explored
    MaxGeneration,  \* presentation generations explored
    MaxCrash        \* calls that die before they are done

ASSUME BoundsAssumption ==
    /\ {MaxResult, MaxInvocation, MaxGeneration} \subseteq Nat \ {0}
    /\ MaxCrash \in Nat

Result == 1 .. MaxResult
Generation == 1 .. MaxGeneration

\* Operation n is the coordinator's generate:n, whichever result it is about.
Operation == 1 .. MaxInvocation

VARIABLES
    frontier,    \* the interaction is the last event of the Timeline
    admitted,    \* world results admitted for the interaction
    projected,   \* results with a context projection
    invocation,  \* model invocations of each result's projection, by operation
    adopted,     \* outputs adopted as the CompanionOutput of the interaction's target
    attempt,     \* sink_acceptance_state of each presentation generation
    recorded,    \* a Timeline event shows the output
    provenance,  \* generation bound to that event; 0: none
    sink,        \* outside src/: what became of each generation at the sink
    call,        \* what each running caller holds in memory
    crashes

answer == <<projected, invocation, adopted>>
presented == <<attempt, recorded, provenance>>
vars == <<frontier, admitted, answer, presented, sink, call, crashes>>

NoInvocation == [outcome |-> "none", faithful |-> FALSE]
Stages == {"idle", "project", "generate", "dispatch", "asking", "adopt", "present",
           "looking", "fence", "send", "sent", "checking", "settle", "record", "provenance"}
Idle == [stage |-> "idle", result |-> 0, op |-> 0, gen |-> 0, status |-> "UNKNOWN",
         again |-> FALSE]

Goto(c, stage) == call' = [call EXCEPT ![c].stage = stage]
Return(c) == call' = [call EXCEPT ![c] = Idle]

\* From its adoption on a call remembers the generation that it works on, no more.
GotoGeneration(c, stage, g) ==
    call' = [call EXCEPT ![c] = [Idle EXCEPT !.stage = stage, !.gen = g]]

-----------------------------------------------------------------------------
(* What the code reads. *)

\* The invocations of the projection of a result.
Invocations(r) == {n \in Operation : invocation[r][n] # NoInvocation}
Outcomes(r) == {invocation[r][n].outcome : n \in Invocations(r)}

\* Mutant: generation operations are numbered from zero.
NextInvocationFromZero(r) == Cardinality(Invocations(r))

\* generate_or_recover: one more than the projection has invocations.
NextInvocation(r) == Cardinality(Invocations(r)) + 1

\* generate_answer_plan: no open or successful invocation of the projection.
MayAsk(r) == Outcomes(r) \cap {"IN_PROGRESS", "SUCCEEDED"} = {}

\* The verdict of freshness, authority and policies, taken and validated in one
\* transaction, may change between any two calls: it is an input of the steps below.
Verdicts == BOOLEAN

\* _latest_attempt: generations are numbered without gaps.
Latest == Cardinality({g \in Generation : attempt[g] # "none"})

\* A generation follows the terminal refusal of the one before it.
MaySend(g) == g = Latest + 1 /\ (Latest # 0 => attempt[Latest] = "NOT_ACCEPTED")

-----------------------------------------------------------------------------
Init ==
    /\ frontier = TRUE
    /\ admitted = {}
    /\ projected = {}
    /\ invocation = [r \in Result |-> [n \in Operation |-> NoInvocation]]
    /\ adopted = {}
    /\ attempt = [g \in Generation |-> "none"]
    /\ recorded = FALSE
    /\ provenance = 0
    /\ sink = [g \in Generation |-> "none"]
    /\ call = [c \in Caller |-> Idle]
    /\ crashes = 0

\* A caller's own acquisition admits a result; the caller goes on with that one.
AdmitResult(c, r) ==
    /\ call[c].stage = "idle"
    /\ r \notin admitted
    /\ admitted' = admitted \cup {r}
    /\ call' = [call EXCEPT ![c] = [Idle EXCEPT !.stage = "project", !.result = r]]
    /\ UNCHANGED <<frontier, answer, presented, sink, crashes>>

\* respond is run again: the first Observation that has not failed has a result.
RecoverResult(c) ==
    /\ call[c].stage = "idle"
    /\ \E r \in admitted :
        /\ \A q \in admitted : r <= q
        /\ call' = [call EXCEPT ![c] = [Idle EXCEPT !.stage = "project", !.result = r]]
    /\ UNCHANGED <<frontier, admitted, answer, presented, sink, crashes>>

\* build_projection, or the replay of its receipt; the result may be too old.
BuildProjection(c) ==
    LET r == call[c].result IN
    /\ call[c].stage = "project"
    /\ \E eligible \in Verdicts :
        IF r \in projected \/ (frontier /\ eligible)
        THEN projected' = projected \cup {r} /\ Goto(c, "generate")
        ELSE Return(c) /\ UNCHANGED projected
    /\ UNCHANGED <<frontier, admitted, invocation, adopted, presented, sink, crashes>>

\* generate_or_recover: recover the one output, refuse while one is open, or generate.
GenerateOrRecover(c) ==
    LET r == call[c].result IN
    /\ call[c].stage = "generate"
    /\ CASE "SUCCEEDED" \in Outcomes(r) ->
                \E n \in Invocations(r) :
                    /\ invocation[r][n].outcome = "SUCCEEDED"
                    /\ call' = [call EXCEPT ![c].stage = "adopt", ![c].op = n]
         [] "SUCCEEDED" \notin Outcomes(r) /\ "IN_PROGRESS" \in Outcomes(r) -> Return(c)
         [] OTHER ->
                call' = [call EXCEPT ![c].stage = "dispatch", ![c].op = NextInvocation(r)]
    /\ UNCHANGED <<frontier, admitted, answer, presented, sink, crashes>>

\* Mutant: generation operations are numbered for each projection by itself.
DispatchedFor(n, r) == invocation[r][n] # NoInvocation

\* load_operation_receipt: the operation id has been used, whatever the request was.
Dispatched(n, r) == \E q \in Result : invocation[q][n] # NoInvocation

\* generate_answer_plan up to the transport: a receipt of the operation is replayed if it
\* is for the same projection and has an output, and refused otherwise.
DispatchModel(c) ==
    LET r == call[c].result
        n == call[c].op
    IN
    /\ call[c].stage = "dispatch"
    /\ n \in Operation
    /\ \/ /\ Dispatched(n, r)
          /\ IF invocation[r][n].outcome = "SUCCEEDED"
             THEN Goto(c, "adopt")
             ELSE Return(c)
          /\ UNCHANGED invocation
       \/ /\ ~Dispatched(n, r)
          /\ \E egress \in Verdicts :
                IF MayAsk(r) /\ frontier /\ egress
                THEN /\ invocation' = [invocation EXCEPT ![r][n].outcome = "IN_PROGRESS"]
                     /\ Goto(c, "asking")
                ELSE Return(c) /\ UNCHANGED invocation
    /\ UNCHANGED <<frontier, admitted, projected, adopted, presented, sink, crashes>>

\* The model answers: a plan of the right shape, which may misstate the schedule; a
\* refusal or a malformed plan (FAILED); or nothing that says what happened (UNKNOWN,
\* and FAILED here too: neither keeps the model from being asked again).
\* Only an open invocation is finished.
FinishInvocation(c) ==
    LET r == call[c].result
        n == call[c].op
    IN
    /\ call[c].stage = "asking"
    /\ invocation[r][n].outcome = "IN_PROGRESS"
    /\ \/ /\ \E faithful \in BOOLEAN :
                invocation' = [invocation EXCEPT
                    ![r][n] = [outcome |-> "SUCCEEDED", faithful |-> faithful]]
          /\ Goto(c, "adopt")
       \/ invocation' = [invocation EXCEPT ![r][n].outcome = "FAILED"] /\ Return(c)
    /\ UNCHANGED <<frontier, admitted, projected, adopted, presented, sink, crashes>>

\* The output target of the interaction has no output, or this one.
TargetOpen(r, n) == adopted \subseteq {<<r, n>>}

\* adopt_schedule_output: the plan must state the schedule, the target must be free.
Adopt(c) ==
    LET r == call[c].result
        n == call[c].op
    IN
    /\ call[c].stage = "adopt"
    /\ IF invocation[r][n].faithful /\ TargetOpen(r, n)
       THEN adopted' = adopted \cup {<<r, n>>} /\ GotoGeneration(c, "present", 0)
       ELSE Return(c) /\ UNCHANGED adopted
    /\ UNCHANGED <<frontier, admitted, projected, invocation, presented, sink, crashes>>

-----------------------------------------------------------------------------
(* Presentation. *)

\* present_or_recover: an uncertain or accepted attempt is recovered, else the next sent.
PresentOrRecover(c) ==
    /\ call[c].stage = "present"
    /\ IF Latest # 0 /\ attempt[Latest] \in {"UNKNOWN", "ACCEPTED"}
       THEN Goto(c, "looking")
       ELSE GotoGeneration(c, "fence", Latest + 1)
    /\ UNCHANGED <<frontier, admitted, answer, presented, sink, crashes>>

\* present_output up to the dispatch: the receipt of the generation's operation is
\* replayed; a new attempt is fenced if it may be sent.
FencePresentation(c) ==
    LET g == call[c].gen IN
    /\ call[c].stage = "fence"
    /\ g \in Generation
    /\ IF attempt[g] # "none"
       THEN /\ IF attempt[g] = "ACCEPTED" THEN Goto(c, "record") ELSE Return(c)
            /\ UNCHANGED attempt
       ELSE \E disclosure \in Verdicts :
                IF MaySend(g) /\ frontier /\ disclosure
                THEN attempt' = [attempt EXCEPT ![g] = "UNKNOWN"] /\ Goto(c, "send")
                ELSE Return(c) /\ UNCHANGED attempt
    /\ UNCHANGED <<frontier, admitted, answer, recorded, provenance, sink, crashes>>

\* adapter.present_personal: the payload leaves; a closed generation takes none.
SendPayload(c) ==
    /\ call[c].stage = "send"
    /\ sink' = [sink EXCEPT ![call[c].gen] = IF @ = "none" THEN "inFlight" ELSE @]
    /\ Goto(c, "sent")
    /\ UNCHANGED <<frontier, admitted, answer, presented, crashes>>

\* What the sink may say of a generation: it may always fail to say.
Statuses(g) ==
    {"UNKNOWN"} \cup (IF sink[g] = "accepted" THEN {"ACCEPTED"} ELSE {})
                \cup (IF sink[g] = "closed" THEN {"NOT_ACCEPTED"} ELSE {})

\* Mutant: an error of the adapter counts as a refusal.
AnswersRefusing(g) == {IF s = "UNKNOWN" THEN "NOT_ACCEPTED" ELSE s : s \in Statuses(g)}

\* What present_output learns: a rejection by the adapter leaves the outcome unknown.
Answers(g) == Statuses(g)

\* The answer to the payload; without a terminal one the coordinator looks it up.
ReceiveStatus(c) ==
    /\ call[c].stage = "sent"
    /\ \E s \in Answers(call[c].gen) :
        call' = [call EXCEPT ![c].stage = IF s = "UNKNOWN" THEN "checking" ELSE "settle",
                             ![c].status = s]
    /\ UNCHANGED <<frontier, admitted, answer, presented, sink, crashes>>

\* recover_presentation: content-free, of the latest generation.
RecoverPresentation(c) ==
    LET again == call[c].stage = "looking" IN
    /\ call[c].stage \in {"looking", "checking"}
    /\ CASE attempt[Latest] = "ACCEPTED" -> GotoGeneration(c, "record", Latest)
         [] attempt[Latest] = "NOT_ACCEPTED" ->
                IF again THEN GotoGeneration(c, "fence", Latest + 1) ELSE Return(c)
         [] OTHER ->
                \E s \in Statuses(Latest) :
                    IF s = "UNKNOWN"
                    THEN Return(c)
                    ELSE call' = [call EXCEPT ![c].stage = "settle", ![c].gen = Latest,
                                              ![c].status = s, ![c].again = again]
    /\ UNCHANGED <<frontier, admitted, answer, presented, sink, crashes>>

\* _settle_attempt: terminal evidence once; a second, equal one is a replay.
Settle(c) ==
    LET g == call[c].gen
        s == call[c].status
    IN
    /\ call[c].stage = "settle"
    /\ IF attempt[g] \in {"UNKNOWN", s}
       THEN /\ attempt' = [attempt EXCEPT ![g] = s]
            /\ CASE s = "ACCEPTED" -> GotoGeneration(c, "record", g)
                 [] s # "ACCEPTED" /\ call[c].again -> GotoGeneration(c, "fence", g + 1)
                 [] OTHER -> Return(c)
       ELSE Return(c) /\ UNCHANGED attempt
    /\ UNCHANGED <<frontier, admitted, answer, recorded, provenance, sink, crashes>>

\* Mutant: acceptance is told only while the interaction is the frontier.
RecordableAtFrontier(c) == attempt[call[c].gen] = "ACCEPTED" /\ (recorded \/ frontier)

\* Historical truth needs no current authority and no frontier.
Recordable(c) == attempt[call[c].gen] = "ACCEPTED"

\* _commit_accepted_presentation, first transaction: one Timeline event per output.
RecordPresentation(c) ==
    /\ call[c].stage = "record"
    /\ IF Recordable(c)
       THEN recorded' = TRUE /\ frontier' = (frontier /\ recorded) /\ Goto(c, "provenance")
       ELSE Return(c) /\ UNCHANGED <<recorded, frontier>>
    /\ UNCHANGED <<admitted, answer, attempt, provenance, sink, crashes>>

\* Second transaction: the event's provenance, by an operation named for the event.
BindProvenance(c) ==
    /\ call[c].stage = "provenance"
    /\ provenance' = IF provenance = 0 THEN call[c].gen ELSE provenance
    /\ Return(c)
    /\ UNCHANGED <<frontier, admitted, answer, attempt, recorded, sink, crashes>>

-----------------------------------------------------------------------------
(* The sink, the host and the counterpart. *)

SinkAccepts(g) ==
    /\ sink[g] = "inFlight"
    /\ sink' = [sink EXCEPT ![g] = "accepted"]
    /\ UNCHANGED <<frontier, admitted, answer, presented, call, crashes>>

\* The sink settles a generation: it refuses the payload, now or whenever it arrives.
SinkCloses(g) ==
    /\ attempt[g] # "none" /\ sink[g] \in {"none", "inFlight"}
    /\ sink' = [sink EXCEPT ![g] = "closed"]
    /\ UNCHANGED <<frontier, admitted, answer, presented, call, crashes>>

\* Another counterpart input is appended to the Timeline.
AdvanceTimeline ==
    /\ frontier
    /\ frontier' = FALSE
    /\ UNCHANGED <<admitted, answer, presented, sink, call, crashes>>

\* The process dies, or the call fails for a reason of its own.
Crash(c) ==
    /\ call[c].stage # "idle"
    /\ crashes < MaxCrash
    /\ crashes' = crashes + 1
    /\ Return(c)
    /\ UNCHANGED <<frontier, admitted, answer, presented, sink>>

\* What a call does by itself once it is running.
Proceed(c) ==
    \/ BuildProjection(c) \/ GenerateOrRecover(c) \/ DispatchModel(c) \/ FinishInvocation(c)
    \/ Adopt(c) \/ PresentOrRecover(c) \/ FencePresentation(c) \/ SendPayload(c)
    \/ ReceiveStatus(c) \/ RecoverPresentation(c) \/ Settle(c)
    \/ RecordPresentation(c) \/ BindProvenance(c)

Next ==
    \/ \E c \in Caller :
        \/ \E r \in Result : AdmitResult(c, r)
        \/ RecoverResult(c)
        \/ Proceed(c)
        \/ Crash(c)
    \/ \E g \in Generation : SinkAccepts(g) \/ SinkCloses(g)
    \/ AdvanceTimeline

Spec == Init /\ [][Next]_vars

\* A running call goes on, the host runs respond again until it has its answer, and the
\* sink does not withhold a terminal status from every lookup.
FairSpec ==
    /\ Spec
    /\ \A c \in Caller :
        /\ WF_vars(Proceed(c))
        /\ SF_vars(RecoverResult(c))
        /\ SF_vars(RecoverPresentation(c) /\ call'[c].stage # "idle")

-----------------------------------------------------------------------------
(* Properties. *)

\* Every variable stays in its set; a call names a generation operation exactly while it
\* generates or adopts.
TypeOK ==
    /\ frontier \in BOOLEAN
    /\ projected \subseteq admitted /\ admitted \subseteq Result
    /\ invocation \in [Result -> [Operation ->
            [outcome : {"none", "IN_PROGRESS", "SUCCEEDED", "FAILED"}, faithful : BOOLEAN]]]
    /\ adopted \subseteq Result \X Operation
    /\ attempt \in [Generation -> {"none", "UNKNOWN", "ACCEPTED", "NOT_ACCEPTED"}]
    /\ recorded \in BOOLEAN
    /\ provenance \in 0 .. MaxGeneration
    /\ sink \in [Generation -> {"none", "inFlight", "accepted", "closed"}]
    /\ call \in [Caller -> [stage : Stages, result : 0 .. MaxResult,
                            op : 0 .. MaxInvocation + 1, gen : 0 .. MaxGeneration + 1, again : BOOLEAN,
                            status : {"UNKNOWN", "ACCEPTED", "NOT_ACCEPTED"}]]
    /\ \A c \in Caller :
            call[c].op # 0 <=> call[c].stage \in {"dispatch", "asking", "adopt"}
    /\ crashes \in 0 .. MaxCrash

Shown == {g \in Generation : sink[g] = "accepted"}

\* The personal schedule goes to the model only while no dispatch for the interaction is
\* open or has succeeded, whichever of several admitted results a caller works on, and
\* one answer at most is adopted: a plan that states the schedule.
OneAnswer ==
    /\ Cardinality({a \in Result \X Operation :
            invocation[a[1]][a[2]].outcome \in {"IN_PROGRESS", "SUCCEEDED"}}) <= 1
    /\ Cardinality(adopted) <= 1
    /\ \A a \in adopted : invocation[a[1]][a[2]] = [outcome |-> "SUCCEEDED", faithful |-> TRUE]

\* However many callers present, retry and recover, and however late a payload arrives,
\* the counterpart sees the answer once, and every settled attempt and the Timeline's
\* provenance say what became of it at the sink.
ShownOnceAsRecorded ==
    /\ Cardinality(Shown) <= 1
    /\ \A g \in Generation :
        /\ attempt[g] = "ACCEPTED" => sink[g] = "accepted"
        /\ attempt[g] = "NOT_ACCEPTED" => sink[g] = "closed"
    /\ recorded => Shown # {}
    /\ provenance # 0 => recorded /\ provenance \in Shown

\* An answer that the counterpart has seen reaches the Timeline with its provenance,
\* although calls die before they know, settle or record it and the authority to show
\* it has gone, unless a second result of the interaction has been admitted.
ShownIsRecorded == Shown # {} ~> provenance # 0 \/ Cardinality(admitted) > 1
=============================================================================
