--------------------------- MODULE CalendarResult ---------------------------
(***************************************************************************)
(* How the result of one executed calendar-create Action reaches the       *)
(* counterpart: the coordinator that is run for the approval event, the    *)
(* admission of the Effect, the completion projection, the result plan     *)
(* generated by a model, its deterministic adoption, the presentation      *)
(* attempts with their content-free recovery, and the Timeline event.      *)
(*                                                                         *)
(* Execution itself is known here by its contract, ActionOutcome, which    *)
(* CalendarExecution implements: events and ledger move by its steps.      *)
(*                                                                         *)
(* Every transaction of these services writes before it decides (a         *)
(* conditional update of the projection, adoption or attempt row) or is    *)
(* validated by a unique key when it commits, so each is one step.         *)
(***************************************************************************)
EXTENDS Naturals, FiniteSets

CONSTANTS
    Worker,         \* concurrent callers: coordinators and direct callers of a service
    Credential,     \* credential bindings that may be the one usable for the calendar
    Route,          \* model routes that may be the one allowed
    Nothing,        \* "no credential", "no route", "no plan"
    PlanOperation,  \* operation ids of generate_result_plan
    RunPlan,        \* the one that the coordinator derives from the approval event
    MaxGeneration,  \* bound on presentation generations
    MaxChange,      \* bound on changes of the configuration
    MaxCrash        \* bound on processes that die or calls that fail

ASSUME ResultAssumption ==
    /\ RunPlan \in PlanOperation
    /\ Nothing \notin Credential \cup Route \cup PlanOperation
    /\ MaxGeneration \in Nat /\ MaxChange \in Nat /\ MaxCrash \in Nat

Generation == 1 .. MaxGeneration

VARIABLES
    events, ledger,  \* see ActionOutcome
    credential,      \* the one usable credential binding
    route,           \* the one authorised model route
    disclosable,     \* relationship, calendar and disclosure policy allow presentation
    pinned,          \* credential in the request of the prepared attempt
    transport,       \* stored answer of the run's dispatch command
    projection,      \* the completion projection exists
    invocation,      \* outcome of the model invocation of each operation
    planRoute,       \* route in the request of each invocation
    plan,            \* operation whose generated output the projection has
    adopted,         \* the plan is adopted as the companion's output
    attempt,         \* sink_acceptance_state of each presentation generation
    recorded,        \* generation for which the Timeline event was appended
    provenance       \* generation bound to the Timeline event

\* The sink, outside src/: what became of each generation there.
VARIABLE sink

\* What a caller holds in memory.
VARIABLES pc, job

\* Counters that bound the behaviours.
VARIABLES changes, crashes

upstream == <<events, ledger>>
config == <<credential, route, disclosable, changes>>
execution == <<pinned, transport>>
completion == <<projection, invocation, planRoute, plan, adopted>>
presented == <<attempt, recorded, provenance>>
vars == <<upstream, config, execution, completion, presented, sink, pc, job, crashes>>

Outcome == INSTANCE ActionOutcome WITH Event <- {"event"}

Stage == {"idle", "transport", "effect", "project", "generate", "asked", "planned",
          "adopt", "present", "looking", "checking", "fence", "send", "sent",
          "settle", "record", "provenance"}

InvocationOutcome == {"NONE", "IN_PROGRESS", "SUCCEEDED", "FAILED", "UNKNOWN"}
AcceptanceState == {"NONE", "UNKNOWN", "ACCEPTED", "NOT_ACCEPTED"}

\* A coordinator goes on to the next stage; a direct call of a service does not.
NoJob == [run |-> FALSE, op |-> RunPlan, gen |-> 0, answer |-> "UNKNOWN", resend |-> FALSE]

-----------------------------------------------------------------------------
Init ==
    /\ Outcome!Init
    /\ credential \in Credential
    /\ route \in Route
    /\ disclosable = TRUE
    /\ pinned = Nothing
    /\ transport = "none"
    /\ projection = FALSE
    /\ invocation = [o \in PlanOperation |-> "NONE"]
    /\ planRoute = [o \in PlanOperation |-> Nothing]
    /\ plan = Nothing
    /\ adopted = FALSE
    /\ attempt = [g \in Generation |-> "NONE"]
    /\ recorded = 0
    /\ provenance = 0
    /\ sink = [g \in Generation |-> "none"]
    /\ pc = [w \in Worker |-> "idle"]
    /\ job = [w \in Worker |-> NoJob]
    /\ changes = 0
    /\ crashes = 0

-----------------------------------------------------------------------------
(* Helpers *)

Goto(w, stage) == pc' = [pc EXCEPT ![w] = stage]

\* The call returns or fails; nothing of it survives in memory.
Return(w) ==
    /\ Goto(w, "idle")
    /\ job' = [job EXCEPT ![w] = NoJob]

\* A service has done its part: the coordinator continues, a direct caller is done.
Continue(w, stage) ==
    IF job[w].run THEN Goto(w, stage) /\ UNCHANGED job ELSE Return(w)

Latest == Cardinality({g \in Generation : attempt[g] # "NONE"})

\* Faulty variant: a dispatched Action counts as done before its Effect is confirmed.
CompletionDispatched == ledger \in {"inDoubt", "effect"}

\* _load_confirmed_completion: a confirmed Effect with its whole lineage.
CompletionConfirmed == ledger = "effect"

\* _load_completion_projection: the projection, its Effect and their context still agree.
CompletionProjected == projection /\ CompletionConfirmed

\* _load_output_lineage: the adopted output with everything that it was made from.
OutputAdopted == adopted /\ CompletionProjected

\* The selectors: exactly one usable credential, exactly one authorised route, or a failure.
SelectedCredential == {credential} \ {Nothing}
SelectedRoute == {route} \ {Nothing}

\* _evaluate_disclosure_authority
DisclosureAllowed == OutputAdopted /\ disclosable

-----------------------------------------------------------------------------
(* Environment *)

\* Execution, reconciliation and retry of the Action by any caller.
ExecutionStep ==
    /\ Outcome!Next
    /\ UNCHANGED <<config, execution, completion, presented, sink, pc, job, crashes>>

\* Administrators replace or withdraw the credential (set_credential_status), the route
\* (set_model_egress_policy) or the permission to disclose (set_disclosure_policy).
ChangeCredential ==
    /\ credential' \in (Credential \cup {Nothing}) \ {credential}
    /\ UNCHANGED <<route, disclosable>>

ChangeRoute ==
    /\ route' \in (Route \cup {Nothing}) \ {route}
    /\ UNCHANGED <<credential, disclosable>>

ChangeDisclosure ==
    /\ disclosable' = ~ disclosable
    /\ UNCHANGED <<credential, route>>

ChangeConfiguration ==
    /\ changes < MaxChange
    /\ changes' = changes + 1
    /\ ChangeCredential \/ ChangeRoute \/ ChangeDisclosure
    /\ UNCHANGED <<upstream, execution, completion, presented, sink, pc, job, crashes>>

-----------------------------------------------------------------------------
(* approve_and_execute up to the Effect *)

\* Admission of the Approval and the prepared attempt, replayed by their receipts: the
\* credential chosen now must be the one that the receipt was made for.
StartRun(w) ==
    /\ pc[w] = "idle"
    /\ \E c \in SelectedCredential : pinned \in {Nothing, c} /\ pinned' = c
    /\ Goto(w, "transport")
    /\ job' = [job EXCEPT ![w].run = TRUE]
    /\ UNCHANGED <<upstream, config, transport, completion, presented, sink, crashes>>

\* dispatch_create_mutation: its answer is stored once; evidence needs a real event.
Dispatch(w) ==
    /\ pc[w] = "transport"
    /\ \/ transport = "none"
          /\ \/ transport' = "matched" /\ ledger = "inDoubt" /\ events # {}
             \/ transport' = "unknown"
       \/ transport # "none" /\ UNCHANGED transport
    /\ IF transport' = "matched" THEN Goto(w, "effect") /\ UNCHANGED job ELSE Return(w)
    /\ UNCHANGED <<upstream, config, pinned, completion, presented, sink, crashes>>

\* admit_confirmed_effect, or its replay when the Effect exists.
AdmitEffect(w) ==
    /\ pc[w] = "effect"
    /\ Outcome!ConfirmEffect \/ (CompletionConfirmed /\ UNCHANGED upstream)
    /\ Goto(w, "project")
    /\ UNCHANGED <<config, execution, completion, presented, sink, job, crashes>>

-----------------------------------------------------------------------------
(* Completion *)

\* build_completion_projection
BuildProjection(w) ==
    /\ pc[w] = "project"
    /\ CompletionConfirmed
    /\ projection' = TRUE
    /\ Goto(w, "generate")
    /\ UNCHANGED <<upstream, config, execution, invocation, planRoute, plan, adopted,
                   presented, sink, job, crashes>>

\* generate_result_plan called with another operation id, to retry a failed invocation.
CallGenerate(w, o) ==
    /\ pc[w] = "idle"
    /\ projection
    /\ o # RunPlan
    /\ Goto(w, "generate")
    /\ job' = [job EXCEPT ![w].op = o]
    /\ UNCHANGED <<upstream, config, execution, completion, presented, sink, crashes>>

\* Faulty variant: an invocation whose outcome is not known may be replaced.
RetryUnknown ==
    /\ plan = Nothing
    /\ \A o \in PlanOperation : invocation[o] # "IN_PROGRESS"

\* No plan yet, and no earlier dispatch is unresolved.
MayAskModel ==
    /\ plan = Nothing
    /\ \A o \in PlanOperation : invocation[o] \notin {"IN_PROGRESS", "UNKNOWN"}

\* generate_result_plan, the dispatch: the update of the projection row comes first, and
\* the head of the route is compared and set.
DispatchModel(w) ==
    LET o == job[w].op IN
    /\ pc[w] = "generate"
    /\ invocation[o] = "NONE"
    /\ CompletionProjected
    /\ MayAskModel
    /\ \E r \in SelectedRoute : planRoute' = [planRoute EXCEPT ![o] = r]
    /\ invocation' = [invocation EXCEPT ![o] = "IN_PROGRESS"]
    /\ Goto(w, "asked")
    /\ UNCHANGED <<upstream, config, execution, projection, plan, adopted, presented,
                   sink, job, crashes>>

\* _recover_generation_replay: only a succeeded invocation of the same request counts.
ReplayGeneration(w) ==
    LET o == job[w].op IN
    /\ pc[w] = "generate"
    /\ invocation[o] = "SUCCEEDED" /\ planRoute[o] \in SelectedRoute
    /\ Continue(w, "adopt")
    /\ UNCHANGED <<upstream, config, execution, completion, presented, sink, crashes>>

\* The adapter answers: a valid plan, a rejection, or nothing that can be trusted.
ModelAnswers(w) ==
    /\ pc[w] = "asked"
    /\ \/ Goto(w, "planned") /\ UNCHANGED <<invocation, job>>
       \/ \E outcome \in {"FAILED", "UNKNOWN"} :
             invocation' = [invocation EXCEPT ![job[w].op] = outcome]
          /\ Return(w)
    /\ UNCHANGED <<upstream, config, execution, projection, planRoute, plan, adopted,
                   presented, sink, crashes>>

\* generate_result_plan, the admission of the plan.
CommitPlan(w) ==
    LET o == job[w].op IN
    /\ pc[w] = "planned"
    /\ invocation[o] = "IN_PROGRESS" /\ plan = Nothing
    /\ CompletionProjected
    /\ invocation' = [invocation EXCEPT ![o] = "SUCCEEDED"]
    /\ plan' = o
    /\ Continue(w, "adopt")
    /\ UNCHANGED <<upstream, config, execution, projection, planRoute, adopted, presented,
                   sink, crashes>>

\* adopt_mutation_output: the one output of the Action, rendered from the Action.
Adopt(w) ==
    /\ pc[w] = "adopt"
    /\ plan = job[w].op /\ invocation[plan] = "SUCCEEDED"
    /\ CompletionProjected
    /\ adopted' = TRUE
    /\ Continue(w, "present")
    /\ UNCHANGED <<upstream, config, execution, projection, invocation, planRoute, plan,
                   presented, sink, crashes>>

\* adopt_mutation_output and present_output called on their own.
CallAdopt(w) ==
    /\ pc[w] = "idle"
    /\ plan # Nothing
    /\ Goto(w, "adopt")
    /\ job' = [job EXCEPT ![w].op = plan]
    /\ UNCHANGED <<upstream, config, execution, completion, presented, sink, crashes>>

CallPresent(w) ==
    /\ pc[w] = "idle"
    /\ adopted
    /\ Goto(w, "fence")
    /\ job' = [job EXCEPT ![w].gen = Latest + 1]
    /\ UNCHANGED <<upstream, config, execution, completion, presented, sink, crashes>>

-----------------------------------------------------------------------------
(* Presentation *)

\* Faulty variant: only an uncertain attempt is looked at again.
PresentUnlessUncertain(w) ==
    /\ pc[w] = "present"
    /\ IF Latest # 0 /\ attempt[Latest] = "UNKNOWN"
       THEN Goto(w, "looking") /\ UNCHANGED job
       ELSE Goto(w, "fence") /\ job' = [job EXCEPT ![w].gen = Latest + 1]
    /\ UNCHANGED <<upstream, config, execution, completion, presented, sink, crashes>>

\* _present_or_recover: what to do next is decided by the latest attempt.
PresentOrRecover(w) ==
    /\ pc[w] = "present"
    /\ IF Latest # 0 /\ attempt[Latest] \in {"UNKNOWN", "ACCEPTED"}
       THEN Goto(w, "looking") /\ UNCHANGED job
       ELSE Goto(w, "fence") /\ job' = [job EXCEPT ![w].gen = Latest + 1]
    /\ UNCHANGED <<upstream, config, execution, completion, presented, sink, crashes>>

\* recover_presentation called on its own.
CallRecover(w) ==
    /\ pc[w] = "idle"
    /\ Latest # 0
    /\ Goto(w, "checking")
    /\ UNCHANGED <<upstream, config, execution, completion, presented, sink, job, crashes>>

\* Faulty variants: a negative answer counts although the sink does not call it terminal;
\* an answer is taken as the sink words it.
AnswersNonTerminal(g) ==
    {"UNKNOWN", IF sink[g] = "accepted" THEN "ACCEPTED" ELSE "NOT_ACCEPTED"}

AnswersUnchecked(g) == {"UNKNOWN", sink[g]}

\* The sink's own word on a generation: terminal answers are true for ever.
Answers(g) ==
    {"UNKNOWN"} \cup (IF sink[g] = "accepted" THEN {"ACCEPTED"} ELSE {})
                \cup (IF sink[g] = "closed" THEN {"NOT_ACCEPTED"} ELSE {})

\* recover_presentation: content-free, and only as far as the latest generation goes.
Recover(w) ==
    LET again == pc[w] = "looking" IN
    /\ pc[w] \in {"looking", "checking"}
    /\ CASE attempt[Latest] = "ACCEPTED" ->
               /\ Goto(w, "record")
               /\ job' = [job EXCEPT ![w].gen = Latest]
         [] attempt[Latest] = "NOT_ACCEPTED" ->
               IF again
               THEN Goto(w, "fence") /\ job' = [job EXCEPT ![w].gen = Latest + 1]
               ELSE Return(w)
         [] attempt[Latest] = "UNKNOWN" ->
               \E answer \in Answers(Latest) :
                  IF answer = "UNKNOWN"
                  THEN Return(w)
                  ELSE /\ Goto(w, "settle")
                       /\ job' = [job EXCEPT ![w].gen = Latest, ![w].answer = answer,
                                             ![w].resend = again]
    /\ UNCHANGED <<upstream, config, execution, completion, presented, sink, crashes>>

\* Faulty variant: an uncertain generation does not block the next one.
ResendUncertain(g) == attempt[g] = "NONE"

\* Only a terminally refused generation is followed by another.
MaySendGeneration(g) ==
    /\ attempt[g] = "NONE"
    /\ \A h \in Generation : h < g => attempt[h] = "NOT_ACCEPTED"

\* present_output, the fence: the update of the adoption row comes first.  The operation
\* id is that of the generation, so a generation that exists is replayed.
FencePresentation(w) ==
    LET g == job[w].gen IN
    /\ pc[w] = "fence"
    /\ g \in Generation
    /\ MaySendGeneration(g)
    /\ DisclosureAllowed
    /\ attempt' = [attempt EXCEPT ![g] = "UNKNOWN"]
    /\ Goto(w, "send")
    /\ UNCHANGED <<upstream, config, execution, completion, recorded, provenance, sink,
                   job, crashes>>

\* present_output: the receipt of the operation, or an accepted attempt, is replayed.
ReplayPresentation(w) ==
    LET g == job[w].gen IN
    /\ pc[w] = "fence"
    /\ g \in Generation /\ attempt[g] # "NONE"
    /\ IF attempt[g] = "ACCEPTED" THEN Goto(w, "record") /\ UNCHANGED job ELSE Return(w)
    /\ UNCHANGED <<upstream, config, execution, completion, presented, sink, crashes>>

\* adapter.present_personal: the payload leaves; a closed generation takes no payload.
SendPayload(w) ==
    LET g == job[w].gen IN
    /\ pc[w] = "send"
    /\ sink' = [sink EXCEPT ![g] = IF @ = "none" THEN "inFlight" ELSE @]
    /\ Goto(w, "sent")
    /\ UNCHANGED <<upstream, config, execution, completion, presented, job, crashes>>

\* present_output, the status that the sink returns; without a terminal one the
\* coordinator recovers and a direct call fails.
ReceiveStatus(w) ==
    /\ pc[w] = "sent"
    /\ \E answer \in Answers(job[w].gen) :
          IF answer = "UNKNOWN"
          THEN Continue(w, "checking")
          ELSE Goto(w, "settle") /\ job' = [job EXCEPT ![w].answer = answer]
    /\ UNCHANGED <<upstream, config, execution, completion, presented, sink, crashes>>

\* The sink, outside src/: it shows a payload that arrived, or settles the generation.
SinkAccepts(g) ==
    /\ sink[g] = "inFlight"
    /\ sink' = [sink EXCEPT ![g] = "accepted"]
    /\ UNCHANGED <<upstream, config, execution, completion, presented, pc, job, crashes>>

SinkCloses(g) ==
    /\ attempt[g] # "NONE" /\ sink[g] \in {"none", "inFlight"}
    /\ sink' = [sink EXCEPT ![g] = "closed"]
    /\ UNCHANGED <<upstream, config, execution, completion, presented, pc, job, crashes>>

\* _settle_attempt: the conditional update decides; another terminal state is a conflict.
Settle(w) ==
    LET g == job[w].gen IN
    /\ pc[w] = "settle"
    /\ attempt[g] \in {"UNKNOWN", job[w].answer}
    /\ attempt' = [attempt EXCEPT ![g] = job[w].answer]
    /\ CASE job[w].answer = "ACCEPTED" -> Goto(w, "record") /\ UNCHANGED job
         [] job[w].answer = "NOT_ACCEPTED" /\ job[w].resend ->
               Goto(w, "fence") /\ job' = [job EXCEPT ![w].gen = g + 1]
         [] OTHER -> Return(w)
    /\ UNCHANGED <<upstream, config, execution, completion, recorded, provenance, sink,
                   crashes>>

\* _commit_accepted_presentation: the Timeline event, unique per output.
RecordPresentation(w) ==
    /\ pc[w] = "record"
    /\ attempt[job[w].gen] = "ACCEPTED"
    /\ recorded' = IF recorded = 0 THEN job[w].gen ELSE recorded
    /\ Goto(w, "provenance")
    /\ UNCHANGED <<upstream, config, execution, completion, attempt, provenance, sink,
                   job, crashes>>

\* _commit_accepted_presentation: the provenance of that event, in a transaction of its own.
BindProvenance(w) ==
    /\ pc[w] = "provenance"
    /\ provenance \in {0, job[w].gen}
    /\ provenance' = job[w].gen
    /\ Return(w)
    /\ UNCHANGED <<upstream, config, execution, completion, attempt, recorded, sink, crashes>>

-----------------------------------------------------------------------------
\* A process dies, or a call fails for a reason of its own, such as a lost race for a lock.
Crash(w) ==
    /\ pc[w] # "idle"
    /\ crashes < MaxCrash
    /\ crashes' = crashes + 1
    /\ Return(w)
    /\ UNCHANGED <<upstream, config, execution, completion, presented, sink>>

\* The call fails because the code refuses it where it stands.
Refused(w) ==
    /\ \/ pc[w] = "project" /\ ~ CompletionConfirmed
       \/ /\ pc[w] = "generate"
          /\ IF invocation[job[w].op] = "NONE"
             THEN SelectedRoute = {} \/ ~ MayAskModel
             ELSE invocation[job[w].op] # "SUCCEEDED" \/ planRoute[job[w].op] \notin SelectedRoute
       \/ pc[w] = "adopt" /\ plan # job[w].op
       \/ /\ pc[w] = "fence"
          /\ \A g \in Generation :
                g = job[w].gen =>
                    attempt[g] = "NONE" /\ ~ (DisclosureAllowed /\ MaySendGeneration(g))
       \/ pc[w] = "settle" /\ attempt[job[w].gen] \notin {"UNKNOWN", job[w].answer}
    /\ Return(w)
    /\ UNCHANGED <<upstream, config, execution, completion, presented, sink, crashes>>

\* What a process does by itself once it has been called.
Proceed(w) ==
    \/ Dispatch(w) \/ AdmitEffect(w)
    \/ BuildProjection(w) \/ DispatchModel(w) \/ ReplayGeneration(w)
    \/ ModelAnswers(w) \/ CommitPlan(w) \/ Adopt(w)
    \/ PresentOrRecover(w) \/ Recover(w)
    \/ FencePresentation(w) \/ ReplayPresentation(w) \/ SendPayload(w)
    \/ ReceiveStatus(w) \/ Settle(w) \/ RecordPresentation(w) \/ BindProvenance(w)
    \/ Refused(w)

Next ==
    \/ ExecutionStep
    \/ ChangeConfiguration
    \/ \E w \in Worker, o \in PlanOperation : CallGenerate(w, o)
    \/ \E g \in Generation : SinkAccepts(g) \/ SinkCloses(g)
    \/ \E w \in Worker :
          \/ StartRun(w) \/ CallAdopt(w) \/ CallPresent(w) \/ CallRecover(w)
          \/ Proceed(w)
          \/ Crash(w)

Spec == Init /\ [][Next]_vars

\* A called process goes on, the host runs the approval input again until it is done,
\* and the sink does not withhold its terminal answer from every lookup.
FairSpec ==
    /\ Spec
    /\ \A w \in Worker :
          /\ WF_vars(Proceed(w))
          /\ SF_vars(StartRun(w))
          /\ SF_vars(Recover(w) /\ pc'[w] # "idle")

-----------------------------------------------------------------------------
(* Properties *)

Shown == {g \in Generation : sink[g] = "accepted"}

\* Every variable has its type.
TypeOK ==
    /\ events \subseteq {"event"} /\ ledger \in Outcome!Ledger
    /\ credential \in Credential \cup {Nothing}
    /\ route \in Route \cup {Nothing}
    /\ disclosable \in BOOLEAN
    /\ pinned \in Credential \cup {Nothing}
    /\ transport \in {"none", "matched", "unknown"}
    /\ projection \in BOOLEAN
    /\ invocation \in [PlanOperation -> InvocationOutcome]
    /\ planRoute \in [PlanOperation -> Route \cup {Nothing}]
    /\ plan \in PlanOperation \cup {Nothing}
    /\ adopted \in BOOLEAN
    /\ attempt \in [Generation -> AcceptanceState]
    /\ recorded \in 0 .. MaxGeneration
    /\ provenance \in 0 .. MaxGeneration
    /\ sink \in [Generation -> {"none", "inFlight", "accepted", "closed"}]
    /\ pc \in [Worker -> Stage]
    /\ job \in [Worker -> [run : BOOLEAN, op : PlanOperation, gen : 0 .. MaxGeneration + 1,
                           answer : AcceptanceState, resend : BOOLEAN]]
    /\ changes \in 0 .. MaxChange
    /\ crashes \in 0 .. MaxCrash

\* However many callers present, retry and recover the result, and however late a payload
\* arrives, the counterpart is shown it once: a generation is sent only after the one
\* before can no longer be accepted.
ShownAtMostOnce == Cardinality(Shown) <= 1

\* The counterpart is told of a created event only when the event exists and the ledger
\* has confirmed it, whatever the model, the sink and the callers do.
ReportedIsReal == Shown # {} => events # {} /\ ledger = "effect"

\* A model dispatch that succeeded or whose outcome is not known is never repeated, by
\* whichever operation; the projection's plan is the output of the one that succeeded.
OneLivePlan ==
    /\ Cardinality({o \in PlanOperation :
                       invocation[o] \in {"IN_PROGRESS", "UNKNOWN", "SUCCEEDED"}}) <= 1
    /\ \A o \in PlanOperation : invocation[o] = "SUCCEEDED" <=> plan = o

\* The records agree with the sink and with each other: a terminal state is what became
\* of the generation, and the Timeline shows the one that was accepted.
RecordMatchesSink ==
    /\ \A g \in Generation :
          /\ attempt[g] = "ACCEPTED" => sink[g] = "accepted"
          /\ attempt[g] = "NOT_ACCEPTED" => sink[g] = "closed"
    /\ recorded # 0 => attempt[recorded] = "ACCEPTED"
    /\ provenance # 0 => provenance = recorded

\* What the run of the approval event needs to get as far as the presentation again.
Repeatable == credential = pinned /\ route = planRoute[RunPlan] /\ plan = RunPlan

\* A result that the counterpart has seen reaches the Timeline although processes die
\* before they know, settle or record it, if in the end the run can be repeated.
ShownIsRecorded == <>[]Repeatable => (Shown # {} ~> provenance # 0)

-----------------------------------------------------------------------------
(* What the documentation says and the code does not ensure *)

\* "If the process loses state after durable sink acceptance but before the Timeline
\* append, replay or content-free recovery repairs the historical presentation record"
\* (docs/F5B_CALENDAR_MUTATION_PRESENTATION_INCREMENT.md): repeating the interaction
\* repairs it whatever has happened to the credential and the model route since.
AcceptanceIsRecorded ==
    (\E g \in Generation : attempt[g] = "ACCEPTED") ~> provenance # 0

=============================================================================
