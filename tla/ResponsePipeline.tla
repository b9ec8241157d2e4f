-------------------------- MODULE ResponsePipeline --------------------------
(* One reactive response: FoundationResponseCoordinator.respond over the semantic    *)
(* services, the provider runners and the recovery assessment.  No turn status is    *)
(* stored: each call derives how far the response has come from the durable rows and *)
(* goes on from there.  World observations, the result admitted from them, context   *)
(* projections, model invocations, the adopted output, the acceptance by the         *)
(* first-party sink (LocalSurfaceStore) and the Timeline event are the rows.         *)
(*                                                                                   *)
(* A Caller is a process that runs respond for the interaction; several run at once  *)
(* and each may die at any point.  A transaction that only reads before its first    *)
(* write holds no lock while it reads, so start_model_invocation and                 *)
(* fail_model_invocation are two steps each.  The other transactions are one step: a *)
(* unique key, the operation receipt or the Timeline head decides their race.        *)
EXTENDS Naturals, FiniteSets

CONSTANTS
    Caller,          \* processes that run respond
    MaxObservation,  \* observations explored
    MaxProjection,   \* context projections explored
    MaxInvocation,   \* model invocations explored
    MaxCrash         \* calls that die before they are done

ASSUME BoundsAssumption ==
    /\ {MaxObservation, MaxProjection, MaxInvocation} \subseteq Nat \ {0}
    /\ MaxCrash \in Nat

Observation == 1 .. MaxObservation
Projection == 1 .. MaxProjection
Invocation == 1 .. MaxInvocation

VARIABLES
    frontier,     \* the input is the last event of the Timeline
    observation,  \* status of each Observation of the Investigation
    result,       \* Observation whose capture the one WorldResult rests on; 0: none
    projections,  \* ContextProjections built, the newest has this number
    invocation,   \* model invocations, in the order they were opened
    target,       \* the OutputTarget of the response exists
    adopted,      \* generated outputs adopted as CompanionOutput of the target
    sink,         \* what the first-party sink accepted: key and output
    shown,        \* outputs with a Timeline event
    call,         \* what each running caller holds in memory
    crashes

world == <<observation, result>>
output == <<target, adopted, sink, shown>>
vars == <<frontier, world, projections, invocation, output, call, crashes>>

NoInvocation == [projection |-> 0, outcome |-> "none", generated |-> FALSE, faithful |-> FALSE]
Stages == {"idle", "reconcile", "unresolved", "overwrite", "assess", "world", "observe",
           "acquire", "extract", "project", "start", "open", "asking", "failing", "target",
           "adopt", "accept", "commit"}
Idle == [stage |-> "idle", ref |-> 0, orphans |-> {}, loss |-> FALSE]

\* The next stage, and the row that it works on.
Goto(c, stage, ref) ==
    call' = [call EXCEPT ![c] =
               [Idle EXCEPT !.stage = stage, !.ref = ref,
                            !.loss = stage = "world" /\ call[c].loss]]

\* respond returns or raises: nothing is kept.
Return(c) == call' = [call EXCEPT ![c] = Idle]

-----------------------------------------------------------------------------
(* What the code reads. *)

Opened == {n \in Invocation : invocation[n] # NoInvocation}
Of(p) == {n \in Opened : invocation[n].projection = p}
InState(p, outcome) == {n \in Of(p) : invocation[n].outcome = outcome}
Observed(status) == {o \in Observation : observation[o] = status}

\* Mutant: an Observation that has not ended counts as well.
CapturedOrStarted == Observed("SUCCEEDED") \cup Observed("STARTED")

\* _successful_world_evidence: the captures of the Investigation.
Captured == Observed("SUCCEEDED")

\* projection_reuse_blocker: a projection serves as long as its input is the frontier.
Reusable(p) == p # 0 /\ frontier

NextInvocation == Cardinality(Opened) + 1
NextObservation == Cardinality(Observation \ Observed("none")) + 1

\* start_model_invocation: neither an open nor a successful attempt of the projection.
MayStart(p) == Reusable(p) /\ InState(p, "IN_PROGRESS") \cup InState(p, "SUCCEEDED") = {}

-----------------------------------------------------------------------------
Init ==
    /\ frontier = TRUE
    /\ observation = [o \in Observation |-> "none"]
    /\ result = 0
    /\ projections = 0
    /\ invocation = [n \in Invocation |-> NoInvocation]
    /\ target = FALSE
    /\ adopted = {}
    /\ sink = {}
    /\ shown = {}
    /\ call = [c \in Caller |-> Idle]
    /\ crashes = 0

-----------------------------------------------------------------------------
(* A run of respond, and the recovery that starts it. *)

\* A call with after_process_loss begins with reconcile_response_after_process_loss.  Its
\* contract is that the owner of every open attempt is gone, but the local surface passes
\* it whenever its own process has not seen the input before, and nothing looks whether
\* the owner lives: no such condition is assumed here.
RespondAfterLoss(c) ==
    /\ call[c].stage = "idle"
    /\ call' = [call EXCEPT ![c] = [Idle EXCEPT !.stage = "reconcile", !.loss = TRUE]]
    /\ UNCHANGED <<frontier, world, projections, invocation, output, crashes>>

\* Every open attempt of the response, whichever projection it is of.
ReadOrphans(c) ==
    LET open == {n \in Opened : invocation[n].outcome = "IN_PROGRESS"} IN
    /\ call[c].stage = "reconcile"
    /\ call' = [call EXCEPT ![c].stage = IF open = {} THEN "assess" ELSE "unresolved",
                           ![c].orphans = open]
    /\ UNCHANGED <<frontier, world, projections, invocation, output, crashes>>

Reconciled(c, n) ==
    LET rest == call[c].orphans \ {n} IN
    call' = [call EXCEPT ![c].stage = IF rest = {} THEN "assess" ELSE "unresolved",
                         ![c].orphans = rest, ![c].ref = 0]

\* fail_model_invocation reads the outcome; an attempt that ended by now is left alone.
ReadOrphan(c) ==
    /\ call[c].stage = "unresolved"
    /\ \E n \in call[c].orphans :
        IF invocation[n].outcome = "IN_PROGRESS"
        THEN call' = [call EXCEPT ![c].stage = "overwrite", ![c].ref = n]
        ELSE Reconciled(c, n)
    /\ UNCHANGED <<frontier, world, projections, invocation, output, crashes>>

\* Its update names the row only: what was committed since the read is overwritten.
MarkUnknown(c) ==
    LET n == call[c].ref IN
    /\ call[c].stage = "overwrite"
    /\ invocation' = [invocation EXCEPT ![n].outcome = "UNKNOWN"]
    /\ Reconciled(c, n)
    /\ UNCHANGED <<frontier, world, projections, output, crashes>>

\* assess_response and the branch of respond that it selects.
Assess(c) ==
    LET generated == {n \in InState(projections, "SUCCEEDED") : invocation[n].generated} IN
    /\ call[c].stage \in {"idle", "assess"}
    /\ IF shown # {} THEN Return(c)
       ELSE IF adopted # {} THEN \E n \in adopted : Goto(c, "accept", n)
       ELSE IF ~Reusable(projections)
            THEN IF frontier THEN Goto(c, "world", 0) ELSE Return(c)
       ELSE IF generated # {} THEN \E n \in generated : Goto(c, "target", n)
       ELSE IF InState(projections, "IN_PROGRESS") \cup InState(projections, "SUCCEEDED") # {}
            THEN Return(c)
       ELSE Goto(c, "start", projections)
    /\ UNCHANGED <<frontier, world, projections, invocation, output, crashes>>

-----------------------------------------------------------------------------
(* The world result. *)

\* _ensure_world_result: what the Investigation already holds.
EnsureWorldResult(c) ==
    /\ call[c].stage = "world"
    /\ IF result # 0 THEN Goto(c, "project", 0)
       ELSE IF Cardinality(Captured) > 1 THEN Return(c)
       ELSE IF Captured # {} THEN \E o \in Captured : Goto(c, "extract", o)
       ELSE IF Observed("STARTED") # {} /\ ~call[c].loss THEN Return(c)
       ELSE Goto(c, "observe", 0)
    /\ UNCHANGED <<frontier, world, projections, invocation, output, crashes>>

\* A new Observation, as long as the Investigation is open.
StartObservation(c) ==
    /\ call[c].stage = "observe"
    /\ IF result = 0
       THEN /\ NextObservation \in Observation
            /\ observation' = [observation EXCEPT ![NextObservation] = "STARTED"]
            /\ Goto(c, "acquire", NextObservation)
       ELSE /\ Return(c)
            /\ UNCHANGED observation
    /\ UNCHANGED <<frontier, result, projections, invocation, output, crashes>>

\* The adapter's answer is recorded, or the Observation is marked as failed.
RecordObservation(c) ==
    LET o == call[c].ref IN
    /\ call[c].stage = "acquire"
    /\ \/ /\ observation' = [observation EXCEPT ![o] = "SUCCEEDED"]
          /\ Goto(c, "extract", o)
       \/ /\ observation' = [observation EXCEPT ![o] = "FAILED"]
          /\ Return(c)
    /\ UNCHANGED <<frontier, result, projections, invocation, output, crashes>>

\* The extractor may reject.  The operation is derived from the event and its request
\* names the evidence: another caller's result is a replay or a conflict.
AdmitWorldResult(c) ==
    LET o == call[c].ref IN
    /\ call[c].stage = "extract"
    /\ \/ /\ result \in {0, o}
          /\ result' = o
          /\ Goto(c, "project", 0)
       \/ /\ Return(c)
          /\ UNCHANGED result
    /\ UNCHANGED <<frontier, observation, projections, invocation, output, crashes>>

\* The projection of the memory claim and the result; either may be ineligible.
BuildProjection(c) ==
    /\ call[c].stage = "project"
    /\ \/ /\ projections < MaxProjection
          /\ projections' = projections + 1
          /\ Goto(c, "start", projections + 1)
       \/ /\ Return(c)
          /\ UNCHANGED projections
    /\ UNCHANGED <<frontier, world, invocation, output, crashes>>

-----------------------------------------------------------------------------
(* One provider attempt. *)

\* start_model_invocation reads the attempts of the projection ...
CheckInvocation(c) ==
    /\ call[c].stage = "start"
    /\ IF MayStart(call[c].ref) THEN Goto(c, "open", call[c].ref) ELSE Return(c)
    /\ UNCHANGED <<frontier, world, projections, invocation, output, crashes>>

\* ... and inserts one, without a look at what was opened since.
OpenInvocation(c) ==
    LET n == NextInvocation IN
    /\ call[c].stage = "open"
    /\ n \in Invocation
    /\ invocation' = [invocation EXCEPT ![n] =
                         [NoInvocation EXCEPT !.projection = call[c].ref,
                                              !.outcome = "IN_PROGRESS"]]
    /\ Goto(c, "asking", n)
    /\ UNCHANGED <<frontier, world, projections, output, crashes>>

\* The provider refused, or what became of the request is not known, and
\* fail_model_invocation reads the outcome; it raises when the attempt has ended by now ...
CheckFailure(c) ==
    LET n == call[c].ref IN
    /\ call[c].stage = "asking"
    /\ IF invocation[n].outcome = "IN_PROGRESS" THEN Goto(c, "failing", n) ELSE Return(c)
    /\ UNCHANGED <<frontier, world, projections, invocation, output, crashes>>

\* ... and updates the row, whatever another process made of it since.
FailInvocation(c) ==
    LET n == call[c].ref IN
    /\ call[c].stage = "failing"
    /\ \E outcome \in {"FAILED", "UNKNOWN"} :
        invocation' = [invocation EXCEPT ![n].outcome = outcome]
    /\ Return(c)
    /\ UNCHANGED <<frontier, world, projections, output, crashes>>

\* complete_model_invocation: an attempt given up as UNKNOWN may still be completed.
CompleteInvocation(c) ==
    LET n == call[c].ref IN
    /\ call[c].stage = "asking"
    /\ invocation[n].outcome \in {"IN_PROGRESS", "UNKNOWN"}
    /\ \E faithful \in BOOLEAN :
        invocation' = [invocation EXCEPT ![n].outcome = "SUCCEEDED", ![n].generated = TRUE,
                                         ![n].faithful = faithful]
    /\ Goto(c, "target", n)
    /\ UNCHANGED <<frontier, world, projections, output, crashes>>

-----------------------------------------------------------------------------
(* Adoption and presentation. *)

\* resolve_output_target: the target is unique for the interaction.
ResolveTarget(c) ==
    /\ call[c].stage = "target"
    /\ target' = TRUE
    /\ Goto(c, "adopt", call[c].ref)
    /\ UNCHANGED <<frontier, world, projections, invocation, adopted, sink, shown, crashes>>

\* Mutant: a target may be filled more than once.
AdoptableAlways(n) == invocation[n].faithful

\* adopt_companion_output: a faithful candidate, and companion_output is unique per target.
\* Neither the frontier nor the outcome of the attempt is looked at.
Adoptable(n) == invocation[n].faithful /\ adopted = {}

AdoptOutput(c) ==
    LET n == call[c].ref IN
    /\ call[c].stage = "adopt"
    /\ IF Adoptable(n)
       THEN adopted' = adopted \cup {n} /\ Goto(c, "accept", n)
       ELSE Return(c) /\ UNCHANGED adopted
    /\ UNCHANGED <<frontier, world, projections, invocation, target, sink, shown, crashes>>

\* Mutant: every presentation has a fresh key.
FreshKey(n) == Cardinality(sink) + 1

\* presentation_idempotency_key: the output, on the one route of the interaction.
PresentationKey(n) == n

\* LocalSurfaceStore.accept: a key is accepted once, and so is an output.
Accepts(key, n) == \A s \in sink : s.key = key <=> s.output = n

\* The adapter's answer is that of the sink.
PresentOutput(c) ==
    LET n == call[c].ref
        key == PresentationKey(n)
    IN
    /\ call[c].stage = "accept"
    /\ Accepts(key, n)
    /\ sink' = sink \cup {[key |-> key, output |-> n]}
    /\ Goto(c, "commit", n)
    /\ UNCHANGED <<frontier, world, projections, invocation, target, adopted, shown, crashes>>

\* The request is lost, refused by the sink, or accepted and the answer lost.
PresentationLost(c) ==
    LET n == call[c].ref
        key == PresentationKey(n)
    IN
    /\ call[c].stage = "accept"
    /\ \/ /\ Accepts(key, n)
          /\ sink' = sink \cup {[key |-> key, output |-> n]}
       \/ UNCHANGED sink
    /\ Return(c)
    /\ UNCHANGED <<frontier, world, projections, invocation, target, adopted, shown, crashes>>

\* present_companion_output: the output's event is the next of the Timeline, or the
\* one that another call has committed.  That no progressive session of the output is
\* open is its other condition; respond opens none (see ProgressivePresentation).
CommitPresentation(c) ==
    LET n == call[c].ref IN
    /\ call[c].stage = "commit"
    /\ shown' = shown \cup {n}
    /\ frontier' = FALSE
    /\ Return(c)
    /\ UNCHANGED <<world, projections, invocation, target, adopted, sink, crashes>>

\* Another input or output of the relationship is appended to the Timeline.
AdvanceTimeline ==
    /\ frontier
    /\ frontier' = FALSE
    /\ UNCHANGED <<world, projections, invocation, output, call, crashes>>

\* A process dies wherever it is.
Crash(c) ==
    /\ call[c].stage # "idle"
    /\ crashes < MaxCrash
    /\ crashes' = crashes + 1
    /\ Return(c)
    /\ UNCHANGED <<frontier, world, projections, invocation, output>>

\* Every step of a call but the one that has the sink's answer.
Proceed(c) ==
    \/ ReadOrphans(c) \/ ReadOrphan(c) \/ MarkUnknown(c) \/ Assess(c)
    \/ EnsureWorldResult(c) \/ StartObservation(c) \/ RecordObservation(c)
    \/ AdmitWorldResult(c) \/ BuildProjection(c)
    \/ CheckInvocation(c) \/ OpenInvocation(c)
    \/ CheckFailure(c) \/ FailInvocation(c) \/ CompleteInvocation(c)
    \/ ResolveTarget(c) \/ AdoptOutput(c) \/ CommitPresentation(c)

Next ==
    \/ \E c \in Caller :
        Proceed(c) \/ RespondAfterLoss(c) \/ PresentOutput(c) \/ PresentationLost(c) \/ Crash(c)
    \/ AdvanceTimeline

Spec == Init /\ [][Next]_vars

\* respond is run again until the response is shown, a call makes its next step, and
\* the sink cannot be out of reach for ever.
Fairness == \A c \in Caller : WF_vars(Proceed(c)) /\ SF_vars(PresentOutput(c))

FairSpec == Spec /\ Fairness

-----------------------------------------------------------------------------
(* Properties. *)

\* Rows and memory are well formed; rows are numbered without gaps, and what a call
\* works on exists.
TypeOK ==
    /\ frontier \in BOOLEAN /\ target \in BOOLEAN
    /\ observation \in [Observation -> {"none", "STARTED", "SUCCEEDED", "FAILED"}]
    /\ result \in {0} \cup Observed("SUCCEEDED")
    /\ projections \in 0 .. MaxProjection
    /\ invocation \in [Invocation ->
         [projection : 0 .. projections, generated : BOOLEAN, faithful : BOOLEAN,
          outcome : {"none", "IN_PROGRESS", "SUCCEEDED", "FAILED", "UNKNOWN"}]]
    /\ Opened = 1 .. Cardinality(Opened)
    /\ adopted \subseteq Opened /\ shown \subseteq adopted
    /\ sink \subseteq [key : Invocation, output : adopted]
    /\ call \in [Caller ->
         [stage : Stages, ref : Nat, orphans : SUBSET Opened, loss : BOOLEAN]]
    /\ \A c \in Caller :
            call[c].stage \in {"asking", "failing", "target", "adopt", "accept", "commit"}
                => call[c].ref \in Opened
    /\ crashes \in 0 .. MaxCrash

\* Whatever was generated, and by however many attempts of racing or dead processes,
\* the response has one answer: what the sink accepted, once and under one key, is the
\* one adopted output, adopted from a candidate that an attempt generated and that
\* was checked, and the Timeline shows nothing that the sink did not accept.
OneAnswerShown ==
    /\ Cardinality(adopted) <= 1
    /\ \A n \in adopted : target /\ invocation[n].generated /\ invocation[n].faithful
    /\ Cardinality(sink) <= 1
    /\ \A s \in sink : s.output \in adopted
    /\ \A n \in shown : \E s \in sink : s.output = n

\* An adopted output is not lost: although the process that adopted it died, the sink's
\* answer was lost, or the Timeline has moved on, it becomes a Timeline event.
AdoptedIsShown == (adopted # {}) ~> (shown # {})
=============================================================================
