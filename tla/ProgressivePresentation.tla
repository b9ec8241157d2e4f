---------------------- MODULE ProgressivePresentation ----------------------
(***************************************************************************)
(* The progressive presentation of one companion output: its session, the  *)
(* attempts (generations) that carry frames to the first-party sink, the   *)
(* receipts that make a frame durably presented, the reconciliation that   *)
(* settles an attempt, the interruption of the rest by a later input of    *)
(* the counterpart, the history that the Timeline keeps, and the generic   *)
(* presentation that the same output could have taken instead.             *)
(*                                                                         *)
(* A transaction that first updates the row it decides about (the attempt, *)
(* the output or the Timeline head) holds the write lock while it reads    *)
(* and is one step. Calls of the sink happen between transactions.         *)
(***************************************************************************)
EXTENDS Naturals, Integers, Sequences, FiniteSets

CONSTANTS
    Caller,         \* concurrent callers of the services
    FrameCount,     \* frames the output was rendered into
    MaxGeneration,  \* bound on attempts
    MaxTimeline     \* bound on Timeline events

ASSUME PresentationAssumption ==
    /\ FrameCount \in Nat \ {0}
    /\ MaxGeneration \in Nat
    /\ MaxTimeline \in Nat \ {0}

Frame == 1 .. FrameCount
Generation == 1 .. MaxGeneration

VARIABLES
    timeline,      \* kinds of the relationship's events, in sequence
    frontier,      \* Timeline frontier at which the session was opened, 0: no session
    attempt,       \* attempt_state of each generation
    transport,     \* sink_acceptance_state of each frame in each generation
    evidence,      \* generation whose receipt proves a frame presented, 0: none
    received,      \* frames known to be received by the counterpart
    terminal,      \* terminal status evidence of each generation
    interruption,  \* interruption of each generation
    told           \* extent told by the committed history, or NotTold

\* The sink, outside src/.
VARIABLES
    sinkFrame,  \* what became of each frame sent under each generation
    closed,     \* generations that the sink has finished with
    seen        \* frames shown to the counterpart, in order

VARIABLE job    \* what each caller holds in memory between two steps

durable == <<timeline, frontier, attempt, transport, evidence, received,
             terminal, interruption, told>>
sink == <<sinkFrame, closed, seen>>
vars == <<durable, sink, job>>

NotTold == -1
Idle == [op |-> "idle"]
NoStatus == [extent |-> 0, frontier |-> 0]
NoInterruption == [event |-> 0, request |-> "NONE"]

AttemptState == {"NONE", "OPEN", "UNKNOWN", "SETTLED"}
TransportState == {"NONE", "UNKNOWN", "ACCEPTED", "NOT_ACCEPTED"}
RequestState == {"NONE", "PENDING", "REQUESTED", "UNKNOWN", "NOT_REQUIRED_TERMINAL"}
EventKind == {"input", "generic", "progressive"}

Status == [extent : 0 .. FrameCount, frontier : 0 .. MaxTimeline]
Interruption == [event : 0 .. MaxTimeline, request : RequestState]

\* The output answers the input that the Timeline starts with.
Init ==
    /\ timeline = <<"input">>
    /\ frontier = 0
    /\ attempt = [g \in Generation |-> "NONE"]
    /\ transport = [g \in Generation |-> [k \in Frame |-> "NONE"]]
    /\ evidence = [k \in Frame |-> 0]
    /\ received = 0
    /\ terminal = [g \in Generation |-> NoStatus]
    /\ interruption = [g \in Generation |-> NoInterruption]
    /\ told = NotTold
    /\ sinkFrame = [g \in Generation |-> [k \in Frame |-> "none"]]
    /\ closed = {}
    /\ seen = <<>>
    /\ job = [c \in Caller |-> Idle]

-----------------------------------------------------------------------------
Opened == frontier > 0

\* Some generation of the session is interrupted.
Interrupted == \E g \in Generation : interruption[g] # NoInterruption

\* A row of progressive_presentation_timeline_lineage exists: a history of
\* no frames leaves none.
HistoryCommitted == told > 0

OutputPresented == \E i \in DOMAIN timeline : timeline[i] # "input"

\* The attempt with the highest generation, 0 before the first fence;
\* generations are numbered from 1 without a gap.
Latest == Cardinality({g \in Generation : attempt[g] # "NONE"})

\* How many frames have receipts; a reader that finds a gap among them
\* fails, and RecordMatchesSink says that there is none.
PresentedExtent == Cardinality({k \in Frame : evidence[k] > 0})

PreviousPresented(k) == k > 1 => evidence[k - 1] > 0

\* The Timeline's last sequence number, read while its head is locked, and
\* the number that the next event will get.
TimelineFrontierNext == Len(timeline) + 1
TimelineFrontier == Len(timeline)

Has(c, op) == job[c].op = op
Finish(c) == job' = [job EXCEPT ![c] = Idle]
Take(c, j) == Has(c, "idle") /\ job' = [job EXCEPT ![c] = j]

-----------------------------------------------------------------------------
(* The session, the generic path and the Timeline.                         *)

\* A later input of the counterpart is admitted.
AppendInput ==
    /\ Len(timeline) < MaxTimeline
    /\ timeline' = Append(timeline, "input")
    /\ UNCHANGED <<frontier, attempt, transport, evidence, received, terminal,
                   interruption, told, sink, job>>

\* With and without the check of the output's existing history.
OutputUnpresentedUnchecked == TRUE
OutputUnpresented == ~OutputPresented

\* open_session fences the output, and the Timeline head for its frontier.
OpenSession ==
    /\ ~Opened
    /\ OutputUnpresented
    /\ frontier' = TimelineFrontier
    /\ UNCHANGED <<timeline, attempt, transport, evidence, received, terminal,
                   interruption, told, sink, job>>

\* present_companion_output appends the whole output, unless a session owns
\* the presentation; an existing event is replayed.
PresentGeneric ==
    /\ ~Opened
    /\ ~OutputPresented
    /\ Len(timeline) < MaxTimeline
    /\ timeline' = Append(timeline, "generic")
    /\ UNCHANGED <<frontier, attempt, transport, evidence, received, terminal,
                   interruption, told, sink, job>>

-----------------------------------------------------------------------------
(* Attempts and frames.                                                    *)

\* An open attempt is settled by a frame that the sink refused for good.
SettledByRefusal(g) ==
    attempt[g] = "OPEN" /\ \E k \in Frame : transport[g][k] = "NOT_ACCEPTED"

\* The latest attempt leaves room for another one; with the second form an
\* uncertain attempt would, too.
PriorSettledOrUncertain ==
    Latest > 0 => attempt[Latest] \in {"SETTLED", "UNKNOWN"} \/ SettledByRefusal(Latest)
PriorSettled == Latest > 0 => attempt[Latest] = "SETTLED" \/ SettledByRefusal(Latest)

FenceAttempt ==
    /\ Opened /\ ~Interrupted /\ ~HistoryCommitted
    /\ PriorSettled
    /\ Latest < MaxGeneration
    /\ attempt' = [g \in Generation |->
            IF g = Latest + 1 THEN "OPEN" ELSE IF g = Latest THEN "SETTLED" ELSE attempt[g]]
    /\ UNCHANGED <<timeline, frontier, transport, evidence, received, terminal,
                   interruption, told, sink, job>>

NotInterrupted(g) == interruption[g] = NoInterruption

\* A frame follows its predecessor once that is presented, not when it is
\* only accepted.
AcceptedInOrder(k) == k > 1 => \E g \in Generation : transport[g][k - 1] = "ACCEPTED"
PresentedInOrder(k) == PreviousPresented(k)

\* dispatch_frame makes the intention durable and then sends the frame: from
\* here on it may reach the sink at any time, or never. A frame already
\* authorised in this attempt is answered from its row.
AuthorizeFrame(g, k) ==
    /\ attempt[g] = "OPEN"
    /\ evidence[k] = 0
    /\ PresentedInOrder(k)
    /\ transport[g][k] = "NONE"
    /\ NotInterrupted(g)
    /\ transport' = [transport EXCEPT ![g][k] = "UNKNOWN"]
    /\ sinkFrame' = [sinkFrame EXCEPT ![g][k] = "inFlight"]
    /\ UNCHANGED <<timeline, frontier, attempt, evidence, received, terminal,
                   interruption, told, closed, seen, job>>

\* The sink's answer is recorded, whenever it arrives, where the row is
\* still UNKNOWN; one that is lost leaves the row as it is.
TransportAnswer ==
    [accepted |-> "ACCEPTED", presented |-> "ACCEPTED", refused |-> "NOT_ACCEPTED"]

RecordTransportStatus(g, k) ==
    /\ transport[g][k] = "UNKNOWN"
    /\ sinkFrame[g][k] \in DOMAIN TransportAnswer
    /\ transport' = [transport EXCEPT ![g][k] = TransportAnswer[sinkFrame[g][k]]]
    /\ UNCHANGED <<timeline, frontier, attempt, evidence, received, terminal,
                   interruption, told, sink, job>>

\* A receipt of the sink makes a frame durably presented, in order, while
\* the attempt it was sent under is not settled.
ReceiptAdmissible(g, k) ==
    /\ transport[g][k] \in {"UNKNOWN", "ACCEPTED"}
    /\ attempt[g] # "SETTLED"
    /\ PreviousPresented(k)
RecordReceipt(g, k) ==
    /\ sinkFrame[g][k] = "presented"
    /\ evidence[k] = 0
    /\ ReceiptAdmissible(g, k)
    /\ evidence' = [evidence EXCEPT ![k] = g]
    /\ UNCHANGED <<timeline, frontier, attempt, transport, received, terminal,
                   interruption, told, sink, job>>

\* An acknowledgement of the first n frames by the counterpart. The sink's
\* own count of them is not modelled: a status either agrees with the
\* recorded one or the reconciliation fails.
ReceptionAdmissible(g, n) == attempt[g] \in {"OPEN", "UNKNOWN"} /\ n <= PresentedExtent

RecordReception(g, n) ==
    /\ ReceptionAdmissible(g, n)
    /\ received' = IF n > received THEN n ELSE received
    /\ UNCHANGED <<timeline, frontier, attempt, transport, evidence, terminal,
                   interruption, told, sink, job>>

-----------------------------------------------------------------------------
(* Reconciliation: the sink's status and the settlement.                   *)

\* A status may say that the extent is not known: committed while it names
\* exactly the recorded extents, it marks the attempt and settles nothing.
\* (An older answer passes only if a new one would.)
CommitUnknownStatus(g) ==
    /\ attempt[g] = "OPEN"
    /\ attempt' = [attempt EXCEPT ![g] = "UNKNOWN"]
    /\ UNCHANGED <<timeline, frontier, transport, evidence, received, terminal,
                   interruption, told, sink, job>>

\* Or the sink has finished with the generation and nothing of it is shown
\* later. The extents are read before the sink is asked and its status must
\* name exactly these, so both readings agree at the time of the answer. (Had
\* the sink finished earlier, it could only have left frames unshown or
\* refused, as it may in any case.)
AskTerminalStatus(c, g) ==
    /\ attempt[g] \in {"OPEN", "UNKNOWN"}
    /\ PresentedExtent = Len(seen)
    /\ closed' = closed \cup {g}
    /\ Take(c, [op |-> "settle", generation |-> g,
                presented |-> PresentedExtent, received |-> received])
    /\ UNCHANGED <<durable, sinkFrame, seen>>

\* The status is validated again under the lock of the attempt.
StatusStillExact(j) == j.presented = PresentedExtent /\ j.received = received

\* A terminal status is observed at the Timeline's locked frontier. When
\* another caller settled the attempt first, its evidence is the answer, or
\* the call fails.
CommitTerminalStatus(c) ==
    /\ Has(c, "settle")
    /\ LET g == job[c].generation
       IN  IF attempt[g] \in {"OPEN", "UNKNOWN"} /\ StatusStillExact(job[c])
           THEN /\ attempt' = [attempt EXCEPT ![g] = "SETTLED"]
                /\ terminal' = [terminal EXCEPT ![g] =
                        [extent |-> job[c].presented, frontier |-> TimelineFrontier]]
           ELSE UNCHANGED <<attempt, terminal>>
    /\ Finish(c)
    /\ UNCHANGED <<timeline, frontier, transport, evidence, received, interruption,
                   told, sink>>

-----------------------------------------------------------------------------
(* Interruption.                                                           *)

\* An input admitted after the session was opened.
CanonicalInterruption(e) == e \in DOMAIN timeline /\ timeline[e] = "input" /\ e > frontier

\* A settled attempt can only be interrupted by an input that preceded the
\* observation of its terminal status.
TerminalRaceAnyInput(g, e) ==
    g = Latest /\ ~HistoryCommitted /\ terminal[g] # NoStatus
TerminalRaceEligible(g, e) ==
    /\ g = Latest
    /\ ~HistoryCommitted
    /\ terminal[g] # NoStatus
    /\ e <= terminal[g].frontier

\* The first transaction of interrupt_attempt. An interruption that exists is
\* only continued, by the same event.
BeginInterrupt(g, e) ==
    /\ attempt[g] # "NONE"
    /\ CanonicalInterruption(e)
    /\ interruption[g] = NoInterruption
    /\ attempt[g] = "SETTLED" => TerminalRaceEligible(g, e)
    /\ interruption' = [interruption EXCEPT ![g] =
            [event |-> e,
             request |-> IF attempt[g] = "SETTLED" THEN "NOT_REQUIRED_TERMINAL" ELSE "PENDING"]]
    /\ UNCHANGED <<timeline, frontier, attempt, transport, evidence, received, terminal,
                   told, sink, job>>

\* The sink is asked to cancel; it may not agree, the call may fail, or there
\* may be no adapter that can ask.
RequestCancellation(c, g, acknowledged) ==
    /\ interruption[g].request \in {"PENDING", "UNKNOWN"}
    /\ Take(c, [op |-> "note", generation |-> g, acknowledged |-> acknowledged])
    /\ UNCHANGED <<durable, sink>>

\* The second transaction keeps what is already certain.
CancellationStateLatest(current, acknowledged) ==
    IF acknowledged THEN "REQUESTED" ELSE "UNKNOWN"
CancellationState(current, acknowledged) ==
    IF current \in {"REQUESTED", "NOT_REQUIRED_TERMINAL"} THEN current
    ELSE IF acknowledged THEN "REQUESTED" ELSE "UNKNOWN"

CommitInterrupt(c) ==
    /\ Has(c, "note")
    /\ interruption' = [interruption EXCEPT ![job[c].generation].request =
            CancellationState(@, job[c].acknowledged)]
    /\ Finish(c)
    /\ UNCHANGED <<timeline, frontier, attempt, transport, evidence, received, terminal,
                   told, sink>>

-----------------------------------------------------------------------------
(* History.                                                                *)

\* The history of the latest, terminally settled attempt tells the presented
\* prefix; a partial one needs the interruption that ended the attempt, and
\* an empty one leaves no Timeline event.
HistoryProvable(g) ==
    /\ attempt[g] = "SETTLED"
    /\ g = Latest
    /\ terminal[g] # NoStatus
    /\ terminal[g].extent = PresentedExtent
    /\ PresentedExtent < FrameCount => interruption[g] # NoInterruption

CommitHistory(g) ==
    /\ HistoryProvable(g)
    /\ told = NotTold
    /\ IF PresentedExtent = 0
       THEN UNCHANGED timeline
       ELSE /\ ~OutputPresented
            /\ Len(timeline) < MaxTimeline
            /\ timeline' = Append(timeline, "progressive")
    /\ told' = PresentedExtent
    /\ UNCHANGED <<frontier, attempt, transport, evidence, received, terminal,
                   interruption, sink, job>>

\* A caller dies, or its call to the sink fails or times out.
Abandon(c) ==
    /\ ~Has(c, "idle")
    /\ Finish(c)
    /\ UNCHANGED <<durable, sink>>

-----------------------------------------------------------------------------
(* The first-party sink and the counterpart, outside src/.                 *)

SinkAccepts(g, k) ==
    /\ sinkFrame[g][k] = "inFlight"
    /\ g \notin closed
    /\ sinkFrame' = [sinkFrame EXCEPT ![g][k] = "accepted"]
    /\ UNCHANGED <<durable, closed, seen, job>>

\* Refusal is final; a closed generation takes nothing any more.
SinkRefuses(g, k) ==
    /\ sinkFrame[g][k] = "inFlight"
    /\ sinkFrame' = [sinkFrame EXCEPT ![g][k] = "refused"]
    /\ UNCHANGED <<durable, closed, seen, job>>

SinkPresents(g, k) ==
    /\ sinkFrame[g][k] = "accepted"
    /\ g \notin closed
    /\ sinkFrame' = [sinkFrame EXCEPT ![g][k] = "presented"]
    /\ seen' = Append(seen, k)
    /\ UNCHANGED <<durable, closed, job>>

-----------------------------------------------------------------------------
\* The steps of callers that hold nothing in memory afterwards.
ServiceStep ==
    \/ OpenSession \/ PresentGeneric \/ FenceAttempt
    \/ \E g \in Generation :
        \/ CommitUnknownStatus(g) \/ CommitHistory(g)
        \/ \E k \in Frame :
            AuthorizeFrame(g, k) \/ RecordTransportStatus(g, k) \/ RecordReceipt(g, k)
        \/ \E n \in Frame : RecordReception(g, n)
        \/ \E e \in 1 .. MaxTimeline : BeginInterrupt(g, e)

CallerStep(c) ==
    \/ CommitTerminalStatus(c) \/ CommitInterrupt(c) \/ Abandon(c)
    \/ \E g \in Generation :
        \/ AskTerminalStatus(c, g)
        \/ \E a \in BOOLEAN : RequestCancellation(c, g, a)

SinkStep ==
    \E g \in Generation, k \in Frame :
        SinkAccepts(g, k) \/ SinkRefuses(g, k) \/ SinkPresents(g, k)

Next == AppendInput \/ ServiceStep \/ SinkStep \/ \E c \in Caller : CallerStep(c)

Spec == Init /\ [][Next]_vars

-----------------------------------------------------------------------------
(* Properties.                                                             *)

\* Every variable has its type; sequences are bounded.
TypeOK ==
    /\ timeline \in Seq(EventKind) /\ Len(timeline) \in 1 .. MaxTimeline
    /\ frontier \in 0 .. MaxTimeline
    /\ attempt \in [Generation -> AttemptState]
    /\ transport \in [Generation -> [Frame -> TransportState]]
    /\ evidence \in [Frame -> 0 .. MaxGeneration]
    /\ received \in 0 .. FrameCount
    /\ terminal \in [Generation -> Status]
    /\ interruption \in [Generation -> Interruption]
    /\ told \in NotTold .. FrameCount
    /\ sinkFrame \in [Generation -> [Frame ->
            {"none", "inFlight", "accepted", "refused", "presented"}]]
    /\ closed \subseteq Generation
    /\ seen \in Seq(Frame)
    /\ \A c \in Caller : job[c].op \in {"idle", "settle", "note"}

\* The durable record never runs ahead of the sink and lags it by one frame
\* at most: receipts form the prefix that was really shown, a recorded
\* refusal or settlement is final at the sink, nothing unpresented is received, and
\* only one attempt is ever unsettled. Progressive dispatch, receipts,
\* reception and reconciliation interleave with a sink that acts on its own.
RecordMatchesSink ==
    /\ \A k \in Frame : evidence[k] > 0 =>
            sinkFrame[evidence[k]][k] = "presented" /\ PreviousPresented(k)
    /\ Len(seen) <= PresentedExtent + 1
    /\ received <= PresentedExtent
    /\ \A g \in Generation :
            /\ \A k \in Frame :
                /\ transport[g][k] = "NOT_ACCEPTED" => sinkFrame[g][k] = "refused"
                /\ transport[g][k] = "ACCEPTED" => sinkFrame[g][k] \in {"accepted", "presented"}
            /\ terminal[g] # NoStatus => attempt[g] = "SETTLED" /\ g \in closed
            /\ attempt[g] \in {"OPEN", "UNKNOWN"} => g = Latest

\* The output enters the Timeline once, by one of its two paths: whatever
\* open_session, present_companion_output and commit_presentation_history
\* race for, a generically presented output has no session, and so no frame.
OneCanonicalPresentation ==
    /\ \A i, j \in DOMAIN timeline :
            timeline[i] # "input" /\ timeline[j] # "input" => i = j
    /\ \A i \in DOMAIN timeline : timeline[i] = "generic" => ~Opened /\ seen = <<>>

\* An interruption lies inside the presentation it interrupts: it is an input
\* admitted after the session was opened and before the terminal status was
\* observed, and a session has one at most, of its last attempt.
InterruptionInWindow ==
    \A g \in Generation : interruption[g] # NoInterruption =>
        /\ timeline[interruption[g].event] = "input"
        /\ frontier < interruption[g].event
        /\ terminal[g] # NoStatus => interruption[g].event <= terminal[g].frontier
        /\ g = Latest
        /\ \A h \in Generation : interruption[h] # NoInterruption => h = g

\* From an interruption on nothing more is authorised for the output: no
\* frame, no attempt, and the interruption keeps its event and whatever is
\* certain about its cancellation (interrupt_attempt, dispatch_frame and
\* fence_attempt race on one attempt).
InterruptedForGood ==
    /\ Interrupted => \A g \in Generation :
            /\ attempt'[g] = "NONE" <=> attempt[g] = "NONE"
            /\ \A k \in Frame : transport'[g][k] = "NONE" <=> transport[g][k] = "NONE"
    /\ \A g \in Generation : interruption[g] # NoInterruption =>
            /\ interruption'[g].event = interruption[g].event
            /\ interruption[g].request \in {"REQUESTED", "NOT_REQUIRED_TERMINAL"} =>
                    interruption'[g].request = interruption[g].request
InterruptionIsFinal == [][InterruptedForGood]_vars

\* Whatever is lost, retried, interrupted or reconciled, the counterpart sees
\* the frames in order and once, and history tells exactly what was seen.
Prefix == INSTANCE PresentedPrefix
ImplementsPrefix == Prefix!Spec
=============================================================================
