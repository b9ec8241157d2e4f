-------------------- MODULE ProgressivePresentationProofs --------------------
(***************************************************************************)
(* Theorems about ProgressivePresentation, for any number of callers,      *)
(* frames, attempts and Timeline events.  The argument: receipts are the   *)
(* prefix 1 .. PresentedExtent and only the frame after it can be shown    *)
(* without one, by the one attempt that is not settled and not closed; an  *)
(* attempt that is settled has nothing left that the sink could still      *)
(* show.  So the sink shows the frames in order, and when history tells    *)
(* the extent nothing of the output can follow.                            *)
(***************************************************************************)
EXTENDS ProgressivePresentation, NumberedRows

Job ==
    {Idle} \cup [op : {"settle"}, generation : Generation,
                 presented : 0 .. FrameCount, received : 0 .. FrameCount]
           \cup [op : {"note"}, generation : Generation, acknowledged : BOOLEAN]

Started == {g \in Generation : attempt[g] # "NONE"}
Unsettled == {"OPEN", "UNKNOWN"}

\* Attempts are numbered without gaps, and only the last one is not settled.
Attempts ==
    /\ Started = 1 .. Latest
    /\ \A g \in Generation : attempt[g] \in Unsettled => g = Latest
    /\ Started # {} => Opened
    /\ closed \subseteq Started
    /\ \A g \in Generation : terminal[g] # NoStatus => attempt[g] = "SETTLED" /\ g \in closed

\* What the records say of a frame sent under an attempt, and what the sink may do with it.
FrameSent(g, k) ==
    /\ transport[g][k] = "NONE" <=> sinkFrame[g][k] = "none"
    /\ transport[g][k] = "NOT_ACCEPTED" => sinkFrame[g][k] = "refused"
    /\ transport[g][k] = "ACCEPTED" => sinkFrame[g][k] \in {"accepted", "presented"}
    /\ sinkFrame[g][k] # "none" => attempt[g] # "NONE" /\ PreviousPresented(k)
    /\ sinkFrame[g][k] # "none" /\ evidence[k] > 0 => evidence[k] >= g
    /\ sinkFrame[g][k] \in {"inFlight", "accepted"} /\ attempt[g] = "SETTLED" => g \in closed
    /\ sinkFrame[g][k] = "presented" /\ evidence[k] = 0 =>
            attempt[g] \in Unsettled /\ g \notin closed

Frames == \A g \in Generation, k \in Frame : FrameSent(g, k)

Receipts == {k \in Frame : evidence[k] > 0}

\* Receipts are a prefix and each is of a frame that was shown.
Evidence ==
    /\ Receipts = 1 .. PresentedExtent
    /\ \A k \in Receipts : sinkFrame[evidence[k]][k] = "presented"
    /\ received <= PresentedExtent

\* The counterpart has seen the frames in order, each once.
Sight ==
    /\ \A i \in 1 .. Len(seen) : seen[i] = i
    /\ \A k \in Frame :
            k <= Len(seen) <=> \E g \in Generation : sinkFrame[g][k] = "presented"

\* When history has told the extent, no attempt goes on and none can follow.
Telling ==
    told # NotTold =>
        /\ told = Len(seen)
        /\ \A g \in Generation : attempt[g] \notin Unsettled
        /\ told > 0 \/ Interrupted

Paths ==
    /\ \A i, j \in DOMAIN timeline :
            timeline[i] # "input" /\ timeline[j] # "input" => i = j
    /\ \A i \in DOMAIN timeline : timeline[i] = "generic" => ~ Opened

Windows ==
    \A g \in Generation :
        /\ interruption[g].event = 0 => interruption[g] = NoInterruption
        /\ interruption[g].event # 0 =>
            /\ g = Latest
            /\ interruption[g].event \in DOMAIN timeline
            /\ timeline[interruption[g].event] = "input"
            /\ frontier < interruption[g].event
            /\ terminal[g] # NoStatus => interruption[g].event <= terminal[g].frontier

\* What a caller holds in memory is true of the records and of the sink.
Holds(c) ==
    /\ Has(c, "settle") => job[c].generation \in closed
    /\ Has(c, "note") => interruption[job[c].generation].event # 0

Memory == job \in [Caller -> Job] /\ \A c \in Caller : Holds(c)

IInv ==
    /\ TypeOK /\ Attempts /\ Frames /\ Evidence /\ Sight /\ Telling /\ Paths
    /\ Windows /\ Memory

-----------------------------------------------------------------------------
(* What the parts of the invariant say. *)

LEMMA Bounds ==
  /\ FrameCount \in Nat \ {0} /\ MaxGeneration \in Nat /\ MaxTimeline \in Nat \ {0}
BY PresentationAssumption

SinkState == {"none", "inFlight", "accepted", "refused", "presented"}

LEMMA Typed ==
  ASSUME TypeOK
  PROVE  /\ timeline \in Seq(EventKind) /\ Len(timeline) \in 1 .. MaxTimeline
         /\ attempt \in [Generation -> AttemptState]
         /\ transport \in [Generation -> [Frame -> TransportState]]
         /\ evidence \in [Frame -> 0 .. MaxGeneration]
         /\ terminal \in [Generation -> Status]
         /\ interruption \in [Generation -> Interruption]
         /\ sinkFrame \in [Generation -> [Frame -> SinkState]]
         /\ seen \in Seq(Frame)
BY DEF TypeOK, SinkState

\* A caller's memory has its type when it is a job.
LEMMA JobOps == ASSUME NEW j \in Job PROVE j.op \in {"idle", "settle", "note"}
BY DEF Job, Idle

\* The latest attempt is the last that was started.
LEMMA LatestFacts ==
  ASSUME Attempts
  PROVE  /\ Latest \in 0 .. MaxGeneration
         /\ \A g \in Generation : attempt[g] # "NONE" <=> g <= Latest
<1>1. Started \subseteq 1 .. MaxGeneration /\ Latest = Cardinality(Started)
  BY DEF Started, Generation, Latest
<1>2. Latest \in Nat /\ Latest <= MaxGeneration
  <2>1. Started = 1 .. Cardinality(Started)
    BY <1>1 DEF Attempts
  <2>2. Cardinality(Started) \in Nat /\ Cardinality(Started) <= MaxGeneration
    BY <1>1, <2>1, NextRow, Bounds
  <2> QED
    BY <1>1, <2>2
<1>3. Latest \in 0 .. MaxGeneration
  BY <1>2, Bounds
<1>4. \A g \in Generation : attempt[g] # "NONE" <=> g \in 1 .. Latest
  BY DEF Attempts, Started
<1>5. \A g \in Generation : g \in 1 .. Latest <=> g <= Latest
  BY <1>3, Bounds DEF Generation
<1> QED
  BY <1>3, <1>4, <1>5

\* The frames that have receipts are the first ones.
LEMMA ExtentFacts ==
  ASSUME TypeOK, Evidence
  PROVE  /\ PresentedExtent \in 0 .. FrameCount
         /\ \A k \in Frame : evidence[k] > 0 <=> k <= PresentedExtent
         /\ \A k \in Frame : evidence[k] = 0 <=> k > PresentedExtent
<1>1. Receipts \subseteq 1 .. FrameCount /\ PresentedExtent = Cardinality(Receipts)
  BY DEF Receipts, Frame, PresentedExtent
<1>2. PresentedExtent \in Nat /\ PresentedExtent <= FrameCount
  <2>1. Receipts = 1 .. Cardinality(Receipts)
    BY <1>1 DEF Evidence
  <2>2. Cardinality(Receipts) \in Nat /\ Cardinality(Receipts) <= FrameCount
    BY <1>1, <2>1, NextRow, Bounds
  <2> QED
    BY <1>1, <2>2
<1>3. PresentedExtent \in 0 .. FrameCount
  BY <1>2, Bounds
<1>4. \A k \in Frame : evidence[k] > 0 <=> k \in 1 .. PresentedExtent
  BY DEF Evidence, Receipts
<1>5. \A k \in Frame : k \in 1 .. PresentedExtent <=> k <= PresentedExtent
  BY <1>3, Bounds DEF Frame
<1>6. \A k \in Frame : evidence[k] \in 0 .. MaxGeneration
  BY Typed
<1>7. \A k \in Frame : evidence[k] = 0 <=> ~ evidence[k] > 0
  BY <1>6, Bounds
<1>8. \A k \in Frame : k > PresentedExtent <=> ~ k <= PresentedExtent
  BY <1>3, Bounds DEF Frame
<1> QED
  BY <1>3, <1>4, <1>5, <1>7, <1>8

\* Only the frame after those with receipts can have been sent without one.
LEMMA NextFrame ==
  ASSUME TypeOK, Evidence, NEW k \in Frame, PreviousPresented(k), evidence[k] = 0
  PROVE  k = PresentedExtent + 1
<1>1. PresentedExtent \in 0 .. FrameCount /\ k > PresentedExtent
  BY ExtentFacts
<1>2. CASE k = 1
  BY <1>1, <1>2, Bounds
<1>3. CASE k # 1
  <2>1. k - 1 \in Frame /\ evidence[k - 1] > 0
    BY <1>3, Bounds DEF Frame, PreviousPresented
  <2>2. k - 1 <= PresentedExtent
    BY <2>1, ExtentFacts
  <2> QED
    BY <1>1, <2>2, Bounds DEF Frame
<1> QED
  BY <1>2, <1>3

\* The receipts lag what was shown by one frame at most.
LEMMA SeenFacts ==
  ASSUME TypeOK, Frames, Evidence, Sight
  PROVE  /\ Len(seen) \in 0 .. FrameCount
         /\ PresentedExtent <= Len(seen) /\ Len(seen) <= PresentedExtent + 1
<1>1. PresentedExtent \in 0 .. FrameCount
  BY ExtentFacts
<1>2. Len(seen) \in Nat /\ seen \in [1 .. Len(seen) -> Frame]
  BY Typed
<1>3. Len(seen) \in 0 .. FrameCount
  <2>1. CASE Len(seen) = 0
    BY <2>1, Bounds
  <2>2. CASE Len(seen) # 0
    <3>1. Len(seen) \in 1 .. Len(seen)
      BY <1>2, <2>2
    <3>2. Len(seen) \in Frame
      BY <1>2, <3>1 DEF Sight
    <3> QED
      BY <3>2, Bounds DEF Frame
  <2> QED
    BY <2>1, <2>2
<1>4. PresentedExtent <= Len(seen)
  <2>1. CASE PresentedExtent = 0
    BY <1>3, <2>1, Bounds
  <2>2. CASE PresentedExtent # 0
    <3>1. PresentedExtent \in Frame
      BY <1>1, <2>2, Bounds DEF Frame
    <3>2. PICK k \in Frame : k = PresentedExtent
      BY <3>1
    <3>3. evidence[k] > 0 /\ evidence[k] \in 0 .. MaxGeneration
      BY <1>1, <3>2, ExtentFacts, Typed, Bounds
    <3>4. evidence[k] \in Generation /\ sinkFrame[evidence[k]][k] = "presented"
      BY <3>3, Bounds DEF Evidence, Receipts, Generation
    <3>5. k <= Len(seen)
      BY <3>4 DEF Sight
    <3> QED
      BY <3>2, <3>5
  <2> QED
    BY <2>1, <2>2
<1>5. Len(seen) <= PresentedExtent + 1
  <2> SUFFICES ASSUME Len(seen) > PresentedExtent + 1 PROVE FALSE
    BY <1>1, <1>3, Bounds
  <2>1. PICK k \in Frame : k = Len(seen)
    BY <1>1, <1>3, Bounds DEF Frame
  <2>2. PICK g \in Generation : sinkFrame[g][k] = "presented"
    BY <2>1, <1>3 DEF Sight
  <2>3. evidence[k] = 0
    BY <1>1, <2>1, ExtentFacts, Bounds DEF Frame
  <2>4. PreviousPresented(k)
    BY <2>2 DEF Frames, FrameSent
  <2>5. k = PresentedExtent + 1
    BY <2>3, <2>4, NextFrame
  <2> QED
    BY <1>1, <2>1, <2>5, Bounds
<1> QED
  BY <1>3, <1>4, <1>5

\* A frame that was shown without a receipt is the next, and the attempt that showed it
\* can still get one.
LEMMA CaughtUp ==
  ASSUME TypeOK, Frames, Evidence, Sight,
         \A g \in Generation : attempt[g] \in Unsettled => g \in closed
  PROVE  Len(seen) = PresentedExtent
<1>1. /\ PresentedExtent \in 0 .. FrameCount /\ Len(seen) \in 0 .. FrameCount
      /\ PresentedExtent <= Len(seen)
  BY ExtentFacts, SeenFacts
<1> SUFFICES ASSUME Len(seen) > PresentedExtent PROVE FALSE
  BY <1>1, Bounds
<1>2. PICK k \in Frame : k = Len(seen)
  BY <1>1, Bounds DEF Frame
<1>3. PICK g \in Generation : sinkFrame[g][k] = "presented"
  BY <1>1, <1>2 DEF Sight
<1>4. evidence[k] = 0
  BY <1>1, <1>2, ExtentFacts
<1> QED
  BY <1>3, <1>4 DEF Frames, FrameSent

-----------------------------------------------------------------------------
(* What a step keeps of the invariant, by what it leaves alone. *)

LEMMA AttemptsKept ==
  ASSUME Attempts, UNCHANGED <<attempt, closed, terminal>>, Opened => Opened'
  PROVE  Attempts' /\ Latest' = Latest
<1>1. Started' = Started /\ Latest' = Latest
  BY DEF Started, Latest
<1> QED
  BY <1>1 DEF Attempts

LEMMA FramesKept ==
  ASSUME Frames, UNCHANGED <<transport, sinkFrame, evidence, attempt, closed>>
  PROVE  Frames'
BY DEF Frames, FrameSent, PreviousPresented

LEMMA EvidenceKept ==
  ASSUME Evidence, UNCHANGED <<evidence, sinkFrame, received>>
  PROVE  Evidence' /\ PresentedExtent' = PresentedExtent
<1>1. Receipts' = Receipts /\ PresentedExtent' = PresentedExtent
  BY DEF Receipts, PresentedExtent
<1> QED
  BY <1>1 DEF Evidence

LEMMA SightKept == ASSUME Sight, UNCHANGED <<seen, sinkFrame>> PROVE Sight'
BY DEF Sight

LEMMA TellingKept ==
  ASSUME Telling, UNCHANGED <<told, seen, attempt>>, Interrupted => Interrupted'
  PROVE  Telling'
BY DEF Telling

LEMMA PathsKept == ASSUME Paths, UNCHANGED <<timeline, frontier>> PROVE Paths'
BY DEF Paths, Opened

LEMMA WindowsKept ==
  ASSUME Windows, UNCHANGED <<interruption, frontier, terminal, timeline, attempt>>
  PROVE  Windows'
<1>1. Latest' = Latest
  BY DEF Latest
<1> QED
  BY <1>1 DEF Windows

LEMMA HoldsKept ==
  ASSUME NEW c \in Caller, Holds(c), job'[c] = job[c], closed \subseteq closed',
         \A g : interruption[g].event # 0 => interruption'[g].event # 0
  PROVE  Holds(c)'
BY DEF Holds, Has

LEMMA MemoryKept ==
  ASSUME Memory, UNCHANGED <<job, closed, interruption>> PROVE Memory'
BY DEF Memory, Holds, Has

LEMMA InterruptedKept == ASSUME UNCHANGED interruption PROVE Interrupted => Interrupted'
BY DEF Interrupted

\* An event is appended to the Timeline.
LEMMA Appended ==
  ASSUME TypeOK, NEW kind \in EventKind, Len(timeline) < MaxTimeline,
         timeline' = Append(timeline, kind)
  PROVE  /\ timeline' \in Seq(EventKind) /\ Len(timeline') \in 1 .. MaxTimeline
         /\ DOMAIN timeline = 1 .. Len(timeline)
         /\ DOMAIN timeline' = 1 .. Len(timeline) + 1
         /\ timeline'[Len(timeline) + 1] = kind
         /\ \A i \in DOMAIN timeline : i \in DOMAIN timeline' /\ timeline'[i] = timeline[i]
<1>1. timeline \in Seq(EventKind) /\ Len(timeline) \in 1 .. MaxTimeline
  BY Typed
<1> QED
  BY <1>1, Bounds

LEMMA WindowsAppended ==
  ASSUME TypeOK, Windows, NEW kind \in EventKind, Len(timeline) < MaxTimeline,
         timeline' = Append(timeline, kind),
         UNCHANGED <<interruption, frontier, terminal, attempt>>
  PROVE  Windows'
<1>1. Latest' = Latest
  BY DEF Latest
<1>2. \A i \in DOMAIN timeline : i \in DOMAIN timeline' /\ timeline'[i] = timeline[i]
  BY Appended
<1> QED
  BY <1>1, <1>2 DEF Windows

\* The output has no event in the Timeline, so one may be appended.
LEMMA PathsAppended ==
  ASSUME TypeOK, Paths, NEW kind \in EventKind, Len(timeline) < MaxTimeline,
         timeline' = Append(timeline, kind), UNCHANGED frontier,
         kind = "input" \/ ~ OutputPresented, kind = "generic" => ~ Opened
  PROVE  Paths'
<1>1. /\ DOMAIN timeline = 1 .. Len(timeline) /\ DOMAIN timeline' = 1 .. Len(timeline) + 1
      /\ timeline'[Len(timeline) + 1] = kind
      /\ \A i \in DOMAIN timeline : timeline'[i] = timeline[i]
      /\ Len(timeline) \in Nat
  BY Appended, Typed
<1>2. PICK n : n = Len(timeline)
  OBVIOUS
<1>3. \A i \in DOMAIN timeline' : i \in DOMAIN timeline \/ i = n + 1
  BY <1>1, <1>2
<1>4. Opened' <=> Opened
  BY DEF Opened
<1>5. ASSUME NEW i \in DOMAIN timeline', timeline'[i] = "generic" PROVE ~ Opened'
  BY <1>1, <1>2, <1>3, <1>4, <1>5 DEF Paths
<1>6. ASSUME NEW i \in DOMAIN timeline', NEW j \in DOMAIN timeline',
             timeline'[i] # "input", timeline'[j] # "input"
      PROVE  i = j
  <2>1. CASE kind = "input"
    <3>1. i \in DOMAIN timeline /\ j \in DOMAIN timeline
      BY <1>1, <1>2, <1>3, <1>6, <2>1
    <3> QED
      BY <1>1, <1>6, <3>1 DEF Paths
  <2>2. CASE ~ OutputPresented
    <3>1. i = n + 1 /\ j = n + 1
      BY <1>1, <1>3, <1>6, <2>2 DEF OutputPresented
    <3> QED
      BY <3>1
  <2> QED
    BY <2>1, <2>2
<1> QED
  BY <1>5, <1>6 DEF Paths

-----------------------------------------------------------------------------
(* The initial state. *)

LEMMA InitInv == Init => IInv
<1> SUFFICES ASSUME Init PROVE IInv
  OBVIOUS
<1> USE DEF Init
<1>1. NoStatus \in Status /\ NoInterruption \in Interruption
  BY Bounds DEF NoStatus, Status, NoInterruption, Interruption, RequestState
<1>2. TypeOK
  <2>1. /\ timeline \in Seq(EventKind) /\ Len(timeline) \in 1 .. MaxTimeline
    BY Bounds DEF EventKind
  <2>2. /\ attempt \in [Generation -> AttemptState]
        /\ transport \in [Generation -> [Frame -> TransportState]]
        /\ sinkFrame \in [Generation -> [Frame ->
              {"none", "inFlight", "accepted", "refused", "presented"}]]
    BY DEF AttemptState, TransportState
  <2>3. evidence \in [Frame -> 0 .. MaxGeneration]
    BY Bounds
  <2>4. terminal \in [Generation -> Status] /\ interruption \in [Generation -> Interruption]
    BY <1>1
  <2>5. /\ frontier \in 0 .. MaxTimeline /\ received \in 0 .. FrameCount
        /\ told \in NotTold .. FrameCount
    BY Bounds DEF NotTold
  <2>6. closed \subseteq Generation /\ seen \in Seq(Frame)
    OBVIOUS
  <2>7. \A c \in Caller : job[c].op \in {"idle", "settle", "note"}
    BY DEF Idle
  <2> HIDE DEF Init
  <2> QED
    BY <2>1, <2>2, <2>3, <2>4, <2>5, <2>6, <2>7 DEF TypeOK
<1>3. Cardinality({}) = 0 /\ 1 .. 0 = {}
  BY FS_EmptySet
<1>4. Attempts
  <2>1. Started = {} /\ Latest = Cardinality(Started)
    BY DEF Started, Latest
  <2> QED
    BY <1>3, <2>1 DEF Attempts, Unsettled
<1>5. Frames
  BY DEF Frames, FrameSent
<1>6. Evidence
  <2>1. Receipts = {} /\ PresentedExtent = Cardinality(Receipts)
    BY DEF Receipts, PresentedExtent
  <2> QED
    BY <1>3, <2>1 DEF Evidence
<1>7. Sight
  <2>1. Len(seen) = 0 /\ \A k \in Frame : ~ k <= 0
    BY Bounds DEF Frame
  <2> QED
    BY <2>1 DEF Sight
<1>8. Telling /\ Paths /\ Windows
  <2>1. \A i \in DOMAIN timeline : timeline[i] = "input"
    OBVIOUS
  <2>2. Paths
    BY <2>1 DEF Paths
  <2>3. Telling /\ Windows
    BY DEF Telling, Windows, NoInterruption
  <2> QED
    BY <2>2, <2>3
<1>9. Memory
  BY DEF Memory, Job, Holds, Has, Idle
<1> QED
  BY <1>2, <1>4, <1>5, <1>6, <1>7, <1>8, <1>9 DEF IInv

-----------------------------------------------------------------------------
(* The session, the generic path and the Timeline. *)

LEMMA AppendInputStep == ASSUME IInv, AppendInput PROVE IInv'
<1> USE DEF IInv
<1>1. /\ "input" \in EventKind /\ Len(timeline) < MaxTimeline
      /\ timeline' = Append(timeline, "input")
      /\ UNCHANGED <<frontier, attempt, transport, evidence, received, terminal,
                     interruption, told, sinkFrame, closed, seen, job>>
  BY DEF AppendInput, EventKind, sink
<1>2. TypeOK'
  BY <1>1, Appended DEF TypeOK
<1>3. Attempts'
  BY <1>1, AttemptsKept DEF Opened
<1>4. Frames' /\ Evidence' /\ Sight'
  BY <1>1, FramesKept, EvidenceKept, SightKept
<1>5. Telling' /\ Memory'
  BY <1>1, InterruptedKept, TellingKept, MemoryKept
<1>6. Paths' /\ Windows'
  BY <1>1, PathsAppended, WindowsAppended
<1> QED
  BY <1>2, <1>3, <1>4, <1>5, <1>6

\* Without a session nothing was started, and nothing interrupted.
LEMMA Unopened ==
  ASSUME IInv, ~ Opened
  PROVE  /\ \A g \in Generation : attempt[g] = "NONE" /\ interruption[g].event = 0
         /\ Len(seen) = 0
<1>1. \A g \in Generation : attempt[g] = "NONE"
  BY DEF IInv, Attempts, Started
<1>2. \A g \in Generation : interruption[g].event = 0
  <2> SUFFICES ASSUME NEW g \in Generation, interruption[g].event # 0 PROVE FALSE
    OBVIOUS
  <2>1. g = Latest
    BY DEF IInv, Windows
  <2>2. attempt[g] # "NONE"
    BY <2>1, LatestFacts, Bounds DEF IInv, Generation
  <2> QED
    BY <1>1, <2>2
<1>3. Len(seen) = 0
  <2>1. Len(seen) \in 0 .. FrameCount
    BY SeenFacts DEF IInv
  <2> SUFFICES ASSUME Len(seen) # 0 PROVE FALSE
    OBVIOUS
  <2>2. 1 \in Frame /\ 1 <= Len(seen)
    BY <2>1, Bounds DEF Frame
  <2>3. PICK g \in Generation : sinkFrame[g][1] = "presented"
    BY <2>2 DEF IInv, Sight
  <2>4. attempt[g] # "NONE"
    BY <2>2, <2>3 DEF IInv, Frames, FrameSent
  <2> QED
    BY <1>1, <2>4
<1> QED
  BY <1>1, <1>2, <1>3

LEMMA OpenSessionStep == ASSUME IInv, OpenSession PROVE IInv'
<1> USE DEF IInv
<1>1. /\ ~ Opened /\ ~ OutputPresented /\ frontier' = Len(timeline)
      /\ UNCHANGED <<timeline, attempt, transport, evidence, received, terminal,
                     interruption, told, sinkFrame, closed, seen, job>>
  BY DEF OpenSession, OutputUnpresented, TimelineFrontier, sink
<1>2. Len(timeline) \in 1 .. MaxTimeline
  BY Typed
<1>3. frontier' \in 0 .. MaxTimeline /\ Opened'
  BY <1>1, <1>2, Bounds DEF Opened
<1>4. TypeOK'
  BY <1>1, <1>3 DEF TypeOK
<1>5. Attempts'
  BY <1>1, <1>3, AttemptsKept
<1>6. Frames' /\ Evidence' /\ Sight'
  BY <1>1, FramesKept, EvidenceKept, SightKept
<1>7. Telling' /\ Memory'
  BY <1>1, InterruptedKept, TellingKept, MemoryKept
<1>8. Paths'
  BY <1>1 DEF Paths, OutputPresented
<1>9. Windows'
  <2>1. \A g \in Generation : interruption[g].event = 0
    BY <1>1, Unopened
  <2> QED
    BY <1>1, <2>1 DEF Windows
<1> QED
  BY <1>4, <1>5, <1>6, <1>7, <1>8, <1>9

LEMMA PresentGenericStep == ASSUME IInv, PresentGeneric PROVE IInv'
<1> USE DEF IInv
<1>1. /\ "generic" \in EventKind /\ Len(timeline) < MaxTimeline
      /\ ~ Opened /\ ~ OutputPresented
      /\ timeline' = Append(timeline, "generic")
      /\ UNCHANGED <<frontier, attempt, transport, evidence, received, terminal,
                     interruption, told, sinkFrame, closed, seen, job>>
  BY DEF PresentGeneric, EventKind, sink
<1>2. TypeOK'
  BY <1>1, Appended DEF TypeOK
<1>3. Attempts'
  BY <1>1, AttemptsKept DEF Opened
<1>4. Frames' /\ Evidence' /\ Sight'
  BY <1>1, FramesKept, EvidenceKept, SightKept
<1>5. Telling' /\ Memory'
  BY <1>1, InterruptedKept, TellingKept, MemoryKept
<1>6. Paths' /\ Windows'
  BY <1>1, PathsAppended, WindowsAppended
<1> QED
  BY <1>2, <1>3, <1>4, <1>5, <1>6

-----------------------------------------------------------------------------
(* Attempts and frames. *)

\* The interrupted attempt, if any, is named by its event.
LEMMA NotInterruptedFacts ==
  ASSUME IInv, ~ Interrupted, NEW g \in Generation
  PROVE  interruption[g].event = 0
BY DEF Interrupted, NoInterruption

\* An attempt of which a frame was refused has nothing left that the sink could show,
\* and nothing that it showed without a receipt.
LEMMA RefusedAttempt ==
  ASSUME IInv, NEW g \in Generation, g = Latest, SettledByRefusal(g), NEW k \in Frame
  PROVE  /\ sinkFrame[g][k] \notin {"inFlight", "accepted"}
         /\ ~ (sinkFrame[g][k] = "presented" /\ evidence[k] = 0)
<1>1. PICK r \in Frame : transport[g][r] = "NOT_ACCEPTED"
  BY DEF SettledByRefusal
<1>2. sinkFrame[g][r] = "refused" /\ PreviousPresented(r) /\ attempt[g] = "OPEN"
  BY <1>1 DEF SettledByRefusal, IInv, Frames, FrameSent
<1>3. \A n \in Frame : sinkFrame[g][n] # "none" /\ evidence[n] > 0 => sinkFrame[g][n] = "presented"
  <2> SUFFICES ASSUME NEW n \in Frame, sinkFrame[g][n] # "none", evidence[n] > 0
               PROVE  sinkFrame[g][n] = "presented"
    OBVIOUS
  <2>1. PICK h : h = evidence[n]
    OBVIOUS
  <2>2. h \in 0 .. MaxGeneration /\ h > 0 /\ h >= g
    BY <2>1, Typed DEF IInv, Frames, FrameSent
  <2>3. h \in Generation /\ sinkFrame[h][n] = "presented"
    BY <2>1, <2>2, Bounds DEF Generation, IInv, Evidence, Receipts
  <2>4. attempt[h] # "NONE"
    BY <2>3 DEF IInv, Frames, FrameSent
  <2>5. h <= Latest
    BY <2>3, <2>4, LatestFacts DEF IInv
  <2>6. h = g
    BY <2>2, <2>5, Bounds DEF Generation
  <2> QED
    BY <2>3, <2>6
<1>4. evidence[r] = 0
  <2>1. evidence[r] \in 0 .. MaxGeneration
    BY Typed DEF IInv
  <2>2. ~ evidence[r] > 0
    BY <1>2, <1>3
  <2> QED
    BY <2>1, <2>2, Bounds
<1>5. r = PresentedExtent + 1
  BY <1>2, <1>4, NextFrame DEF IInv
<1>6. ASSUME sinkFrame[g][k] # "none", evidence[k] = 0 PROVE k = r
  <2>1. PreviousPresented(k)
    BY <1>6 DEF IInv, Frames, FrameSent
  <2> QED
    BY <1>5, <1>6, <2>1, NextFrame DEF IInv
<1>7. evidence[k] = 0 \/ evidence[k] > 0
  <2>1. evidence[k] \in 0 .. MaxGeneration
    BY Typed DEF IInv
  <2> QED
    BY <2>1, Bounds
<1> QED
  BY <1>2, <1>3, <1>6, <1>7

LEMMA FenceAttemptStep == ASSUME IInv, FenceAttempt PROVE IInv'
<1>0. PICK last : last = Latest
  OBVIOUS
<1>1. /\ Opened /\ ~ Interrupted /\ ~ HistoryCommitted
      /\ last > 0 => attempt[last] = "SETTLED" \/ SettledByRefusal(last)
      /\ last < MaxGeneration
      /\ attempt' = [g \in Generation |->
            IF g = last + 1 THEN "OPEN" ELSE IF g = last THEN "SETTLED" ELSE attempt[g]]
      /\ UNCHANGED <<timeline, frontier, transport, evidence, received, terminal,
                     interruption, told, sinkFrame, closed, seen, job>>
      /\ TypeOK /\ Attempts
  BY <1>0 DEF FenceAttempt, PriorSettled, sink, IInv
<1>2. /\ last \in 0 .. MaxGeneration /\ last + 1 \in Generation
      /\ \A g \in Generation : attempt[g] # "NONE" <=> g <= last
      /\ last > 0 => last \in Generation
  BY <1>0, <1>1, LatestFacts, Bounds DEF Generation
<1>3. /\ attempt'[last + 1] = "OPEN" /\ attempt[last + 1] = "NONE"
      /\ last > 0 => attempt'[last] = "SETTLED"
      /\ \A g \in Generation : g # last + 1 /\ g # last => attempt'[g] = attempt[g]
      /\ \A g \in Generation : g # last + 1 =>
            (attempt'[g] # "NONE" <=> attempt[g] # "NONE")
      /\ attempt' \in [Generation -> AttemptState]
  <2>1. attempt \in [Generation -> AttemptState]
    BY <1>1, Typed
  <2>2. attempt[last + 1] = "NONE"
    BY <1>2, Bounds
  <2>3. attempt'[last + 1] = "OPEN" /\ (last > 0 => attempt'[last] = "SETTLED")
    BY <1>1, <1>2, Bounds
  <2>4. attempt' \in [Generation -> AttemptState]
    BY <1>1, <2>1 DEF AttemptState
  <2>5. last > 0 => attempt[last] # "NONE"
    BY <1>2, Bounds
  <2> QED
    BY <1>1, <1>2, <2>2, <2>3, <2>4, <2>5, Bounds DEF Generation
<1>4. \A g \in Generation : attempt'[g] \in Unsettled => g = last + 1
  <2> SUFFICES ASSUME NEW g \in Generation, attempt'[g] \in Unsettled, g # last + 1
               PROVE  FALSE
    OBVIOUS
  <2>1. g # last
    BY <1>3, Bounds DEF Unsettled, Generation
  <2>2. attempt[g] \in Unsettled
    BY <1>3, <2>1
  <2> QED
    BY <1>0, <1>1, <2>1, <2>2 DEF Attempts
<1>5. TypeOK'
  BY <1>1, <1>3 DEF TypeOK
<1>6. Started' = Started \cup {last + 1}
  BY <1>2, <1>3 DEF Started
<1>7. Latest' = last + 1 /\ Started' = 1 .. Latest'
  <2>1. /\ Started \subseteq 1 .. MaxGeneration /\ Started = 1 .. Cardinality(Started)
        /\ last = Cardinality(Started) /\ Latest' = Cardinality(Started')
    BY <1>0, <1>1 DEF Attempts, Started, Latest, Generation
  <2>2. Started' = 1 .. Cardinality(Started')
    BY <1>6, <2>1, NextRow, Bounds
  <2>3. Cardinality(Started') = last + 1
    <3>1. IsFiniteSet(Started) /\ last + 1 \notin Started
      <4>1. IsFiniteSet(1 .. MaxGeneration)
        BY Bounds, FS_Interval
      <4> QED
        BY <1>3, <2>1, <4>1, FS_Subset DEF Started
    <3> QED
      BY <1>6, <2>1, <3>1, FS_AddElement
  <2> QED
    BY <2>1, <2>2, <2>3
<1>8. Attempts'
  <2>1. Opened' /\ closed' \subseteq Started'
    BY <1>1, <1>6 DEF Attempts, Opened
  <2>2. ASSUME NEW g \in Generation, terminal'[g] # NoStatus
        PROVE  attempt'[g] = "SETTLED" /\ g \in closed'
    <3>1. attempt[g] = "SETTLED" /\ g \in closed
      BY <1>1, <2>2 DEF Attempts
    <3> QED
      BY <1>1, <1>3, <3>1, Bounds DEF Generation
  <2> QED
    BY <1>4, <1>7, <2>1, <2>2 DEF Attempts
<1>9. Frames'
  <2> SUFFICES ASSUME NEW g \in Generation, NEW k \in Frame PROVE FrameSent(g, k)'
    BY DEF Frames
  <2>1. FrameSent(g, k) /\ (PreviousPresented(k)' <=> PreviousPresented(k))
    BY <1>1 DEF IInv, Frames, PreviousPresented
  <2>2. CASE g = last + 1
    <3>1. sinkFrame[g][k] = "none"
      BY <1>3, <2>1, <2>2 DEF FrameSent
    <3> QED
      BY <1>1, <2>1, <3>1 DEF FrameSent
  <2>3. CASE g = last
    <3>1. attempt'[g] = "SETTLED" /\ attempt[g] # "NONE"
      BY <1>2, <1>3, <2>3, Bounds DEF Generation
    <3>2. CASE attempt[g] = "SETTLED"
      BY <1>1, <2>1, <3>1, <3>2 DEF FrameSent
    <3>3. CASE SettledByRefusal(g)
      BY <1>0, <1>1, <2>1, <2>3, <3>1, <3>3, RefusedAttempt DEF FrameSent
    <3> QED
      BY <1>1, <1>2, <2>3, <3>2, <3>3, Bounds DEF Generation
  <2>4. CASE g # last + 1 /\ g # last
    BY <1>1, <1>3, <2>1, <2>4 DEF FrameSent
  <2> QED
    BY <2>2, <2>3, <2>4
<1>10. Evidence' /\ Sight' /\ Paths' /\ Memory'
  BY <1>1, EvidenceKept, SightKept, PathsKept, MemoryKept DEF IInv
<1>11. Telling'
  <2>1. told = NotTold
    <3>1. told # NotTold => told > 0 \/ Interrupted
      BY DEF IInv, Telling
    <3> QED
      BY <1>1, <3>1 DEF HistoryCommitted
  <2> QED
    BY <1>1, <2>1 DEF Telling
<1>12. Windows'
  <2>1. \A g \in Generation : interruption[g].event = 0
    BY <1>1, NotInterruptedFacts
  <2> QED
    BY <1>1, <2>1 DEF IInv, Windows
<1> QED
  BY <1>5, <1>8, <1>9, <1>10, <1>11, <1>12 DEF IInv

\* The state of an attempt that was started changes.
LEMMA SameStarted ==
  ASSUME \A g \in Generation : attempt'[g] = "NONE" <=> attempt[g] = "NONE"
  PROVE  Started' = Started /\ Latest' = Latest
<1>1. Started' = Started
  BY DEF Started
<1>2. Latest = Cardinality(Started) /\ Latest' = Cardinality(Started')
  BY DEF Latest, Started
<1> QED
  BY <1>1, <1>2

LEMMA WindowsSameLatest ==
  ASSUME Windows, UNCHANGED <<interruption, frontier, terminal, timeline>>, Latest' = Latest
  PROVE  Windows'
BY DEF Windows

\* An attempt that goes on is the latest, and nothing was told.
LEMMA UnsettledFacts ==
  ASSUME IInv, NEW g \in Generation, attempt[g] \in Unsettled
  PROVE  g = Latest /\ told = NotTold /\ attempt[g] # "NONE" /\ attempt[g] # "SETTLED"
BY DEF IInv, Attempts, Telling, Unsettled

LEMMA CommitUnknownStatusStep ==
  ASSUME IInv, NEW g \in Generation, CommitUnknownStatus(g) PROVE IInv'
<1>1. /\ attempt[g] = "OPEN" /\ attempt' = [attempt EXCEPT ![g] = "UNKNOWN"]
      /\ UNCHANGED <<timeline, frontier, transport, evidence, received, terminal,
                     interruption, told, sinkFrame, closed, seen, job>>
      /\ TypeOK /\ attempt \in [Generation -> AttemptState]
  BY Typed DEF CommitUnknownStatus, sink, IInv
<1>2. /\ attempt'[g] = "UNKNOWN"
      /\ \A h \in Generation : h # g => attempt'[h] = attempt[h]
      /\ attempt' \in [Generation -> AttemptState]
  BY <1>1 DEF AttemptState
<1>3. /\ \A h \in Generation : attempt'[h] = "NONE" <=> attempt[h] = "NONE"
      /\ \A h \in Generation : attempt'[h] = "SETTLED" <=> attempt[h] = "SETTLED"
      /\ \A h \in Generation : attempt'[h] \in Unsettled <=> attempt[h] \in Unsettled
  BY <1>1, <1>2 DEF Unsettled
<1>4. Started' = Started /\ Latest' = Latest
  BY <1>3, SameStarted
<1>5. TypeOK'
  BY <1>1, <1>2 DEF TypeOK
<1>6. Attempts'
  BY <1>1, <1>3, <1>4 DEF IInv, Attempts, Opened
<1>7. Frames'
  BY <1>1, <1>3 DEF IInv, Frames, FrameSent, PreviousPresented
<1>8. Evidence' /\ Sight' /\ Paths' /\ Memory' /\ Windows'
  BY <1>1, <1>4, EvidenceKept, SightKept, PathsKept, MemoryKept, WindowsSameLatest DEF IInv
<1>9. Telling'
  BY <1>1, UnsettledFacts DEF Telling, Unsettled
<1> QED
  BY <1>5, <1>6, <1>7, <1>8, <1>9 DEF IInv

\* What is said of a frame changes in one attempt.
LEMMA FramesUpdated ==
  ASSUME Frames, NEW g \in Generation, NEW k \in Frame, FrameSent(g, k)',
         UNCHANGED <<evidence, attempt, closed>>,
         \A h \in Generation, n \in Frame : h # g \/ n # k =>
            transport'[h][n] = transport[h][n] /\ sinkFrame'[h][n] = sinkFrame[h][n]
  PROVE  Frames'
<1> SUFFICES ASSUME NEW h \in Generation, NEW n \in Frame PROVE FrameSent(h, n)'
  BY DEF Frames
<1>1. CASE h = g /\ n = k
  BY <1>1
<1>2. CASE h # g \/ n # k
  <2>1. FrameSent(h, n) /\ (PreviousPresented(n)' <=> PreviousPresented(n))
    BY DEF Frames, PreviousPresented
  <2>2. transport'[h][n] = transport[h][n] /\ sinkFrame'[h][n] = sinkFrame[h][n]
    BY <1>2
  <2> QED
    BY <2>1, <2>2 DEF FrameSent
<1> QED
  BY <1>1, <1>2

\* The state of a sent frame changes at the sink, and it is not shown by this.
LEMMA SinkUpdated ==
  ASSUME IInv, NEW g \in Generation, NEW k \in Frame, NEW s \in SinkState,
         sinkFrame[g][k] # "presented", s # "presented",
         sinkFrame' = [sinkFrame EXCEPT ![g][k] = s], UNCHANGED <<evidence, received, seen>>
  PROVE  /\ sinkFrame' \in [Generation -> [Frame -> SinkState]] /\ sinkFrame'[g][k] = s
         /\ \A h \in Generation, n \in Frame : h # g \/ n # k =>
                sinkFrame'[h][n] = sinkFrame[h][n]
         /\ Evidence' /\ Sight'
<1>1. sinkFrame \in [Generation -> [Frame -> SinkState]]
  BY Typed DEF IInv
<1>2. sinkFrame' \in [Generation -> [Frame -> SinkState]] /\ sinkFrame'[g][k] = s
  BY <1>1
<1>3. \A h \in Generation, n \in Frame : h # g \/ n # k => sinkFrame'[h][n] = sinkFrame[h][n]
  BY <1>1
<1>4. \A h \in Generation, n \in Frame :
        sinkFrame'[h][n] = "presented" <=> sinkFrame[h][n] = "presented"
  BY <1>2, <1>3
<1>5. Evidence'
  <2>1. Receipts' = Receipts /\ PresentedExtent' = PresentedExtent
    BY DEF Receipts, PresentedExtent
  <2>2. ASSUME NEW n \in Receipts PROVE sinkFrame'[evidence[n]][n] = "presented"
    <3>1. n \in Frame /\ evidence[n] > 0 /\ evidence[n] \in 0 .. MaxGeneration
      BY Typed DEF Receipts, IInv
    <3>2. evidence[n] \in Generation
      BY <3>1, Bounds DEF Generation
    <3> QED
      BY <1>4, <3>1, <3>2 DEF IInv, Evidence
  <2> QED
    BY <2>1, <2>2 DEF IInv, Evidence
<1>6. Sight'
  BY <1>4 DEF IInv, Sight
<1> QED
  BY <1>2, <1>3, <1>5, <1>6

LEMMA AuthorizeFrameStep ==
  ASSUME IInv, NEW g \in Generation, NEW k \in Frame, AuthorizeFrame(g, k) PROVE IInv'
<1>1. /\ attempt[g] = "OPEN" /\ evidence[k] = 0 /\ PreviousPresented(k)
      /\ transport[g][k] = "NONE"
      /\ transport' = [transport EXCEPT ![g][k] = "UNKNOWN"]
      /\ sinkFrame' = [sinkFrame EXCEPT ![g][k] = "inFlight"]
      /\ UNCHANGED <<timeline, frontier, attempt, evidence, received, terminal,
                     interruption, told, closed, seen, job>>
      /\ TypeOK /\ transport \in [Generation -> [Frame -> TransportState]]
  BY Typed DEF AuthorizeFrame, PresentedInOrder, IInv
<1>2. sinkFrame[g][k] = "none"
  BY <1>1 DEF IInv, Frames, FrameSent
<1>3. /\ sinkFrame' \in [Generation -> [Frame -> SinkState]] /\ sinkFrame'[g][k] = "inFlight"
      /\ \A h \in Generation, n \in Frame : h # g \/ n # k => sinkFrame'[h][n] = sinkFrame[h][n]
      /\ Evidence' /\ Sight'
  <2>1. "inFlight" \in SinkState
    BY DEF SinkState
  <2> QED
    BY <1>1, <1>2, <2>1, SinkUpdated
<1>4. /\ transport'[g][k] = "UNKNOWN"
      /\ \A h \in Generation, n \in Frame : h # g \/ n # k => transport'[h][n] = transport[h][n]
      /\ transport' \in [Generation -> [Frame -> TransportState]]
  BY <1>1 DEF TransportState
<1>5. TypeOK'
  BY <1>1, <1>3, <1>4 DEF TypeOK, SinkState
<1>6. Frames'
  <2>1. FrameSent(g, k)'
    <3>1. PreviousPresented(k)'
      BY <1>1 DEF PreviousPresented
    <3> QED
      BY <1>1, <1>3, <1>4, <3>1, Bounds DEF FrameSent
  <2> QED
    BY <1>1, <1>3, <1>4, <2>1, FramesUpdated DEF IInv
<1>7. Attempts' /\ Telling' /\ Paths' /\ Windows' /\ Memory'
  BY <1>1, AttemptsKept, InterruptedKept, TellingKept, PathsKept, WindowsKept, MemoryKept
  DEF IInv, Opened
<1> QED
  BY <1>3, <1>5, <1>6, <1>7 DEF IInv

LEMMA RecordTransportStatusStep ==
  ASSUME IInv, NEW g \in Generation, NEW k \in Frame, RecordTransportStatus(g, k) PROVE IInv'
<1>1. /\ transport[g][k] = "UNKNOWN" /\ sinkFrame[g][k] \in DOMAIN TransportAnswer
      /\ transport' = [transport EXCEPT ![g][k] = TransportAnswer[sinkFrame[g][k]]]
      /\ UNCHANGED <<timeline, frontier, attempt, evidence, received, terminal,
                     interruption, told, sinkFrame, closed, seen, job>>
      /\ TypeOK /\ transport \in [Generation -> [Frame -> TransportState]]
  BY Typed DEF RecordTransportStatus, sink, IInv
<1>2. /\ sinkFrame[g][k] \in {"accepted", "presented"} =>
            TransportAnswer[sinkFrame[g][k]] = "ACCEPTED"
      /\ sinkFrame[g][k] = "refused" => TransportAnswer[sinkFrame[g][k]] = "NOT_ACCEPTED"
      /\ sinkFrame[g][k] \in {"accepted", "presented", "refused"}
  BY <1>1 DEF TransportAnswer
<1>3. /\ transport'[g][k] = TransportAnswer[sinkFrame[g][k]]
      /\ transport'[g][k] \in TransportState
      /\ \A h \in Generation, n \in Frame : h # g \/ n # k => transport'[h][n] = transport[h][n]
      /\ transport' \in [Generation -> [Frame -> TransportState]]
  BY <1>1, <1>2 DEF TransportState
<1>4. TypeOK'
  BY <1>1, <1>3 DEF TypeOK
<1>5. Frames'
  <2>1. FrameSent(g, k) /\ (PreviousPresented(k)' <=> PreviousPresented(k))
    BY <1>1 DEF IInv, Frames, PreviousPresented
  <2>2. FrameSent(g, k)'
    BY <1>1, <1>2, <1>3, <2>1 DEF FrameSent
  <2> QED
    BY <1>1, <1>3, <2>2, FramesUpdated DEF IInv
<1>6. Attempts' /\ Evidence' /\ Sight'
  BY <1>1, AttemptsKept, EvidenceKept, SightKept DEF IInv, Opened
<1>7. Telling' /\ Paths' /\ Windows' /\ Memory'
  BY <1>1, InterruptedKept, TellingKept, PathsKept, WindowsKept, MemoryKept DEF IInv
<1> QED
  BY <1>4, <1>5, <1>6, <1>7 DEF IInv

\* A receipt is of the frame after those that have one, from the latest attempt.
LEMMA RecordReceiptStep ==
  ASSUME IInv, NEW g \in Generation, NEW k \in Frame, RecordReceipt(g, k) PROVE IInv'
<1>1. /\ sinkFrame[g][k] = "presented" /\ evidence[k] = 0
      /\ attempt[g] # "SETTLED" /\ PreviousPresented(k)
      /\ evidence' = [evidence EXCEPT ![k] = g]
      /\ UNCHANGED <<timeline, frontier, attempt, transport, received, terminal,
                     interruption, told, sinkFrame, closed, seen, job>>
      /\ TypeOK /\ evidence \in [Frame -> 0 .. MaxGeneration]
  BY Typed DEF RecordReceipt, ReceiptAdmissible, sink, IInv
<1>2. /\ evidence'[k] = g /\ g > 0
      /\ \A n \in Frame : n # k => evidence'[n] = evidence[n]
      /\ evidence' \in [Frame -> 0 .. MaxGeneration]
  BY <1>1, Bounds DEF Generation
<1>3. g = Latest
  BY <1>1 DEF IInv, Attempts, Frames, FrameSent
<1>4. k = PresentedExtent + 1 /\ PresentedExtent \in 0 .. FrameCount
  BY <1>1, NextFrame, ExtentFacts DEF IInv
<1>5. TypeOK'
  BY <1>1, <1>2 DEF TypeOK
<1>6. /\ Receipts' = Receipts \cup {k} /\ Receipts \subseteq 1 .. FrameCount
      /\ Receipts = 1 .. Cardinality(Receipts) /\ PresentedExtent = Cardinality(Receipts)
      /\ PresentedExtent' = Cardinality(Receipts')
  <2>1. PresentedExtent = Cardinality(Receipts) /\ PresentedExtent' = Cardinality(Receipts')
    BY DEF Receipts, PresentedExtent
  <2>2. Receipts' = Receipts \cup {k}
    BY <1>1, <1>2 DEF Receipts
  <2> QED
    BY <2>1, <2>2 DEF IInv, Evidence, Receipts, Frame
<1>7. Receipts' = 1 .. PresentedExtent' /\ PresentedExtent' = PresentedExtent + 1
  <2>1. Receipts' = 1 .. Cardinality(Receipts')
    BY <1>4, <1>6, NextRow, Bounds
  <2>2. IsFiniteSet(Receipts) /\ k \notin Receipts
    <3>1. IsFiniteSet(1 .. FrameCount)
      BY Bounds, FS_Interval
    <3>2. k \notin Receipts
      BY <1>1 DEF Receipts
    <3> QED
      BY <1>6, <3>1, <3>2, FS_Subset
  <2> QED
    BY <1>6, <2>1, <2>2, FS_AddElement
<1>8. Evidence'
  <2>1. \A n \in Receipts' : sinkFrame'[evidence'[n]][n] = "presented"
    <3> SUFFICES ASSUME NEW n \in Receipts' PROVE sinkFrame'[evidence'[n]][n] = "presented"
      OBVIOUS
    <3>1. CASE n = k
      BY <1>1, <1>2, <3>1
    <3>2. CASE n # k
      BY <1>1, <1>2, <1>6, <3>2 DEF IInv, Evidence, Receipts
    <3> QED
      BY <3>1, <3>2
  <2>2. received' <= PresentedExtent'
    <3>1. received \in 0 .. FrameCount /\ received <= PresentedExtent
      BY DEF IInv, TypeOK, Evidence
    <3> QED
      BY <1>1, <1>4, <1>7, <3>1, Bounds
  <2> QED
    BY <1>7, <2>1, <2>2 DEF Evidence
<1>9. Frames'
  <2> SUFFICES ASSUME NEW h \in Generation, NEW n \in Frame PROVE FrameSent(h, n)'
    BY DEF Frames
  <2>1. FrameSent(h, n)
    BY DEF IInv, Frames
  <2>2. PreviousPresented(n) => PreviousPresented(n)'
    <3>1. CASE n > 1
      <4>1. n - 1 \in Frame
        BY <3>1, Bounds DEF Frame
      <4> QED
        BY <1>2, <4>1 DEF PreviousPresented
    <3>2. CASE ~ n > 1
      BY <3>2 DEF PreviousPresented
    <3> QED
      BY <3>1, <3>2
  <2>3. CASE n = k
    <3>1. sinkFrame[h][k] # "none" => h <= g
      <4>1. sinkFrame[h][k] # "none" => attempt[h] # "NONE"
        BY <2>1, <2>3 DEF FrameSent
      <4> QED
        BY <1>3, <4>1, LatestFacts DEF IInv
    <3>2. ~ evidence'[n] = 0
      BY <1>2, <2>3, Bounds
    <3>3. sinkFrame'[h][n] # "none" => evidence'[n] >= h
      BY <1>1, <1>2, <2>3, <3>1, Bounds DEF Generation
    <3> QED
      BY <1>1, <2>1, <2>2, <3>2, <3>3 DEF FrameSent
  <2>4. CASE n # k
    BY <1>1, <1>2, <2>1, <2>2, <2>4 DEF FrameSent
  <2> QED
    BY <2>3, <2>4
<1>10. Attempts' /\ Sight'
  BY <1>1, AttemptsKept, SightKept DEF IInv, Opened
<1>11. Telling' /\ Paths' /\ Windows' /\ Memory'
  BY <1>1, InterruptedKept, TellingKept, PathsKept, WindowsKept, MemoryKept DEF IInv
<1> QED
  BY <1>5, <1>8, <1>9, <1>10, <1>11 DEF IInv

LEMMA RecordReceptionStep ==
  ASSUME IInv, NEW g \in Generation, NEW n \in Frame, RecordReception(g, n) PROVE IInv'
<1>1. /\ n <= PresentedExtent
      /\ received' = IF n > received THEN n ELSE received
      /\ UNCHANGED <<timeline, frontier, attempt, transport, evidence, terminal,
                     interruption, told, sinkFrame, closed, seen, job>>
      /\ TypeOK /\ received \in 0 .. FrameCount /\ received <= PresentedExtent
  BY DEF RecordReception, ReceptionAdmissible, sink, IInv, TypeOK, Evidence
<1>2. received' \in 0 .. FrameCount /\ received' <= PresentedExtent
  BY <1>1, Bounds DEF Frame
<1>3. TypeOK'
  BY <1>1, <1>2 DEF TypeOK
<1>4. Evidence'
  <2>1. Receipts' = Receipts /\ PresentedExtent' = PresentedExtent
    BY <1>1 DEF Receipts, PresentedExtent
  <2> QED
    BY <1>1, <1>2, <2>1 DEF IInv, Evidence
<1>5. Attempts' /\ Frames' /\ Sight'
  BY <1>1, AttemptsKept, FramesKept, SightKept DEF IInv, Opened
<1>6. Telling' /\ Paths' /\ Windows' /\ Memory'
  BY <1>1, InterruptedKept, TellingKept, PathsKept, WindowsKept, MemoryKept DEF IInv
<1> QED
  BY <1>3, <1>4, <1>5, <1>6 DEF IInv

-----------------------------------------------------------------------------
(* Reconciliation. *)

\* A caller's memory is replaced by a job that is true of the new state.
LEMMA MemoryTaken ==
  ASSUME Memory, NEW c \in Caller, NEW j \in Job, job' = [job EXCEPT ![c] = j],
         Holds(c)', closed \subseteq closed',
         \A g : interruption[g].event # 0 => interruption'[g].event # 0
  PROVE  Memory' /\ \A d \in Caller : job'[d].op \in {"idle", "settle", "note"}
<1>1. job' \in [Caller -> Job]
  BY DEF Memory
<1>2. ASSUME NEW d \in Caller PROVE Holds(d)'
  <2>1. CASE d = c
    BY <2>1
  <2>2. CASE d # c
    <3>1. job'[d] = job[d] /\ Holds(d)
      BY <2>2 DEF Memory
    <3> QED
      BY <3>1, HoldsKept
  <2> QED
    BY <2>1, <2>2
<1>3. \A d \in Caller : job'[d].op \in {"idle", "settle", "note"}
  BY <1>1, JobOps
<1> QED
  BY <1>1, <1>2, <1>3 DEF Memory

\* A caller that is done holds nothing.
LEMMA MemoryFinished ==
  ASSUME Memory, NEW c \in Caller, Finish(c), closed \subseteq closed',
         \A g : interruption[g].event # 0 => interruption'[g].event # 0
  PROVE  Memory' /\ \A d \in Caller : job'[d].op \in {"idle", "settle", "note"}
<1>1. Idle \in Job
  BY DEF Job
<1>2. job' = [job EXCEPT ![c] = Idle] /\ job'[c] = Idle
  BY DEF Finish, Memory
<1>3. Holds(c)'
  BY <1>2 DEF Holds, Has, Idle
<1> QED
  BY <1>1, <1>2, <1>3, MemoryTaken

LEMMA AbandonStep == ASSUME IInv, NEW c \in Caller, Abandon(c) PROVE IInv'
<1>1. /\ Finish(c)
      /\ UNCHANGED <<timeline, frontier, attempt, transport, evidence, received, terminal,
                     interruption, told, sinkFrame, closed, seen>>
      /\ TypeOK
  BY DEF Abandon, durable, sink, IInv
<1>2. Memory' /\ \A d \in Caller : job'[d].op \in {"idle", "settle", "note"}
  BY <1>1, MemoryFinished DEF IInv
<1>3. TypeOK'
  BY <1>1, <1>2 DEF TypeOK
<1>4. Attempts' /\ Frames' /\ Evidence' /\ Sight'
  BY <1>1, AttemptsKept, FramesKept, EvidenceKept, SightKept DEF IInv, Opened
<1>5. Telling' /\ Paths' /\ Windows'
  BY <1>1, InterruptedKept, TellingKept, PathsKept, WindowsKept DEF IInv
<1> QED
  BY <1>2, <1>3, <1>4, <1>5 DEF IInv

LEMMA RequestCancellationStep ==
  ASSUME IInv, NEW c \in Caller, NEW g \in Generation, NEW a \in BOOLEAN,
         RequestCancellation(c, g, a)
  PROVE  IInv'
<1>1. PICK j : j = [op |-> "note", generation |-> g, acknowledged |-> a]
  OBVIOUS
<1>2. /\ interruption[g].request \in {"PENDING", "UNKNOWN"}
      /\ job' = [job EXCEPT ![c] = j]
      /\ UNCHANGED <<timeline, frontier, attempt, transport, evidence, received, terminal,
                     interruption, told, sinkFrame, closed, seen>>
      /\ TypeOK
  BY <1>1 DEF RequestCancellation, Take, durable, sink, IInv
<1>3. j \in Job /\ job'[c] = j
  BY <1>1, <1>2 DEF Job, IInv, Memory
<1>4. interruption[g].event # 0
  BY <1>2 DEF IInv, Windows, NoInterruption
<1>5. Holds(c)'
  BY <1>1, <1>2, <1>3, <1>4 DEF Holds, Has
<1>6. Memory' /\ \A d \in Caller : job'[d].op \in {"idle", "settle", "note"}
  BY <1>2, <1>3, <1>5, MemoryTaken DEF IInv
<1>7. TypeOK'
  BY <1>2, <1>6 DEF TypeOK
<1>8. Attempts' /\ Frames' /\ Evidence' /\ Sight'
  BY <1>2, AttemptsKept, FramesKept, EvidenceKept, SightKept DEF IInv, Opened
<1>9. Telling' /\ Paths' /\ Windows'
  BY <1>2, InterruptedKept, TellingKept, PathsKept, WindowsKept DEF IInv
<1> QED
  BY <1>6, <1>7, <1>8, <1>9 DEF IInv

LEMMA AskTerminalStatusStep ==
  ASSUME IInv, NEW c \in Caller, NEW g \in Generation, AskTerminalStatus(c, g)
  PROVE  IInv'
<1>1. PICK j : j = [op |-> "settle", generation |-> g,
                    presented |-> PresentedExtent, received |-> received]
  OBVIOUS
<1>2. /\ attempt[g] \in Unsettled /\ PresentedExtent = Len(seen)
      /\ closed' = closed \cup {g}
      /\ job' = [job EXCEPT ![c] = j]
      /\ UNCHANGED <<timeline, frontier, attempt, transport, evidence, received, terminal,
                     interruption, told, sinkFrame, seen>>
      /\ TypeOK
  BY <1>1 DEF AskTerminalStatus, Take, durable, IInv, Unsettled
<1>3. PresentedExtent \in 0 .. FrameCount /\ received \in 0 .. FrameCount
  BY ExtentFacts DEF IInv, TypeOK
<1>4. j \in Job /\ job'[c] = j
  BY <1>1, <1>2, <1>3 DEF Job, IInv, Memory
<1>5. Holds(c)'
  BY <1>1, <1>2, <1>4 DEF Holds, Has
<1>6. Memory' /\ \A d \in Caller : job'[d].op \in {"idle", "settle", "note"}
  BY <1>2, <1>4, <1>5, MemoryTaken DEF IInv
<1>7. TypeOK'
  BY <1>2, <1>6 DEF TypeOK
<1>8. Attempts'
  <2>1. Started' = Started /\ Latest' = Latest
    BY <1>2, SameStarted
  <2>2. g \in Started
    BY <1>2 DEF Started, Unsettled
  <2> QED
    BY <1>2, <2>1, <2>2 DEF IInv, Attempts, Opened
<1>9. Frames'
  <2> SUFFICES ASSUME NEW h \in Generation, NEW n \in Frame PROVE FrameSent(h, n)'
    BY DEF Frames
  <2>1. FrameSent(h, n) /\ (PreviousPresented(n)' <=> PreviousPresented(n))
    BY <1>2 DEF IInv, Frames, PreviousPresented
  <2>2. ~ (sinkFrame[h][n] = "presented" /\ evidence[n] = 0)
    <3> SUFFICES ASSUME sinkFrame[h][n] = "presented", evidence[n] = 0 PROVE FALSE
      OBVIOUS
    <3>1. n <= Len(seen)
      BY DEF IInv, Sight
    <3>2. n > PresentedExtent
      BY ExtentFacts DEF IInv
    <3> QED
      BY <1>2, <1>3, <3>1, <3>2, Bounds DEF Frame
  <2> QED
    BY <1>2, <2>1, <2>2 DEF FrameSent
<1>10. Evidence' /\ Sight'
  BY <1>2, EvidenceKept, SightKept DEF IInv
<1>11. Telling' /\ Paths' /\ Windows'
  BY <1>2, InterruptedKept, TellingKept, PathsKept, WindowsKept DEF IInv
<1> QED
  BY <1>6, <1>7, <1>8, <1>9, <1>10, <1>11 DEF IInv

\* An attempt that the sink has closed is settled by a status observed now.
LEMMA CommitTerminalStatusStep ==
  ASSUME IInv, NEW c \in Caller, CommitTerminalStatus(c) PROVE IInv'
<1>0. PICK g : g = job[c].generation
  OBVIOUS
<1>1. /\ Has(c, "settle") /\ Finish(c)
      /\ UNCHANGED <<timeline, frontier, transport, evidence, received, interruption,
                     told, sinkFrame, closed, seen>>
      /\ TypeOK
  BY DEF CommitTerminalStatus, sink, IInv
<1>2. Memory' /\ \A d \in Caller : job'[d].op \in {"idle", "settle", "note"}
  BY <1>1, MemoryFinished DEF IInv
<1>3. Evidence' /\ Sight' /\ Paths'
  BY <1>1, EvidenceKept, SightKept, PathsKept DEF IInv
<1>4. CASE UNCHANGED <<attempt, terminal>>
  <2>1. TypeOK'
    BY <1>1, <1>2, <1>4 DEF TypeOK
  <2>2. Attempts' /\ Frames'
    BY <1>1, <1>4, AttemptsKept, FramesKept DEF IInv, Opened
  <2>3. Telling' /\ Windows'
    BY <1>1, <1>4, InterruptedKept, TellingKept, WindowsKept DEF IInv
  <2> QED
    BY <1>2, <1>3, <2>1, <2>2, <2>3 DEF IInv
<1>5. CASE attempt[g] \in Unsettled /\ StatusStillExact(job[c])
  <2>0. PICK t : t = [extent |-> job[c].presented, frontier |-> Len(timeline)]
    OBVIOUS
  <2>1. /\ attempt' = [attempt EXCEPT ![g] = "SETTLED"]
        /\ terminal' = [terminal EXCEPT ![g] = t]
    BY <1>0, <1>5, <2>0 DEF CommitTerminalStatus, Unsettled, TimelineFrontier
  <2>2. /\ g \in Generation /\ g \in closed
    BY <1>0, <1>1 DEF IInv, Memory, Holds, TypeOK
  <2>3. job[c].presented \in 0 .. FrameCount
    <3>1. PresentedExtent \in 0 .. FrameCount
      BY ExtentFacts DEF IInv
    <3> QED
      BY <1>5, <3>1 DEF StatusStillExact
  <2>4. t \in Status /\ t.frontier = Len(timeline)
    BY <1>1, <2>0, <2>3, Typed, Bounds DEF Status
  <2>5. /\ attempt'[g] = "SETTLED" /\ attempt' \in [Generation -> AttemptState]
        /\ \A h \in Generation : h # g => attempt'[h] = attempt[h]
        /\ terminal'[g] = t /\ terminal' \in [Generation -> Status]
        /\ \A h \in Generation : h # g => terminal'[h] = terminal[h]
    <3>1. attempt \in [Generation -> AttemptState] /\ terminal \in [Generation -> Status]
      BY <1>1, Typed
    <3> QED
      BY <2>1, <2>2, <2>4, <3>1 DEF AttemptState
  <2>6. g = Latest /\ told = NotTold /\ attempt[g] # "NONE" /\ attempt[g] # "SETTLED"
    BY <1>5, <2>2, UnsettledFacts
  <2>7. Started' = Started /\ Latest' = Latest
    BY <2>5, <2>6, SameStarted
  <2>8. TypeOK'
    BY <1>1, <1>2, <2>5 DEF TypeOK
  <2>9. Attempts'
    <3>1. \A h \in Generation : attempt'[h] \in Unsettled => h = Latest'
      BY <2>5, <2>7 DEF IInv, Attempts, Unsettled
    <3>2. \A h \in Generation : terminal'[h] # NoStatus => attempt'[h] = "SETTLED" /\ h \in closed'
      BY <1>1, <2>2, <2>5 DEF IInv, Attempts
    <3> QED
      BY <1>1, <2>7, <3>1, <3>2 DEF IInv, Attempts, Opened
  <2>10. Frames'
    <3> SUFFICES ASSUME NEW h \in Generation, NEW n \in Frame PROVE FrameSent(h, n)'
      BY DEF Frames
    <3>1. FrameSent(h, n) /\ (PreviousPresented(n)' <=> PreviousPresented(n))
      BY <1>1 DEF IInv, Frames, PreviousPresented
    <3>2. CASE h = g
      BY <1>1, <2>2, <2>5, <3>1, <3>2 DEF FrameSent
    <3>3. CASE h # g
      BY <1>1, <2>5, <3>1, <3>3 DEF FrameSent
    <3> QED
      BY <3>2, <3>3
  <2>11. Telling'
    BY <1>1, <2>6 DEF Telling
  <2>12. Windows'
    <3> SUFFICES ASSUME NEW h \in Generation, interruption'[h].event # 0
                 PROVE  terminal'[h] # NoStatus => interruption'[h].event <= terminal'[h].frontier
      BY <1>1, <2>7 DEF IInv, Windows
    <3>1. CASE h = g
      <4>1. interruption[h].event \in 1 .. Len(timeline)
        BY <1>1, Typed DEF IInv, Windows
      <4> QED
        BY <1>1, <2>4, <2>5, <3>1, <4>1
    <3>2. CASE h # g
      BY <1>1, <2>5, <3>2 DEF IInv, Windows
    <3> QED
      BY <3>1, <3>2
  <2> QED
    BY <1>2, <1>3, <2>8, <2>9, <2>10, <2>11, <2>12 DEF IInv
<1> QED
  <2>1. ~ (attempt[g] \in Unsettled /\ StatusStillExact(job[c])) => UNCHANGED <<attempt, terminal>>
    BY <1>0 DEF CommitTerminalStatus, Unsettled
  <2> QED
    BY <1>4, <1>5, <2>1

-----------------------------------------------------------------------------
(* Interruption. *)

LEMMA BeginInterruptStep ==
  ASSUME IInv, NEW g \in Generation, NEW e \in 1 .. MaxTimeline, BeginInterrupt(g, e)
  PROVE  IInv'
<1>0. PICK r : r = IF attempt[g] = "SETTLED" THEN "NOT_REQUIRED_TERMINAL" ELSE "PENDING"
  OBVIOUS
<1>1. PICK i : i = [event |-> e, request |-> r]
  OBVIOUS
<1>2. /\ attempt[g] # "NONE" /\ CanonicalInterruption(e)
      /\ interruption[g] = NoInterruption
      /\ attempt[g] = "SETTLED" => TerminalRaceEligible(g, e)
      /\ interruption' = [interruption EXCEPT ![g] = i]
      /\ UNCHANGED <<timeline, frontier, attempt, transport, evidence, received, terminal,
                     told, sinkFrame, closed, seen, job>>
      /\ TypeOK
  BY <1>0, <1>1 DEF BeginInterrupt, sink, IInv
<1>3. /\ i \in Interruption /\ i.event = e /\ e # 0 /\ i # NoInterruption
  <2>1. r \in RequestState
    BY <1>0 DEF RequestState
  <2>2. i.event = e /\ e # 0 /\ e \in 0 .. MaxTimeline
    BY <1>1, Bounds
  <2> QED
    BY <1>1, <2>1, <2>2 DEF Interruption, NoInterruption
<1>4. /\ interruption'[g] = i /\ interruption' \in [Generation -> Interruption]
      /\ \A h \in Generation : h # g => interruption'[h] = interruption[h]
      /\ \A h : interruption[h].event # 0 => interruption'[h].event # 0
  <2>1. interruption \in [Generation -> Interruption]
    BY <1>2, Typed
  <2>2. interruption'[g] = i /\ interruption' \in [Generation -> Interruption]
    BY <1>2, <1>3, <2>1
  <2>3. \A h : h # g => interruption'[h] = interruption[h]
    BY <1>2, <2>1
  <2> QED
    BY <1>3, <2>2, <2>3
<1>5. TypeOK'
  BY <1>2, <1>4 DEF TypeOK
<1>6. g = Latest /\ Latest' = Latest
  <2>1. CASE attempt[g] = "SETTLED"
    BY <1>2, <2>1 DEF TerminalRaceEligible, Latest
  <2>2. CASE attempt[g] # "SETTLED"
    <3>1. attempt[g] \in Unsettled
      BY <1>2, <2>2, Typed DEF AttemptState, Unsettled
    <3> QED
      BY <1>2, <3>1, UnsettledFacts DEF Latest
  <2> QED
    BY <2>1, <2>2
<1>7. Attempts' /\ Frames' /\ Evidence' /\ Sight' /\ Paths'
  BY <1>2, AttemptsKept, FramesKept, EvidenceKept, SightKept, PathsKept DEF IInv, Opened
<1>8. Telling'
  <2>1. Interrupted'
    BY <1>3, <1>4 DEF Interrupted
  <2> QED
    BY <1>2, <2>1, TellingKept DEF IInv
<1>9. Windows'
  <2> SUFFICES ASSUME NEW h \in Generation
               PROVE  /\ interruption'[h].event = 0 => interruption'[h] = NoInterruption
                      /\ interruption'[h].event # 0 =>
                          /\ h = Latest'
                          /\ interruption'[h].event \in DOMAIN timeline'
                          /\ timeline'[interruption'[h].event] = "input"
                          /\ frontier' < interruption'[h].event
                          /\ terminal'[h] # NoStatus =>
                                interruption'[h].event <= terminal'[h].frontier
    BY DEF Windows
  <2>1. CASE h = g
    <3>1. e \in DOMAIN timeline /\ timeline[e] = "input" /\ frontier < e
      BY <1>2, Bounds DEF CanonicalInterruption, TypeOK
    <3>2. terminal[g] # NoStatus => e <= terminal[g].frontier
      BY <1>2 DEF IInv, Attempts, TerminalRaceEligible
    <3> QED
      BY <1>2, <1>3, <1>4, <1>6, <2>1, <3>1, <3>2
  <2>2. CASE h # g
    BY <1>2, <1>4, <1>6, <2>2 DEF IInv, Windows
  <2> QED
    BY <2>1, <2>2
<1>10. Memory'
  <2>1. \A d \in Caller : Holds(d)'
    BY <1>2, <1>4, HoldsKept DEF IInv, Memory
  <2> QED
    BY <1>2, <2>1 DEF IInv, Memory
<1> QED
  BY <1>5, <1>7, <1>8, <1>9, <1>10 DEF IInv

\* The cancellation of an interruption is noted; its event stays.
LEMMA NotedInterruption ==
  ASSUME IInv, NEW c \in Caller, CommitInterrupt(c)
  PROVE  /\ job[c].generation \in Generation
         /\ interruption[job[c].generation].event # 0
         /\ interruption' \in [Generation -> Interruption]
         /\ \A h : interruption'[h].event = interruption[h].event
         /\ \A h : h # job[c].generation => interruption'[h] = interruption[h]
         /\ interruption[job[c].generation].request \in {"REQUESTED", "NOT_REQUIRED_TERMINAL"} =>
                interruption'[job[c].generation].request
                    = interruption[job[c].generation].request
<1>0. PICK g : g = job[c].generation
  OBVIOUS
<1>1. Has(c, "note") /\ job[c] \in Job /\ interruption \in [Generation -> Interruption]
  BY Typed DEF CommitInterrupt, IInv, Memory
<1>2. g \in Generation /\ interruption[g].event # 0 /\ job[c].acknowledged \in BOOLEAN
  BY <1>0, <1>1 DEF IInv, Memory, Holds, Job, Has, Idle
<1>3. PICK r : r = CancellationState(interruption[g].request, job[c].acknowledged)
  OBVIOUS
<1>4. interruption' = [interruption EXCEPT ![g].request = r]
  BY <1>0, <1>1, <1>2, <1>3 DEF CommitInterrupt
<1>5. /\ r \in RequestState
      /\ interruption[g].request \in {"REQUESTED", "NOT_REQUIRED_TERMINAL"} =>
            r = interruption[g].request
  BY <1>1, <1>2, <1>3 DEF CancellationState, RequestState, Interruption
<1>6. interruption' \in [Generation -> Interruption]
  BY <1>1, <1>2, <1>4, <1>5 DEF Interruption
<1>7. /\ interruption'[g].event = interruption[g].event /\ interruption'[g].request = r
      /\ \A h : h # g => interruption'[h] = interruption[h]
  BY <1>1, <1>2, <1>4 DEF Interruption
<1> QED
  BY <1>0, <1>2, <1>5, <1>6, <1>7

LEMMA CommitInterruptStep == ASSUME IInv, NEW c \in Caller, CommitInterrupt(c) PROVE IInv'
<1>0. PICK g : g = job[c].generation
  OBVIOUS
<1>1. /\ Finish(c)
      /\ UNCHANGED <<timeline, frontier, attempt, transport, evidence, received, terminal,
                     told, sinkFrame, closed, seen>>
      /\ TypeOK
  BY DEF CommitInterrupt, sink, IInv
<1>2. /\ g \in Generation /\ interruption[g].event # 0
      /\ interruption' \in [Generation -> Interruption]
      /\ \A h : interruption'[h].event = interruption[h].event
      /\ \A h : h # g => interruption'[h] = interruption[h]
  BY <1>0, NotedInterruption
<1>3. Memory' /\ \A d \in Caller : job'[d].op \in {"idle", "settle", "note"}
  BY <1>1, <1>2, MemoryFinished DEF IInv
<1>4. TypeOK'
  BY <1>1, <1>2, <1>3 DEF TypeOK
<1>5. Attempts' /\ Frames' /\ Evidence' /\ Sight' /\ Paths'
  BY <1>1, AttemptsKept, FramesKept, EvidenceKept, SightKept, PathsKept DEF IInv, Opened
<1>6. Telling'
  <2>1. Interrupted'
    BY <1>2 DEF Interrupted, NoInterruption
  <2> QED
    BY <1>1, <2>1, TellingKept DEF IInv
<1>7. Windows'
  <2>1. Latest' = Latest
    BY <1>1 DEF Latest
  <2> QED
    BY <1>1, <1>2, <2>1 DEF IInv, Windows
<1> QED
  BY <1>3, <1>4, <1>5, <1>6, <1>7 DEF IInv

-----------------------------------------------------------------------------
(* History. *)

\* What history tells is what was seen: nothing that was shown lacks its receipt.
LEMMA Tellable ==
  ASSUME IInv, NEW g \in Generation, HistoryProvable(g)
  PROVE  /\ PresentedExtent = Len(seen) /\ PresentedExtent \in 0 .. FrameCount
         /\ \A h \in Generation : attempt[h] \notin Unsettled
         /\ PresentedExtent > 0 \/ Interrupted
<1>1. attempt[g] = "SETTLED" /\ g = Latest
  BY DEF HistoryProvable
<1>2. \A h \in Generation : attempt[h] \notin Unsettled
  BY <1>1 DEF IInv, Attempts, Unsettled
<1>3. PresentedExtent = Len(seen) /\ PresentedExtent \in 0 .. FrameCount
  BY <1>2, CaughtUp, ExtentFacts DEF IInv
<1>4. PresentedExtent > 0 \/ Interrupted
  <2>1. CASE PresentedExtent < FrameCount
    BY <2>1 DEF HistoryProvable, Interrupted
  <2>2. CASE ~ PresentedExtent < FrameCount
    BY <1>3, <2>2, Bounds
  <2> QED
    BY <2>1, <2>2
<1> QED
  BY <1>2, <1>3, <1>4

LEMMA CommitHistoryStep ==
  ASSUME IInv, NEW g \in Generation, CommitHistory(g) PROVE IInv'
<1>1. /\ HistoryProvable(g) /\ told' = PresentedExtent
      /\ UNCHANGED <<frontier, attempt, transport, evidence, received, terminal,
                     interruption, sinkFrame, closed, seen, job>>
      /\ TypeOK
  BY DEF CommitHistory, sink, IInv
<1>2. /\ PresentedExtent = Len(seen) /\ PresentedExtent \in 0 .. FrameCount
      /\ \A h \in Generation : attempt[h] \notin Unsettled
      /\ PresentedExtent > 0 \/ Interrupted
  BY <1>1, Tellable
<1>3. told' \in NotTold .. FrameCount
  BY <1>1, <1>2, Bounds DEF NotTold
<1>4. Attempts' /\ Frames' /\ Evidence' /\ Sight' /\ Memory'
  BY <1>1, AttemptsKept, FramesKept, EvidenceKept, SightKept, MemoryKept DEF IInv, Opened
<1>5. Telling'
  <2>1. Interrupted' <=> Interrupted
    BY <1>1 DEF Interrupted
  <2> QED
    BY <1>1, <1>2, <2>1 DEF Telling
<1>6. CASE PresentedExtent = 0
  <2>1. UNCHANGED timeline
    BY <1>6 DEF CommitHistory
  <2> QED
    BY <1>1, <1>3, <1>4, <1>5, <2>1, PathsKept, WindowsKept DEF IInv, TypeOK
<1>7. CASE PresentedExtent # 0
  <2>1. /\ ~ OutputPresented /\ Len(timeline) < MaxTimeline
        /\ timeline' = Append(timeline, "progressive") /\ "progressive" \in EventKind
    BY <1>7 DEF CommitHistory, EventKind
  <2>2. TypeOK'
    BY <1>1, <1>3, <2>1, Appended DEF TypeOK
  <2>3. Paths' /\ Windows'
    BY <1>1, <2>1, PathsAppended, WindowsAppended DEF IInv
  <2> QED
    BY <1>4, <1>5, <2>2, <2>3 DEF IInv
<1> QED
  BY <1>6, <1>7

-----------------------------------------------------------------------------
(* The sink. *)

\* A frame in flight is taken or refused.
LEMMA SinkAnswers ==
  ASSUME IInv, NEW g \in Generation, NEW k \in Frame, NEW s \in {"accepted", "refused"},
         sinkFrame[g][k] = "inFlight", sinkFrame' = [sinkFrame EXCEPT ![g][k] = s],
         UNCHANGED <<timeline, frontier, attempt, transport, evidence, received, terminal,
                     interruption, told, closed, seen, job>>
  PROVE  IInv'
<1>1. /\ sinkFrame' \in [Generation -> [Frame -> SinkState]] /\ sinkFrame'[g][k] = s
      /\ \A h \in Generation, n \in Frame : h # g \/ n # k => sinkFrame'[h][n] = sinkFrame[h][n]
      /\ Evidence' /\ Sight'
  <2>1. s \in SinkState /\ s # "presented"
    BY DEF SinkState
  <2> QED
    BY <2>1, SinkUpdated
<1>2. TypeOK'
  BY <1>1 DEF IInv, TypeOK, SinkState
<1>3. Frames'
  <2>1. FrameSent(g, k) /\ (PreviousPresented(k)' <=> PreviousPresented(k))
    BY DEF IInv, Frames, PreviousPresented
  <2>2. FrameSent(g, k)'
    BY <1>1, <2>1 DEF FrameSent
  <2> QED
    BY <1>1, <2>2, FramesUpdated DEF IInv
<1>4. Attempts' /\ Telling' /\ Paths' /\ Windows' /\ Memory'
  BY AttemptsKept, InterruptedKept, TellingKept, PathsKept, WindowsKept, MemoryKept
  DEF IInv, Opened
<1> QED
  BY <1>1, <1>2, <1>3, <1>4 DEF IInv

LEMMA SinkAcceptsStep ==
  ASSUME IInv, NEW g \in Generation, NEW k \in Frame, SinkAccepts(g, k) PROVE IInv'
BY SinkAnswers DEF SinkAccepts, durable

LEMMA SinkRefusesStep ==
  ASSUME IInv, NEW g \in Generation, NEW k \in Frame, SinkRefuses(g, k) PROVE IInv'
BY SinkAnswers DEF SinkRefuses, durable

\* A frame that the sink can show is the next one, and nothing was told yet.
LEMMA NextShown ==
  ASSUME IInv, NEW g \in Generation, NEW k \in Frame,
         sinkFrame[g][k] = "accepted", g \notin closed
  PROVE  /\ attempt[g] \in Unsettled /\ g = Latest /\ told = NotTold
         /\ evidence[k] = 0 /\ k = Len(seen) + 1 /\ Len(seen) \in 0 .. FrameCount
<1>1. attempt[g] # "NONE" /\ attempt[g] # "SETTLED" /\ PreviousPresented(k)
  BY DEF IInv, Frames, FrameSent
<1>2. attempt[g] \in Unsettled
  BY <1>1, Typed DEF IInv, AttemptState, Unsettled
<1>3. g = Latest /\ told = NotTold
  BY <1>2, UnsettledFacts
<1>4. evidence[k] = 0
  <2> SUFFICES ASSUME evidence[k] # 0 PROVE FALSE
    OBVIOUS
  <2>1. PICK h : h = evidence[k]
    OBVIOUS
  <2>2. h \in 0 .. MaxGeneration
    BY <2>1, Typed DEF IInv
  <2>3. h > 0
    BY <2>1, <2>2, Bounds
  <2>4. h >= g /\ h \in Generation /\ sinkFrame[h][k] = "presented"
    BY <2>1, <2>2, <2>3, Bounds DEF IInv, Frames, FrameSent, Generation, Evidence, Receipts
  <2>5. attempt[h] # "NONE"
    BY <2>4 DEF IInv, Frames, FrameSent
  <2>6. h <= Latest
    BY <2>4, <2>5, LatestFacts DEF IInv
  <2>7. h = g
    BY <1>3, <2>4, <2>6, Bounds DEF Generation
  <2> QED
    BY <2>4, <2>7
<1>5. k = PresentedExtent + 1 /\ PresentedExtent \in 0 .. FrameCount
  BY <1>1, <1>4, NextFrame, ExtentFacts DEF IInv
<1>6. /\ Len(seen) \in 0 .. FrameCount
      /\ PresentedExtent <= Len(seen) /\ Len(seen) <= PresentedExtent + 1
  BY SeenFacts DEF IInv
<1>7. Len(seen) # k
  <2> SUFFICES ASSUME Len(seen) = k PROVE FALSE
    OBVIOUS
  <2>1. k <= Len(seen)
    BY Bounds DEF Frame
  <2>2. PICK h \in Generation : sinkFrame[h][k] = "presented"
    BY <2>1 DEF IInv, Sight
  <2>3. attempt[h] \in Unsettled
    BY <1>4, <2>2 DEF IInv, Frames, FrameSent
  <2>4. h = g
    BY <1>3, <2>3, UnsettledFacts
  <2> QED
    BY <2>2, <2>4
<1>8. k = Len(seen) + 1
  BY <1>5, <1>6, <1>7, Bounds
<1> QED
  BY <1>2, <1>3, <1>4, <1>6, <1>8

LEMMA SinkPresentsStep ==
  ASSUME IInv, NEW g \in Generation, NEW k \in Frame, SinkPresents(g, k) PROVE IInv'
<1>1. /\ sinkFrame[g][k] = "accepted" /\ g \notin closed
      /\ sinkFrame' = [sinkFrame EXCEPT ![g][k] = "presented"]
      /\ seen' = Append(seen, k)
      /\ UNCHANGED <<timeline, frontier, attempt, transport, evidence, received, terminal,
                     interruption, told, closed, job>>
      /\ TypeOK /\ seen \in Seq(Frame) /\ sinkFrame \in [Generation -> [Frame -> SinkState]]
  BY Typed DEF SinkPresents, durable, IInv
<1>2. /\ attempt[g] \in Unsettled /\ g = Latest /\ told = NotTold
      /\ evidence[k] = 0 /\ k = Len(seen) + 1 /\ Len(seen) \in 0 .. FrameCount
  BY <1>1, NextShown
<1>3. /\ sinkFrame'[g][k] = "presented"
      /\ \A h \in Generation, n \in Frame : h # g \/ n # k => sinkFrame'[h][n] = sinkFrame[h][n]
      /\ sinkFrame' \in [Generation -> [Frame -> SinkState]]
  BY <1>1 DEF SinkState
<1>4. /\ seen' \in Seq(Frame) /\ Len(seen') = k
      /\ seen'[k] = k /\ \A i \in 1 .. Len(seen) : seen'[i] = seen[i]
  BY <1>1, <1>2, Bounds
<1>5. TypeOK'
  BY <1>1, <1>3, <1>4 DEF TypeOK, SinkState
<1>6. Frames'
  <2>1. FrameSent(g, k) /\ (PreviousPresented(k)' <=> PreviousPresented(k))
    BY <1>1 DEF IInv, Frames, PreviousPresented
  <2>2. FrameSent(g, k)'
    <3>1. attempt[g] # "SETTLED" /\ ~ evidence[k] > 0
      BY <1>2, Bounds DEF Unsettled
    <3> QED
      BY <1>1, <1>2, <1>3, <2>1, <3>1 DEF FrameSent
  <2> QED
    BY <1>1, <1>3, <2>2, FramesUpdated DEF IInv
<1>7. Evidence'
  <2>1. Receipts' = Receipts /\ PresentedExtent' = PresentedExtent
    BY <1>1 DEF Receipts, PresentedExtent
  <2>2. ASSUME NEW n \in Receipts PROVE sinkFrame'[evidence[n]][n] = "presented"
    <3>1. n \in Frame /\ evidence[n] > 0 /\ evidence[n] \in 0 .. MaxGeneration
      BY Typed DEF Receipts, IInv
    <3>2. evidence[n] \in Generation
      BY <3>1, Bounds DEF Generation
    <3>3. n # k
      BY <1>2, <3>1, Bounds
    <3> QED
      BY <1>3, <3>1, <3>2, <3>3 DEF IInv, Evidence
  <2> QED
    BY <1>1, <2>1, <2>2 DEF IInv, Evidence
<1>8. Sight'
  <2>1. ASSUME NEW i \in 1 .. Len(seen') PROVE seen'[i] = i
    <3>1. CASE i = k
      BY <1>4, <3>1
    <3>2. CASE i # k
      <4>1. i \in 1 .. Len(seen)
        BY <1>2, <1>4, <3>2, Bounds
      <4> QED
        BY <1>4, <4>1 DEF IInv, Sight
    <3> QED
      BY <3>1, <3>2
  <2>2. ASSUME NEW n \in Frame
        PROVE  n <= Len(seen') <=> \E h \in Generation : sinkFrame'[h][n] = "presented"
    <3>1. CASE n = k
      <4>1. n <= Len(seen')
        BY <1>4, <3>1, Bounds DEF Frame
      <4> QED
        BY <1>3, <3>1, <4>1
    <3>2. CASE n # k
      <4>1. n <= Len(seen') <=> n <= Len(seen)
        BY <1>2, <1>4, <3>2, Bounds DEF Frame
      <4>2. \A h \in Generation : sinkFrame'[h][n] = sinkFrame[h][n]
        BY <1>3, <3>2
      <4> QED
        BY <4>1, <4>2 DEF IInv, Sight
    <3> QED
      BY <3>1, <3>2
  <2> QED
    BY <2>1, <2>2 DEF Sight
<1>9. Telling'
  BY <1>1, <1>2 DEF Telling
<1>10. Attempts' /\ Paths' /\ Windows' /\ Memory'
  BY <1>1, AttemptsKept, PathsKept, WindowsKept, MemoryKept DEF IInv, Opened
<1> QED
  BY <1>5, <1>6, <1>7, <1>8, <1>9, <1>10 DEF IInv

-----------------------------------------------------------------------------
(* Every step. *)

LEMMA ServiceStepInv == ASSUME IInv, ServiceStep PROVE IInv'
<1>1. ASSUME NEW g \in Generation,
             \/ CommitUnknownStatus(g) \/ CommitHistory(g)
             \/ \E k \in Frame :
                    AuthorizeFrame(g, k) \/ RecordTransportStatus(g, k) \/ RecordReceipt(g, k)
             \/ \E n \in Frame : RecordReception(g, n)
             \/ \E e \in 1 .. MaxTimeline : BeginInterrupt(g, e)
      PROVE  IInv'
  BY <1>1, CommitUnknownStatusStep, CommitHistoryStep, AuthorizeFrameStep,
     RecordTransportStatusStep, RecordReceiptStep, RecordReceptionStep, BeginInterruptStep
<1> QED
  BY <1>1, OpenSessionStep, PresentGenericStep, FenceAttemptStep DEF ServiceStep

LEMMA StepInv == IInv /\ [Next]_vars => IInv'
<1> SUFFICES ASSUME IInv, [Next]_vars PROVE IInv'
  OBVIOUS
<1>1. CASE AppendInput
  BY <1>1, AppendInputStep
<1>2. CASE ServiceStep
  BY <1>2, ServiceStepInv
<1>3. CASE SinkStep
  BY <1>3, SinkAcceptsStep, SinkRefusesStep, SinkPresentsStep DEF SinkStep
<1>4. ASSUME NEW c \in Caller, CallerStep(c) PROVE IInv'
  BY <1>4, CommitTerminalStatusStep, CommitInterruptStep, AbandonStep,
     AskTerminalStatusStep, RequestCancellationStep DEF CallerStep
<1>5. CASE UNCHANGED vars
  <2>1. UNCHANGED <<timeline, frontier, attempt, transport, evidence, received, terminal,
                    interruption, told, sinkFrame, closed, seen, job>>
    BY <1>5 DEF vars, durable, sink
  <2>2. TypeOK' /\ Attempts' /\ Frames' /\ Evidence' /\ Sight'
    BY <2>1, AttemptsKept, FramesKept, EvidenceKept, SightKept DEF IInv, Opened, TypeOK
  <2>3. Telling' /\ Paths' /\ Windows' /\ Memory'
    BY <2>1, InterruptedKept, TellingKept, PathsKept, WindowsKept, MemoryKept DEF IInv
  <2> QED
    BY <2>2, <2>3 DEF IInv
<1> QED
  BY <1>1, <1>2, <1>3, <1>4, <1>5 DEF Next

-----------------------------------------------------------------------------
(* What the invariant and the steps imply. *)

LEMMA OnePath == ASSUME IInv PROVE OneCanonicalPresentation
<1>1. \A i \in DOMAIN timeline : timeline[i] = "generic" => ~ Opened
  BY DEF IInv, Paths
<1>2. ASSUME ~ Opened PROVE seen = <<>>
  <2>1. Len(seen) = 0
    BY <1>2, Unopened
  <2> QED
    BY <2>1, Typed DEF IInv
<1> QED
  BY <1>1, <1>2 DEF IInv, Paths, OneCanonicalPresentation

LEMMA MatchesSink == ASSUME IInv PROVE RecordMatchesSink
<1>1. \A k \in Frame : evidence[k] > 0 => sinkFrame[evidence[k]][k] = "presented"
  BY DEF IInv, Evidence, Receipts
<1>2. \A k \in Frame : evidence[k] > 0 => PreviousPresented(k)
  <2> SUFFICES ASSUME NEW k \in Frame, evidence[k] > 0, k > 1 PROVE evidence[k - 1] > 0
    BY DEF PreviousPresented
  <2>1. k - 1 \in Frame /\ k <= PresentedExtent /\ PresentedExtent \in 0 .. FrameCount
    BY ExtentFacts, Bounds DEF IInv, Frame
  <2>2. k - 1 <= PresentedExtent
    BY <2>1, Bounds DEF Frame
  <2> QED
    BY <2>1, <2>2, ExtentFacts DEF IInv
<1>3. Len(seen) <= PresentedExtent + 1 /\ received <= PresentedExtent
  BY SeenFacts DEF IInv, Evidence
<1>4. \A g \in Generation, k \in Frame :
        /\ transport[g][k] = "NOT_ACCEPTED" => sinkFrame[g][k] = "refused"
        /\ transport[g][k] = "ACCEPTED" => sinkFrame[g][k] \in {"accepted", "presented"}
  BY DEF IInv, Frames, FrameSent
<1>5. \A g \in Generation :
        /\ terminal[g] # NoStatus => attempt[g] = "SETTLED" /\ g \in closed
        /\ attempt[g] \in {"OPEN", "UNKNOWN"} => g = Latest
  BY DEF IInv, Attempts, Unsettled
<1> QED
  BY <1>1, <1>2, <1>3, <1>4, <1>5 DEF RecordMatchesSink

LEMMA InWindow == ASSUME IInv PROVE InterruptionInWindow
<1>1. \A g \in Generation : interruption[g] # NoInterruption => interruption[g].event # 0
  BY DEF IInv, Windows
<1> QED
  BY <1>1 DEF IInv, Windows, InterruptionInWindow

\* An interrupted session has no open attempt but the interrupted one.
LEMMA InterruptedLatest ==
  ASSUME IInv, Interrupted, NEW g \in Generation, g = Latest
  PROVE  interruption[g] # NoInterruption
BY DEF IInv, Windows, Interrupted

\* A step of the services leaves the interruptions alone and starts nothing of an
\* interrupted session, or it is the one that interrupts.
LEMMA ServiceStepFinal == ASSUME IInv, ServiceStep PROVE InterruptedForGood
<1>1. CASE OpenSession \/ PresentGeneric
  BY <1>1 DEF OpenSession, PresentGeneric, InterruptedForGood
<1>2. CASE FenceAttempt
  BY <1>2 DEF FenceAttempt, InterruptedForGood
<1>3. ASSUME NEW g \in Generation, CommitUnknownStatus(g) PROVE InterruptedForGood
  <2>1. attempt \in [Generation -> AttemptState]
    BY Typed DEF IInv
  <2>2. \A h \in Generation : attempt'[h] = "NONE" <=> attempt[h] = "NONE"
    BY <1>3, <2>1 DEF CommitUnknownStatus
  <2> QED
    BY <1>3, <2>2 DEF CommitUnknownStatus, InterruptedForGood
<1>4. ASSUME NEW g \in Generation, CommitHistory(g) PROVE InterruptedForGood
  BY <1>4 DEF CommitHistory, InterruptedForGood
<1>5. ASSUME NEW g \in Generation, NEW k \in Frame, AuthorizeFrame(g, k)
      PROVE  InterruptedForGood
  <2>1. ~ Interrupted
    <3>1. interruption[g] = NoInterruption /\ attempt[g] \in Unsettled
      BY <1>5 DEF AuthorizeFrame, NotInterrupted, Unsettled
    <3> QED
      BY <3>1, InterruptedLatest, UnsettledFacts
  <2> QED
    BY <1>5, <2>1 DEF AuthorizeFrame, InterruptedForGood
<1>6. ASSUME NEW g \in Generation, NEW k \in Frame, RecordTransportStatus(g, k)
      PROVE  InterruptedForGood
  <2>1. /\ transport \in [Generation -> [Frame -> TransportState]]
        /\ sinkFrame[g][k] \in {"accepted", "presented", "refused"}
    BY <1>6, Typed DEF IInv, RecordTransportStatus, TransportAnswer
  <2>2. TransportAnswer[sinkFrame[g][k]] # "NONE" /\ transport[g][k] # "NONE"
    BY <1>6, <2>1 DEF TransportAnswer, RecordTransportStatus
  <2>3. \A h \in Generation, n \in Frame : transport'[h][n] = "NONE" <=> transport[h][n] = "NONE"
    BY <1>6, <2>1, <2>2 DEF RecordTransportStatus
  <2> QED
    BY <1>6, <2>3 DEF RecordTransportStatus, InterruptedForGood
<1>7. ASSUME NEW g \in Generation, NEW k \in Frame, RecordReceipt(g, k)
      PROVE  InterruptedForGood
  BY <1>7 DEF RecordReceipt, InterruptedForGood
<1>8. ASSUME NEW g \in Generation, NEW n \in Frame, RecordReception(g, n)
      PROVE  InterruptedForGood
  BY <1>8 DEF RecordReception, InterruptedForGood
<1>9. ASSUME NEW g \in Generation, NEW e \in 1 .. MaxTimeline, BeginInterrupt(g, e)
      PROVE  InterruptedForGood
  <2>1. interruption[g] = NoInterruption /\ UNCHANGED <<attempt, transport>>
    BY <1>9 DEF BeginInterrupt
  <2>2. \A h \in Generation : h # g => interruption'[h] = interruption[h]
    BY <1>9, Typed DEF BeginInterrupt, IInv
  <2> QED
    BY <2>1, <2>2 DEF InterruptedForGood
<1> QED
  BY <1>1, <1>2, <1>3, <1>4, <1>5, <1>6, <1>7, <1>8, <1>9 DEF ServiceStep

LEMMA CallerStepFinal ==
  ASSUME IInv, NEW c \in Caller, CallerStep(c) PROVE InterruptedForGood
<1>1. CASE CommitTerminalStatus(c)
  <2>0. PICK g : g = job[c].generation
    OBVIOUS
  <2>1. attempt \in [Generation -> AttemptState]
    BY Typed DEF IInv
  <2>2. \/ attempt' = attempt
        \/ attempt[g] \in Unsettled /\ attempt' = [attempt EXCEPT ![g] = "SETTLED"]
    BY <1>1, <2>0 DEF CommitTerminalStatus, Unsettled
  <2>3. \A h \in Generation : attempt'[h] = "NONE" <=> attempt[h] = "NONE"
    BY <2>1, <2>2 DEF Unsettled
  <2> QED
    BY <1>1, <2>3 DEF CommitTerminalStatus, InterruptedForGood
<1>2. CASE CommitInterrupt(c)
  <2>1. UNCHANGED <<attempt, transport>>
    BY <1>2 DEF CommitInterrupt
  <2>2. ASSUME NEW h \in Generation
        PROVE  /\ interruption'[h].event = interruption[h].event
               /\ interruption[h].request \in {"REQUESTED", "NOT_REQUIRED_TERMINAL"} =>
                    interruption'[h].request = interruption[h].request
    <3>1. CASE h = job[c].generation
      BY <1>2, <3>1, NotedInterruption
    <3>2. CASE h # job[c].generation
      BY <1>2, <3>2, NotedInterruption
    <3> QED
      BY <3>1, <3>2
  <2> QED
    BY <2>1, <2>2 DEF InterruptedForGood
<1>3. CASE Abandon(c)
  BY <1>3 DEF Abandon, durable, InterruptedForGood
<1>4. ASSUME NEW g \in Generation,
             AskTerminalStatus(c, g) \/ \E a \in BOOLEAN : RequestCancellation(c, g, a)
      PROVE  InterruptedForGood
  BY <1>4 DEF AskTerminalStatus, RequestCancellation, durable, InterruptedForGood
<1> QED
  BY <1>1, <1>2, <1>3, <1>4 DEF CallerStep

LEMMA StepFinal == IInv /\ [Next]_vars => [InterruptedForGood]_vars
<1> SUFFICES ASSUME IInv, Next PROVE InterruptedForGood
  OBVIOUS
<1>1. CASE AppendInput
  BY <1>1 DEF AppendInput, InterruptedForGood
<1>2. CASE SinkStep
  BY <1>2 DEF SinkStep, SinkAccepts, SinkRefuses, SinkPresents, durable, InterruptedForGood
<1> QED
  BY <1>1, <1>2, ServiceStepFinal, CallerStepFinal DEF Next

-----------------------------------------------------------------------------
(* The presented prefix. *)

LEMMA PrefixInit == Init => Prefix!Init
BY DEF Init, Prefix!Init, NotTold, Prefix!NotTold

\* The sink shows the next frame, history tells what was seen, and nothing else is visible.
LEMMA PrefixStep == IInv /\ [Next]_vars => [Prefix!Next]_(Prefix!vars)
<1> SUFFICES ASSUME IInv, [Next]_vars PROVE [Prefix!Next]_(Prefix!vars)
  OBVIOUS
<1>1. ASSUME NEW g \in Generation, NEW k \in Frame, SinkPresents(g, k) PROVE Prefix!Show
  <2>1. sinkFrame[g][k] = "accepted" /\ g \notin closed
        /\ seen' = Append(seen, k) /\ told' = told
    BY <1>1 DEF SinkPresents, durable
  <2>2. told = NotTold /\ k = Len(seen) + 1 /\ Len(seen) \in 0 .. FrameCount
    BY <2>1, NextShown
  <2>3. Len(seen) < FrameCount
    BY <2>2, Bounds DEF Frame
  <2> QED
    BY <2>1, <2>2, <2>3 DEF Prefix!Show, NotTold, Prefix!NotTold
<1>2. ASSUME NEW g \in Generation, CommitHistory(g) PROVE Prefix!Tell
  <2>1. told = NotTold /\ told' = PresentedExtent /\ HistoryProvable(g) /\ seen' = seen
    BY <1>2 DEF CommitHistory, sink
  <2>2. PresentedExtent = Len(seen)
    BY <2>1, Tellable
  <2> QED
    BY <2>1, <2>2 DEF Prefix!Tell, NotTold, Prefix!NotTold
<1>3. CASE ServiceStep
  <2>1. (\E g \in Generation : CommitHistory(g)) \/ UNCHANGED <<seen, told>>
    BY <1>3 DEF ServiceStep, OpenSession, PresentGeneric, FenceAttempt, CommitUnknownStatus,
       AuthorizeFrame, RecordTransportStatus, RecordReceipt, RecordReception, BeginInterrupt,
       sink
  <2> QED
    BY <1>2, <2>1 DEF Prefix!Next, Prefix!vars
<1>4. CASE SinkStep
  <2>1. (\E g \in Generation, k \in Frame : SinkPresents(g, k)) \/ UNCHANGED <<seen, told>>
    BY <1>4 DEF SinkStep, SinkAccepts, SinkRefuses, durable
  <2> QED
    BY <1>1, <2>1 DEF Prefix!Next, Prefix!vars
<1>5. ASSUME NEW c \in Caller, CallerStep(c) PROVE UNCHANGED <<seen, told>>
  BY <1>5 DEF CallerStep, CommitTerminalStatus, CommitInterrupt, Abandon, AskTerminalStatus,
     RequestCancellation, durable, sink
<1>6. CASE AppendInput \/ UNCHANGED vars
  BY <1>6 DEF AppendInput, vars, durable, sink, Prefix!vars
<1> QED
  BY <1>3, <1>4, <1>5, <1>6 DEF Next, Prefix!vars

-----------------------------------------------------------------------------
(* The theorems. *)

\* The invariant that the services keep in every reachable state: attempts numbered
\* without gaps, frames and receipts that agree with the sink, the sight of the
\* counterpart, the history, and what callers hold between two steps.
THEOREM Inductive == Spec => []IInv
BY InitInv, StepInv, PTL DEF Spec

\* Every variable keeps its type.
THEOREM TypeCorrectness == Spec => []TypeOK
<1>1. IInv => TypeOK
  BY DEF IInv
<1> QED
  BY <1>1, Inductive, PTL

\* Whatever the sink does on its own, the durable record of frames, receipts and
\* settlements lags it by one frame at most and never claims what it did not do.
THEOREM RecordMatchesSinkHolds == Spec => []RecordMatchesSink
<1>1. IInv => RecordMatchesSink
  BY MatchesSink
<1> QED
  BY <1>1, Inductive, PTL

\* The output enters the Timeline once, by the generic or by the progressive path.
THEOREM OneCanonicalPresentationHolds == Spec => []OneCanonicalPresentation
<1>1. IInv => OneCanonicalPresentation
  BY OnePath
<1> QED
  BY <1>1, Inductive, PTL

\* A session's one interruption is an input admitted after the session was opened and
\* before the terminal status was observed.
THEOREM InterruptionInWindowHolds == Spec => []InterruptionInWindow
<1>1. IInv => InterruptionInWindow
  BY InWindow
<1> QED
  BY <1>1, Inductive, PTL

\* No step of any process starts an attempt or sends a frame of an interrupted session,
\* or takes back the interruption or a certain answer about its cancellation.
THEOREM InterruptionIsFinalHolds == Spec => InterruptionIsFinal
<1>1. IInv /\ [Next]_vars => [InterruptedForGood]_vars
  BY StepFinal
<1> QED
  BY <1>1, Inductive, PTL DEF Spec, InterruptionIsFinal

\* The progressive presentation keeps the promise of PresentedPrefix: the counterpart
\* sees the frames in order, each once, and history tells exactly what was seen.
THEOREM ImplementsPrefixHolds == Spec => ImplementsPrefix
<1>1. Spec => Prefix!Spec
  BY PrefixInit, PrefixStep, Inductive, PTL DEF Spec, Prefix!Spec
<1> QED
  BY <1>1 DEF ImplementsPrefix
=============================================================================
