--------------------- MODULE CalendarAcquisitionProofs ---------------------
(***************************************************************************)
(* Theorems about CalendarAcquisition, for any number of callers, heads,   *)
(* restarts, pages and provider revisions.  Two traversals of one          *)
(* Observation may be open at once; the argument is that each owns its     *)
(* attempt row, that the rows of an admitted attempt are never written     *)
(* again, and that a caller about to fence holds revisions that are either *)
(* old or those of heads that permit the read.  Fences are bounded by      *)
(* counting: every page recorded or just fenced spent a fence of its own.  *)
(***************************************************************************)
EXTENDS CalendarAcquisition, NumberedRows, SequenceTheorems

LastGeneration == MaxRestarts + Cardinality(Caller)
Statuses == {"none", "STARTED", "SUCCEEDED", "FAILED"}
CaptureRow == [generation : Nat, snapshot : Nat, anchor : Nat, pages : Nat]

RowTypes ==
    /\ authority \in [Authority -> [revision : Nat, permits : BOOLEAN]]
    /\ snapshotRef \in Nat \ {0}
    /\ observation \in [Observation -> Statuses]
    /\ startedAt \in [Observation -> Nat]
    /\ attempt \in [Observation -> [Generation -> Statuses]]
    /\ page \in [Observation -> [Generation -> Seq(Nat)]]
    /\ fence \in [Observation -> Nat]
    /\ capture \in [Observation -> CaptureRow]

CallTypes == [Caller -> [stage : Stages, observation : Nat, generation : Nat, ordinal : Nat,
                         seen : [Authority -> Nat]]]

Numbered == \A o \in Observation : Attempts(o) = 1 .. Generations(o)

\* The pages of a traversal: of one snapshot, at or after the start of the acquisition.
PagesOfOneSnapshot ==
    \A o \in Observation, g \in Generation :
        \A i \in 1 .. Len(page[o][g]) :
            /\ page[o][g][i] = page[o][g][1]
            /\ startedAt[o] # 0
            /\ startedAt[o] <= page[o][g][i]

StartIsPast == \A o \in Observation : startedAt[o] <= snapshotRef

\* What holds of an Observation and the capture admitted for it.
Admission(o) ==
    /\ observation[o] = "SUCCEEDED" <=> capture[o] # NoCapture
    /\ \A g \in Generation :
         attempt[o][g] = "SUCCEEDED" => capture[o] # NoCapture /\ g = capture[o].generation
    /\ capture[o] # NoCapture =>
         /\ capture[o].generation \in Generation
         /\ attempt[o][capture[o].generation] = "SUCCEEDED"
         /\ Len(page[o][capture[o].generation]) = capture[o].pages
         /\ \A i \in 1 .. capture[o].pages :
              page[o][capture[o].generation][i] = capture[o].snapshot
         /\ capture[o].anchor <= capture[o].snapshot

RowsInv == RowTypes /\ Numbered /\ PagesOfOneSnapshot /\ StartIsPast
           /\ (\A o \in Observation : Admission(o))

\* A caller inside a traversal.
Working == {"traversing", "authorized", "fenced", "complete", "admitting", "failed",
            "restartable"}

\* What a caller holds in memory.
Holds(c) ==
    /\ call[c].stage # "idle" =>
         call[c].observation \in Observation /\ startedAt[call[c].observation] # 0
    /\ call[c].stage \in Working =>
         /\ call[c].generation \in Generation
         /\ attempt[call[c].observation][call[c].generation] = "STARTED"
    /\ call[c].stage \in {"complete", "admitting"} =>
         Len(page[call[c].observation][call[c].generation]) # 0
    /\ call[c].stage = "authorized" =>
         \A h \in Authority :
            /\ call[c].seen[h] <= authority[h].revision
            /\ call[c].seen[h] = authority[h].revision => authority[h].permits

\* No two callers traverse under one attempt.
Owned == \A c, d \in Caller :
    c # d /\ call[c].stage \in Working /\ call[d].stage \in Working
        => \/ call[c].observation # call[d].observation
           \/ call[c].generation # call[d].generation

IInv == RowsInv /\ call \in CallTypes /\ (\A c \in Caller : Holds(c)) /\ Owned

LEMMA Bounds ==
  /\ MaxObservation \in Nat \ {0} /\ MaxRestarts \in Nat /\ MaxSnapshot \in Nat
  /\ Cardinality(Caller) \in Nat /\ LastGeneration \in Nat /\ Generation = 1 .. LastGeneration
<1>1. Cardinality(Caller) \in Nat
  BY BoundsAssumption, FS_CardinalityType
<1> QED
  BY <1>1, BoundsAssumption DEF LastGeneration, Generation

LEMMA InitInv == Init => IInv
<1> SUFFICES ASSUME Init PROVE IInv
  OBVIOUS
<1> USE DEF Init
<1>1. RowTypes
  BY DEF RowTypes, Statuses, CaptureRow, NoCapture
<1>2. Numbered
  <2>1. \A o \in Observation : Attempts(o) = {}
    BY DEF Attempts
  <2>2. Cardinality({}) = 0 /\ {} = 1 .. 0
    BY FS_EmptySet
  <2> QED
    BY <2>1, <2>2 DEF Numbered, Generations
<1>3. PagesOfOneSnapshot /\ StartIsPast /\ (\A o \in Observation : Admission(o))
  BY DEF PagesOfOneSnapshot, StartIsPast, Admission
<1>4. call \in CallTypes /\ \A c \in Caller : call[c].stage = "idle"
  BY DEF CallTypes, Idle, NoRevisions, Stages
<1>5. (\A c \in Caller : Holds(c)) /\ Owned
  BY <1>4 DEF Holds, Owned, Working
<1> QED
  BY <1>1, <1>2, <1>3, <1>4, <1>5 DEF IInv, RowsInv

-----------------------------------------------------------------------------
(* Steps of one caller that write no row. *)

\* What the steps below do to the memory of their caller.
LEMMA GotoFacts ==
  ASSUME call \in CallTypes, NEW c \in Caller, NEW st \in Stages, Goto(c, st)
  PROVE  /\ call' \in CallTypes /\ call'[c].stage = st
         /\ call'[c].observation = call[c].observation
         /\ call'[c].generation = call[c].generation
         /\ call'[c].seen = call[c].seen
         /\ \A d \in Caller \ {c} : call'[d] = call[d]
  BY DEF CallTypes, Goto

LEMMA ReturnFacts ==
  ASSUME call \in CallTypes, NEW c \in Caller, Return(c)
  PROVE  /\ call' \in CallTypes /\ call'[c].stage = "idle"
         /\ \A d \in Caller \ {c} : call'[d] = call[d]
  BY DEF CallTypes, Return, Idle, NoRevisions, Stages

rows == <<authority, snapshotRef, observation, startedAt, attempt, page, fence, capture>>

\* A caller moves: within its traversal, or out of any.
LEMMA MoveStep ==
  ASSUME IInv, NEW c \in Caller, UNCHANGED rows, call' \in CallTypes, Holds(c)',
         call'[c].stage \in Working =>
            /\ call[c].stage \in Working
            /\ call'[c].observation = call[c].observation
            /\ call'[c].generation = call[c].generation,
         \A d \in Caller \ {c} : call'[d] = call[d]
  PROVE  IInv'
<1> USE DEF rows
<1>1. RowsInv'
  BY DEF IInv, RowsInv, RowTypes, Numbered, Attempts, Generations, PagesOfOneSnapshot,
         StartIsPast, Admission
<1>2. \A d \in Caller : Holds(d)'
  BY DEF IInv, Holds
<1>3. Owned'
  BY DEF IInv, Owned
<1> QED
  BY <1>1, <1>2, <1>3 DEF IInv

LEMMA LoadContextStep ==
  ASSUME IInv, NEW c \in Caller, LoadContext(c) PROVE IInv'
<1> PICK o \in Observation :
         /\ startedAt[o] # 0
         /\ call' = [call EXCEPT ![c].stage = "loaded", ![c].observation = o]
  BY DEF LoadContext
<1>1. UNCHANGED rows
  BY DEF LoadContext, rows, store
<1>2. /\ call' \in CallTypes /\ call'[c].stage = "loaded" /\ call'[c].observation = o
      /\ \A d \in Caller \ {c} : call'[d] = call[d]
  <2>1. o \in Nat /\ "loaded" \in Stages
    BY Bounds DEF Observation, Stages
  <2> QED
    BY <2>1 DEF IInv, CallTypes
<1>3. Holds(c)'
  BY <1>1, <1>2 DEF Holds, Working, rows
<1> QED
  BY <1>1, <1>2, <1>3, MoveStep DEF Working

LEMMA OpenAcquisitionStep ==
  ASSUME IInv, NEW c \in Caller, OpenAcquisition(c) PROVE IInv'
<1>1. UNCHANGED rows /\ call \in CallTypes /\ Holds(c) /\ call[c].stage = "loaded"
      /\ "opening" \in Stages
  BY DEF OpenAcquisition, rows, store, IInv, Stages
<1>2. CASE Goto(c, "opening")
  <2>1. Holds(c)'
    BY <1>1, <1>2, GotoFacts DEF Holds, Working, rows
  <2> QED
    BY <1>1, <1>2, <2>1, GotoFacts, MoveStep DEF Working
<1>3. CASE Return(c)
  BY <1>1, <1>3, ReturnFacts, MoveStep DEF Holds, Working
<1> QED
  BY <1>2, <1>3 DEF OpenAcquisition

\* A caller in a traversal goes to another stage of it that needs no more.
LEMMA WithinTraversal ==
  ASSUME IInv, NEW c \in Caller, UNCHANGED rows, call[c].stage \in Working,
         NEW st \in {"traversing", "fenced", "failed", "restartable"}, Goto(c, st)
  PROVE  IInv'
<1>1. call \in CallTypes /\ Holds(c) /\ st \in Stages /\ st \in Working
  BY DEF IInv, Stages, Working
<1>2. Holds(c)'
  BY <1>1, GotoFacts DEF Holds, Working, rows
<1> QED
  BY <1>1, <1>2, GotoFacts, MoveStep

\* The revisions read are those of heads that permit the read.
LEMMA AuthorizePageStep ==
  ASSUME IInv, NEW c \in Caller, AuthorizePage(c) PROVE IInv'
<1>1. UNCHANGED rows /\ call \in CallTypes /\ Holds(c) /\ call[c].stage = "traversing"
  BY DEF AuthorizePage, rows, store, IInv
<1>2. CASE Goto(c, "failed")
  BY <1>1, <1>2, WithinTraversal DEF Working
<1>3. CASE /\ Permits(Authority)
           /\ call' = [call EXCEPT ![c].stage = "authorized", ![c].seen = Revisions,
                                   ![c].ordinal = NextTransportOrdinal(ObservationOf(c))]
  <2>1. NextTransportOrdinal(ObservationOf(c)) \in Nat /\ Revisions \in [Authority -> Nat]
    BY <1>1 DEF IInv, RowsInv, RowTypes, NextTransportOrdinal, ObservationOf, Holds, Revisions
  <2>2. /\ call' \in CallTypes
        /\ call'[c].stage = "authorized" /\ call'[c].seen = Revisions
        /\ call'[c].observation = call[c].observation
        /\ call'[c].generation = call[c].generation
        /\ \A d \in Caller \ {c} : call'[d] = call[d]
    <3>1. "authorized" \in Stages
      BY DEF Stages
    <3> QED
      BY <1>1, <1>3, <2>1, <3>1 DEF CallTypes
  <2>3. \A h \in Authority : /\ Revisions[h] <= authority[h].revision
                             /\ authority[h].permits
    <3> TAKE h \in Authority
    <3>1. authority[h].revision \in Nat
      BY DEF IInv, RowsInv, RowTypes
    <3>2. Revisions[h] = authority[h].revision
      BY DEF Revisions
    <3> QED
      BY <1>3, <3>1, <3>2 DEF Permits
  <2>4. Holds(c)'
    BY <1>1, <2>2, <2>3 DEF Holds, Working, rows
  <2> QED
    BY <1>1, <2>2, <2>4, MoveStep DEF Working
<1> QED
  BY <1>2, <1>3 DEF AuthorizePage

LEMMA CheckAdmissionStep ==
  ASSUME IInv, NEW c \in Caller, CheckAdmission(c) PROVE IInv'
<1>1. UNCHANGED rows /\ call \in CallTypes /\ Holds(c) /\ call[c].stage = "complete"
      /\ "admitting" \in Stages
  BY DEF CheckAdmission, rows, store, IInv, Stages
<1>2. CASE Goto(c, "failed")
  BY <1>1, <1>2, WithinTraversal DEF Working
<1>3. CASE Goto(c, "admitting")
  <2>1. Holds(c)'
    BY <1>1, <1>3, GotoFacts DEF Holds, Working, rows
  <2> QED
    BY <1>1, <1>3, <2>1, GotoFacts, MoveStep DEF Working
<1> QED
  BY <1>2, <1>3 DEF CheckAdmission

LEMMA CrashStep ==
  ASSUME IInv, NEW c \in Caller, Crash(c) PROVE IInv'
<1>1. UNCHANGED rows /\ call \in CallTypes /\ Return(c)
  BY DEF Crash, rows, store, IInv
<1> QED
  BY <1>1, ReturnFacts, MoveStep DEF Holds, Working

-----------------------------------------------------------------------------
(* Steps of no caller. *)

\* What callers hold stays true while the rows they hold stay and heads only advance.
LEMMA CallersKept ==
  ASSUME IInv, UNCHANGED <<call, attempt, page>>,
         \A o \in Observation : startedAt[o] # 0 => startedAt'[o] # 0,
         \A h \in Authority : \/ authority'[h] = authority[h]
                              \/ authority'[h].revision = authority[h].revision + 1
  PROVE  call' \in CallTypes /\ (\A c \in Caller : Holds(c)') /\ Owned'
<1>1. ASSUME NEW c \in Caller PROVE Holds(c)'
  <2>1. Holds(c)
    BY DEF IInv
  <2>2. CASE call[c].stage # "authorized"
    BY <2>1, <2>2 DEF Holds
  <2>3. CASE call[c].stage = "authorized"
    <3>1. ASSUME NEW h \in Authority
          PROVE  /\ call[c].seen[h] <= authority'[h].revision
                 /\ call[c].seen[h] = authority'[h].revision => authority'[h].permits
      <4>1. /\ call[c].seen[h] <= authority[h].revision
            /\ call[c].seen[h] = authority[h].revision => authority[h].permits
        BY <2>1, <2>3 DEF Holds
      <4>2. call[c].seen[h] \in Nat /\ authority[h].revision \in Nat
        BY DEF IInv, CallTypes, RowsInv, RowTypes
      <4>3. CASE authority'[h] = authority[h]
        BY <4>1, <4>3
      <4>4. CASE authority'[h].revision = authority[h].revision + 1
        <5>1. call[c].seen[h] <= authority'[h].revision
              /\ call[c].seen[h] # authority'[h].revision
          BY <4>1, <4>2, <4>4
        <5> QED
          BY <5>1
      <4> QED
        BY <4>3, <4>4
    <3>2. call[c].stage \notin {"complete", "admitting"}
      BY <2>3
    <3> QED
      BY <2>1, <2>3, <3>1, <3>2 DEF Holds
  <2> QED
    BY <2>2, <2>3
<1>2. Owned' /\ call' \in CallTypes
  BY DEF IInv, Owned
<1> QED
  BY <1>1, <1>2

LEMMA StartObservationStep ==
  ASSUME IInv, NEW o \in Observation, StartObservation(o) PROVE IInv'
<1>1. /\ observation[o] = "none" /\ observation' = [observation EXCEPT ![o] = "STARTED"]
      /\ UNCHANGED <<authority, snapshotRef, startedAt, attempt, page, fence, capture, call>>
  BY DEF StartObservation
<1>2. RowTypes' /\ \A p \in Observation : observation'[p] = "SUCCEEDED"
                                         <=> observation[p] = "SUCCEEDED"
  BY <1>1 DEF IInv, RowsInv, RowTypes, Statuses
<1>3. RowsInv'
  BY <1>1, <1>2 DEF IInv, RowsInv, Numbered, Attempts, Generations, PagesOfOneSnapshot,
                    StartIsPast, Admission
<1> QED
  BY <1>1, <1>3, CallersKept DEF IInv

\* A step that writes only the frontier or the binding of a request.
LEMMA TimelineStep ==
  ASSUME IInv, UNCHANGED <<rows, call>> PROVE IInv'
<1>1. RowsInv'
  BY DEF IInv, RowsInv, RowTypes, Numbered, Attempts, Generations, PagesOfOneSnapshot,
         StartIsPast, Admission, rows
<1> QED
  BY <1>1, CallersKept DEF IInv, rows

\* The scope is prepared before any page is recorded.
LEMMA PrepareObservationStep ==
  ASSUME IInv, NEW o \in Observation, PrepareObservation(o) PROVE IInv'
<1>1. /\ startedAt[o] = 0 /\ startedAt' = [startedAt EXCEPT ![o] = snapshotRef]
      /\ UNCHANGED <<authority, snapshotRef, observation, attempt, page, fence, capture, call>>
  BY DEF PrepareObservation
<1>2. RowTypes' /\ startedAt'[o] = snapshotRef
      /\ \A p \in Observation \ {o} : startedAt'[p] = startedAt[p]
  BY <1>1 DEF IInv, RowsInv, RowTypes
<1>3. PagesOfOneSnapshot'
  <2> SUFFICES ASSUME NEW p \in Observation, NEW g \in Generation,
                      NEW i \in 1 .. Len(page[p][g])
               PROVE  /\ page[p][g][i] = page[p][g][1]
                      /\ startedAt'[p] # 0 /\ startedAt'[p] <= page[p][g][i]
    BY <1>1 DEF PagesOfOneSnapshot
  <2>1. /\ page[p][g][i] = page[p][g][1] /\ startedAt[p] # 0 /\ startedAt[p] <= page[p][g][i]
    BY DEF IInv, RowsInv, PagesOfOneSnapshot
  <2> QED
    BY <1>1, <1>2, <2>1
<1>4. StartIsPast'
  BY <1>1, <1>2 DEF IInv, RowsInv, RowTypes, StartIsPast
<1>5. RowsInv'
  BY <1>1, <1>2, <1>3, <1>4 DEF IInv, RowsInv, Numbered, Attempts, Generations, Admission
<1>6. \A p \in Observation : startedAt[p] # 0 => startedAt'[p] # 0
  BY <1>1, <1>2
<1> QED
  BY <1>1, <1>5, <1>6, CallersKept DEF IInv

\* The revisions a caller has read are no longer those of a head that moved.
LEMMA ChangeAuthorityStep ==
  ASSUME IInv, NEW h \in Authority, NEW permits \in BOOLEAN, ChangeAuthority(h, permits)
  PROVE  IInv'
<1>1. /\ authority' = [authority EXCEPT ![h] = [revision |-> @.revision + 1,
                                                permits |-> permits]]
      /\ UNCHANGED <<snapshotRef, observation, startedAt, attempt, page, fence, capture, call>>
  BY DEF ChangeAuthority, store
<1>2. RowTypes'
  BY <1>1 DEF IInv, RowsInv, RowTypes
<1>3. RowsInv'
  BY <1>1, <1>2 DEF IInv, RowsInv, Numbered, Attempts, Generations, PagesOfOneSnapshot,
                    StartIsPast, Admission
<1>4. \A k \in Authority : \/ authority'[k] = authority[k]
                           \/ authority'[k].revision = authority[k].revision + 1
  BY <1>1 DEF IInv, RowsInv, RowTypes
<1> QED
  BY <1>1, <1>3, <1>4, CallersKept DEF IInv

LEMMA EditCalendarStep ==
  ASSUME IInv, EditCalendar PROVE IInv'
<1>1. /\ snapshotRef' = snapshotRef + 1
      /\ UNCHANGED <<authority, observation, startedAt, attempt, page, fence, capture, call>>
  BY DEF EditCalendar, store
<1>2. RowTypes'
  BY <1>1 DEF IInv, RowsInv, RowTypes
<1>3. StartIsPast'
  BY <1>1 DEF IInv, RowsInv, RowTypes, StartIsPast
<1>4. RowsInv'
  BY <1>1, <1>2, <1>3 DEF IInv, RowsInv, Numbered, Attempts, Generations,
                          PagesOfOneSnapshot, Admission
<1> QED
  BY <1>1, <1>4, CallersKept DEF IInv

-----------------------------------------------------------------------------
(* Steps of one caller that write rows. *)

\* A caller that writes the rows of one attempt, which no other one traverses.
LEMMA OwnRowStep ==
  ASSUME IInv, NEW c \in Caller, NEW o \in Observation, NEW g \in Generation,
         UNCHANGED <<authority, startedAt>>,
         \A p \in Observation, k \in Generation :
            p # o \/ k # g => attempt'[p][k] = attempt[p][k] /\ page'[p][k] = page[p][k],
         \A d \in Caller \ {c} : call[d].stage \in Working =>
            call[d].observation # o \/ call[d].generation # g,
         call' \in CallTypes, Holds(c)',
         call'[c].stage \in Working => call'[c].observation = o /\ call'[c].generation = g,
         \A d \in Caller \ {c} : call'[d] = call[d]
  PROVE  (\A d \in Caller : Holds(d)') /\ Owned'
<1>1. \A d \in Caller : Holds(d)'
  <2> TAKE d \in Caller
  <2>1. CASE d = c
    BY <2>1
  <2>2. CASE d # c
    <3>1. Holds(d) /\ call'[d] = call[d]
      BY <2>2 DEF IInv
    <3>2. call[d].stage \in Working =>
            /\ attempt'[call[d].observation][call[d].generation]
                  = attempt[call[d].observation][call[d].generation]
            /\ page'[call[d].observation][call[d].generation]
                  = page[call[d].observation][call[d].generation]
      BY <2>2, <3>1 DEF Holds, Working
    <3> QED
      BY <3>1, <3>2 DEF Holds, Working
  <2> QED
    BY <2>1, <2>2
<1>2. Owned'
  BY DEF IInv, Owned
<1> QED
  BY <1>1, <1>2

\* The attempt of a caller in a traversal is its own.
LEMMA OwnAttempt ==
  ASSUME IInv, NEW c \in Caller, call[c].stage \in Working
  PROVE  /\ call \in CallTypes
         /\ ObservationOf(c) = call[c].observation /\ AttemptOf(c) = call[c].generation
         /\ ObservationOf(c) \in Observation /\ AttemptOf(c) \in Generation
         /\ startedAt[ObservationOf(c)] # 0
         /\ attempt[ObservationOf(c)][AttemptOf(c)] = "STARTED"
         /\ \A d \in Caller \ {c} : call[d].stage \in Working =>
               call[d].observation # ObservationOf(c) \/ call[d].generation # AttemptOf(c)
  BY DEF IInv, Holds, Owned, ObservationOf, AttemptOf, Working

\* The inserted generation is the next: its row was nobody's.
LEMMA StartAttemptStep ==
  ASSUME IInv, NEW c \in Caller, StartAttempt(c) PROVE IInv'
<1> PICK o \in Observation : o = ObservationOf(c) /\ o = call[c].observation
  BY DEF IInv, Holds, StartAttempt, ObservationOf
<1>0. startedAt[o] # 0 /\ call \in CallTypes
  BY DEF IInv, Holds, StartAttempt
<1> PICK g \in Generation : g = Generations(o) + 1
  BY DEF StartAttempt
<1>1. /\ attempt' = [attempt EXCEPT ![o][g] = "STARTED"]
      /\ call' = [call EXCEPT ![c].stage = "traversing", ![c].generation = g]
      /\ UNCHANGED <<authority, snapshotRef, observation, startedAt, page, fence, capture>>
  BY DEF StartAttempt
<1>2. /\ g \notin Attempts(o)
      /\ Attempts(o) \cup {g} = 1 .. Cardinality(Attempts(o) \cup {g})
  <2>1. Attempts(o) \subseteq 1 .. LastGeneration /\ LastGeneration \in Nat
    BY Bounds DEF Attempts
  <2> QED
    BY <1>0, <2>1, NextRow DEF IInv, RowsInv, Numbered, Generations
<1>3. RowTypes'
  BY <1>0, <1>1 DEF IInv, RowsInv, RowTypes, Statuses
<1>4. /\ attempt'[o][g] = "STARTED" /\ attempt[o][g] = "none"
      /\ \A p \in Observation, k \in Generation : p # o \/ k # g => attempt'[p][k] = attempt[p][k]
  <2>1. attempt[o][g] = "none"
    BY <1>0, <1>1, <1>2 DEF Attempts
  <2> QED
    BY <1>0, <1>1, <2>1 DEF IInv, RowsInv, RowTypes
<1>5. Numbered'
  <2>1. Attempts(o)' = Attempts(o) \cup {g}
    BY <1>0, <1>1, <1>4 DEF Attempts
  <2>2. \A p \in Observation \ {o} : Attempts(p)' = Attempts(p)
    BY <1>4 DEF Attempts
  <2> QED
    BY <1>2, <2>1, <2>2 DEF IInv, RowsInv, Numbered, Generations
<1>6. \A p \in Observation : Admission(p)'
  BY <1>0, <1>1, <1>4 DEF IInv, RowsInv, Admission
<1>7. RowsInv'
  BY <1>1, <1>3, <1>5, <1>6 DEF IInv, RowsInv, PagesOfOneSnapshot, StartIsPast
<1>8. /\ call' \in CallTypes /\ call'[c].stage = "traversing"
      /\ call'[c].observation = o /\ call'[c].generation = g
      /\ \A d \in Caller \ {c} : call'[d] = call[d]
  <2>1. g \in Nat /\ "traversing" \in Stages
    BY <1>1, Bounds DEF Stages
  <2> QED
    BY <1>0, <1>1, <2>1 DEF CallTypes
<1>9. Holds(c)'
  BY <1>0, <1>1, <1>4, <1>8 DEF Holds, Working
<1>10. \A d \in Caller \ {c} : call[d].stage \in Working =>
          call[d].observation # o \/ call[d].generation # g
  BY <1>4, OwnAttempt DEF ObservationOf, AttemptOf
<1>11. /\ UNCHANGED <<authority, startedAt>>
       /\ \A p \in Observation, k \in Generation :
            p # o \/ k # g => attempt'[p][k] = attempt[p][k] /\ page'[p][k] = page[p][k]
  BY <1>1, <1>4
<1>12. (\A d \in Caller : Holds(d)') /\ Owned'
  BY <1>8, <1>9, <1>10, <1>11, OwnRowStep
<1> QED
  BY <1>7, <1>8, <1>12 DEF IInv

LEMMA FencePageStep ==
  ASSUME IInv, NEW c \in Caller, FencePage(c) PROVE IInv'
<1> PICK o \in Observation, g \in Generation :
        /\ o = ObservationOf(c) /\ o = call[c].observation
        /\ g = AttemptOf(c) /\ g = call[c].generation
  BY OwnAttempt DEF FencePage, Working
<1>0. /\ call \in CallTypes /\ startedAt[o] # 0 /\ attempt[o][g] = "STARTED"
      /\ \A d \in Caller \ {c} : call[d].stage \in Working =>
            call[d].observation # o \/ call[d].generation # g
  BY OwnAttempt DEF FencePage, Working
<1>1. UNCHANGED <<authority, snapshotRef, observation, startedAt, attempt, page, capture>>
  BY DEF FencePage
<1>2. PICK st \in {"fenced", "failed"} :
        /\ call' = [call EXCEPT ![c].stage = st, ![c].ordinal = 0, ![c].seen = NoRevisions]
        /\ fence' = fence \/ fence' = [fence EXCEPT ![o] = call[c].ordinal + 1]
  BY DEF FencePage
<1>3. /\ call' \in CallTypes /\ call'[c].stage = st
      /\ call'[c].observation = o /\ call'[c].generation = g
      /\ \A d \in Caller \ {c} : call'[d] = call[d]
  <2>1. st \in Stages /\ NoRevisions \in [Authority -> Nat]
    BY DEF Stages, NoRevisions
  <2> HIDE DEF NoRevisions
  <2>2. call[c] \in [stage : Stages, observation : Nat, generation : Nat, ordinal : Nat,
                     seen : [Authority -> Nat]]
    BY <1>0 DEF CallTypes
  <2>3. call'[c] = [call[c] EXCEPT !.stage = st, !.ordinal = 0, !.seen = NoRevisions]
    BY <1>0, <1>2 DEF CallTypes
  <2> QED
    BY <1>0, <1>2, <2>1, <2>2, <2>3 DEF CallTypes
<1>4. RowTypes'
  <2>1. call[c].ordinal + 1 \in Nat
    BY <1>0 DEF CallTypes
  <2>2. fence' \in [Observation -> Nat]
    BY <1>0, <1>2, <2>1 DEF IInv, RowsInv, RowTypes
  <2> QED
    BY <1>1, <2>2 DEF IInv, RowsInv, RowTypes
<1>5. RowsInv'
  BY <1>1, <1>4 DEF IInv, RowsInv, Numbered, Attempts, Generations, PagesOfOneSnapshot,
                    StartIsPast, Admission
<1>6. Holds(c)'
  BY <1>0, <1>1, <1>3 DEF Holds, Working
<1> QED
  BY <1>0, <1>1, <1>3, <1>5, <1>6, OwnRowStep DEF IInv

\* Pages of one snapshot, and one more of the same.
LEMMA AppendedPage ==
  ASSUME NEW q \in Seq(Nat), NEW x \in Nat, NEW low \in Nat, low <= x,
         \A i \in 1 .. Len(q) : q[i] = q[1] /\ low <= q[i],
         q = <<>> \/ x = q[1]
  PROVE  /\ Append(q, x) \in Seq(Nat) /\ Len(Append(q, x)) # 0
         /\ \A i \in 1 .. Len(Append(q, x)) :
              Append(q, x)[i] = Append(q, x)[1] /\ low <= Append(q, x)[i]
<1>1. /\ Append(q, x) \in Seq(Nat) /\ Len(q) \in Nat /\ Len(Append(q, x)) = Len(q) + 1
      /\ \A i \in 1 .. Len(q) : Append(q, x)[i] = q[i]
      /\ Append(q, x)[Len(q) + 1] = x
  BY AppendProperties, LenProperties
<1>2. CASE q = <<>>
  <2>1. Len(q) = 0
    BY <1>2
  <2> QED
    BY <1>1, <2>1
<1>3. CASE q # <<>>
  <2>1. Len(q) # 0
    BY <1>3, EmptySeq
  <2>2. 1 \in 1 .. Len(q) /\ x = q[1] /\ Append(q, x)[1] = q[1]
    BY <1>1, <1>3, <2>1
  <2>3. \A i \in 1 .. Len(q) + 1 : i \in 1 .. Len(q) \/ i = Len(q) + 1
    BY <1>1
  <2> QED
    BY <1>1, <2>2, <2>3
<1> QED
  BY <1>2, <1>3

\* A page joins the traversal only with the snapshot of the others.
LEMMA RecordPageStep ==
  ASSUME IInv, NEW c \in Caller, call[c].stage = "fenced", NEW s \in ServedSnapshots(c),
         SameSnapshot(PagesOf(c), s), RecordPage(c, s),
         UNCHANGED <<authority, snapshotRef, observation, startedAt, attempt, fence, capture>>
  PROVE  IInv'
<1> PICK o \in Observation, g \in Generation :
        /\ o = ObservationOf(c) /\ o = call[c].observation
        /\ g = AttemptOf(c) /\ g = call[c].generation
  BY OwnAttempt DEF Working
<1>0. /\ call \in CallTypes /\ startedAt[o] # 0 /\ attempt[o][g] = "STARTED"
      /\ \A d \in Caller \ {c} : call[d].stage \in Working =>
            call[d].observation # o \/ call[d].generation # g
  BY OwnAttempt DEF Working
<1>1. PICK st \in {"complete", "restartable", "traversing"} : Goto(c, st)
  BY DEF RecordPage
<1>20. PICK old : old = page[o][g]
  OBVIOUS
<1>2. /\ old \in Seq(Nat) /\ snapshotRef \in Nat /\ startedAt[o] \in Nat
      /\ startedAt[o] <= snapshotRef
      /\ \A i \in 1 .. Len(old) : old[i] = old[1] /\ startedAt[o] <= old[i]
  BY <1>20 DEF IInv, RowsInv, RowTypes, StartIsPast, PagesOfOneSnapshot
<1>3. s \in Nat /\ startedAt[o] <= s /\ (old = <<>> \/ s = old[1])
  <2>1. s = snapshotRef \/ \E i \in 1 .. Len(old) : s = old[i]
    BY <1>20, SMTT(30) DEF ServedSnapshots, PagesOf
  <2>2. \A i \in 1 .. Len(old) : old[i] \in Nat
    BY <1>2, ElementOfSeq
  <2>3. old = <<>> \/ s = old[1]
    BY <1>20 DEF SameSnapshot, PagesOf
  <2> QED
    BY <1>2, <2>1, <2>2, <2>3
<1>21. PICK new : new = Append(old, s)
  OBVIOUS
<1>4. page' = [page EXCEPT ![o][g] = new]
  BY <1>20, <1>21, SMTT(30) DEF RecordPage, PagesOf
<1>5. /\ new \in Seq(Nat) /\ Len(new) # 0
      /\ \A i \in 1 .. Len(new) : new[i] = new[1] /\ startedAt[o] <= new[i]
  <2>1. startedAt[o] \in Nat /\ old \in Seq(Nat) /\ s \in Nat
    BY <1>2, <1>3
  <2> QED
    BY <1>2, <1>3, <1>21, <2>1, AppendedPage
<1>7. /\ page' \in [Observation -> [Generation -> Seq(Nat)]] /\ page'[o][g] = new
      /\ \A p \in Observation, k \in Generation : p # o \/ k # g => page'[p][k] = page[p][k]
  BY <1>4, <1>5 DEF IInv, RowsInv, RowTypes
<1>8. PagesOfOneSnapshot'
  <2> SUFFICES ASSUME NEW p \in Observation, NEW k \in Generation,
                      NEW i \in 1 .. Len(page'[p][k])
               PROVE  /\ page'[p][k][i] = page'[p][k][1]
                      /\ startedAt[p] # 0 /\ startedAt[p] <= page'[p][k][i]
    BY DEF PagesOfOneSnapshot
  <2>1. CASE p = o /\ k = g
    BY <1>0, <1>5, <1>7, <2>1
  <2>2. CASE p # o \/ k # g
    <3>1. page'[p][k] = page[p][k]
      BY <1>7, <2>2
    <3> QED
      BY <3>1 DEF IInv, RowsInv, PagesOfOneSnapshot
  <2> QED
    BY <2>1, <2>2
<1>9. \A p \in Observation : Admission(p)'
  <2> SUFFICES ASSUME NEW p \in Observation PROVE Admission(p)'
    OBVIOUS
  <2>1. Admission(p)
    BY DEF IInv, RowsInv
  <2>2. capture[p] # NoCapture =>
          page'[p][capture[p].generation] = page[p][capture[p].generation]
    BY <1>0, <1>7, <2>1 DEF Admission
  <2> QED
    BY <2>1, <2>2 DEF Admission
<1>10. RowsInv'
  <2>1. RowTypes'
    BY <1>7 DEF IInv, RowsInv, RowTypes
  <2>2. Numbered' /\ StartIsPast'
    BY DEF IInv, RowsInv, Numbered, Attempts, Generations, StartIsPast
  <2> QED
    BY <1>8, <1>9, <2>1, <2>2 DEF RowsInv
<1>11. /\ call' \in CallTypes /\ call'[c].stage = st
       /\ call'[c].observation = o /\ call'[c].generation = g
       /\ \A d \in Caller \ {c} : call'[d] = call[d]
  <2>1. st \in Stages
    BY DEF Stages
  <2> QED
    BY <1>0, <1>1, <2>1, GotoFacts
<1>12. Len(page'[o][g]) # 0
  BY <1>5, <1>7
<1>13. Holds(c)'
  BY <1>0, <1>11, <1>12 DEF Holds, Working
<1>14. (\A d \in Caller : Holds(d)') /\ Owned'
  BY <1>0, <1>7, <1>11, <1>13, OwnRowStep
<1> QED
  BY <1>10, <1>11, <1>14 DEF IInv

LEMMA ReadPageStep ==
  ASSUME IInv, NEW c \in Caller, ReadPage(c) PROVE IInv'
<1>1. /\ call[c].stage = "fenced" /\ call[c].stage \in Working
      /\ UNCHANGED <<authority, snapshotRef, observation, startedAt, attempt, fence, capture>>
  BY DEF ReadPage, Working
<1>2. ASSUME NEW st \in {"failed", "restartable"}, Goto(c, st), UNCHANGED page PROVE IInv'
  BY <1>1, <1>2, WithinTraversal DEF rows
<1>3. ASSUME NEW s \in ServedSnapshots(c), SameSnapshot(PagesOf(c), s), RecordPage(c, s)
      PROVE  IInv'
  BY <1>1, <1>3, RecordPageStep
<1> QED
  BY <1>2, <1>3 DEF ReadPage, PageFailures

\* An attempt ends, with its rows as the caller found them, and the caller returns.
LEMMA EndAttemptStep ==
  ASSUME IInv, NEW c \in Caller, NEW o \in Observation, NEW g \in Generation,
         call[c].stage \in Working, o = ObservationOf(c), g = AttemptOf(c),
         NEW st \in {"SUCCEEDED", "FAILED"}, attempt' = [attempt EXCEPT ![o][g] = st],
         Return(c), UNCHANGED <<authority, snapshotRef, startedAt, page, fence>>,
         observation' \in [Observation -> Statuses], capture' \in [Observation -> CaptureRow],
         \A p \in Observation : Admission(p)'
  PROVE  IInv'
<1>0. /\ call \in CallTypes /\ attempt[o][g] = "STARTED"
      /\ \A d \in Caller \ {c} : call[d].stage \in Working =>
            call[d].observation # o \/ call[d].generation # g
  BY OwnAttempt
<1>1. /\ attempt' \in [Observation -> [Generation -> Statuses]] /\ attempt'[o][g] = st
      /\ \A p \in Observation, k \in Generation :
           p # o \/ k # g => attempt'[p][k] = attempt[p][k] /\ page'[p][k] = page[p][k]
  BY DEF IInv, RowsInv, RowTypes, Statuses
<1>2. Numbered'
  <2>1. \A p \in Observation : Attempts(p)' = Attempts(p)
    BY <1>0, <1>1 DEF Attempts
  <2> QED
    BY <2>1 DEF IInv, RowsInv, Numbered, Generations
<1>3. RowsInv'
  BY <1>1, <1>2 DEF IInv, RowsInv, RowTypes, PagesOfOneSnapshot, StartIsPast
<1>4. /\ call' \in CallTypes /\ call'[c].stage = "idle"
      /\ \A d \in Caller \ {c} : call'[d] = call[d]
  BY <1>0, ReturnFacts
<1>5. Holds(c)' /\ call'[c].stage \notin Working
  BY <1>4 DEF Holds, Working
<1>6. (\A d \in Caller : Holds(d)') /\ Owned'
  BY <1>0, <1>1, <1>4, <1>5, OwnRowStep
<1> QED
  BY <1>3, <1>4, <1>6 DEF IInv

\* The capture is the rows of the admitted attempt; no other attempt was admitted.
LEMMA AdmitCaptureStep ==
  ASSUME IInv, NEW c \in Caller, AdmitCapture(c) PROVE IInv'
<1>0. call[c].stage = "admitting" /\ call[c].stage \in Working
      /\ UNCHANGED <<authority, snapshotRef, startedAt, page, fence>>
  BY DEF AdmitCapture, Working
<1> PICK o \in Observation, g \in Generation :
        /\ o = ObservationOf(c) /\ o = call[c].observation
        /\ g = AttemptOf(c) /\ g = call[c].generation
  BY <1>0, OwnAttempt
<1>1. CASE Goto(c, "failed") /\ UNCHANGED <<capture, observation, attempt>>
  BY <1>0, <1>1, WithinTraversal DEF rows
<1>2. CASE ~(Goto(c, "failed") /\ UNCHANGED <<capture, observation, attempt>>)
  <2>20. PICK taken : taken = page[o][g]
    OBVIOUS
  <2>1. PICK anchor \in {taken[1], startedAt[o]} :
          capture' = [capture EXCEPT ![o] = [generation |-> g, snapshot |-> taken[1],
                                             anchor |-> anchor, pages |-> Len(taken)]]
    BY <1>2, <2>20, SMTT(30) DEF AdmitCapture, FreshnessAnchors, PagesOf
  <2>2. /\ observation' = [observation EXCEPT ![o] = "SUCCEEDED"]
        /\ attempt' = [attempt EXCEPT ![o][g] = "SUCCEEDED"]
        /\ Return(c) /\ capture[o] = NoCapture
    BY <1>2 DEF AdmitCapture, Uncaptured
  <2>3. /\ taken \in Seq(Nat) /\ Len(taken) \in Nat /\ Len(taken) # 0
        /\ taken[1] \in Nat /\ startedAt[o] \in Nat /\ startedAt[o] <= taken[1]
        /\ \A i \in 1 .. Len(taken) : taken[i] = taken[1]
    <3>1. taken \in Seq(Nat) /\ Len(taken) # 0 /\ startedAt[o] \in Nat
      BY <1>0, <2>20 DEF IInv, RowsInv, RowTypes, Holds
    <3>2. Len(taken) \in Nat
      BY <3>1, LenProperties
    <3>3. 1 \in 1 .. Len(taken)
      BY <3>1, <3>2
    <3>4. \A i \in 1 .. Len(taken) : taken[i] = taken[1] /\ startedAt[o] <= taken[i]
      BY <2>20 DEF IInv, RowsInv, PagesOfOneSnapshot
    <3> QED
      BY <3>1, <3>2, <3>3, <3>4, ElementOfSeq
  <2> DEFINE row == [generation |-> g, snapshot |-> taken[1], anchor |-> anchor,
                     pages |-> Len(taken)]
  <2>4. row \in CaptureRow /\ row # NoCapture /\ row.generation = g
        /\ row.snapshot = taken[1] /\ row.pages = Len(taken) /\ row.anchor <= row.snapshot
    <3>1. g \in Nat /\ g # 0
      BY Bounds
    <3> QED
      BY <2>3, <3>1 DEF CaptureRow, NoCapture
  <2>21. PICK admitted : admitted = row
    OBVIOUS
  <2>5. /\ capture' \in [Observation -> CaptureRow] /\ capture'[o] = admitted
        /\ \A p \in Observation \ {o} : capture'[p] = capture[p]
        /\ observation' \in [Observation -> Statuses] /\ observation'[o] = "SUCCEEDED"
        /\ \A p \in Observation \ {o} : observation'[p] = observation[p]
    <3> HIDE DEF row
    <3>1. capture' = [capture EXCEPT ![o] = admitted] /\ admitted \in CaptureRow
      BY <2>1, <2>4, <2>21 DEF row
    <3> QED
      BY <2>2, <3>1 DEF IInv, RowsInv, RowTypes, Statuses
  <2> HIDE DEF row
  <2>6. /\ attempt'[o][g] = "SUCCEEDED"
        /\ \A k \in Generation \ {g} : attempt'[o][k] = attempt[o][k]
        /\ \A p \in Observation \ {o} : attempt'[p] = attempt[p]
    BY <2>2 DEF IInv, RowsInv, RowTypes
  <2>7. \A p \in Observation : Admission(p)'
    <3> SUFFICES ASSUME NEW p \in Observation PROVE Admission(p)'
      OBVIOUS
    <3>1. Admission(p)
      BY DEF IInv, RowsInv
    <3>2. CASE p # o
      BY <1>0, <2>5, <2>6, <3>1, <3>2 DEF Admission
    <3>3. CASE p = o
      <4>1. \A k \in Generation : attempt[o][k] # "SUCCEEDED"
        BY <2>2, <3>1, <3>3 DEF Admission
      <4>2. page'[o][g] = taken
        BY <1>0, <2>20
      <4>3. /\ admitted # NoCapture /\ admitted.generation = g
            /\ admitted.snapshot = taken[1] /\ admitted.pages = Len(taken)
            /\ admitted.anchor <= admitted.snapshot
        BY <2>4, <2>21
      <4>4. \A k \in Generation : attempt'[o][k] = "SUCCEEDED" => k = g
        BY <2>6, <4>1
      <4>5. \A i \in 1 .. admitted.pages : page'[o][g][i] = admitted.snapshot
        BY <2>3, <4>2, <4>3
      <4>6. observation'[o] = "SUCCEEDED" /\ capture'[o] = admitted /\ attempt'[o][g] = "SUCCEEDED"
        BY <2>5, <2>6
      <4> HIDE DEF NoCapture
      <4> QED
        BY <3>3, <4>2, <4>3, <4>4, <4>5, <4>6 DEF Admission
    <3> QED
      BY <3>2, <3>3
  <2> QED
    BY <1>0, <2>2, <2>5, <2>7, EndAttemptStep
<1> QED
  BY <1>1, <1>2 DEF AdmitCapture

LEMMA MarkFailedStep ==
  ASSUME IInv, NEW c \in Caller, MarkFailed(c) PROVE IInv'
<1>0. call[c].stage \in Working
      /\ UNCHANGED <<authority, snapshotRef, startedAt, page, fence, capture>> /\ Return(c)
  BY DEF MarkFailed, Working
<1> PICK o \in Observation, g \in Generation : o = ObservationOf(c) /\ g = AttemptOf(c)
  BY <1>0, OwnAttempt
<1>1. attempt[o][g] = "STARTED" /\ attempt' = [attempt EXCEPT ![o][g] = "FAILED"]
  <2>1. attempt[o][g] = "STARTED"
    BY <1>0, OwnAttempt
  <2> QED
    BY <2>1 DEF MarkFailed, IInv, RowsInv, RowTypes
<1>2. /\ observation' \in [Observation -> Statuses]
      /\ \A p \in Observation : observation'[p] = "SUCCEEDED" <=> observation[p] = "SUCCEEDED"
  BY DEF MarkFailed, IInv, RowsInv, RowTypes, Statuses
<1>3. /\ attempt'[o][g] = "FAILED"
      /\ \A p \in Observation, k \in Generation : p # o \/ k # g => attempt'[p][k] = attempt[p][k]
  BY <1>1 DEF IInv, RowsInv, RowTypes
<1>4. \A p \in Observation : Admission(p)'
  <2> SUFFICES ASSUME NEW p \in Observation PROVE Admission(p)'
    OBVIOUS
  <2>1. Admission(p)
    BY DEF IInv, RowsInv
  <2>2. \A k \in Generation : attempt'[p][k] = "SUCCEEDED" <=> attempt[p][k] = "SUCCEEDED"
    BY <1>1, <1>3
  <2> QED
    BY <1>0, <1>2, <2>1, <2>2 DEF Admission
<1>5. capture' \in [Observation -> CaptureRow]
  BY <1>0 DEF IInv, RowsInv, RowTypes
<1> QED
  BY <1>0, <1>1, <1>2, <1>4, <1>5, EndAttemptStep

-----------------------------------------------------------------------------
(* The theorems. *)

\* Every step of every caller, head and edit keeps the invariant.
LEMMA StepInv == IInv /\ [Next]_vars => IInv'
<1> SUFFICES ASSUME IInv, [Next]_vars PROVE IInv'
  OBVIOUS
<1>1. ASSUME NEW o \in Observation, BindRequest(o) PROVE IInv'
  <2>1. UNCHANGED <<rows, call>>
    BY <1>1 DEF BindRequest, rows
  <2> QED
    BY <2>1, TimelineStep
<1>2. ASSUME NEW c \in Caller,
             \/ LoadContext(c) \/ OpenAcquisition(c) \/ StartAttempt(c) \/ AuthorizePage(c)
             \/ FencePage(c) \/ ReadPage(c) \/ CheckAdmission(c) \/ AdmitCapture(c)
             \/ MarkFailed(c) \/ Crash(c)
      PROVE  IInv'
  BY <1>2, LoadContextStep, OpenAcquisitionStep, StartAttemptStep, AuthorizePageStep,
     FencePageStep, ReadPageStep, CheckAdmissionStep, AdmitCaptureStep, MarkFailedStep,
     CrashStep
<1>3. CASE AdvanceTimeline
  <2>1. UNCHANGED <<rows, call>>
    BY <1>3 DEF AdvanceTimeline, rows, store
  <2> QED
    BY <2>1, TimelineStep
<1>4. CASE UNCHANGED vars
  <2>1. UNCHANGED <<rows, call>>
    BY <1>4 DEF vars, rows, store
  <2> QED
    BY <2>1, TimelineStep
<1> QED
  BY <1>1, <1>2, <1>3, <1>4, StartObservationStep, PrepareObservationStep,
     ChangeAuthorityStep, EditCalendarStep
  DEF Next

\* What the callers hold and what the rows say agree in every reachable state, for every
\* number of callers, heads, restarts, pages and provider revisions.
THEOREM Inductive == Spec => []IInv
<1>1. Init => IInv
  BY InitInv
<1>2. IInv /\ [Next]_vars => IInv'
  BY StepInv
<1> QED
  BY <1>1, <1>2, PTL DEF Spec

\* An Observation has a capture exactly when it succeeded, and the capture is what its one
\* successful traversal recorded, all of one snapshot, whichever traversals raced.
THEOREM OneCoherentSnapshotHolds == Spec => []OneCoherentSnapshot
<1>1. IInv => OneCoherentSnapshot
  <2> SUFFICES ASSUME IInv, NEW o \in Observation
               PROVE  /\ observation[o] = "SUCCEEDED" <=> capture[o] # NoCapture
                      /\ capture[o] # NoCapture =>
                           LET kept == page[o][capture[o].generation] IN
                           /\ {g \in Generation : attempt[o][g] = "SUCCEEDED"}
                                = {capture[o].generation}
                           /\ Len(kept) = capture[o].pages
                           /\ \A i \in 1 .. Len(kept) : kept[i] = capture[o].snapshot
    BY DEF OneCoherentSnapshot
  <2>1. Admission(o)
    BY DEF IInv, RowsInv
  <2> QED
    BY <2>1 DEF Admission
<1> QED
  BY <1>1, Inductive, PTL

\* A capture is never older than its freshness anchor says.
THEOREM FreshnessIsConservativeHolds == Spec => []FreshnessIsConservative
<1>1. IInv => FreshnessIsConservative
  BY DEF IInv, RowsInv, Admission, FreshnessIsConservative
<1> QED
  BY <1>1, Inductive, PTL

\* A page fence is committed only while every head permits the read: the heads were read
\* before the lock was held, and the compare-and-set refuses what has moved since.
THEOREM FencedUnderCurrentAuthorityHolds == Spec => FencedUnderCurrentAuthority
<1>1. IInv /\ [Next]_vars => [fence' # fence => Permits(Authority)]_vars
  <2> SUFFICES ASSUME IInv, Next, fence' # fence PROVE Permits(Authority)
    OBVIOUS
  <2>1. PICK c \in Caller : FencePage(c)
    BY DEF Next, StartObservation, BindRequest, PrepareObservation, LoadContext,
           OpenAcquisition, StartAttempt, AuthorizePage, ReadPage, CheckAdmission,
           AdmitCapture, MarkFailed, Crash, AdvanceTimeline, ChangeAuthority, EditCalendar,
           store
  <2>2. call[c].stage = "authorized" /\ call[c].seen = Revisions
    BY <2>1 DEF FencePage, Fences
  <2>3. Holds(c)
    BY DEF IInv
  <2> QED
    BY <2>2, <2>3 DEF Holds, Revisions, Permits
<1> QED
  BY <1>1, Inductive, PTL DEF Spec, FencedUnderCurrentAuthority

-----------------------------------------------------------------------------
(* Pages and fences: each recorded page spent a fence of its own, and no      *)
(* traversal spends more of them than it may record pages.                    *)

Slots == Generation \X (1 .. MaxPages)

\* The traversal is between two pages and has not fenced the next.
Going(o, g) == \E c \in Caller : /\ call[c].stage \in {"traversing", "authorized"}
                                 /\ call[c].observation = o /\ call[c].generation = g

\* The traversal has fenced its next page and waits for it.
Waiting(o, g) == \E c \in Caller : /\ call[c].stage = "fenced"
                                   /\ call[c].observation = o /\ call[c].generation = g

\* Page i of the traversal is recorded, or fenced now; or it is recorded, or will never be.
SpentSlot(o, g, i) ==
    \/ i <= Len(page[o][g])
    \/ i = Len(page[o][g]) + 1 /\ Waiting(o, g)
UsedSlot(o, g, i) ==
    \/ i <= Len(page[o][g])
    \/ i = Len(page[o][g]) + 1 /\ attempt[o][g] # "none" /\ ~ Going(o, g)

Spent(o) == {r \in Slots : SpentSlot(o, r[1], r[2])}
Used(o) == {r \in Slots : UsedSlot(o, r[1], r[2])}

\* There are at least as many fences as pages need, and at most as many as traversals had.
Fencing == \A o \in Observation :
    Cardinality(Spent(o)) <= fence[o] /\ fence[o] <= Cardinality(Used(o))

\* A traversal that goes on has room for a page, and one not started has none.
Traversals ==
    /\ \A o \in Observation, g \in Generation :
        /\ Len(page[o][g]) <= MaxPages
        /\ attempt[o][g] = "none" => page[o][g] = <<>>
    /\ \A c \in Caller : call[c].stage \in {"traversing", "authorized", "fenced"} =>
            Len(page[call[c].observation][call[c].generation]) < MaxPages

\* The changes of authority that were made.
Changes == {t \in Authority \X (2 .. MaxChange + 1) : t[2] <= authority[t[1]].revision}

BoundedInv == IInv /\ TypeOK /\ Traversals /\ Fencing /\ IsFiniteSet(Changes)

LEMMA Limits ==
  /\ MaxPages \in Nat \ {0} /\ MaxSnapshot \in Nat \ {0} /\ MaxChange \in Nat
  /\ MaxObservation \in Nat \ {0} /\ Cardinality(Generation) \in Nat
<1>1. Cardinality(Generation) \in Nat
  BY Bounds, FS_Interval, FS_CardinalityType
<1> QED
  BY <1>1, BoundsAssumption

LEMMA SlotFacts ==
  ASSUME NEW X, X \subseteq Slots
  PROVE  /\ IsFiniteSet(X) /\ Cardinality(X) \in Nat
         /\ Cardinality(X) <= Cardinality(Generation) * MaxPages
<1>1. IsFiniteSet(Generation) /\ IsFiniteSet(1 .. MaxPages) /\ Cardinality(1 .. MaxPages) = MaxPages
  <2>1. IsFiniteSet(Generation)
    BY Bounds, FS_Interval
  <2>2. IsFiniteSet(1 .. MaxPages) /\ Cardinality(1 .. MaxPages) = MaxPages
    BY Limits, FS_Interval
  <2> QED
    BY <2>1, <2>2
<1>2. IsFiniteSet(Slots) /\ Cardinality(Slots) = Cardinality(Generation) * MaxPages
  BY <1>1, FS_Product DEF Slots
<1>3. IsFiniteSet(X) /\ Cardinality(X) <= Cardinality(Slots)
  BY <1>2, FS_Subset
<1> QED
  BY <1>2, <1>3, FS_CardinalityType

\* Every slot set is one of these.
LEMMA SpentUsed ==
  ASSUME NEW o \in Observation
  PROVE  Spent(o) \subseteq Slots /\ Used(o) \subseteq Slots
         /\ Spent(o)' \subseteq Slots /\ Used(o)' \subseteq Slots
BY DEF Spent, Used, Slots

\* No fence is committed, no slot is newly spent and none that was used up is free again.
Quiet ==
    /\ fence' = fence
    /\ \A o \in Observation, g \in Generation, i \in 1 .. MaxPages :
        /\ SpentSlot(o, g, i)' => SpentSlot(o, g, i)
        /\ UsedSlot(o, g, i) => UsedSlot(o, g, i)'

LEMMA SmallerSlots ==
  ASSUME NEW X, NEW Y, X \subseteq Y, Y \subseteq Slots
  PROVE  Cardinality(X) <= Cardinality(Y) /\ Cardinality(X) \in Nat /\ Cardinality(Y) \in Nat
<1>1. IsFiniteSet(Y) /\ Cardinality(Y) \in Nat /\ Cardinality(X) \in Nat
  BY SlotFacts
<1> QED
  BY <1>1, FS_Subset

LEMMA QuietFencing == ASSUME IInv, Fencing, Quiet PROVE Fencing'
<1> SUFFICES ASSUME NEW o \in Observation
             PROVE  Cardinality(Spent(o)') <= fence'[o] /\ fence'[o] <= Cardinality(Used(o)')
  BY DEF Fencing
<1>1. Spent(o)' \subseteq Spent(o) /\ Used(o) \subseteq Used(o)'
  BY DEF Quiet, Spent, Used, Slots
<1>2. /\ Cardinality(Spent(o)') <= Cardinality(Spent(o))
      /\ Cardinality(Used(o)) <= Cardinality(Used(o)')
      /\ Cardinality(Spent(o)') \in Nat /\ Cardinality(Spent(o)) \in Nat
      /\ Cardinality(Used(o)') \in Nat /\ Cardinality(Used(o)) \in Nat
  BY <1>1, SpentUsed, SmallerSlots
<1>3. fence[o] \in Nat /\ fence'[o] = fence[o]
  BY DEF IInv, RowsInv, RowTypes, Quiet
<1>4. Cardinality(Spent(o)) <= fence[o] /\ fence[o] <= Cardinality(Used(o))
  BY DEF Fencing
<1> QED
  BY <1>2, <1>3, <1>4

\* The slots of rows and callers that stay.
LEMMA SlotsKept ==
  ASSUME UNCHANGED <<page, attempt, call, fence>> PROVE Quiet
BY DEF Quiet, SpentSlot, UsedSlot, Waiting, Going

LEMMA TraversalsKept == ASSUME Traversals, UNCHANGED <<page, attempt, call>> PROVE Traversals'
BY DEF Traversals

\* A caller moves and may leave a traversal, but does not fence a page or begin to go on.
LEMMA CallerMoves ==
  ASSUME IInv, NEW c \in Caller, UNCHANGED <<page, fence>>,
         \A o \in Observation, g \in Generation : attempt[o][g] # "none" => attempt'[o][g] # "none",
         \A d \in Caller \ {c} : call'[d] = call[d],
         call'[c].stage # "fenced",
         call'[c].stage \in {"traversing", "authorized"} =>
            \/ /\ call[c].stage \in {"traversing", "authorized"}
               /\ call'[c].observation = call[c].observation
               /\ call'[c].generation = call[c].generation
            \/ attempt[call'[c].observation][call'[c].generation] = "none"
  PROVE  Quiet
<1> SUFFICES ASSUME NEW o \in Observation, NEW g \in Generation, NEW i \in 1 .. MaxPages
             PROVE  /\ SpentSlot(o, g, i)' => SpentSlot(o, g, i)
                    /\ UsedSlot(o, g, i) => UsedSlot(o, g, i)'
  BY DEF Quiet
<1>1. Waiting(o, g)' => Waiting(o, g)
  BY DEF Waiting
<1>2. attempt[o][g] # "none" /\ Going(o, g)' => Going(o, g)
  <2> SUFFICES ASSUME attempt[o][g] # "none", NEW d \in Caller,
                      call'[d].stage \in {"traversing", "authorized"},
                      call'[d].observation = o, call'[d].generation = g
               PROVE  Going(o, g)
    BY DEF Going
  <2>1. CASE d = c
    BY <2>1 DEF Going
  <2>2. CASE d # c
    BY <2>2 DEF Going
  <2> QED
    BY <2>1, <2>2
<1> QED
  BY <1>1, <1>2 DEF SpentSlot, UsedSlot

LEMMA AddOne ==
  ASSUME NEW S, NEW x, IsFiniteSet(S)
  PROVE  /\ Cardinality(S \cup {x}) <= Cardinality(S) + 1
         /\ x \notin S => Cardinality(S \cup {x}) = Cardinality(S) + 1
<1>1. Cardinality(S) \in Nat
  BY FS_CardinalityType
<1> QED
  BY <1>1, FS_AddElement

\* A caller fences its next page: the slot is spent, and used up until the page is there.
LEMMA FenceCounts ==
  ASSUME BoundedInv, NEW c \in Caller, call[c].stage = "authorized",
         UNCHANGED <<page, attempt>>, call'[c].stage = "fenced",
         call'[c].observation = call[c].observation, call'[c].generation = call[c].generation,
         \A d \in Caller \ {c} : call'[d] = call[d],
         fence' = [fence EXCEPT ![call[c].observation] = fence[call[c].observation] + 1]
  PROVE  Fencing'
<1> PICK o \in Observation, g \in Generation :
        o = call[c].observation /\ g = call[c].generation
  BY OwnAttempt DEF BoundedInv, Working, ObservationOf, AttemptOf
<1>1. /\ attempt[o][g] = "STARTED" /\ Len(page[o][g]) < MaxPages /\ Len(page[o][g]) \in Nat
      /\ \A d \in Caller \ {c} : call[d].stage \in Working =>
            call[d].observation # o \/ call[d].generation # g
  <2>1. attempt[o][g] = "STARTED"
        /\ \A d \in Caller \ {c} : call[d].stage \in Working =>
            call[d].observation # o \/ call[d].generation # g
    BY OwnAttempt DEF BoundedInv, Working, ObservationOf, AttemptOf
  <2>2. page[o][g] \in Seq(Nat) /\ Len(page[o][g]) < MaxPages
    BY DEF BoundedInv, IInv, RowsInv, RowTypes, Traversals
  <2> QED
    BY <2>1, <2>2, LenProperties
<1>20. PICK len \in Nat : len = Len(page[o][g]) /\ len < MaxPages
  BY <1>1
<1>2. PICK n \in Nat : n = Len(page[o][g]) + 1 /\ n = len + 1 /\ ~ n <= len
  BY <1>20
<1>3. <<g, n>> \in Slots /\ n \in 1 .. MaxPages
  <2>1. n \in 1 .. MaxPages
    BY <1>20, <1>2, Limits
  <2> QED
    BY <2>1 DEF Slots
<1>4. \A p \in Observation, k \in Generation : p # o \/ k # g =>
        (Waiting(p, k)' => Waiting(p, k)) /\ (Going(p, k)' => Going(p, k))
  BY DEF Waiting, Going
<1>5. Going(o, g) /\ ~ Going(o, g)'
  BY <1>1 DEF Going, Working
<1>6. fence \in [Observation -> Nat] /\ fence'[o] = fence[o] + 1
      /\ \A p \in Observation \ {o} : fence'[p] = fence[p]
  BY DEF BoundedInv, IInv, RowsInv, RowTypes
<1>7. \A p \in Observation : /\ Cardinality(Spent(p)) <= fence[p]
                             /\ fence[p] <= Cardinality(Used(p))
  BY DEF BoundedInv, Fencing
<1>8. \A p \in Observation, k \in Generation, i \in 1 .. MaxPages :
        p # o \/ k # g \/ i # n =>
            (SpentSlot(p, k, i)' => SpentSlot(p, k, i)) /\ (UsedSlot(p, k, i) => UsedSlot(p, k, i)')
  <2> SUFFICES ASSUME NEW p \in Observation, NEW k \in Generation, NEW i \in 1 .. MaxPages,
                      p # o \/ k # g \/ i # n
               PROVE  (SpentSlot(p, k, i)' => SpentSlot(p, k, i))
                      /\ (UsedSlot(p, k, i) => UsedSlot(p, k, i)')
    OBVIOUS
  <2>1. CASE p # o \/ k # g
    BY <1>4, <2>1 DEF SpentSlot, UsedSlot
  <2>2. CASE p = o /\ k = g
    BY <1>2, <2>2 DEF SpentSlot, UsedSlot
  <2> QED
    BY <2>1, <2>2
<1>9. ~ UsedSlot(o, g, n) /\ UsedSlot(o, g, n)'
  <2>1. ~ n <= Len(page[o][g]) /\ Len(page'[o][g]) = Len(page[o][g])
    BY <1>20, <1>2
  <2> QED
    BY <1>1, <1>2, <1>5, <2>1 DEF UsedSlot
<1>10. ASSUME NEW p \in Observation, p # o
       PROVE  Cardinality(Spent(p)') <= fence'[p] /\ fence'[p] <= Cardinality(Used(p)')
  <2>1. Spent(p)' \subseteq Spent(p) /\ Used(p) \subseteq Used(p)'
    BY <1>8, <1>10 DEF Spent, Used, Slots
  <2>2. /\ Cardinality(Spent(p)') <= Cardinality(Spent(p))
        /\ Cardinality(Used(p)) <= Cardinality(Used(p)')
        /\ Cardinality(Spent(p)') \in Nat /\ Cardinality(Spent(p)) \in Nat
        /\ Cardinality(Used(p)') \in Nat /\ Cardinality(Used(p)) \in Nat
    BY <2>1, SpentUsed, SmallerSlots
  <2>3. fence'[p] = fence[p] /\ fence[p] \in Nat
    BY <1>6, <1>10
  <2> QED
    BY <1>7, <2>2, <2>3
<1>11. Cardinality(Spent(o)') <= fence'[o]
  <2>1. Spent(o)' \subseteq Spent(o) \cup {<<g, n>>}
    <3> SUFFICES ASSUME NEW r \in Slots, SpentSlot(o, r[1], r[2])', r # <<g, n>>
                 PROVE  SpentSlot(o, r[1], r[2])
      BY DEF Spent
    <3>1. r[1] \in Generation /\ r[2] \in 1 .. MaxPages /\ (r[1] # g \/ r[2] # n)
      BY DEF Slots
    <3> QED
      BY <1>8, <3>1
  <2>2. Spent(o) \subseteq Slots /\ Spent(o) \cup {<<g, n>>} \subseteq Slots
    BY <1>3, SpentUsed
  <2>3. /\ Cardinality(Spent(o)') <= Cardinality(Spent(o) \cup {<<g, n>>})
        /\ Cardinality(Spent(o)') \in Nat /\ Cardinality(Spent(o) \cup {<<g, n>>}) \in Nat
    BY <2>1, <2>2, SmallerSlots
  <2>4. IsFiniteSet(Spent(o)) /\ Cardinality(Spent(o)) \in Nat
    BY <2>2, SlotFacts
  <2>5. Cardinality(Spent(o) \cup {<<g, n>>}) <= Cardinality(Spent(o)) + 1
    BY <2>4, AddOne
  <2> QED
    BY <1>6, <1>7, <2>3, <2>4, <2>5
<1>12. fence'[o] <= Cardinality(Used(o)')
  <2>1. Used(o) \cup {<<g, n>>} \subseteq Used(o)' /\ <<g, n>> \notin Used(o)
    <3>1. <<g, n>> \in Used(o)' /\ <<g, n>> \notin Used(o)
      BY <1>3, <1>9 DEF Used
    <3>2. ASSUME NEW r \in Used(o) PROVE r \in Used(o)'
      <4>1. r \in Slots /\ r[1] \in Generation /\ r[2] \in 1 .. MaxPages /\ UsedSlot(o, r[1], r[2])
        BY DEF Used, Slots
      <4>2. r[1] # g \/ r[2] # n
        BY <1>9, <4>1
      <4>3. UsedSlot(o, r[1], r[2])'
        BY <1>8, <4>1, <4>2
      <4> QED
        BY <4>1, <4>3 DEF Used
    <3> QED
      BY <3>1, <3>2
  <2>2. Used(o) \subseteq Slots /\ Used(o)' \subseteq Slots
    BY SpentUsed
  <2>3. /\ Cardinality(Used(o) \cup {<<g, n>>}) <= Cardinality(Used(o)')
        /\ Cardinality(Used(o)') \in Nat
    BY <2>1, <2>2, SmallerSlots
  <2>4. IsFiniteSet(Used(o)) /\ Cardinality(Used(o)) \in Nat
    BY <2>2, SlotFacts
  <2>5. Cardinality(Used(o) \cup {<<g, n>>}) = Cardinality(Used(o)) + 1
    BY <2>1, <2>4, AddOne
  <2> QED
    BY <1>6, <1>7, <2>3, <2>4, <2>5
<1> QED
  BY <1>10, <1>11, <1>12 DEF Fencing

\* A page is recorded in the slot that was fenced for it.
LEMMA RecordCounts ==
  ASSUME IInv, NEW c \in Caller, NEW o \in Observation, NEW g \in Generation,
         o = call[c].observation, g = call[c].generation, call[c].stage = "fenced",
         UNCHANGED <<attempt, fence>>,
         call'[c].stage # "fenced",
         call'[c].observation = o, call'[c].generation = g,
         \A d \in Caller \ {c} : call'[d] = call[d],
         Len(page'[o][g]) = Len(page[o][g]) + 1,
         \A p \in Observation, k \in Generation : p # o \/ k # g => page'[p][k] = page[p][k]
  PROVE  Quiet
<1>1. /\ Len(page[o][g]) \in Nat
      /\ \A d \in Caller \ {c} : call[d].stage \in Working =>
            call[d].observation # o \/ call[d].generation # g
  <2>1. page[o][g] \in Seq(Nat)
    BY DEF IInv, RowsInv, RowTypes
  <2> QED
    BY <2>1, OwnAttempt, LenProperties DEF Working, ObservationOf, AttemptOf
<1>2. Waiting(o, g) /\ ~ Waiting(o, g)'
  BY <1>1 DEF Waiting, Working
<1>3. \A p \in Observation, k \in Generation : p # o \/ k # g =>
        (Waiting(p, k)' => Waiting(p, k)) /\ (Going(p, k)' => Going(p, k))
  BY DEF Waiting, Going
<1> SUFFICES ASSUME NEW p \in Observation, NEW k \in Generation, NEW i \in 1 .. MaxPages
             PROVE  /\ SpentSlot(p, k, i)' => SpentSlot(p, k, i)
                    /\ UsedSlot(p, k, i) => UsedSlot(p, k, i)'
  BY DEF Quiet
<1>4. CASE p # o \/ k # g
  BY <1>3, <1>4 DEF SpentSlot, UsedSlot
<1>5. CASE p = o /\ k = g
  <2>0. PICK len \in Nat : len = Len(page[o][g]) /\ Len(page'[o][g]) = len + 1
    BY <1>1
  <2>1. /\ i <= len + 1 => i <= len \/ i = len + 1
        /\ i <= len \/ i = len + 1 => i <= len + 1
    BY Limits
  <2> QED
    BY <1>2, <1>5, <2>0, <2>1 DEF SpentSlot, UsedSlot
<1> QED
  BY <1>4, <1>5

\* What a caller's step keeps of the traversals.
LEMMA CallerTraverses ==
  ASSUME Traversals, NEW c \in Caller, UNCHANGED page,
         \A o \in Observation, g \in Generation : attempt'[o][g] = "none" => attempt[o][g] = "none",
         \A d \in Caller \ {c} : call'[d] = call[d],
         call'[c].stage \in {"traversing", "authorized", "fenced"} =>
            Len(page[call'[c].observation][call'[c].generation]) < MaxPages
  PROVE  Traversals'
<1>1. \A d \in Caller : call'[d].stage \in {"traversing", "authorized", "fenced"} =>
        Len(page[call'[d].observation][call'[d].generation]) < MaxPages
  <2> TAKE d \in Caller
  <2>1. CASE d = c
    BY <2>1
  <2>2. CASE d # c
    BY <2>2 DEF Traversals
  <2> QED
    BY <2>1, <2>2
<1> QED
  BY <1>1 DEF Traversals

-----------------------------------------------------------------------------
(* The bounded types. *)

Ordinals == 0 .. Cardinality(Generation) * MaxPages
Memory == [stage : Stages, observation : 0 .. MaxObservation,
           generation : 0 .. MaxRestarts + Cardinality(Caller),
           ordinal : Ordinals, seen : [Authority -> 0 .. MaxChange + 1]]

LEMMA MemoryFacts ==
  /\ Observation \subseteq 0 .. MaxObservation
  /\ Generation \subseteq 0 .. MaxRestarts + Cardinality(Caller)
  /\ 0 \in Ordinals /\ NoRevisions \in [Authority -> 0 .. MaxChange + 1] /\ Idle \in Memory
<1>1. Observation \subseteq 0 .. MaxObservation
      /\ Generation \subseteq 0 .. MaxRestarts + Cardinality(Caller)
  BY Bounds, Limits DEF Observation, Generation, LastGeneration
<1>2. 0 \in Ordinals
  <2>1. Cardinality(Generation) * MaxPages \in Nat
    BY Limits
  <2> QED
    BY <2>1 DEF Ordinals
<1>3. NoRevisions \in [Authority -> 0 .. MaxChange + 1]
  BY Limits DEF NoRevisions
<1>4. 0 \in 0 .. MaxObservation /\ 0 \in 0 .. MaxRestarts + Cardinality(Caller)
  BY Bounds
<1>5. Idle \in Memory
  BY <1>2, <1>3, <1>4 DEF Idle, Memory, Stages
<1> QED
  BY <1>1, <1>2, <1>3, <1>5

LEMMA TypedCalls == ASSUME TypeOK PROVE call \in [Caller -> Memory] /\ fence \in [Observation -> Ordinals]
BY DEF TypeOK, Memory, Ordinals

\* The types of a step that only fences or moves a caller.
LEMMA TypedMove ==
  ASSUME TypeOK, UNCHANGED <<frontier, authority, snapshotRef, observation, bound, startedAt,
                             attempt, page, capture>>,
         fence' \in [Observation -> Ordinals], call' \in [Caller -> Memory]
  PROVE  TypeOK'
BY DEF TypeOK, Memory, Ordinals

LEMMA GotoMemory ==
  ASSUME TypeOK, NEW c \in Caller, NEW st \in Stages, Goto(c, st)
  PROVE  call' \in [Caller -> Memory]
BY TypedCalls DEF Goto, Memory

LEMMA ReturnMemory ==
  ASSUME TypeOK, NEW c \in Caller, Return(c)
  PROVE  call' \in [Caller -> Memory] /\ call'[c] = Idle
         /\ \A d \in Caller \ {c} : call'[d] = call[d]
<1>1. Idle \in Memory /\ call \in [Caller -> Memory]
  BY TypedCalls, MemoryFacts
<1> HIDE DEF Memory, Idle
<1> QED
  BY <1>1 DEF Return

LEMMA ChangesKept ==
  ASSUME IsFiniteSet(Changes), UNCHANGED authority PROVE IsFiniteSet(Changes)'
BY DEF Changes

\* A caller moves and writes no row.
LEMMA BoundedMove ==
  ASSUME BoundedInv, IInv', NEW c \in Caller, UNCHANGED <<frontier, authority, snapshotRef, store>>,
         call' \in [Caller -> Memory],
         \A d \in Caller \ {c} : call'[d] = call[d],
         call'[c].stage # "fenced",
         call'[c].stage \in {"traversing", "authorized"} =>
            /\ call[c].stage \in {"traversing", "authorized"}
            /\ call'[c].observation = call[c].observation
            /\ call'[c].generation = call[c].generation
  PROVE  BoundedInv'
<1>1. UNCHANGED <<observation, bound, startedAt, attempt, page, fence, capture>>
  BY DEF store
<1>2. TypeOK'
  BY <1>1, TypedMove, TypedCalls DEF BoundedInv
<1>3. Quiet
  BY <1>1, CallerMoves DEF BoundedInv
<1>4. Traversals'
  BY <1>1, CallerTraverses DEF BoundedInv, Traversals
<1> QED
  BY <1>2, <1>3, <1>4, QuietFencing, ChangesKept DEF BoundedInv

\* A caller in a traversal goes elsewhere in it without a fence.
LEMMA BoundedGoto ==
  ASSUME BoundedInv, IInv', NEW c \in Caller, UNCHANGED <<frontier, authority, snapshotRef, store>>,
         NEW st \in Stages, st \notin {"traversing", "authorized", "fenced"}, Goto(c, st)
  PROVE  BoundedInv'
BY GotoFacts, GotoMemory, BoundedMove DEF BoundedInv, IInv

LEMMA BoundedReturn ==
  ASSUME BoundedInv, IInv', NEW c \in Caller, UNCHANGED <<frontier, authority, snapshotRef, store>>,
         Return(c)
  PROVE  BoundedInv'
<1>1. call' \in [Caller -> Memory] /\ call'[c].stage = "idle"
      /\ \A d \in Caller \ {c} : call'[d] = call[d]
  BY ReturnMemory DEF BoundedInv, Idle
<1> QED
  BY <1>1, BoundedMove

LEMMA LoadContextBounded ==
  ASSUME BoundedInv, IInv', NEW c \in Caller, LoadContext(c) PROVE BoundedInv'
<1>1. PICK o \in Observation :
         call' = [call EXCEPT ![c].stage = "loaded", ![c].observation = o]
  BY DEF LoadContext
<1>2. call \in [Caller -> Memory] /\ o \in 0 .. MaxObservation /\ "loaded" \in Stages
  BY TypedCalls, MemoryFacts DEF BoundedInv, Stages
<1>3. call' \in [Caller -> Memory] /\ call'[c].stage = "loaded"
      /\ \A d \in Caller \ {c} : call'[d] = call[d]
  BY <1>1, <1>2 DEF Memory
<1> QED
  BY <1>3, BoundedMove DEF LoadContext

LEMMA OpenAcquisitionBounded ==
  ASSUME BoundedInv, IInv', NEW c \in Caller, OpenAcquisition(c) PROVE BoundedInv'
<1>1. "opening" \in Stages
  BY DEF Stages
<1> QED
  BY <1>1, BoundedGoto, BoundedReturn DEF OpenAcquisition

LEMMA CheckAdmissionBounded ==
  ASSUME BoundedInv, IInv', NEW c \in Caller, CheckAdmission(c) PROVE BoundedInv'
<1>1. "admitting" \in Stages /\ "failed" \in Stages
  BY DEF Stages
<1> QED
  BY <1>1, BoundedGoto DEF CheckAdmission

LEMMA CrashBounded == ASSUME BoundedInv, IInv', NEW c \in Caller, Crash(c) PROVE BoundedInv'
BY BoundedReturn DEF Crash

LEMMA AuthorizePageBounded ==
  ASSUME BoundedInv, IInv', NEW c \in Caller, AuthorizePage(c) PROVE BoundedInv'
<1>1. call[c].stage = "traversing" /\ UNCHANGED <<frontier, authority, snapshotRef, store>>
  BY DEF AuthorizePage
<1>2. CASE Goto(c, "failed")
  <2>1. "failed" \in Stages
    BY DEF Stages
  <2> QED
    BY <1>1, <1>2, <2>1, BoundedGoto
<1>3. CASE call' = [call EXCEPT ![c].stage = "authorized", ![c].seen = Revisions,
                                ![c].ordinal = NextTransportOrdinal(ObservationOf(c))]
  <2>1. ObservationOf(c) \in Observation
    BY <1>1, OwnAttempt DEF BoundedInv, Working
  <2>2. NextTransportOrdinal(ObservationOf(c)) \in Ordinals /\ "authorized" \in Stages
    BY <2>1, TypedCalls DEF BoundedInv, NextTransportOrdinal, Stages
  <2>3. Revisions \in [Authority -> 0 .. MaxChange + 1]
    <3>1. \A h \in Authority : authority[h].revision \in 1 .. MaxChange + 1
      BY DEF BoundedInv, TypeOK
    <3>2. 1 .. MaxChange + 1 \subseteq 0 .. MaxChange + 1
      BY Limits
    <3> QED
      BY <3>1, <3>2 DEF Revisions
  <2>4. PICK r, n : r = Revisions /\ n = NextTransportOrdinal(ObservationOf(c))
    OBVIOUS
  <2>5. call \in [Caller -> Memory]
    BY TypedCalls DEF BoundedInv
  <2>6. call' = [call EXCEPT ![c].stage = "authorized", ![c].seen = r, ![c].ordinal = n]
    BY <1>3, <2>4
  <2>7. /\ call' \in [Caller -> Memory] /\ call'[c].stage = "authorized"
        /\ call'[c].observation = call[c].observation
        /\ call'[c].generation = call[c].generation
        /\ \A d \in Caller \ {c} : call'[d] = call[d]
    BY <2>2, <2>3, <2>4, <2>5, <2>6, ZenonT(30) DEF Memory
  <2> QED
    BY <1>1, <2>7, BoundedMove
<1> QED
  BY <1>2, <1>3 DEF AuthorizePage

\* The next generation begins with no page, and so with room for one.
LEMMA StartAttemptBounded ==
  ASSUME BoundedInv, IInv', NEW c \in Caller, StartAttempt(c) PROVE BoundedInv'
<1> PICK o \in Observation : o = ObservationOf(c) /\ o = call[c].observation
  BY DEF BoundedInv, IInv, Holds, StartAttempt, ObservationOf
<1> PICK g \in Generation : g = Generations(o) + 1
  BY DEF StartAttempt
<1>1. /\ attempt' = [attempt EXCEPT ![o][g] = "STARTED"]
      /\ call' = [call EXCEPT ![c].stage = "traversing", ![c].generation = g]
      /\ UNCHANGED <<frontier, authority, snapshotRef, observation, bound, startedAt, page,
                     fence, capture>>
  BY DEF StartAttempt
<1>2. attempt[o][g] = "none"
  <2>1. Attempts(o) = 1 .. Generations(o) /\ Attempts(o) \subseteq 1 .. LastGeneration
        /\ LastGeneration \in Nat /\ Generations(o) = Cardinality(Attempts(o))
    BY Bounds DEF BoundedInv, IInv, RowsInv, Numbered, Attempts, Generations
  <2>2. g \notin Attempts(o)
    BY <2>1, NextRow
  <2> QED
    BY <2>2 DEF Attempts
<1>3. /\ attempt' \in [Observation -> [Generation -> Statuses]] /\ attempt'[o][g] = "STARTED"
      /\ \A p \in Observation, k \in Generation :
            attempt[p][k] # "none" => attempt'[p][k] # "none"
  BY <1>1 DEF BoundedInv, IInv, RowsInv, RowTypes, Statuses
<1>4. /\ call' \in [Caller -> Memory] /\ call'[c].stage = "traversing"
      /\ call'[c].observation = o /\ call'[c].generation = g
      /\ \A d \in Caller \ {c} : call'[d] = call[d]
  <2>1. call \in [Caller -> Memory] /\ "traversing" \in Stages
        /\ g \in 0 .. MaxRestarts + Cardinality(Caller)
    BY TypedCalls, MemoryFacts DEF BoundedInv, Stages
  <2> QED
    BY <1>1, <2>1, ZenonT(30) DEF Memory
<1>5. TypeOK'
  BY <1>1, <1>3, <1>4 DEF BoundedInv, TypeOK, Memory, Ordinals, Statuses
<1>6. Quiet
  BY <1>1, <1>2, <1>3, <1>4, CallerMoves DEF BoundedInv
<1>7. Len(page[o][g]) < MaxPages
  <2>1. page[o][g] = <<>>
    BY <1>2 DEF BoundedInv, Traversals
  <2> QED
    BY <2>1, Limits
<1>8. Traversals'
  BY <1>1, <1>3, <1>4, <1>7, CallerTraverses DEF BoundedInv
<1> QED
  BY <1>1, <1>5, <1>6, <1>8, QuietFencing, ChangesKept DEF BoundedInv

\* A fence takes the next ordinal of the Observation, which is within the bound.
LEMMA FencePageBounded ==
  ASSUME BoundedInv, IInv', NEW c \in Caller, FencePage(c) PROVE BoundedInv'
<1>1. /\ call[c].stage = "authorized"
      /\ UNCHANGED <<frontier, authority, snapshotRef, observation, bound, startedAt, attempt,
                     page, capture>>
  BY DEF FencePage
<1>2. call \in [Caller -> Memory] /\ "fenced" \in Stages /\ "failed" \in Stages
      /\ 0 \in Ordinals /\ NoRevisions \in [Authority -> 0 .. MaxChange + 1]
  BY TypedCalls, MemoryFacts DEF BoundedInv, Stages
<1>3. ASSUME NEW st \in {"fenced", "failed"},
             call' = [call EXCEPT ![c].stage = st, ![c].ordinal = 0, ![c].seen = NoRevisions]
      PROVE  /\ call' \in [Caller -> Memory] /\ call'[c].stage = st
             /\ call'[c].observation = call[c].observation
             /\ call'[c].generation = call[c].generation
             /\ \A d \in Caller \ {c} : call'[d] = call[d]
  <2> HIDE DEF NoRevisions
  <2> QED
    BY <1>2, <1>3, ZenonT(30) DEF Memory
<1>4. CASE Fences(c)
  <2>1. PICK o \in Observation, g \in Generation : o = ObservationOf(c) /\ o = call[c].observation
                                                /\ g = call[c].generation
    BY <1>1, OwnAttempt DEF BoundedInv, Working
  <2>2. /\ fence' = [fence EXCEPT ![o] = fence[o] + 1]
        /\ call' = [call EXCEPT ![c].stage = "fenced", ![c].ordinal = 0, ![c].seen = NoRevisions]
    BY <1>4, <2>1 DEF FencePage, Fences
  <2>3. Fencing'
    BY <1>1, <1>3, <2>1, <2>2, FenceCounts
  <2>4. fence' \in [Observation -> Ordinals]
    <3>1. ASSUME NEW p \in Observation PROVE fence'[p] \in Ordinals
      <4>1. Cardinality(Used(p)') \in Nat
            /\ Cardinality(Used(p)') <= Cardinality(Generation) * MaxPages
        BY SpentUsed, SlotFacts
      <4>2. fence'[p] \in Nat /\ fence'[p] <= Cardinality(Used(p)')
        BY <2>3 DEF Fencing, IInv, RowsInv, RowTypes
      <4>3. Cardinality(Generation) * MaxPages \in Nat
        BY Limits
      <4>4. PICK most \in Nat : most = Cardinality(Generation) * MaxPages
        BY <4>3
      <4>5. fence'[p] \in 0 .. most
        BY <4>1, <4>2, <4>4
      <4> QED
        BY <4>4, <4>5 DEF Ordinals
    <3> QED
      BY <2>2, <3>1, TypedCalls DEF BoundedInv
  <2>5. TypeOK'
    BY <1>1, <1>3, <2>2, <2>4, TypedMove DEF BoundedInv
  <2>6. Traversals'
    BY <1>1, <1>3, <2>2, CallerTraverses, SMTT(30) DEF BoundedInv, Traversals
  <2> QED
    BY <1>1, <2>3, <2>5, <2>6, ChangesKept DEF BoundedInv
<1>5. CASE ~ Fences(c)
  <2>1. /\ call' = [call EXCEPT ![c].stage = "failed", ![c].ordinal = 0, ![c].seen = NoRevisions]
        /\ UNCHANGED fence
    BY <1>5 DEF FencePage
  <2>2. UNCHANGED <<frontier, authority, snapshotRef, store>>
    BY <1>1, <2>1 DEF store
  <2> QED
    BY <1>3, <2>1, <2>2, BoundedMove
<1> QED
  BY <1>4, <1>5

LEMMA RecordPageBounded ==
  ASSUME BoundedInv, IInv', NEW c \in Caller, call[c].stage = "fenced",
         NEW s \in ServedSnapshots(c), RecordPage(c, s),
         UNCHANGED <<frontier, authority, snapshotRef, observation, bound, startedAt, attempt,
                     fence, capture>>
  PROVE  BoundedInv'
<1> PICK o \in Observation, g \in Generation :
        /\ o = ObservationOf(c) /\ o = call[c].observation
        /\ g = AttemptOf(c) /\ g = call[c].generation
  BY OwnAttempt DEF BoundedInv, Working
<1>1. PICK old : old = page[o][g]
  OBVIOUS
<1>2. PICK len \in Nat : len = Len(old) /\ len < MaxPages /\ old \in Seq(Snapshot)
  <2>1. old \in Seq(Snapshot) /\ Len(old) < MaxPages
    BY <1>1 DEF BoundedInv, TypeOK, Traversals
  <2> QED
    BY <2>1, LenProperties
<1>3. s \in Snapshot
  <2>1. s = snapshotRef \/ \E i \in 1 .. len : s = old[i]
    BY <1>1, <1>2, SMTT(30) DEF ServedSnapshots, PagesOf
  <2>2. \A i \in 1 .. len : old[i] \in Snapshot
    BY <1>2, ElementOfSeq
  <2> QED
    BY <2>1, <2>2 DEF BoundedInv, TypeOK
<1>4. PICK new : new = Append(old, s)
  OBVIOUS
<1>5. page' = [page EXCEPT ![o][g] = new]
  BY <1>1, <1>4, SMTT(30) DEF RecordPage, PagesOf
<1>6. new \in Seq(Snapshot) /\ Len(new) = len + 1 /\ len + 1 <= MaxPages
  <2>1. new \in Seq(Snapshot) /\ Len(new) = len + 1
    BY <1>2, <1>3, <1>4, AppendProperties
  <2>2. len + 1 <= MaxPages
    BY <1>2, Limits
  <2> QED
    BY <2>1, <2>2
<1>7. page \in [Observation -> [Generation -> Seq(Snapshot)]]
  BY DEF BoundedInv, TypeOK
<1>8. /\ page' \in [Observation -> [Generation -> Seq(Snapshot)]] /\ page'[o][g] = new
      /\ \A p \in Observation, k \in Generation : p # o \/ k # g => page'[p][k] = page[p][k]
  BY <1>5, <1>6, <1>7
<1>9. PICK st \in {"complete", "restartable", "traversing"} :
         Goto(c, st) /\ (st = "traversing" => len + 1 # MaxPages)
  BY <1>1, <1>2 DEF RecordPage, LastPage, PagesOf
<1>10. st \in Stages
  BY DEF Stages
<1>11. /\ call' \in [Caller -> Memory] /\ call'[c].stage = st
       /\ call'[c].observation = o /\ call'[c].generation = g
       /\ \A d \in Caller \ {c} : call'[d] = call[d]
  BY <1>9, <1>10, GotoFacts, GotoMemory DEF BoundedInv, IInv
<1>12. Quiet
  BY <1>1, <1>2, <1>6, <1>8, <1>11, RecordCounts DEF BoundedInv
<1>13. \A p \in Observation, k \in Generation : Len(page'[p][k]) <= MaxPages
  <2> TAKE p \in Observation, k \in Generation
  <2>1. CASE p = o /\ k = g
    BY <1>6, <1>8, <2>1
  <2>2. CASE p # o \/ k # g
    BY <1>8, <2>2 DEF BoundedInv, Traversals
  <2> QED
    BY <2>1, <2>2
<1>14. TypeOK'
  BY <1>8, <1>11, <1>13 DEF BoundedInv, TypeOK, Memory, Ordinals
<1>15. Traversals'
  <2>1. \A p \in Observation, k \in Generation : attempt'[p][k] = "none" => page'[p][k] = <<>>
    <3> TAKE p \in Observation, k \in Generation
    <3>1. attempt[o][g] = "STARTED"
      BY OwnAttempt DEF BoundedInv, Working
    <3> QED
      BY <1>8, <3>1 DEF BoundedInv, Traversals
  <2>2. ASSUME NEW d \in Caller, call'[d].stage \in {"traversing", "authorized", "fenced"}
        PROVE  Len(page'[call'[d].observation][call'[d].generation]) < MaxPages
    <3>1. CASE d = c
      <4>1. len + 1 < MaxPages
        BY <1>2, <1>9, <1>11, <2>2, <3>1, Limits
      <4> QED
        BY <1>6, <1>8, <1>11, <3>1, <4>1
    <3>2. CASE d # c
      <4>1. call'[d] = call[d] /\ call[d].stage \in Working
        BY <1>11, <2>2, <3>2 DEF Working
      <4>2. call[d].observation # o \/ call[d].generation # g
        BY <3>2, <4>1, OwnAttempt DEF BoundedInv, Working
      <4>3. call[d].observation \in Observation /\ call[d].generation \in Generation
        BY <4>1, OwnAttempt DEF BoundedInv
      <4>4. page'[call[d].observation][call[d].generation]
                = page[call[d].observation][call[d].generation]
        BY <1>8, <4>2, <4>3
      <4>5. Len(page[call[d].observation][call[d].generation]) < MaxPages
        BY <2>2, <4>1 DEF BoundedInv, Traversals
      <4> QED
        BY <4>1, <4>4, <4>5
    <3> QED
      BY <3>1, <3>2
  <2> QED
    BY <1>13, <2>1, <2>2 DEF Traversals
<1> QED
  BY <1>12, <1>14, <1>15, QuietFencing, ChangesKept DEF BoundedInv

LEMMA ReadPageBounded ==
  ASSUME BoundedInv, IInv', NEW c \in Caller, ReadPage(c) PROVE BoundedInv'
<1>1. /\ call[c].stage = "fenced"
      /\ UNCHANGED <<frontier, authority, snapshotRef, observation, bound, startedAt, attempt,
                     fence, capture>>
  BY DEF ReadPage
<1>2. ASSUME NEW st \in {"failed", "restartable"}, Goto(c, st), UNCHANGED page
      PROVE  BoundedInv'
  <2>1. st \in Stages /\ UNCHANGED <<frontier, authority, snapshotRef, store>>
    BY <1>1, <1>2 DEF Stages, store
  <2> QED
    BY <1>2, <2>1, BoundedGoto
<1>3. ASSUME NEW s \in ServedSnapshots(c), RecordPage(c, s) PROVE BoundedInv'
  BY <1>1, <1>3, RecordPageBounded
<1> QED
  BY <1>2, <1>3 DEF ReadPage, PageFailures

\* An attempt ends and its caller returns.
LEMMA EndAttemptBounded ==
  ASSUME BoundedInv, IInv', NEW c \in Caller, call[c].stage \in Working,
         UNCHANGED <<frontier, authority, snapshotRef, bound, startedAt, page, fence>>,
         Return(c), NEW st \in {"SUCCEEDED", "FAILED"},
         attempt' = [attempt EXCEPT ![ObservationOf(c)][AttemptOf(c)] = st],
         capture' \in [Observation -> Captures \cup {NoCapture}]
  PROVE  BoundedInv'
<1> PICK o \in Observation, g \in Generation :
        /\ o = ObservationOf(c) /\ g = AttemptOf(c) /\ attempt[o][g] = "STARTED"
  BY OwnAttempt DEF BoundedInv
<1>1. /\ attempt' \in [Observation -> [Generation -> Statuses]]
      /\ \A p \in Observation, k \in Generation : attempt'[p][k] = "none" <=> attempt[p][k] = "none"
  BY DEF BoundedInv, IInv, RowsInv, RowTypes, Statuses
<1>2. call' \in [Caller -> Memory] /\ call'[c].stage = "idle"
      /\ \A d \in Caller \ {c} : call'[d] = call[d]
  BY ReturnMemory DEF BoundedInv, Idle
<1>3. observation' \in [Observation -> Statuses]
  BY DEF IInv, RowsInv, RowTypes
<1>4. TypeOK'
  BY <1>1, <1>2, <1>3 DEF BoundedInv, TypeOK, Memory, Ordinals, Statuses
<1>5. Quiet
  BY <1>1, <1>2, CallerMoves DEF BoundedInv
<1>6. Traversals'
  BY <1>1, <1>2, CallerTraverses DEF BoundedInv
<1> QED
  BY <1>4, <1>5, <1>6, QuietFencing, ChangesKept DEF BoundedInv

LEMMA AdmitCaptureBounded ==
  ASSUME BoundedInv, IInv', NEW c \in Caller, AdmitCapture(c) PROVE BoundedInv'
<1>0. /\ call[c].stage = "admitting" /\ call[c].stage \in Working
      /\ UNCHANGED <<frontier, authority, snapshotRef, bound, startedAt, page, fence>>
  BY DEF AdmitCapture, Working
<1> PICK o \in Observation, g \in Generation :
        /\ o = ObservationOf(c) /\ o = call[c].observation
        /\ g = AttemptOf(c) /\ g = call[c].generation
  BY <1>0, OwnAttempt DEF BoundedInv
<1>1. CASE Goto(c, "failed") /\ UNCHANGED <<capture, observation, attempt>>
  <2>1. "failed" \in Stages /\ UNCHANGED <<frontier, authority, snapshotRef, store>>
    BY <1>0, <1>1 DEF Stages, store
  <2> QED
    BY <1>1, <2>1, BoundedGoto
<1>2. CASE ~(Goto(c, "failed") /\ UNCHANGED <<capture, observation, attempt>>)
  <2>1. PICK taken : taken = page[o][g]
    OBVIOUS
  <2>20. PICK anchor \in {taken[1], startedAt[o]} :
          capture' = [capture EXCEPT ![o] = [generation |-> g, snapshot |-> taken[1],
                                             anchor |-> anchor, pages |-> Len(taken)]]
    BY <1>2, <2>1, SMTT(30) DEF AdmitCapture, FreshnessAnchors, PagesOf
  <2>2. PICK row :
          /\ row = [generation |-> g, snapshot |-> taken[1], anchor |-> anchor,
                    pages |-> Len(taken)]
          /\ capture' = [capture EXCEPT ![o] = row]
    BY <2>20
  <2>3. taken \in Seq(Snapshot) /\ Len(taken) \in 1 .. MaxPages
    <3>1. taken \in Seq(Snapshot) /\ Len(taken) <= MaxPages /\ Len(taken) # 0
      BY <1>0, <2>1 DEF BoundedInv, TypeOK, IInv, Holds
    <3>2. PICK n \in Nat : n = Len(taken)
      BY <3>1, LenProperties
    <3>3. n \in 1 .. MaxPages
      BY <3>1, <3>2, Limits
    <3> QED
      BY <3>1, <3>2, <3>3
  <2>4. taken[1] \in Snapshot
    BY <2>3, ElementOfSeq, Limits
  <2>5. startedAt[o] \in Snapshot
    <3>1. startedAt[o] # 0 /\ startedAt[o] \in 0 .. MaxSnapshot
      BY <1>0, OwnAttempt DEF BoundedInv, TypeOK
    <3> QED
      BY <3>1, Limits DEF Snapshot
  <2>6. row \in Captures
    BY <2>2, <2>3, <2>4, <2>5 DEF Captures
  <2>7. capture' \in [Observation -> Captures \cup {NoCapture}]
    BY <2>2, <2>6 DEF BoundedInv, TypeOK
  <2>8. Return(c) /\ attempt' = [attempt EXCEPT ![ObservationOf(c)][AttemptOf(c)] = "SUCCEEDED"]
    BY <1>2 DEF AdmitCapture
  <2> QED
    BY <1>0, <2>7, <2>8, EndAttemptBounded
<1> QED
  BY <1>1, <1>2 DEF AdmitCapture

LEMMA MarkFailedBounded ==
  ASSUME BoundedInv, IInv', NEW c \in Caller, MarkFailed(c) PROVE BoundedInv'
<1>0. /\ call[c].stage \in Working /\ Return(c)
      /\ UNCHANGED <<frontier, authority, snapshotRef, bound, startedAt, page, fence, capture>>
  BY DEF MarkFailed, Working
<1>1. /\ attempt[ObservationOf(c)][AttemptOf(c)] = "STARTED"
      /\ ObservationOf(c) \in Observation /\ AttemptOf(c) \in Generation
  BY <1>0, OwnAttempt DEF BoundedInv
<1>2. attempt' = [attempt EXCEPT ![ObservationOf(c)][AttemptOf(c)] = "FAILED"]
  BY <1>1 DEF MarkFailed, BoundedInv, IInv, RowsInv, RowTypes
<1>3. capture' \in [Observation -> Captures \cup {NoCapture}]
  BY <1>0 DEF BoundedInv, TypeOK
<1> QED
  BY <1>0, <1>2, <1>3, EndAttemptBounded

-----------------------------------------------------------------------------
(* Steps of no caller, and every step. *)

\* Rows of traversals, fences and callers stay.
LEMMA BoundedRowsKept ==
  ASSUME BoundedInv, IInv', UNCHANGED <<page, attempt, fence, call>>, TypeOK',
         IsFiniteSet(Changes)'
  PROVE  BoundedInv'
BY SlotsKept, QuietFencing, TraversalsKept DEF BoundedInv

LEMMA ObservationBounded ==
  ASSUME BoundedInv, IInv', NEW o \in Observation,
         StartObservation(o) \/ BindRequest(o) \/ PrepareObservation(o)
  PROVE  BoundedInv'
<1>1. UNCHANGED <<frontier, authority, snapshotRef, attempt, page, fence, capture, call>>
  BY DEF StartObservation, BindRequest, PrepareObservation
<1>2. observation' \in [Observation -> Statuses]
  BY DEF IInv, RowsInv, RowTypes
<1>3. bound' \in [Observation -> BOOLEAN]
  BY DEF StartObservation, BindRequest, PrepareObservation, BoundedInv, TypeOK
<1>4. startedAt' \in [Observation -> 0 .. MaxSnapshot]
  <2>1. startedAt \in [Observation -> 0 .. MaxSnapshot] /\ snapshotRef \in 0 .. MaxSnapshot
    BY Limits DEF BoundedInv, TypeOK, Snapshot
  <2> QED
    BY <2>1 DEF StartObservation, BindRequest, PrepareObservation
<1>5. TypeOK'
  BY <1>1, <1>2, <1>3, <1>4 DEF BoundedInv, TypeOK, Statuses
<1> QED
  BY <1>1, <1>5, ChangesKept, BoundedRowsKept DEF BoundedInv

LEMMA OutsideBounded ==
  ASSUME BoundedInv, IInv', AdvanceTimeline \/ EditCalendar PROVE BoundedInv'
<1>1. UNCHANGED <<authority, observation, bound, startedAt, attempt, page, fence, capture, call>>
  BY DEF AdvanceTimeline, EditCalendar, store
<1>2. frontier' \in BOOLEAN
  BY DEF AdvanceTimeline, EditCalendar, BoundedInv, TypeOK
<1>3. snapshotRef' \in Snapshot
  <2>1. snapshotRef \in 1 .. MaxSnapshot
    BY DEF BoundedInv, TypeOK, Snapshot
  <2>2. \/ snapshotRef' = snapshotRef
        \/ snapshotRef < MaxSnapshot /\ snapshotRef' = snapshotRef + 1
    <3>1. AdvanceTimeline => snapshotRef' = snapshotRef
      BY DEF AdvanceTimeline
    <3>2. EditCalendar => snapshotRef < MaxSnapshot /\ snapshotRef' = snapshotRef + 1
      BY DEF EditCalendar
    <3> QED
      BY <3>1, <3>2
  <2> QED
    BY <2>1, <2>2, Limits DEF Snapshot
<1>4. TypeOK'
  BY <1>1, <1>2, <1>3 DEF BoundedInv, TypeOK
<1> QED
  BY <1>1, <1>4, ChangesKept, BoundedRowsKept DEF BoundedInv

\* A head that made all the changes there may be is not changed again.
LEMMA ChangeAuthorityBounded ==
  ASSUME BoundedInv, IInv', NEW h \in Authority, NEW permits \in BOOLEAN,
         ChangeAuthority(h, permits)
  PROVE  BoundedInv'
<1>1. PICK n : n = authority[h].revision
  OBVIOUS
<1>2. /\ Cardinality(Changes) < MaxChange
      /\ authority' = [authority EXCEPT ![h] = [revision |-> n + 1, permits |-> permits]]
      /\ UNCHANGED <<frontier, snapshotRef, observation, bound, startedAt, attempt, page, fence,
                     capture, call>>
  BY <1>1 DEF ChangeAuthority, Changes, store
<1>3. authority \in [Authority -> [revision : 1 .. MaxChange + 1, permits : BOOLEAN]]
      /\ n \in 1 .. MaxChange + 1 /\ n \in Nat
  BY <1>1, Limits DEF BoundedInv, TypeOK
<1>4. n # MaxChange + 1
  <2> SUFFICES ASSUME n = MaxChange + 1 PROVE FALSE
    OBVIOUS
  <2>1. {h} \X (2 .. MaxChange + 1) \subseteq Changes
    <3> SUFFICES ASSUME NEW t \in {h} \X (2 .. MaxChange + 1) PROVE t \in Changes
      OBVIOUS
    <3>1. t[1] = h /\ t[2] \in 2 .. MaxChange + 1 /\ t \in Authority \X (2 .. MaxChange + 1)
      OBVIOUS
    <3>2. t[2] <= n
      BY <3>1, Limits
    <3> QED
      BY <1>1, <3>1, <3>2 DEF Changes
  <2>2. IsFiniteSet({h}) /\ Cardinality({h}) = 1
    BY FS_Singleton
  <2>3. IsFiniteSet(2 .. MaxChange + 1) /\ Cardinality(2 .. MaxChange + 1) = MaxChange
    <3>1. PICK last \in Int : last = MaxChange + 1 /\ last \in Nat \ {0}
      BY Limits
    <3>2. IsFiniteSet(2 .. last)
          /\ Cardinality(2 .. last) = IF 2 > last THEN 0 ELSE last - 2 + 1
      BY FS_Interval
    <3>3. Cardinality(2 .. last) = last - 1
      BY <3>1, <3>2
    <3> QED
      BY <3>1, <3>2, <3>3, Limits
  <2>4. Cardinality({h} \X (2 .. MaxChange + 1)) = 1 * MaxChange
    BY <2>2, <2>3, FS_Product, ZenonT(30)
  <2>5. IsFiniteSet(Changes) /\ Cardinality(Changes) \in Nat
    BY FS_CardinalityType DEF BoundedInv
  <2>6. Cardinality({h} \X (2 .. MaxChange + 1)) <= Cardinality(Changes)
    BY <2>1, <2>5, FS_Subset
  <2> QED
    BY <1>2, <2>4, <2>5, <2>6, Limits
<1>5. n + 1 \in 1 .. MaxChange + 1
  BY <1>3, <1>4, Limits
<1>6. /\ authority' \in [Authority -> [revision : 1 .. MaxChange + 1, permits : BOOLEAN]]
      /\ authority'[h].revision = n + 1
      /\ \A k \in Authority \ {h} : authority'[k] = authority[k]
  BY <1>2, <1>3, <1>5
<1>7. TypeOK'
  BY <1>2, <1>6 DEF BoundedInv, TypeOK
<1>8. IsFiniteSet(Changes)'
  <2>1. Changes' \subseteq Changes \cup {<<h, n + 1>>}
    <3> SUFFICES ASSUME NEW t \in Authority \X (2 .. MaxChange + 1),
                        t[2] <= authority'[t[1]].revision, t # <<h, n + 1>>
                 PROVE  t[2] <= authority[t[1]].revision
      BY DEF Changes
    <3>1. t[1] \in Authority /\ t[2] \in 2 .. MaxChange + 1
      OBVIOUS
    <3>2. CASE t[1] = h
      <4>1. t[2] # n + 1 /\ t[2] <= n + 1
        BY <1>6, <3>2
      <4>2. t[2] <= n
        BY <1>3, <3>1, <4>1, Limits
      <4> QED
        BY <1>1, <3>2, <4>2
    <3>3. CASE t[1] # h
      BY <1>6, <3>1, <3>3
    <3> QED
      BY <3>2, <3>3
  <2>2. IsFiniteSet(Changes \cup {<<h, n + 1>>})
    BY FS_AddElement DEF BoundedInv
  <2>3. IsFiniteSet(Changes')
    BY <2>1, <2>2, FS_Subset
  <2> QED
    BY <2>3
<1> QED
  BY <1>2, <1>7, <1>8, BoundedRowsKept

LEMMA BoundedInit == Init => BoundedInv
<1> SUFFICES ASSUME Init PROVE BoundedInv
  OBVIOUS
<1>1. IInv
  BY InitInv
<1>2. \A c \in Caller : call[c] = Idle
  BY DEF Init
<1>3. TypeOK
  <2>1. Idle \in Memory /\ 0 \in Ordinals
    BY MemoryFacts
  <2>2. call \in [Caller -> Memory]
    <3> HIDE DEF Idle
    <3> QED
      BY <2>1 DEF Init
  <2>3. fence \in [Observation -> Ordinals] /\ startedAt \in [Observation -> 0 .. MaxSnapshot]
        /\ snapshotRef \in Snapshot
    BY <2>1, Limits DEF Init, Snapshot
  <2>4. authority \in [Authority -> [revision : 1 .. MaxChange + 1, permits : BOOLEAN]]
    BY Limits DEF Init
  <2>5. page \in [Observation -> [Generation -> Seq(Snapshot)]]
        /\ \A o \in Observation, g \in Generation : Len(page[o][g]) <= MaxPages
    BY Limits DEF Init
  <2>6. /\ frontier \in BOOLEAN
        /\ observation \in [Observation -> {"none", "STARTED", "SUCCEEDED", "FAILED"}]
        /\ bound \in [Observation -> BOOLEAN]
        /\ attempt \in [Observation -> [Generation -> {"none", "STARTED", "SUCCEEDED", "FAILED"}]]
    BY DEF Init
  <2>7. capture \in [Observation -> Captures \cup {NoCapture}]
    BY DEF Init
  <2> QED
    BY <2>2, <2>3, <2>4, <2>5, <2>6, <2>7 DEF TypeOK, Memory, Ordinals
<1>4. Traversals
  BY <1>2, Limits DEF Init, Traversals, Idle
<1>5. Fencing
  <2> SUFFICES ASSUME NEW o \in Observation
               PROVE  Cardinality(Spent(o)) <= fence[o] /\ fence[o] <= Cardinality(Used(o))
    BY DEF Fencing
  <2>1. Spent(o) = {}
    <3> SUFFICES ASSUME NEW g \in Generation, NEW i \in 1 .. MaxPages PROVE ~ SpentSlot(o, g, i)
      BY DEF Spent, Slots
    <3>1. Len(page[o][g]) = 0 /\ ~ Waiting(o, g)
      BY <1>2 DEF Init, Waiting, Idle
    <3> QED
      BY <3>1, Limits DEF SpentSlot
  <2>2. fence[o] = 0 /\ Cardinality(Spent(o)) = 0
    BY <2>1, FS_EmptySet DEF Init
  <2>3. Cardinality(Used(o)) \in Nat
    BY SpentUsed, SlotFacts
  <2> QED
    BY <2>2, <2>3
<1>6. IsFiniteSet(Changes)
  <2>1. Changes = {}
    <3> SUFFICES ASSUME NEW t \in Authority \X (2 .. MaxChange + 1),
                        t[2] <= authority[t[1]].revision
                 PROVE  FALSE
      BY DEF Changes
    <3>1. authority[t[1]].revision = 1 /\ t[2] \in 2 .. MaxChange + 1
      BY DEF Init
    <3> QED
      BY <3>1, Limits
  <2> QED
    BY <2>1, FS_EmptySet
<1> QED
  BY <1>1, <1>3, <1>4, <1>5, <1>6 DEF BoundedInv

LEMMA BoundedStep == BoundedInv /\ [Next]_vars => BoundedInv'
<1> SUFFICES ASSUME BoundedInv, [Next]_vars PROVE BoundedInv'
  OBVIOUS
<1>0. IInv'
  BY StepInv DEF BoundedInv
<1>1. ASSUME NEW o \in Observation,
             StartObservation(o) \/ BindRequest(o) \/ PrepareObservation(o)
      PROVE  BoundedInv'
  BY <1>0, <1>1, ObservationBounded
<1>2. ASSUME NEW c \in Caller,
             \/ LoadContext(c) \/ OpenAcquisition(c) \/ StartAttempt(c) \/ AuthorizePage(c)
             \/ FencePage(c) \/ ReadPage(c) \/ CheckAdmission(c) \/ AdmitCapture(c)
             \/ MarkFailed(c) \/ Crash(c)
      PROVE  BoundedInv'
  BY <1>0, <1>2, LoadContextBounded, OpenAcquisitionBounded, StartAttemptBounded,
     AuthorizePageBounded, FencePageBounded, ReadPageBounded, CheckAdmissionBounded,
     AdmitCaptureBounded, MarkFailedBounded, CrashBounded
<1>3. CASE AdvanceTimeline \/ EditCalendar
  BY <1>0, <1>3, OutsideBounded
<1>4. ASSUME NEW h \in Authority, NEW permits \in BOOLEAN, ChangeAuthority(h, permits)
      PROVE  BoundedInv'
  BY <1>0, <1>4, ChangeAuthorityBounded
<1>5. CASE UNCHANGED vars
  <2>1. UNCHANGED <<frontier, authority, snapshotRef, observation, bound, startedAt, attempt,
                    page, fence, capture, call>>
    BY <1>5 DEF vars, store
  <2>2. TypeOK'
    BY <2>1 DEF BoundedInv, TypeOK
  <2> QED
    BY <1>0, <2>1, <2>2, ChangesKept, BoundedRowsKept DEF BoundedInv
<1> QED
  BY <1>1, <1>2, <1>3, <1>4, <1>5 DEF Next

\* The bounds that the contract sets hold in every reachable state, although callers race:
\* pages of a traversal, fences of an Observation and what callers remember of them.
THEOREM BoundedInductive == Spec => []BoundedInv
BY BoundedInit, BoundedStep, PTL DEF Spec

\* Every variable keeps its type: no traversal records more pages than the contract
\* allows, and the fences of an Observation stay within its transport ordinals.
THEOREM TypeCorrectness == Spec => []TypeOK
<1>1. BoundedInv => TypeOK
  BY DEF BoundedInv
<1> QED
  BY <1>1, BoundedInductive, PTL

\* Each recorded page spent a page fence of its own, whichever callers computed the same
\* transport ordinal, lost the commit, died or were restarted in between.
THEOREM EveryPageFencedHolds == Spec => []EveryPageFenced
<1>1. BoundedInv => EveryPageFenced
  <2> SUFFICES ASSUME BoundedInv, NEW o \in Observation, NEW recorded,
                      recorded = {r \in Generation \X (1 .. MaxPages) :
                                      r[2] <= Len(page[o][r[1]])}
               PROVE  Cardinality(recorded) <= fence[o]
    BY DEF EveryPageFenced
  <2>1. recorded \subseteq Spent(o) /\ Spent(o) \subseteq Slots
    BY SpentUsed DEF Spent, Slots, SpentSlot
  <2>2. /\ Cardinality(recorded) <= Cardinality(Spent(o))
        /\ Cardinality(recorded) \in Nat /\ Cardinality(Spent(o)) \in Nat
    BY <2>1, SmallerSlots
  <2>3. fence[o] \in Nat /\ Cardinality(Spent(o)) <= fence[o]
    BY DEF BoundedInv, IInv, RowsInv, RowTypes, Fencing
  <2> QED
    BY <2>2, <2>3
<1> QED
  BY <1>1, BoundedInductive, PTL
=============================================================================
