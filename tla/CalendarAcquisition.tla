------------------------ MODULE CalendarAcquisition ------------------------
(* Reading a person's calendar for one interaction: the first half of               *)
(* PersonalCalendarResponseCoordinator.respond, from the choice of an Observation to *)
(* the admission of one WorldSourceCapture, with the calendar provider and the       *)
(* mutable authority it runs under.                                                  *)
(*                                                                                   *)
(* A Caller is one call of respond; several run at once, each may stop at any point  *)
(* and be run again.  An Observation is one semantic read; its attempts are bounded  *)
(* traversals of provider pages.  Only commits are atomic: SQLite takes the write    *)
(* lock at the first write of a transaction, so a check that precedes it is a step   *)
(* of its own here unless the write validates it.                                    *)
EXTENDS Naturals, Sequences, FiniteSets

CONSTANTS
    Caller,          \* concurrent calls of respond for the interaction
    Authority,       \* the authority heads a page fence reads and compares
    Resource,        \* the one of them that says which calendar is active
    MaxObservation,  \* Observation generations explored (64 in the code)
    MaxRestarts,     \* max_restarts of the capability contract
    MaxTraversal,    \* traversals explored, of all Observations together
    MaxPages,        \* max_pages of the capability contract
    MaxSnapshot,     \* provider revisions of the calendar explored
    MaxChange        \* changes of authority explored, of all heads together

ASSUME BoundsAssumption ==
    /\ {MaxObservation, MaxTraversal, MaxPages, MaxSnapshot} \subseteq Nat \ {0}
    /\ {MaxRestarts, MaxChange} \subseteq Nat
    /\ IsFiniteSet(Caller)
    /\ Resource \in Authority

VARIABLES
    frontier,     \* the interaction is still the last event of the Timeline
    authority,    \* current revision of each head, and whether it permits the read
    snapshotRef,  \* the provider's current revision of the calendar
    observation,  \* status of each Observation
    bound,        \* its source interaction was bound while it was the frontier
    startedAt,    \* acquisition_started_at of its scope, as a provider revision; 0: no scope
    attempt,      \* status of each traversal of each Observation
    page,         \* the recorded pages of each traversal: their snapshot_ref
    fence,        \* page fences committed for each Observation: ordinals 0 .. fence - 1
    capture,      \* the admitted WorldSourceCapture of each Observation
    call          \* what each running caller holds in memory

store == <<observation, bound, startedAt, attempt, page, fence, capture>>
vars == <<frontier, authority, snapshotRef, store, call>>

Observation == 1 .. MaxObservation
\* Each caller may pass the restart check before another one inserts: no more than these.
Generation == 1 .. MaxRestarts + Cardinality(Caller)
Snapshot == 1 .. MaxSnapshot

NoCapture == [generation |-> 0, snapshot |-> 0, anchor |-> 0, pages |-> 0]
Captures == [generation : Generation, snapshot : Snapshot, anchor : Snapshot,
             pages : 1 .. MaxPages]

Stages == {"idle", "loaded", "opening", "traversing", "authorized",
           "fenced", "complete", "admitting", "failed", "restartable"}
NoRevisions == [h \in Authority |-> 0]
Idle == [stage |-> "idle", observation |-> 0, generation |-> 0, ordinal |-> 0,
         seen |-> NoRevisions]

-----------------------------------------------------------------------------
(* What the code reads. *)

ObservationOf(c) == call[c].observation
AttemptOf(c) == call[c].generation
PagesOf(c) == page[ObservationOf(c)][AttemptOf(c)]

\* Attempts of an Observation are numbered without gaps.
Attempts(o) == {g \in Generation : attempt[o][g] # "none"}
Generations(o) == Cardinality(Attempts(o))

Permits(heads) == \A h \in heads : authority[h].permits
Revisions == [h \in Authority |-> authority[h].revision]

\* The selectors of the runtime find one current Permission and one usable credential.
Selectable == Permits(Authority)

\* select_observation_generation: the first one that has not failed.
Reusable(o) == observation[o] # "FAILED" /\ \A p \in 1 .. o - 1 : observation[p] = "FAILED"

\* _start_attempt: no traversal open, no capture, restarts left.
MayOpen(o) ==
    /\ \A g \in Generation : attempt[o][g] # "STARTED"
    /\ capture[o] = NoCapture
    /\ Generations(o) <= MaxRestarts

\* Every page of a traversal must carry the snapshot_ref of the first.
SameSnapshot(pages, s) == pages = <<>> \/ s = pages[1]

\* Mutant: the anchor is taken when the capture is committed.
FreshnessAnchorsAtCommit(o, s) == {s, snapshotRef}

\* The freshness anchor of a capture: the instant the provider says its snapshot was
\* taken, if it says so, else the preparation of the Observation's scope.
FreshnessAnchors(o, s) == {s, startedAt[o]}

\* A restartable failure leaves the Observation open while restarts are left.
LeavesOpen(c) == call[c].stage = "restartable" /\ AttemptOf(c) <= MaxRestarts

Goto(c, stage) == call' = [call EXCEPT ![c].stage = stage]
Return(c) == call' = [call EXCEPT ![c] = Idle]

-----------------------------------------------------------------------------
Init ==
    /\ frontier = TRUE
    /\ authority = [h \in Authority |-> [revision |-> 1, permits |-> TRUE]]
    /\ snapshotRef = 1
    /\ observation = [o \in Observation |-> "none"]
    /\ bound = [o \in Observation |-> FALSE]
    /\ startedAt = [o \in Observation |-> 0]
    /\ attempt = [o \in Observation |-> [g \in Generation |-> "none"]]
    /\ page = [o \in Observation |-> [g \in Generation |-> <<>>]]
    /\ fence = [o \in Observation |-> 0]
    /\ capture = [o \in Observation |-> NoCapture]
    /\ call = [c \in Caller |-> Idle]

(* Up to the reads of _start_attempt a call of respond holds nothing in memory that it *)
(* does not check again, so these steps belong to no particular caller.               *)

\* respond chooses an Observation generation that has not started, and starts it.
StartObservation(o) ==
    /\ Reusable(o)
    /\ observation[o] = "none"
    /\ observation' = [observation EXCEPT ![o] = "STARTED"]
    /\ UNCHANGED <<frontier, authority, snapshotRef, bound, startedAt, attempt, page, fence,
                   capture, call>>

\* prepare_observation, first transaction: bind the request while it is the frontier.
BindRequest(o) ==
    /\ Reusable(o)
    /\ observation[o] = "STARTED"
    /\ frontier
    /\ ~bound[o]
    /\ bound' = [bound EXCEPT ![o] = TRUE]
    /\ UNCHANGED <<frontier, authority, snapshotRef, observation, startedAt, attempt, page,
                   fence, capture, call>>

\* prepare_observation, second transaction: the scope, with the acquisition's start.
PrepareObservation(o) ==
    /\ Reusable(o)
    /\ observation[o] = "STARTED"
    /\ bound[o]
    /\ startedAt[o] = 0
    /\ Permits({Resource})
    /\ startedAt' = [startedAt EXCEPT ![o] = snapshotRef]
    /\ UNCHANGED <<frontier, authority, snapshotRef, observation, bound, attempt, page, fence,
                   capture, call>>

\* acquire loads its context: a prepared, open Observation and who may read it.
LoadContext(c) ==
    /\ call[c].stage = "idle"
    /\ \E o \in Observation :
        /\ Reusable(o)
        /\ observation[o] = "STARTED"
        /\ startedAt[o] # 0
        /\ Selectable
        /\ call' = [call EXCEPT ![c].stage = "loaded", ![c].observation = o]
    /\ UNCHANGED <<frontier, authority, snapshotRef, store>>

\* _start_attempt up to its first write: the Observation may have failed meanwhile.
OpenAcquisition(c) ==
    /\ call[c].stage = "loaded"
    /\ IF MayOpen(ObservationOf(c)) THEN Goto(c, "opening") ELSE Return(c)
    /\ UNCHANGED <<frontier, authority, snapshotRef, store>>

\* _start_attempt inserts the next generation; only its number is unique.
StartAttempt(c) ==
    LET o == ObservationOf(c)
        g == Generations(o) + 1
    IN
    /\ call[c].stage = "opening"
    /\ g \in Generation
    /\ Cardinality({t \in Observation \X Generation : attempt[t[1]][t[2]] # "none"})
            < MaxTraversal
    /\ attempt' = [attempt EXCEPT ![o][g] = "STARTED"]
    /\ call' = [call EXCEPT ![c].stage = "traversing", ![c].generation = g]
    /\ UNCHANGED <<frontier, authority, snapshotRef, observation, bound, startedAt, page,
                   fence, capture>>

\* _next_transport_ordinal: one more than the greatest fenced so far.
NextTransportOrdinal(o) == fence[o]

\* The next transport ordinal, and fence_read_page up to its first write: the reads.
AuthorizePage(c) ==
    LET o == ObservationOf(c) IN
    /\ call[c].stage = "traversing"
    /\ IF observation[o] = "STARTED" /\ Permits(Authority)
       THEN call' = [call EXCEPT ![c].stage = "authorized", ![c].seen = Revisions,
                                 ![c].ordinal = NextTransportOrdinal(o)]
       ELSE Goto(c, "failed")
    /\ UNCHANGED <<frontier, authority, snapshotRef, store>>

\* Mutants: the fence ignores a change of authority; or another fence of its ordinal.
FencesWithoutHeads(c) == fence[ObservationOf(c)] = call[c].ordinal
FencesTakenOrdinal(c) == call[c].seen = Revisions

\* The ordinal is unique per Observation, and every head must still be the one read.
Fences(c) == call[c].seen = Revisions /\ fence[ObservationOf(c)] = call[c].ordinal

\* fence_read_page commits: the compare-and-set of every head and the new fence.
FencePage(c) ==
    /\ call[c].stage = "authorized"
    /\ IF Fences(c)
       THEN /\ fence' = [fence EXCEPT ![ObservationOf(c)] = call[c].ordinal + 1]
            /\ call' = [call EXCEPT ![c].stage = "fenced", ![c].ordinal = 0,
                                    ![c].seen = NoRevisions]
       ELSE /\ call' = [call EXCEPT ![c].stage = "failed", ![c].ordinal = 0,
                                    ![c].seen = NoRevisions]
            /\ UNCHANGED fence
    /\ UNCHANGED <<frontier, authority, snapshotRef, observation, bound, startedAt, attempt,
                   page, capture>>

\* Mutant: the page bound is off by one.
LastPageLate(c) == Len(PagesOf(c)) = MaxPages

\* The page about to be recorded is the last the contract allows.
LastPage(c) == Len(PagesOf(c)) + 1 = MaxPages

\* A page arrives: the traversal goes on, is complete, or has reached its bound.
RecordPage(c, s) ==
    /\ page' = [page EXCEPT ![ObservationOf(c)][AttemptOf(c)] = Append(@, s)]
    /\ \/ Goto(c, "complete")
       \/ Goto(c, IF LastPage(c) THEN "restartable" ELSE "traversing")

\* The provider pins the snapshot of a traversal or serves its current one.
ServedSnapshots(c) == {snapshotRef} \cup {PagesOf(c)[i] : i \in 1 .. Len(PagesOf(c))}

\* The provider fails, or the page or one of its events is outside the contract.
PageFailures == {"restartable", "failed"}

\* read_page and _record_page: a page that does not qualify is not recorded.
ReadPage(c) ==
    /\ call[c].stage = "fenced"
    /\ \/ \E s \in ServedSnapshots(c) :
            IF SameSnapshot(PagesOf(c), s) THEN RecordPage(c, s)
                                           ELSE Goto(c, "restartable") /\ UNCHANGED page
       \/ \E failure \in PageFailures : Goto(c, failure) /\ UNCHANGED page
    /\ UNCHANGED <<frontier, authority, snapshotRef, observation, bound, startedAt, attempt,
                   fence, capture>>

\* _commit_success up to its first write: attempt and Observation open, no capture.
CheckAdmission(c) ==
    LET o == ObservationOf(c) IN
    /\ call[c].stage = "complete"
    /\ IF /\ attempt[o][AttemptOf(c)] = "STARTED"
          /\ observation[o] = "STARTED"
          /\ capture[o] = NoCapture
       THEN Goto(c, "admitting")
       ELSE Goto(c, "failed")
    /\ UNCHANGED <<frontier, authority, snapshotRef, store>>

\* Mutant: nothing keeps a second traversal from being admitted.
UncapturedUnchecked(o) == observation[o] # "none"

\* One capture per Observation: the unique key that admission relies on.
Uncaptured(o) == capture[o] = NoCapture

\* _commit_success from its first write: capture, evidence, result, all or nothing.  It
\* conflicts with an earlier capture, or with another interaction that has recorded the
\* same content since it was looked for.
AdmitCapture(c) ==
    LET o == ObservationOf(c)
        g == AttemptOf(c)
    IN
    /\ call[c].stage = "admitting"
    /\ \/ /\ Uncaptured(o)
          /\ \E anchor \in FreshnessAnchors(o, PagesOf(c)[1]) :
                capture' = [capture EXCEPT ![o] =
                    [generation |-> g, snapshot |-> PagesOf(c)[1], anchor |-> anchor,
                     pages |-> Len(PagesOf(c))]]
          /\ observation' = [observation EXCEPT ![o] = "SUCCEEDED"]
          /\ attempt' = [attempt EXCEPT ![o][g] = "SUCCEEDED"]
          /\ Return(c)
       \/ Goto(c, "failed") /\ UNCHANGED <<capture, observation, attempt>>
    /\ UNCHANGED <<frontier, authority, snapshotRef, bound, startedAt, page, fence>>

\* _mark_failed: the traversal ends; the Observation too unless it may be restarted.
MarkFailed(c) ==
    LET o == ObservationOf(c) IN
    /\ call[c].stage \in {"failed", "restartable"}
    /\ attempt' = [attempt EXCEPT ![o][AttemptOf(c)] = IF @ = "STARTED" THEN "FAILED" ELSE @]
    /\ observation' = [observation EXCEPT
            ![o] = IF @ = "STARTED" /\ ~LeavesOpen(c) THEN "FAILED" ELSE @]
    /\ Return(c)
    /\ UNCHANGED <<frontier, authority, snapshotRef, bound, startedAt, page, fence, capture>>

\* The process dies, or the call ends in an error outside the traversal.
Crash(c) ==
    /\ call[c].stage # "idle"
    /\ Return(c)
    /\ UNCHANGED <<frontier, authority, snapshotRef, store>>

\* Another counterpart input or presentation is appended to the Timeline.
AdvanceTimeline ==
    /\ frontier
    /\ frontier' = FALSE
    /\ UNCHANGED <<authority, snapshotRef, store, call>>

\* A grant, revocation, policy, credential or association change moves its head.
ChangeAuthority(h, permits) ==
    /\ Cardinality({t \in Authority \X (2 .. MaxChange + 1) :
                        t[2] <= authority[t[1]].revision}) < MaxChange
    /\ authority' = [authority EXCEPT
            ![h] = [revision |-> @.revision + 1, permits |-> permits]]
    /\ UNCHANGED <<frontier, snapshotRef, store, call>>

\* Someone edits the calendar at the provider.
EditCalendar ==
    /\ snapshotRef < MaxSnapshot
    /\ snapshotRef' = snapshotRef + 1
    /\ UNCHANGED <<frontier, authority, store, call>>

Next ==
    \/ \E o \in Observation :
        \/ StartObservation(o)
        \/ BindRequest(o)
        \/ PrepareObservation(o)
    \/ \E c \in Caller :
        \/ LoadContext(c)
        \/ OpenAcquisition(c)
        \/ StartAttempt(c)
        \/ AuthorizePage(c)
        \/ FencePage(c)
        \/ ReadPage(c)
        \/ CheckAdmission(c)
        \/ AdmitCapture(c)
        \/ MarkFailed(c)
        \/ Crash(c)
    \/ AdvanceTimeline
    \/ \E h \in Authority, permits \in BOOLEAN : ChangeAuthority(h, permits)
    \/ EditCalendar

Spec == Init /\ [][Next]_vars

-----------------------------------------------------------------------------
(* Properties. *)

\* Every variable stays in its set; a capture never changes shape.
TypeOK ==
    /\ frontier \in BOOLEAN
    /\ authority \in [Authority -> [revision : 1 .. MaxChange + 1, permits : BOOLEAN]]
    /\ snapshotRef \in Snapshot
    /\ observation \in [Observation -> {"none", "STARTED", "SUCCEEDED", "FAILED"}]
    /\ bound \in [Observation -> BOOLEAN]
    /\ startedAt \in [Observation -> 0 .. MaxSnapshot]
    /\ attempt \in [Observation -> [Generation -> {"none", "STARTED", "SUCCEEDED", "FAILED"}]]
    /\ page \in [Observation -> [Generation -> Seq(Snapshot)]]
    /\ \A o \in Observation, g \in Generation : Len(page[o][g]) <= MaxPages
    /\ fence \in [Observation -> 0 .. Cardinality(Generation) * MaxPages]
    /\ capture \in [Observation -> Captures \cup {NoCapture}]
    /\ call \in [Caller -> [stage : Stages, observation : 0 .. MaxObservation,
                            generation : 0 .. MaxRestarts + Cardinality(Caller),
                            ordinal : 0 .. Cardinality(Generation) * MaxPages,
                            seen : [Authority -> 0 .. MaxChange + 1]]]

\* An Observation is SUCCEEDED exactly when it has a capture, and the capture is what one
\* traversal, its only successful one, recorded: all its pages, of one provider
\* snapshot.  Two traversals of one Observation may be open at once, and each may fail
\* or be admitted between the other's checks and its commit.
OneCoherentSnapshot ==
    \A o \in Observation :
        /\ observation[o] = "SUCCEEDED" <=> capture[o] # NoCapture
        /\ capture[o] # NoCapture =>
            LET rows == page[o][capture[o].generation] IN
            /\ {g \in Generation : attempt[o][g] = "SUCCEEDED"} = {capture[o].generation}
            /\ Len(rows) = capture[o].pages
            /\ \A i \in 1 .. Len(rows) : rows[i] = capture[o].snapshot

\* What is admitted is never older than its freshness anchor says, however often the
\* traversal was restarted and whenever it was committed.
FreshnessIsConservative ==
    \A o \in Observation : capture[o] # NoCapture => capture[o].anchor <= capture[o].snapshot

\* Each recorded page spent a page fence of its own, also when two traversals of one
\* Observation computed the same transport ordinal.
EveryPageFenced ==
    \A o \in Observation :
        LET recorded == {r \in Generation \X (1 .. MaxPages) : r[2] <= Len(page[o][r[1]])}
        IN Cardinality(recorded) <= fence[o]

\* A page fence commits only while every authority head permits the read, although the
\* heads are read before the write lock is held.
FencedUnderCurrentAuthority ==
    [][fence' # fence => Permits(Authority)]_vars
=============================================================================
