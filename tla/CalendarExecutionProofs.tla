---------------------- MODULE CalendarExecutionProofs ----------------------
(***************************************************************************)
(* Theorems about CalendarExecution, for every set of callers, operations  *)
(* and authority heads and every bound.  TypeOK is inductive by itself;    *)
(* LedgerInv, Sending and Holding are inductive together (IInv).  Holding  *)
(* is preserved by the steps of OTHER callers because the durable state    *)
(* only grows (Growth), which is what makes unlocked reads harmless.       *)
(***************************************************************************)
EXTENDS CalendarExecution, TLAPS

LEMMA NoSnapshotType == NoSnapshot \in Snapshot
  BY DEF NoSnapshot, Snapshot

LEMMA AttemptNonZero == \A a \in Attempt : a # 0
  BY ConstantsAssumption DEF Attempt

-----------------------------------------------------------------------------
(* Type correctness *)

LEMMA TypeInit == Init => TypeOK
  BY NoSnapshotType
  DEF Init, TypeOK, AttemptStatus, GuardStatus, Evidence, Stage

LEMMA TypeStep == TypeOK /\ [Next]_vars => TypeOK'
<1> SUFFICES ASSUME TypeOK, [Next]_vars PROVE TypeOK'
  OBVIOUS
<1> USE DEF TypeOK, durable, provider, volatile, AttemptStatus, GuardStatus,
            Evidence, Stage
<1>1. ASSUME NEW h \in Head,
             ChangeAuthority(h)
      PROVE  TypeOK'
  BY <1>1, NoSnapshotType
  DEF ChangeAuthority
<1>2. ASSUME NEW a \in Attempt,
             PrepareExecutionAttempt(a)
      PROVE  TypeOK'
  BY <1>2, NoSnapshotType
  DEF PrepareExecutionAttempt, Advance, NextGeneration
<1>3. ASSUME NEW a \in Attempt,
             AbandonPreparedAttempt(a)
      PROVE  TypeOK'
  BY <1>3, NoSnapshotType
  DEF AbandonPreparedAttempt, Holds
<1>4. ASSUME NEW a \in Attempt,
             RecoverFencedAttempt(a)
      PROVE  TypeOK'
  BY <1>4, NoSnapshotType
  DEF RecoverFencedAttempt, Advance, Fenced
<1>5. ASSUME NEW a \in Attempt,
             AdmitConfirmedEffect(a)
      PROVE  TypeOK'
  BY <1>5, NoSnapshotType
  DEF AdmitConfirmedEffect, Advance, Admissible, Holds
<1>6. ASSUME NEW a \in Attempt,
             ProviderApply(a)
      PROVE  TypeOK'
  BY <1>6, NoSnapshotType
  DEF ProviderApply
<1>7. ASSUME NEW a \in Attempt,
             ProviderDrop(a)
      PROVE  TypeOK'
  BY <1>7, NoSnapshotType
  DEF ProviderDrop
<1>8. ASSUME NEW w \in Worker, NEW p \in Attempt, NEW a \in Attempt,
             PrepareRetryAttempt(w, p, a)
      PROVE  TypeOK'
  BY <1>8, NoSnapshotType
  DEF PrepareRetryAttempt, Advance, NextGeneration, RetryEligible, Holds
<1>9. ASSUME NEW w \in Worker, NEW a \in Attempt, NEW o \in Operation,
             BeginDispatch(w, a, o)
      PROVE  TypeOK'
  BY <1>9, NoSnapshotType
  DEF BeginDispatch, Go
<1>10. ASSUME NEW w \in Worker, NEW a \in Attempt,
             StartPositiveProbe(w, a)
      PROVE  TypeOK'
  BY <1>10, NoSnapshotType
  DEF StartPositiveProbe, StartProbe, Holds, Fenced, Go
<1>11. ASSUME NEW w \in Worker, NEW a \in Attempt,
             StartNegativeProbe(w, a)
      PROVE  TypeOK'
  BY <1>11, NoSnapshotType
  DEF StartNegativeProbe, StartProbe, NegativePreflight, Holds, Fenced, Go
<1>12. ASSUME NEW w \in Worker,
             ReplayFence(w)
      PROVE  TypeOK'
  BY <1>12, NoSnapshotType
  DEF ReplayFence, Go
<1>13. ASSUME NEW w \in Worker,
             ReadFence(w)
      PROVE  TypeOK'
  BY <1>13, NoSnapshotType
  DEF ReadFence, Go, Holds, Snapshot, ExecutionAuthority, Head
<1>14. ASSUME NEW w \in Worker,
             CommitFence(w)
      PROVE  TypeOK'
  BY <1>14, NoSnapshotType
  DEF CommitFence, Go, Advance, AuthorityUnchanged, OwnershipUnchanged,
      OperationUnused, Fenced
<1>15. ASSUME NEW w \in Worker,
             ReadClaim(w)
      PROVE  TypeOK'
  BY <1>15, NoSnapshotType
  DEF ReadClaim, Go, Finish, Advance, Holds, TransitionUnknown, SaveReceipt,
      NoReceipt, Fenced, Claimable
<1>16. ASSUME NEW w \in Worker,
             CommitClaim(w)
      PROVE  TypeOK'
  BY <1>16, NoSnapshotType
  DEF CommitClaim, Go, InsertDispatch
<1>17. ASSUME NEW w \in Worker,
             CallProvider(w)
      PROVE  TypeOK'
  BY <1>17, NoSnapshotType
  DEF CallProvider, Go
<1>18. ASSUME NEW w \in Worker,
             ReceiveAnswer(w)
      PROVE  TypeOK'
  BY <1>18, NoSnapshotType
  DEF ReceiveAnswer, Go, CreationReported
<1>19. ASSUME NEW w \in Worker,
             RecordUnknown(w)
      PROVE  TypeOK'
  BY <1>19, NoSnapshotType
  DEF RecordUnknown, Finish, Advance, Holds, TransitionUnknown, SaveReceipt,
      NoReceipt
<1>20. ASSUME NEW w \in Worker,
             CommitEvidence(w)
      PROVE  TypeOK'
  BY <1>20, NoSnapshotType
  DEF CommitEvidence, Finish, Advance, Holds, TransitionUnknown, SaveReceipt,
      NoReceipt
<1>21. ASSUME NEW w \in Worker,
             LookupCreateEffect(w)
      PROVE  TypeOK'
  BY <1>21, NoSnapshotType
  DEF LookupCreateEffect, Go, Finish
<1>22. ASSUME NEW w \in Worker,
             ReadProbeCommit(w)
      PROVE  TypeOK'
  BY <1>22, NoSnapshotType
  DEF ReadProbeCommit, Go, StillUnresolved, Holds
<1>23. ASSUME NEW w \in Worker,
             CommitProbe(w)
      PROVE  TypeOK'
  BY <1>23, NoSnapshotType
  DEF CommitProbe, Finish, Comparison
<1>24. ASSUME NEW w \in Worker,
             LookupTerminalNoEffect(w)
      PROVE  TypeOK'
  BY <1>24, NoSnapshotType
  DEF LookupTerminalNoEffect, Go, Finish, TerminalNegative
<1>25. ASSUME NEW w \in Worker,
             CommitConfirmedNoEffect(w)
      PROVE  TypeOK'
  BY <1>25, NoSnapshotType
  DEF CommitConfirmedNoEffect, Finish, Advance, StillUnresolved, Holds
<1>26. ASSUME NEW w \in Worker,
             Crash(w)
      PROVE  TypeOK'
  BY <1>26, NoSnapshotType
  DEF Crash, Finish
<1>27. CASE UNCHANGED vars
  BY <1>27 DEF vars
<1>28. QED
  BY <1>1, <1>2, <1>3, <1>4, <1>5, <1>6, <1>7, <1>8, <1>9, <1>10, <1>11, <1>12,
     <1>13, <1>14, <1>15, <1>16, <1>17, <1>18, <1>19, <1>20, <1>21, <1>22,
     <1>23, <1>24, <1>25, <1>26, <1>27 DEF Next

\* Whatever the callers, the constants and the interleaving, every variable keeps its
\* type and a busy caller works on an existing attempt.
THEOREM TypeCorrectness == Spec => []TypeOK
  BY TypeInit, TypeStep, PTL DEF Spec

-----------------------------------------------------------------------------
(* The ledger: guard, attempts, fences, claims, events *)

LEMMA InvInit == Init => LedgerInv /\ CallerInv
<1> SUFFICES ASSUME Init PROVE LedgerInv /\ CallerInv
  OBVIOUS
<1>1. LedgerInv
  BY DEF Init, LedgerInv, GuardCoherence, Fenced
<1>2. CallerInv
  BY DEF Init, CallerInv, Holding, Sending
<1>3. QED
  BY <1>1, <1>2

\* Only the guard's own attempt can have an event, and it can have only one.
LEMMA EventsOfOwner ==
  ASSUME IInv
  PROVE  \A a \in Attempt : created[a] > 0 => guard.owner = a /\ guard.status = status[a]
  BY DEF IInv, TypeOK, LedgerInv, GuardCoherence, Fenced, AttemptStatus

LEMMA LedgerStep == IInv /\ [Next]_vars => LedgerInv'
<1> SUFFICES ASSUME TypeOK, LedgerInv, CallerInv, [Next]_vars
             PROVE  LedgerInv'
  BY DEF IInv
<1> USE DEF TypeOK, LedgerInv, GuardCoherence, durable, provider, volatile, Fenced
<1>1. ASSUME NEW h \in Head,
             ChangeAuthority(h)
      PROVE  LedgerInv'
  BY <1>1
  DEF ChangeAuthority
<1>2. ASSUME NEW a \in Attempt,
             PrepareExecutionAttempt(a)
      PROVE  LedgerInv'
  BY <1>2, AttemptNonZero
  DEF PrepareExecutionAttempt, Advance, NextGeneration
<1>3. ASSUME NEW a \in Attempt,
             AbandonPreparedAttempt(a)
      PROVE  LedgerInv'
  BY <1>3
  DEF AbandonPreparedAttempt, Holds
<1>4. ASSUME NEW a \in Attempt,
             RecoverFencedAttempt(a)
      PROVE  LedgerInv'
  BY <1>4
  DEF RecoverFencedAttempt, Advance
<1>5. ASSUME NEW a \in Attempt,
             AdmitConfirmedEffect(a)
      PROVE  LedgerInv'
  BY <1>5
  DEF AdmitConfirmedEffect, Advance, Admissible, Holds
<1>6. ASSUME NEW a \in Attempt,
             ProviderApply(a)
      PROVE  LedgerInv'
  BY <1>6
  DEF ProviderApply
<1>7. ASSUME NEW a \in Attempt,
             ProviderDrop(a)
      PROVE  LedgerInv'
  BY <1>7
  DEF ProviderDrop
<1>8. ASSUME NEW w \in Worker, NEW p \in Attempt, NEW a \in Attempt,
             PrepareRetryAttempt(w, p, a)
      PROVE  LedgerInv'
  BY <1>8, AttemptNonZero
  DEF PrepareRetryAttempt, Advance, NextGeneration, RetryEligible, Holds
<1>9. ASSUME NEW w \in Worker, NEW a \in Attempt, NEW o \in Operation,
             BeginDispatch(w, a, o)
      PROVE  LedgerInv'
  BY <1>9
  DEF BeginDispatch, Go
<1>10. ASSUME NEW w \in Worker, NEW a \in Attempt,
             StartPositiveProbe(w, a)
      PROVE  LedgerInv'
  BY <1>10
  DEF StartPositiveProbe, StartProbe, Holds, Go
<1>11. ASSUME NEW w \in Worker, NEW a \in Attempt,
             StartNegativeProbe(w, a)
      PROVE  LedgerInv'
  BY <1>11
  DEF StartNegativeProbe, StartProbe, NegativePreflight, Holds, Go
<1>12. ASSUME NEW w \in Worker,
             ReplayFence(w)
      PROVE  LedgerInv'
  BY <1>12
  DEF ReplayFence, Go
<1>13. ASSUME NEW w \in Worker,
             ReadFence(w)
      PROVE  LedgerInv'
  BY <1>13
  DEF ReadFence, Go, Holds, Snapshot, ExecutionAuthority
<1>14. ASSUME NEW w \in Worker,
             CommitFence(w)
      PROVE  LedgerInv'
  BY <1>14
  DEF CommitFence, Go, Advance, AuthorityUnchanged, OwnershipUnchanged,
      OperationUnused, CallerInv, Holding, Sending
<1>15. ASSUME NEW w \in Worker,
             ReadClaim(w)
      PROVE  LedgerInv'
  BY <1>15, SMTT(60)
  DEF ReadClaim, Go, Finish, Advance, Holds, TransitionUnknown, SaveReceipt,
      NoReceipt, Claimable
<1>16. ASSUME NEW w \in Worker,
             CommitClaim(w)
      PROVE  LedgerInv'
  BY <1>16
  DEF CommitClaim, Go, InsertDispatch, CallerInv, Holding, Sending
<1>17. ASSUME NEW w \in Worker,
             CallProvider(w)
      PROVE  LedgerInv'
  BY <1>17
  DEF CallProvider, Go, CallerInv, Holding, Sending
<1>18. ASSUME NEW w \in Worker,
             ReceiveAnswer(w)
      PROVE  LedgerInv'
  BY <1>18
  DEF ReceiveAnswer, Go, CreationReported, CallerInv, Holding, Sending
<1>19. ASSUME NEW w \in Worker,
             RecordUnknown(w)
      PROVE  LedgerInv'
  <2>1. CASE UNCHANGED <<status, attRev, guard>>
    BY <1>19, <2>1 DEF RecordUnknown, Finish
  <2>2. CASE Holds(job[w], "DISPATCH_FENCED") /\ Advance(job[w],
     "UNKNOWN_EFFECT")
    <3>1. job[w] \in Attempt /\ job[w] # 0
      BY <1>19, AttemptNonZero DEF RecordUnknown
    <3>2. UNCHANGED <<fencedBy, claimed, evidence, pending, created, terminal>>
      BY <1>19 DEF RecordUnknown
    <3>3. QED
      BY <2>2, <3>1, <3>2 DEF Advance, Holds
  <2>3. QED
    BY <1>19, <2>1, <2>2 DEF RecordUnknown, TransitionUnknown
<1>20. ASSUME NEW w \in Worker,
             CommitEvidence(w)
      PROVE  LedgerInv'
  BY <1>20
  DEF CommitEvidence, Finish, Advance, Holds, TransitionUnknown, SaveReceipt,
      NoReceipt, CallerInv, Holding, Sending
<1>21. ASSUME NEW w \in Worker,
             LookupCreateEffect(w)
      PROVE  LedgerInv'
  BY <1>21
  DEF LookupCreateEffect, Go, Finish
<1>22. ASSUME NEW w \in Worker,
             ReadProbeCommit(w)
      PROVE  LedgerInv'
  BY <1>22
  DEF ReadProbeCommit, Go, StillUnresolved, Holds
<1>23. ASSUME NEW w \in Worker,
             CommitProbe(w)
      PROVE  LedgerInv'
  BY <1>23
  DEF CommitProbe, Finish, Comparison, CallerInv, Holding, Sending
<1>24. ASSUME NEW w \in Worker,
             LookupTerminalNoEffect(w)
      PROVE  LedgerInv'
  BY <1>24
  DEF LookupTerminalNoEffect, Go, Finish, TerminalNegative, CallerInv, Holding,
      Sending
<1>25. ASSUME NEW w \in Worker,
             CommitConfirmedNoEffect(w)
      PROVE  LedgerInv'
  BY <1>25
  DEF CommitConfirmedNoEffect, Finish, Advance, StillUnresolved, Holds,
      CallerInv, Holding, Sending
<1>26. ASSUME NEW w \in Worker,
             Crash(w)
      PROVE  LedgerInv'
  BY <1>26
  DEF Crash, Finish
<1>27. CASE UNCHANGED vars
  BY <1>27 DEF vars
<1>28. QED
  BY <1>1, <1>2, <1>3, <1>4, <1>5, <1>6, <1>7, <1>8, <1>9, <1>10, <1>11, <1>12,
     <1>13, <1>14, <1>15, <1>16, <1>17, <1>18, <1>19, <1>20, <1>21, <1>22,
     <1>23, <1>24, <1>25, <1>26, <1>27 DEF Next

-----------------------------------------------------------------------------
(* The callers: what they hold in memory *)

\* What no step takes back: revisions, fences, claims, events, terminal answers and
\* the unresolved-or-resolved side of an attempt's life.
Growth ==
    /\ \A h \in Head : rev'[h] >= rev[h] /\ (rev'[h] = rev[h] => active'[h] = active[h])
    /\ \A a \in Attempt :
          /\ attRev'[a] >= attRev[a]
          /\ attRev'[a] = attRev[a] => status'[a] = status[a]
          /\ Fenced(a) => Fenced(a)'
          /\ created'[a] >= created[a]
          /\ status[a] \in {"UNKNOWN_EFFECT", "CONFIRMED_EFFECT", "CONFIRMED_NO_EFFECT"}
             => status'[a] \in {"UNKNOWN_EFFECT", "CONFIRMED_EFFECT", "CONFIRMED_NO_EFFECT"}
          /\ status[a] \in {"ABANDONED", "CONFIRMED_EFFECT", "CONFIRMED_NO_EFFECT"} =>
                status'[a] = status[a]
    /\ claimed \subseteq claimed'
    /\ terminal \subseteq terminal'

LEMMA GrowthStep == IInv /\ [Next]_vars => Growth
<1> SUFFICES ASSUME TypeOK, LedgerInv, CallerInv, [Next]_vars
             PROVE  Growth
  BY DEF IInv
<1> USE DEF TypeOK, LedgerInv, GuardCoherence, durable, provider, volatile, Fenced,
            Growth
<1>1. ASSUME NEW h \in Head,
             ChangeAuthority(h)
      PROVE  Growth
  BY <1>1
  DEF ChangeAuthority
<1>2. ASSUME NEW a \in Attempt,
             PrepareExecutionAttempt(a)
      PROVE  Growth
  BY <1>2
  DEF PrepareExecutionAttempt, Advance, NextGeneration
<1>3. ASSUME NEW a \in Attempt,
             AbandonPreparedAttempt(a)
      PROVE  Growth
  BY <1>3
  DEF AbandonPreparedAttempt, Holds
<1>4. ASSUME NEW a \in Attempt,
             RecoverFencedAttempt(a)
      PROVE  Growth
  BY <1>4
  DEF RecoverFencedAttempt, Advance
<1>5. ASSUME NEW a \in Attempt,
             AdmitConfirmedEffect(a)
      PROVE  Growth
  <2>1. status[a] \in {"DISPATCH_FENCED", "UNKNOWN_EFFECT"}
    BY <1>5 DEF AdmitConfirmedEffect, Admissible, Holds
  <2>2. /\ status' = [status EXCEPT ![a] = "CONFIRMED_EFFECT"]
        /\ attRev' = [attRev EXCEPT ![a] = @ + 1]
    BY <1>5 DEF AdmitConfirmedEffect, Advance
  <2>3. UNCHANGED <<rev, active, fencedBy, claimed, created, terminal>>
    BY <1>5 DEF AdmitConfirmedEffect
  <2>4. attRev'[a] > attRev[a] /\ status'[a] = "CONFIRMED_EFFECT"
    BY <2>2
  <2>5. \A b \in Attempt : b # a => attRev'[b] = attRev[b] /\ status'[b] = status[b]
    BY <2>2
  <2>6. attRev[a] \in Nat
    OBVIOUS
  <2>7. ASSUME NEW b \in Attempt
        PROVE  /\ attRev'[b] >= attRev[b]
               /\ attRev'[b] = attRev[b] => status'[b] = status[b]
    <3>1. CASE b = a
      BY <2>2, <3>1
    <3>2. CASE b # a
      BY <2>5, <3>2
    <3>3. QED
      BY <3>1, <3>2
  <2>8. ASSUME NEW b \in Attempt
        PROVE  /\ status[b] \in {"UNKNOWN_EFFECT", "CONFIRMED_EFFECT",
                                 "CONFIRMED_NO_EFFECT"}
                  => status'[b] \in {"UNKNOWN_EFFECT", "CONFIRMED_EFFECT",
                                     "CONFIRMED_NO_EFFECT"}
               /\ status[b] \in {"ABANDONED", "CONFIRMED_EFFECT",
                                 "CONFIRMED_NO_EFFECT"}
                  => status'[b] = status[b]
    BY <2>1, <2>4, <2>5
  <2>9. QED
    BY <2>3, <2>7, <2>8
<1>6. ASSUME NEW a \in Attempt,
             ProviderApply(a)
      PROVE  Growth
  BY <1>6
  DEF ProviderApply
<1>7. ASSUME NEW a \in Attempt,
             ProviderDrop(a)
      PROVE  Growth
  BY <1>7
  DEF ProviderDrop
<1>8. ASSUME NEW w \in Worker, NEW p \in Attempt, NEW a \in Attempt,
             PrepareRetryAttempt(w, p, a)
      PROVE  Growth
  BY <1>8
  DEF PrepareRetryAttempt, Advance, NextGeneration, RetryEligible, Holds
<1>9. ASSUME NEW w \in Worker, NEW a \in Attempt, NEW o \in Operation,
             BeginDispatch(w, a, o)
      PROVE  Growth
  BY <1>9
  DEF BeginDispatch, Go
<1>10. ASSUME NEW w \in Worker, NEW a \in Attempt,
             StartPositiveProbe(w, a)
      PROVE  Growth
  BY <1>10
  DEF StartPositiveProbe, StartProbe, Holds, Go
<1>11. ASSUME NEW w \in Worker, NEW a \in Attempt,
             StartNegativeProbe(w, a)
      PROVE  Growth
  BY <1>11
  DEF StartNegativeProbe, StartProbe, NegativePreflight, Holds, Go
<1>12. ASSUME NEW w \in Worker,
             ReplayFence(w)
      PROVE  Growth
  BY <1>12
  DEF ReplayFence, Go
<1>13. ASSUME NEW w \in Worker,
             ReadFence(w)
      PROVE  Growth
  BY <1>13
  DEF ReadFence, Go, Holds, Snapshot, ExecutionAuthority
<1>14. ASSUME NEW w \in Worker,
             CommitFence(w)
      PROVE  Growth
  BY <1>14
  DEF CommitFence, Go, Advance, AuthorityUnchanged, OwnershipUnchanged,
      OperationUnused, CallerInv, Holding
<1>15. ASSUME NEW w \in Worker,
             ReadClaim(w)
      PROVE  Growth
  BY <1>15
  DEF ReadClaim, Go, Finish, Advance, Holds, TransitionUnknown, SaveReceipt,
      NoReceipt, Claimable
<1>16. ASSUME NEW w \in Worker,
             CommitClaim(w)
      PROVE  Growth
  BY <1>16
  DEF CommitClaim, Go, InsertDispatch
<1>17. ASSUME NEW w \in Worker,
             CallProvider(w)
      PROVE  Growth
  BY <1>17
  DEF CallProvider, Go
<1>18. ASSUME NEW w \in Worker,
             ReceiveAnswer(w)
      PROVE  Growth
  BY <1>18
  DEF ReceiveAnswer, Go, CreationReported
<1>19. ASSUME NEW w \in Worker,
             RecordUnknown(w)
      PROVE  Growth
  BY <1>19
  DEF RecordUnknown, Finish, Advance, Holds, TransitionUnknown, SaveReceipt,
      NoReceipt
<1>20. ASSUME NEW w \in Worker,
             CommitEvidence(w)
      PROVE  Growth
  BY <1>20
  DEF CommitEvidence, Finish, Advance, Holds, TransitionUnknown, SaveReceipt,
      NoReceipt
<1>21. ASSUME NEW w \in Worker,
             LookupCreateEffect(w)
      PROVE  Growth
  BY <1>21
  DEF LookupCreateEffect, Go, Finish
<1>22. ASSUME NEW w \in Worker,
             ReadProbeCommit(w)
      PROVE  Growth
  BY <1>22
  DEF ReadProbeCommit, Go, StillUnresolved, Holds
<1>23. ASSUME NEW w \in Worker,
             CommitProbe(w)
      PROVE  Growth
  BY <1>23
  DEF CommitProbe, Finish, Comparison
<1>24. ASSUME NEW w \in Worker,
             LookupTerminalNoEffect(w)
      PROVE  Growth
  BY <1>24
  DEF LookupTerminalNoEffect, Go, Finish, TerminalNegative
<1>25. ASSUME NEW w \in Worker,
             CommitConfirmedNoEffect(w)
      PROVE  Growth
  BY <1>25
  DEF CommitConfirmedNoEffect, Finish, Advance, StillUnresolved, Holds
<1>26. ASSUME NEW w \in Worker,
             Crash(w)
      PROVE  Growth
  BY <1>26
  DEF Crash, Finish
<1>27. CASE UNCHANGED vars
  BY <1>27 DEF vars
<1>28. QED
  BY <1>1, <1>2, <1>3, <1>4, <1>5, <1>6, <1>7, <1>8, <1>9, <1>10, <1>11, <1>12,
     <1>13, <1>14, <1>15, <1>16, <1>17, <1>18, <1>19, <1>20, <1>21, <1>22,
     <1>23, <1>24, <1>25, <1>26, <1>27 DEF Next

LEMMA SendingStep == IInv /\ [Next]_vars => \A v \in Worker : Sending(v)'
<1> SUFFICES ASSUME TypeOK, LedgerInv, CallerInv, [Next]_vars, NEW v \in Worker
             PROVE  Sending(v)'
  BY DEF IInv
<1> USE DEF TypeOK, CallerInv, Holding, Sending, durable, provider, volatile
<1>1. ASSUME NEW h \in Head,
             ChangeAuthority(h)
      PROVE  Sending(v)'
  BY <1>1
  DEF ChangeAuthority
<1>2. ASSUME NEW a \in Attempt,
             PrepareExecutionAttempt(a)
      PROVE  Sending(v)'
  BY <1>2
  DEF PrepareExecutionAttempt, Advance, NextGeneration
<1>3. ASSUME NEW a \in Attempt,
             AbandonPreparedAttempt(a)
      PROVE  Sending(v)'
  BY <1>3
  DEF AbandonPreparedAttempt, Holds
<1>4. ASSUME NEW a \in Attempt,
             RecoverFencedAttempt(a)
      PROVE  Sending(v)'
  BY <1>4
  DEF RecoverFencedAttempt, Advance, Fenced
<1>5. ASSUME NEW a \in Attempt,
             AdmitConfirmedEffect(a)
      PROVE  Sending(v)'
  BY <1>5
  DEF AdmitConfirmedEffect, Advance, Admissible, Holds
<1>6. ASSUME NEW a \in Attempt,
             ProviderApply(a)
      PROVE  Sending(v)'
  BY <1>6
  DEF ProviderApply
<1>7. ASSUME NEW a \in Attempt,
             ProviderDrop(a)
      PROVE  Sending(v)'
  BY <1>7
  DEF ProviderDrop
<1>8. ASSUME NEW w \in Worker, NEW p \in Attempt, NEW a \in Attempt,
             PrepareRetryAttempt(w, p, a)
      PROVE  Sending(v)'
  BY <1>8
  DEF PrepareRetryAttempt, Advance, NextGeneration, RetryEligible, Holds
<1>9. ASSUME NEW w \in Worker, NEW a \in Attempt, NEW o \in Operation,
             BeginDispatch(w, a, o)
      PROVE  Sending(v)'
  BY <1>9
  DEF BeginDispatch, Go
<1>10. ASSUME NEW w \in Worker, NEW a \in Attempt,
             StartPositiveProbe(w, a)
      PROVE  Sending(v)'
  BY <1>10
  DEF StartPositiveProbe, StartProbe, Holds, Fenced, Go
<1>11. ASSUME NEW w \in Worker, NEW a \in Attempt,
             StartNegativeProbe(w, a)
      PROVE  Sending(v)'
  BY <1>11
  DEF StartNegativeProbe, StartProbe, NegativePreflight, Holds, Fenced, Go
<1>12. ASSUME NEW w \in Worker,
             ReplayFence(w)
      PROVE  Sending(v)'
  BY <1>12
  DEF ReplayFence, Go
<1>13. ASSUME NEW w \in Worker,
             ReadFence(w)
      PROVE  Sending(v)'
  BY <1>13
  DEF ReadFence, Go, Holds, Snapshot, ExecutionAuthority
<1>14. ASSUME NEW w \in Worker,
             CommitFence(w)
      PROVE  Sending(v)'
  BY <1>14
  DEF CommitFence, Go, Advance, AuthorityUnchanged, OwnershipUnchanged,
      OperationUnused, Fenced
<1>15. ASSUME NEW w \in Worker,
             ReadClaim(w)
      PROVE  Sending(v)'
  BY <1>15
  DEF ReadClaim, Go, Finish, Advance, Holds, TransitionUnknown, SaveReceipt,
      NoReceipt, Fenced, Claimable
<1>16. ASSUME NEW w \in Worker,
             CommitClaim(w)
      PROVE  Sending(v)'
  BY <1>16
  DEF CommitClaim, Go, InsertDispatch, LedgerInv
<1>17. ASSUME NEW w \in Worker,
             CallProvider(w)
      PROVE  Sending(v)'
  BY <1>17
  DEF CallProvider, Go
<1>18. ASSUME NEW w \in Worker,
             ReceiveAnswer(w)
      PROVE  Sending(v)'
  BY <1>18
  DEF ReceiveAnswer, Go, CreationReported
<1>19. ASSUME NEW w \in Worker,
             RecordUnknown(w)
      PROVE  Sending(v)'
  BY <1>19
  DEF RecordUnknown, Finish, Advance, Holds, TransitionUnknown, SaveReceipt,
      NoReceipt
<1>20. ASSUME NEW w \in Worker,
             CommitEvidence(w)
      PROVE  Sending(v)'
  BY <1>20
  DEF CommitEvidence, Finish, Advance, Holds, TransitionUnknown, SaveReceipt,
      NoReceipt
<1>21. ASSUME NEW w \in Worker,
             LookupCreateEffect(w)
      PROVE  Sending(v)'
  BY <1>21
  DEF LookupCreateEffect, Go, Finish
<1>22. ASSUME NEW w \in Worker,
             ReadProbeCommit(w)
      PROVE  Sending(v)'
  BY <1>22
  DEF ReadProbeCommit, Go, StillUnresolved, Holds
<1>23. ASSUME NEW w \in Worker,
             CommitProbe(w)
      PROVE  Sending(v)'
  BY <1>23
  DEF CommitProbe, Finish, Comparison
<1>24. ASSUME NEW w \in Worker,
             LookupTerminalNoEffect(w)
      PROVE  Sending(v)'
  BY <1>24
  DEF LookupTerminalNoEffect, Go, Finish, TerminalNegative
<1>25. ASSUME NEW w \in Worker,
             CommitConfirmedNoEffect(w)
      PROVE  Sending(v)'
  BY <1>25
  DEF CommitConfirmedNoEffect, Finish, Advance, StillUnresolved, Holds
<1>26. ASSUME NEW w \in Worker,
             Crash(w)
      PROVE  Sending(v)'
  BY <1>26
  DEF Crash, Finish
<1>27. CASE UNCHANGED vars
  BY <1>27 DEF vars
<1>28. QED
  BY <1>1, <1>2, <1>3, <1>4, <1>5, <1>6, <1>7, <1>8, <1>9, <1>10, <1>11, <1>12,
     <1>13, <1>14, <1>15, <1>16, <1>17, <1>18, <1>19, <1>20, <1>21, <1>22,
     <1>23, <1>24, <1>25, <1>26, <1>27 DEF Next

\* A caller that did not move keeps what it holds.
LEMMA HoldingKept ==
  ASSUME TypeOK, TypeOK', Growth, NEW v \in Worker, Holding(v),
         pc'[v] = pc[v], job'[v] = job[v], opid'[v] = opid[v], seen'[v] = seen[v]
  PROVE  Holding(v)'
<1>1. CASE pc[v] = "idle"
  BY <1>1 DEF Holding
<1>2. CASE pc[v] # "idle"
  <2>1. job[v] \in Attempt
    BY <1>2 DEF TypeOK
  <2>2. CASE pc[v] = "fencing"
    <3>1. /\ seen[v].att \in Nat /\ attRev[job[v]] \in Nat /\ attRev'[job[v]] \in Nat
          /\ \A h \in WriteHead :
                seen[v].heads[h] \in Nat /\ rev[h] \in Nat /\ rev'[h] \in Nat
      BY <2>1 DEF TypeOK, Snapshot, Head
    <3>2. /\ seen[v].att <= attRev'[job[v]]
          /\ seen[v].att = attRev'[job[v]] => status'[job[v]] = "PREPARED"
      BY <2>1, <2>2, <3>1 DEF Growth, Holding
    <3>3. \A h \in WriteHead :
             /\ seen[v].heads[h] <= rev'[h]
             /\ seen[v].heads[h] = rev'[h] => active'[h]
      <4>1. \A h \in WriteHead : /\ seen[v].heads[h] <= rev[h]
                                 /\ seen[v].heads[h] = rev[h] => active[h]
        BY <2>2 DEF Holding
      <4>2. \A h \in WriteHead : /\ rev'[h] >= rev[h]
                                 /\ rev'[h] = rev[h] => active'[h] = active[h]
        BY DEF Growth, Head
      <4>3. QED
        BY <3>1, <4>1, <4>2
    <3>4. QED
      BY <2>2, <3>2, <3>3 DEF Holding
  <2>3. CASE pc[v] # "fencing"
    BY <2>1, <2>3 DEF TypeOK, Growth, Holding
  <2>4. QED BY <2>2, <2>3
<1>3. QED BY <1>1, <1>2

LEMMA HoldingStep == IInv /\ [Next]_vars => \A v \in Worker : Holding(v)'
<1> SUFFICES ASSUME TypeOK, LedgerInv, CallerInv, [Next]_vars, NEW v \in Worker
             PROVE  Holding(v)'
  BY DEF IInv
<1>a. TypeOK' /\ Growth /\ Holding(v)
  BY TypeStep, GrowthStep DEF IInv, CallerInv
<1> USE DEF durable, provider, volatile
<1>1. ASSUME NEW h \in Head,
             ChangeAuthority(h)
      PROVE  Holding(v)'
  BY <1>1, <1>a, HoldingKept
  DEF ChangeAuthority
<1>2. ASSUME NEW a \in Attempt,
             PrepareExecutionAttempt(a)
      PROVE  Holding(v)'
  BY <1>2, <1>a, HoldingKept
  DEF PrepareExecutionAttempt
<1>3. ASSUME NEW a \in Attempt,
             AbandonPreparedAttempt(a)
      PROVE  Holding(v)'
  BY <1>3, <1>a, HoldingKept
  DEF AbandonPreparedAttempt
<1>4. ASSUME NEW a \in Attempt,
             RecoverFencedAttempt(a)
      PROVE  Holding(v)'
  BY <1>4, <1>a, HoldingKept
  DEF RecoverFencedAttempt
<1>5. ASSUME NEW a \in Attempt,
             AdmitConfirmedEffect(a)
      PROVE  Holding(v)'
  BY <1>5, <1>a, HoldingKept
  DEF AdmitConfirmedEffect
<1>6. ASSUME NEW a \in Attempt,
             ProviderApply(a)
      PROVE  Holding(v)'
  BY <1>6, <1>a, HoldingKept
  DEF ProviderApply
<1>7. ASSUME NEW a \in Attempt,
             ProviderDrop(a)
      PROVE  Holding(v)'
  BY <1>7, <1>a, HoldingKept
  DEF ProviderDrop
<1>8. ASSUME NEW w \in Worker, NEW p \in Attempt, NEW a \in Attempt,
             PrepareRetryAttempt(w, p, a)
      PROVE  Holding(v)'
  BY <1>8, <1>a, HoldingKept
  DEF PrepareRetryAttempt
<1>9. ASSUME NEW w \in Worker, NEW a \in Attempt, NEW o \in Operation,
             BeginDispatch(w, a, o)
      PROVE  Holding(v)'
  <2>1. CASE v # w
    BY <1>9, <2>1, <1>a, HoldingKept DEF BeginDispatch, Go, TypeOK
  <2>2. CASE v = w
    BY <1>9, <2>2, <1>a, ConstantsAssumption
    DEF BeginDispatch, Go, TypeOK, Holding, LedgerInv, GuardCoherence, Fenced
  <2>3. QED
    BY <2>1, <2>2
<1>10. ASSUME NEW w \in Worker, NEW a \in Attempt,
             StartPositiveProbe(w, a)
      PROVE  Holding(v)'
  <2>1. CASE v # w
    BY <1>10, <2>1, <1>a, HoldingKept DEF StartPositiveProbe, StartProbe, Go,
       TypeOK
  <2>2. CASE v = w
    BY <1>10, <2>2, <1>a, ConstantsAssumption
    DEF StartPositiveProbe, StartProbe, Holds, Fenced, Go, TypeOK, Holding,
        LedgerInv, GuardCoherence
  <2>3. QED
    BY <2>1, <2>2
<1>11. ASSUME NEW w \in Worker, NEW a \in Attempt,
             StartNegativeProbe(w, a)
      PROVE  Holding(v)'
  <2>1. CASE v # w
    BY <1>11, <2>1, <1>a, HoldingKept DEF StartNegativeProbe, StartProbe, Go,
       TypeOK
  <2>2. CASE v = w
    BY <1>11, <2>2, <1>a, ConstantsAssumption
    DEF StartNegativeProbe, StartProbe, NegativePreflight, Holds, Fenced, Go,
        TypeOK, Holding, LedgerInv, GuardCoherence
  <2>3. QED
    BY <2>1, <2>2
<1>12. ASSUME NEW w \in Worker,
             ReplayFence(w)
      PROVE  Holding(v)'
  <2>1. CASE v # w
    BY <1>12, <2>1, <1>a, HoldingKept DEF ReplayFence, Go, TypeOK
  <2>2. CASE v = w
    BY <1>12, <2>2, <1>a, ConstantsAssumption
    DEF ReplayFence, Go, TypeOK, Holding, LedgerInv, GuardCoherence, Fenced
  <2>3. QED
    BY <2>1, <2>2
<1>13. ASSUME NEW w \in Worker,
             ReadFence(w)
      PROVE  Holding(v)'
  <2>1. CASE v # w
    BY <1>13, <2>1, <1>a, HoldingKept DEF ReadFence, Go, TypeOK
  <2>2. CASE v = w
    <3>1. /\ pc[w] = "fence" /\ pc'[w] = "fencing"
          /\ UNCHANGED <<job, opid, status, attRev, rev, active>>
          /\ status[job[w]] = "PREPARED" /\ \A h \in WriteHead : active[h]
      BY <1>13 DEF ReadFence, Go, Holds, ExecutionAuthority, TypeOK
    <3>2. /\ seen'[w].att = attRev[job[w]]
          /\ \A h \in WriteHead : seen'[w].heads[h] = rev[h]
      BY <1>13 DEF ReadFence, TypeOK
    <3>3. attRev[job[w]] \in Nat /\ \A h \in WriteHead : rev[h] \in Nat
      BY <3>1 DEF TypeOK, Head
    <3>4. opid[w] # NoOperation
      BY <3>1 DEF CallerInv, Holding
    <3>5. QED
      BY <2>2, <3>1, <3>2, <3>3, <3>4 DEF Holding
  <2>3. QED
    BY <2>1, <2>2
<1>14. ASSUME NEW w \in Worker,
             CommitFence(w)
      PROVE  Holding(v)'
  <2>1. CASE v # w
    BY <1>14, <2>1, <1>a, HoldingKept DEF CommitFence, Go, TypeOK
  <2>2. CASE v = w
    BY <1>14, <2>2, <1>a, ConstantsAssumption
    DEF CommitFence, Go, Advance, AuthorityUnchanged, OwnershipUnchanged,
        OperationUnused, Fenced, TypeOK, Holding
  <2>3. QED
    BY <2>1, <2>2
<1>15. ASSUME NEW w \in Worker,
             ReadClaim(w)
      PROVE  Holding(v)'
  <2>1. CASE v # w
    BY <1>15, <2>1, <1>a, HoldingKept DEF ReadClaim, Go, Finish, TypeOK
  <2>2. CASE v = w
    BY <1>15, <2>2, <1>a, ConstantsAssumption
    DEF ReadClaim, Go, Finish, Advance, Holds, TransitionUnknown, SaveReceipt,
        NoReceipt, Fenced, Claimable, TypeOK, Holding, LedgerInv,
        GuardCoherence
  <2>3. QED
    BY <2>1, <2>2
<1>16. ASSUME NEW w \in Worker,
             CommitClaim(w)
      PROVE  Holding(v)'
  <2>1. CASE v # w
    BY <1>16, <2>1, <1>a, HoldingKept DEF CommitClaim, Go, TypeOK
  <2>2. CASE v = w
    BY <1>16, <2>2, <1>a, ConstantsAssumption
    DEF CommitClaim, Go, InsertDispatch, TypeOK, Holding
  <2>3. QED
    BY <2>1, <2>2
<1>17. ASSUME NEW w \in Worker,
             CallProvider(w)
      PROVE  Holding(v)'
  <2>1. CASE v # w
    BY <1>17, <2>1, <1>a, HoldingKept DEF CallProvider, Go, TypeOK
  <2>2. CASE v = w
    BY <1>17, <2>2, <1>a, ConstantsAssumption
    DEF CallProvider, Go, TypeOK, Holding
  <2>3. QED
    BY <2>1, <2>2
<1>18. ASSUME NEW w \in Worker,
             ReceiveAnswer(w)
      PROVE  Holding(v)'
  <2>1. CASE v # w
    BY <1>18, <2>1, <1>a, HoldingKept DEF ReceiveAnswer, Go, TypeOK
  <2>2. CASE v = w
    BY <1>18, <2>2, <1>a, ConstantsAssumption
    DEF ReceiveAnswer, Go, CreationReported, TypeOK, Holding
  <2>3. QED
    BY <2>1, <2>2
<1>19. ASSUME NEW w \in Worker,
             RecordUnknown(w)
      PROVE  Holding(v)'
  <2>1. CASE v # w
    BY <1>19, <2>1, <1>a, HoldingKept DEF RecordUnknown, Finish, TypeOK
  <2>2. CASE v = w
    BY <1>19, <2>2, <1>a, ConstantsAssumption
    DEF RecordUnknown, Finish, Advance, Holds, TransitionUnknown, SaveReceipt,
        NoReceipt, TypeOK, Holding
  <2>3. QED
    BY <2>1, <2>2
<1>20. ASSUME NEW w \in Worker,
             CommitEvidence(w)
      PROVE  Holding(v)'
  <2>1. CASE v # w
    BY <1>20, <2>1, <1>a, HoldingKept DEF CommitEvidence, Finish, TypeOK
  <2>2. CASE v = w
    BY <1>20, <2>2, <1>a, ConstantsAssumption
    DEF CommitEvidence, Finish, Advance, Holds, TransitionUnknown, SaveReceipt,
        NoReceipt, TypeOK, Holding
  <2>3. QED
    BY <2>1, <2>2
<1>21. ASSUME NEW w \in Worker,
             LookupCreateEffect(w)
      PROVE  Holding(v)'
  <2>1. CASE v # w
    BY <1>21, <2>1, <1>a, HoldingKept DEF LookupCreateEffect, Go, Finish, TypeOK
  <2>2. CASE v = w /\ Finish(w)
    BY <2>2 DEF Finish, Holding, TypeOK
  <2>3. CASE v = w /\ ~ Finish(w)
    <3>1. PICK b \in Attempt : created[b] > 0
      BY <1>21, <2>3 DEF LookupCreateEffect
    <3>2. /\ job[w] \in Attempt /\ job[w] \in claimed
          /\ pc'[w] \in {"found_match", "found_diverge"} /\ job' = job
          /\ UNCHANGED <<created, status, claimed>>
          /\ status[job[w]] \in {"UNKNOWN_EFFECT", "CONFIRMED_EFFECT",
                                  "CONFIRMED_NO_EFFECT"}
      BY <1>21, <2>3 DEF LookupCreateEffect, Go, TypeOK, CallerInv, Holding
    <3>3. guard.owner = b
      BY <3>1, EventsOfOwner DEF IInv, CallerInv
    <3>4. status[job[w]] # "CONFIRMED_NO_EFFECT" => b = job[w]
      BY <3>2, <3>3 DEF LedgerInv, GuardCoherence
    <3>5. created[job[w]] > 0 \/ status[job[w]] = "CONFIRMED_NO_EFFECT"
      BY <3>1, <3>4
    <3>6. QED
      BY <2>3, <3>2, <3>5 DEF Holding
  <2>4. QED
    BY <2>1, <2>2, <2>3
<1>22. ASSUME NEW w \in Worker,
             ReadProbeCommit(w)
      PROVE  Holding(v)'
  <2>1. CASE v # w
    BY <1>22, <2>1, <1>a, HoldingKept DEF ReadProbeCommit, Go, TypeOK
  <2>2. CASE v = w
    BY <1>22, <2>2, <1>a, ConstantsAssumption
    DEF ReadProbeCommit, Go, StillUnresolved, Holds, TypeOK, Holding,
        LedgerInv, GuardCoherence, Fenced
  <2>3. QED
    BY <2>1, <2>2
<1>23. ASSUME NEW w \in Worker,
             CommitProbe(w)
      PROVE  Holding(v)'
  <2>1. CASE v # w
    BY <1>23, <2>1, <1>a, HoldingKept DEF CommitProbe, Finish, TypeOK
  <2>2. CASE v = w
    BY <1>23, <2>2, <1>a, ConstantsAssumption
    DEF CommitProbe, Finish, Comparison, TypeOK, Holding, LedgerInv,
        GuardCoherence, Fenced
  <2>3. QED
    BY <2>1, <2>2
<1>24. ASSUME NEW w \in Worker,
             LookupTerminalNoEffect(w)
      PROVE  Holding(v)'
  <2>1. CASE v # w
    BY <1>24, <2>1, <1>a, HoldingKept DEF LookupTerminalNoEffect, Go, Finish,
       TypeOK
  <2>2. CASE v = w
    BY <1>24, <2>2, <1>a, ConstantsAssumption
    DEF LookupTerminalNoEffect, Go, Finish, TerminalNegative, TypeOK, Holding
  <2>3. QED
    BY <2>1, <2>2
<1>25. ASSUME NEW w \in Worker,
             CommitConfirmedNoEffect(w)
      PROVE  Holding(v)'
  <2>1. CASE v # w
    BY <1>25, <2>1, <1>a, HoldingKept DEF CommitConfirmedNoEffect, Finish,
       TypeOK
  <2>2. CASE v = w
    BY <1>25, <2>2, <1>a, ConstantsAssumption
    DEF CommitConfirmedNoEffect, Finish, Advance, StillUnresolved, Holds,
        TypeOK, Holding
  <2>3. QED
    BY <2>1, <2>2
<1>26. ASSUME NEW w \in Worker,
             Crash(w)
      PROVE  Holding(v)'
  <2>1. CASE v # w
    BY <1>26, <2>1, <1>a, HoldingKept DEF Crash, Finish, TypeOK
  <2>2. CASE v = w
    BY <1>26, <2>2, <1>a, ConstantsAssumption
    DEF Crash, Finish, TypeOK, Holding
  <2>3. QED
    BY <2>1, <2>2
<1>27. CASE UNCHANGED vars
  BY <1>27, <1>a, HoldingKept DEF vars
<1>28. QED
  BY <1>1, <1>2, <1>3, <1>4, <1>5, <1>6, <1>7, <1>8, <1>9, <1>10, <1>11, <1>12,
     <1>13, <1>14, <1>15, <1>16, <1>17, <1>18, <1>19, <1>20, <1>21, <1>22,
     <1>23, <1>24, <1>25, <1>26, <1>27 DEF Next

LEMMA InductiveStep == IInv /\ [Next]_vars => IInv'
  BY TypeStep, LedgerStep, SendingStep, HoldingStep DEF IInv, CallerInv

\* The inductive invariant holds in every reachable state.
THEOREM Inductive == Spec => []IInv
<1>1. Init => IInv
  BY TypeInit, InvInit DEF IInv
<1>2. QED
  BY <1>1, InductiveStep, PTL DEF Spec

-----------------------------------------------------------------------------
(* Safety *)

\* The services together create at most one external event for the Action, for any
\* number of callers, operations, attempts and crashes: an event needs a claim, a claim
\* a fence, and a fenced attempt that is not proven terminal owns the one guard.
THEOREM AtMostOneEventHolds == Spec => []AtMostOneEvent
<1>1. IInv => AtMostOneEvent
  <2> SUFFICES ASSUME IInv PROVE AtMostOneEvent
    OBVIOUS
  <2>1. \A a \in Attempt : created[a] <= 1
    BY DEF IInv, TypeOK, LedgerInv
  <2>2. \A a \in Attempt : created[a] > 0 => guard.owner = a
    BY EventsOfOwner
  <2>3. QED
    BY <2>1, <2>2 DEF AtMostOneEvent
<1>2. QED
  BY <1>1, Inductive, PTL

\* Evidence and a confirmed Effect always have the provider event of that attempt.
THEOREM EffectIsRealHolds == Spec => []EffectIsReal
<1>1. IInv => EffectIsReal
  BY DEF IInv, TypeOK, LedgerInv, EffectIsReal
<1>2. QED
  BY <1>1, Inductive, PTL

\* A confirmed no-effect is final: no event, no evidence, no later application.
THEOREM NoEffectIsFinalHolds == Spec => []NoEffectIsFinal
<1>1. IInv => NoEffectIsFinal
  BY DEF IInv, TypeOK, LedgerInv, NoEffectIsFinal
<1>2. QED
  BY <1>1, Inductive, PTL

\* Guard and attempts agree in every reachable state.
THEOREM GuardCoherenceHolds == Spec => []GuardCoherence
  BY Inductive, PTL DEF IInv, LedgerInv

-----------------------------------------------------------------------------
(* What a step may never do *)

LEMMA OnlyCommitFenceFences ==
  ASSUME IInv, [Next]_vars, NEW a \in Attempt, ~ Fenced(a), Fenced(a)'
  PROVE  ExecutionAuthority
<1>1. fencedBy' # fencedBy
  BY DEF Fenced
<1>2. \E w \in Worker : CommitFence(w)
  BY <1>1 DEF Next, vars, durable, provider, volatile, ChangeAuthority,
     PrepareExecutionAttempt, AbandonPreparedAttempt, RecoverFencedAttempt,
     AdmitConfirmedEffect, ProviderApply, ProviderDrop, PrepareRetryAttempt,
     BeginDispatch, StartPositiveProbe, StartNegativeProbe, ReplayFence,
     ReadFence, ReadClaim, CommitClaim, CallProvider, ReceiveAnswer,
     RecordUnknown, CommitEvidence, LookupCreateEffect, ReadProbeCommit,
     CommitProbe, LookupTerminalNoEffect, CommitConfirmedNoEffect, Crash,
     StartProbe
<1>3. PICK w \in Worker : CommitFence(w)
  BY <1>2
<1>4. /\ \A h \in WriteHead : seen[w].heads[h] = rev[h]
      /\ pc[w] = "fencing"
  BY <1>3 DEF CommitFence, AuthorityUnchanged
<1>5. QED
  BY <1>4 DEF IInv, CallerInv, Holding, ExecutionAuthority

\* A fence is committed only under authority that is current at the commit: what the
\* transaction read may be old, the compare-and-set on every head makes it current.
THEOREM FenceUnderCurrentAuthorityHolds == Spec => FenceUnderCurrentAuthority
<1>1. IInv /\ [Next]_vars =>
         [\A a \in Attempt : ~ Fenced(a) /\ Fenced(a)' => ExecutionAuthority]_vars
  BY OnlyCommitFenceFences
<1>2. QED
  BY <1>1, Inductive, PTL DEF Spec, FenceUnderCurrentAuthority

\* No step of any caller moves an attempt out of a known outcome.
THEOREM OutcomesAreFinalHolds == Spec => OutcomesAreFinal
<1>1. IInv /\ [Next]_vars =>
         [\A a \in Attempt :
             status[a] \in {"ABANDONED", "CONFIRMED_EFFECT",
                            "CONFIRMED_NO_EFFECT"}
                => status'[a] = status[a]]_vars
  BY GrowthStep DEF Growth
<1>2. QED
  BY <1>1, Inductive, PTL DEF Spec, OutcomesAreFinal

LEMMA OnlyCallProviderSends ==
  ASSUME IInv, [Next]_vars, NEW a \in Attempt, pending'[a] > pending[a]
  PROVE  a \in claimed /\ pending[a] = 0 /\ created[a] = 0
<1>1. \/ UNCHANGED pending
      \/ \E w \in Worker : CallProvider(w)
      \/ \E b \in Attempt : ProviderApply(b) \/ ProviderDrop(b)
  <2> USE DEF durable, provider
  <2>1. CASE \E b \in Attempt : \/ PrepareExecutionAttempt(b)
                                \/ AbandonPreparedAttempt(b)
                                \/ RecoverFencedAttempt(b)
                                \/ AdmitConfirmedEffect(b)
    BY <2>1 DEF PrepareExecutionAttempt, AbandonPreparedAttempt,
       RecoverFencedAttempt, AdmitConfirmedEffect
  <2>2. CASE \/ \E h \in Head : ChangeAuthority(h)
             \/ \E w \in Worker, p, b \in Attempt : PrepareRetryAttempt(w, p, b)
             \/ \E w \in Worker, b \in Attempt, o \in Operation :
                   BeginDispatch(w, b, o)
             \/ \E w \in Worker, b \in Attempt : \/ StartPositiveProbe(w, b)
                                                 \/ StartNegativeProbe(w, b)
    BY <2>2 DEF ChangeAuthority, PrepareRetryAttempt, BeginDispatch,
       StartPositiveProbe, StartNegativeProbe, StartProbe
  <2>3. CASE \E w \in Worker : \/ ReplayFence(w) \/ ReadFence(w) \/ CommitFence(w)
                               \/ ReadClaim(w) \/ CommitClaim(w)
    BY <2>3 DEF ReplayFence, ReadFence, CommitFence, ReadClaim, CommitClaim
  <2>4. CASE \E w \in Worker : \/ ReceiveAnswer(w) \/ RecordUnknown(w)
                               \/ CommitEvidence(w)
    BY <2>4 DEF ReceiveAnswer, RecordUnknown, CommitEvidence
  <2>5. CASE \E w \in Worker : \/ LookupCreateEffect(w) \/ ReadProbeCommit(w)
                               \/ CommitProbe(w) \/ LookupTerminalNoEffect(w)
                               \/ CommitConfirmedNoEffect(w) \/ Crash(w)
    BY <2>5 DEF LookupCreateEffect, ReadProbeCommit, CommitProbe,
       LookupTerminalNoEffect, CommitConfirmedNoEffect, Crash
  <2>6. CASE UNCHANGED vars
    BY <2>6 DEF vars
  <2>7. QED
    BY <2>1, <2>2, <2>3, <2>4, <2>5, <2>6 DEF Next
<1>2. CASE UNCHANGED pending
  BY <1>2 DEF IInv, TypeOK
<1>3. CASE \E w \in Worker : CallProvider(w)
  <2>1. PICK w \in Worker : CallProvider(w)
    BY <1>3
  <2>2. job[w] = a /\ pc[w] = "call"
    BY <2>1 DEF CallProvider, IInv, TypeOK
  <2>3. QED
    BY <2>2 DEF IInv, CallerInv, Holding, Sending
<1>4. CASE \E b \in Attempt : ProviderApply(b) \/ ProviderDrop(b)
  <2>1. PICK b \in Attempt :
           pending[b] > 0 /\ pending' = [pending EXCEPT ![b] = @ - 1]
    BY <1>4 DEF ProviderApply, ProviderDrop
  <2>2. pending'[a] <= pending[a] /\ pending[a] \in Nat /\ pending'[a] \in Nat
    BY <2>1, TypeStep DEF IInv, TypeOK
  <2>3. QED
    BY <2>2
<1>5. QED
  BY <1>1, <1>2, <1>3, <1>4

\* The provider is asked at most once per attempt, and only behind its durable claim:
\* the dispatch row is unique, so one caller stands before the call (Sending).
THEOREM OneRequestPerAttemptHolds == Spec => OneRequestPerAttempt
<1>1. IInv /\ [Next]_vars =>
         [\A a \in Attempt :
             pending'[a] > pending[a] =>
                 a \in claimed /\ pending[a] = 0 /\ created[a] = 0]_vars
  BY OnlyCallProviderSends
<1>2. QED
  BY <1>1, Inductive, PTL DEF Spec, OneRequestPerAttempt

-----------------------------------------------------------------------------
(* Refinement of ActionOutcome *)

LEMMA OutcomeInit == Init => Outcome!Init
  BY DEF Init, Outcome!Init, CreatedEvents, LedgerView

\* A step that leaves the created events alone and moves the ledger along its order.
LEMMA OutcomeStep == IInv /\ [Next]_vars => [Outcome!Next]_(Outcome!vars)
<1> SUFFICES ASSUME IInv, [Next]_vars PROVE [Outcome!Next]_(Outcome!vars)
  OBVIOUS
<1> USE DEF IInv, TypeOK, durable, provider, volatile, Outcome!vars
<1>1. ASSUME NEW h \in Head,
             ChangeAuthority(h)
      PROVE  [Outcome!Next]_(Outcome!vars)
  BY <1>1 DEF ChangeAuthority, CreatedEvents, LedgerView
<1>2. ASSUME NEW a \in Attempt,
             PrepareExecutionAttempt(a)
      PROVE  [Outcome!Next]_(Outcome!vars)
  BY <1>2 DEF PrepareExecutionAttempt, Advance, CreatedEvents, LedgerView
<1>3. ASSUME NEW a \in Attempt,
             AbandonPreparedAttempt(a)
      PROVE  [Outcome!Next]_(Outcome!vars)
  BY <1>3 DEF AbandonPreparedAttempt, Holds, CreatedEvents, LedgerView
<1>4. ASSUME NEW a \in Attempt,
             RecoverFencedAttempt(a)
      PROVE  [Outcome!Next]_(Outcome!vars)
  BY <1>4 DEF RecoverFencedAttempt, Advance, CreatedEvents, LedgerView
<1>5. ASSUME NEW a \in Attempt,
             AdmitConfirmedEffect(a)
      PROVE  [Outcome!Next]_(Outcome!vars)
  <2>1. created[a] > 0 /\ LedgerView = "inDoubt"
    BY <1>5 DEF AdmitConfirmedEffect, Admissible, Holds, LedgerInv, LedgerView
  <2>2. LedgerView' = "effect" /\ UNCHANGED CreatedEvents
    BY <1>5 DEF AdmitConfirmedEffect, Advance, LedgerView, CreatedEvents
  <2>3. Outcome!ConfirmEffect
    BY <2>1, <2>2 DEF Outcome!ConfirmEffect, CreatedEvents
  <2>4. QED
    BY <2>3 DEF Outcome!Next
<1>6. ASSUME NEW a \in Attempt,
             ProviderApply(a)
      PROVE  [Outcome!Next]_(Outcome!vars)
  <2>1. pending[a] > 0 /\ a \notin terminal
    BY <1>6 DEF ProviderApply
  <2>2. pending[a] \in Nat /\ created[a] \in Nat
    OBVIOUS
  <2>3. /\ a \notin claimed => pending[a] = 0
        /\ pending[a] + created[a] <= 1
    BY DEF LedgerInv
  <2>4. a \in claimed /\ created[a] = 0
    BY <2>1, <2>2, <2>3
  <2>5. status[a] \in {"DISPATCH_FENCED", "UNKNOWN_EFFECT"}
    BY <2>1, <2>4 DEF LedgerInv, AttemptStatus
  <2>6. guard.owner = a /\ guard.status = status[a]
    BY <2>5 DEF LedgerInv, GuardCoherence
  <2>7. CreatedEvents = {}
    BY <2>4, <2>6, EventsOfOwner DEF CreatedEvents
  <2>8. CreatedEvents' = {a}
    BY <1>6, <2>7 DEF ProviderApply, CreatedEvents
  <2>9. LedgerView = "inDoubt" /\ UNCHANGED LedgerView
    BY <1>6, <2>5, <2>6 DEF ProviderApply, LedgerView
  <2>10. Outcome!Happen
    BY <2>7, <2>8, <2>9 DEF Outcome!Happen
  <2>11. QED
    BY <2>10 DEF Outcome!Next
<1>7. ASSUME NEW a \in Attempt,
             ProviderDrop(a)
      PROVE  [Outcome!Next]_(Outcome!vars)
  BY <1>7 DEF ProviderDrop, CreatedEvents, LedgerView
<1>8. ASSUME NEW w \in Worker, NEW p \in Attempt, NEW a \in Attempt,
             PrepareRetryAttempt(w, p, a)
      PROVE  [Outcome!Next]_(Outcome!vars)
  <2>1. LedgerView = "noEffect"
    BY <1>8 DEF PrepareRetryAttempt, RetryEligible, Holds, LedgerView
  <2>2. LedgerView' = "open" /\ UNCHANGED CreatedEvents
    BY <1>8 DEF PrepareRetryAttempt, Advance, LedgerView, CreatedEvents
  <2>3. Outcome!Reopen
    BY <2>1, <2>2 DEF Outcome!Reopen
  <2>4. QED
    BY <2>3 DEF Outcome!Next
<1>9. ASSUME NEW w \in Worker, NEW a \in Attempt, NEW o \in Operation,
             BeginDispatch(w, a, o)
      PROVE  [Outcome!Next]_(Outcome!vars)
  BY <1>9 DEF BeginDispatch, CreatedEvents, LedgerView
<1>10. ASSUME NEW w \in Worker, NEW a \in Attempt,
             StartPositiveProbe(w, a)
      PROVE  [Outcome!Next]_(Outcome!vars)
  BY <1>10 DEF StartPositiveProbe, StartProbe, CreatedEvents, LedgerView
<1>11. ASSUME NEW w \in Worker, NEW a \in Attempt,
             StartNegativeProbe(w, a)
      PROVE  [Outcome!Next]_(Outcome!vars)
  BY <1>11 DEF StartNegativeProbe, StartProbe, CreatedEvents, LedgerView
<1>12. ASSUME NEW w \in Worker,
             ReplayFence(w)
      PROVE  [Outcome!Next]_(Outcome!vars)
  BY <1>12 DEF ReplayFence, CreatedEvents, LedgerView
<1>13. ASSUME NEW w \in Worker,
             ReadFence(w)
      PROVE  [Outcome!Next]_(Outcome!vars)
  BY <1>13 DEF ReadFence, CreatedEvents, LedgerView
<1>14. ASSUME NEW w \in Worker,
             CommitFence(w)
      PROVE  [Outcome!Next]_(Outcome!vars)
  <2>1. pc[w] = "fencing" /\ job[w] \in Attempt /\ status[job[w]] = "PREPARED"
    BY <1>14 DEF CommitFence, OwnershipUnchanged, CallerInv, Holding
  <2>2. LedgerView = "open"
    BY <2>1 DEF LedgerInv, GuardCoherence, LedgerView
  <2>3. LedgerView' = "inDoubt" /\ UNCHANGED CreatedEvents
    BY <1>14 DEF CommitFence, Advance, LedgerView, CreatedEvents
  <2>4. Outcome!Commit
    BY <2>2, <2>3 DEF Outcome!Commit
  <2>5. QED
    BY <2>4 DEF Outcome!Next
<1>15. ASSUME NEW w \in Worker,
             ReadClaim(w)
      PROVE  [Outcome!Next]_(Outcome!vars)
  <2>1. UNCHANGED created
    BY <1>15 DEF ReadClaim
  <2>2. UNCHANGED guard \/ TransitionUnknown(job[w])
    BY <1>15 DEF ReadClaim
  <2>3. QED
    BY <2>1, <2>2 DEF TransitionUnknown, Holds, Advance, CreatedEvents,
       LedgerView
<1>16. ASSUME NEW w \in Worker,
             CommitClaim(w)
      PROVE  [Outcome!Next]_(Outcome!vars)
  BY <1>16 DEF CommitClaim, CreatedEvents, LedgerView
<1>17. ASSUME NEW w \in Worker,
             CallProvider(w)
      PROVE  [Outcome!Next]_(Outcome!vars)
  BY <1>17 DEF CallProvider, CreatedEvents, LedgerView
<1>18. ASSUME NEW w \in Worker,
             ReceiveAnswer(w)
      PROVE  [Outcome!Next]_(Outcome!vars)
  BY <1>18 DEF ReceiveAnswer, CreatedEvents, LedgerView
<1>19. ASSUME NEW w \in Worker,
             RecordUnknown(w)
      PROVE  [Outcome!Next]_(Outcome!vars)
  <2>1. UNCHANGED created
    BY <1>19 DEF RecordUnknown
  <2>2. UNCHANGED guard \/ TransitionUnknown(job[w])
    BY <1>19 DEF RecordUnknown
  <2>3. QED
    BY <2>1, <2>2 DEF TransitionUnknown, Holds, Advance, CreatedEvents,
       LedgerView
<1>20. ASSUME NEW w \in Worker,
             CommitEvidence(w)
      PROVE  [Outcome!Next]_(Outcome!vars)
  <2>1. UNCHANGED created
    BY <1>20 DEF CommitEvidence
  <2>2. UNCHANGED guard \/ TransitionUnknown(job[w])
    BY <1>20 DEF CommitEvidence
  <2>3. QED
    BY <2>1, <2>2 DEF TransitionUnknown, Holds, Advance, CreatedEvents,
       LedgerView
<1>21. ASSUME NEW w \in Worker,
             LookupCreateEffect(w)
      PROVE  [Outcome!Next]_(Outcome!vars)
  BY <1>21 DEF LookupCreateEffect, CreatedEvents, LedgerView
<1>22. ASSUME NEW w \in Worker,
             ReadProbeCommit(w)
      PROVE  [Outcome!Next]_(Outcome!vars)
  BY <1>22 DEF ReadProbeCommit, CreatedEvents, LedgerView
<1>23. ASSUME NEW w \in Worker,
             CommitProbe(w)
      PROVE  [Outcome!Next]_(Outcome!vars)
  BY <1>23 DEF CommitProbe, CreatedEvents, LedgerView
<1>24. ASSUME NEW w \in Worker,
             LookupTerminalNoEffect(w)
      PROVE  [Outcome!Next]_(Outcome!vars)
  BY <1>24 DEF LookupTerminalNoEffect, CreatedEvents, LedgerView
<1>25. ASSUME NEW w \in Worker,
             CommitConfirmedNoEffect(w)
      PROVE  [Outcome!Next]_(Outcome!vars)
  <2>1. /\ job[w] \in Attempt
        /\ Holds(job[w], "UNKNOWN_EFFECT")
        /\ job[w] \in terminal
    BY <1>25 DEF CommitConfirmedNoEffect, StillUnresolved, CallerInv, Holding
  <2>2. CreatedEvents = {}
    BY <2>1, EventsOfOwner DEF Holds, LedgerInv, CreatedEvents
  <2>3. LedgerView = "inDoubt"
    BY <2>1 DEF Holds, LedgerView
  <2>4. LedgerView' = "noEffect" /\ UNCHANGED CreatedEvents
    BY <1>25 DEF CommitConfirmedNoEffect, Advance, LedgerView, CreatedEvents
  <2>5. Outcome!ConfirmNoEffect
    BY <2>2, <2>3, <2>4 DEF Outcome!ConfirmNoEffect
  <2>6. QED
    BY <2>5 DEF Outcome!Next
<1>26. ASSUME NEW w \in Worker,
             Crash(w)
      PROVE  [Outcome!Next]_(Outcome!vars)
  BY <1>26 DEF Crash, CreatedEvents, LedgerView
<1>27. CASE UNCHANGED vars
  BY <1>27 DEF vars, CreatedEvents, LedgerView
<1>28. QED
  BY <1>1, <1>2, <1>3, <1>4, <1>5, <1>6, <1>7, <1>8, <1>9, <1>10, <1>11, <1>12,
     <1>13, <1>14, <1>15, <1>16, <1>17, <1>18, <1>19, <1>20, <1>21, <1>22,
     <1>23, <1>24, <1>25, <1>26, <1>27 DEF Next

\* The services keep the abstract promise about the outside world: created events and
\* guard status follow ActionOutcome through every interleaving, crash and retry.
THEOREM ImplementsOutcomeHolds == Spec => ImplementsOutcome
<1>1. Spec => Outcome!Spec
  BY OutcomeInit, OutcomeStep, Inductive, PTL DEF Spec, Outcome!Spec
<1>2. QED
  BY <1>1 DEF ImplementsOutcome

=============================================================================
