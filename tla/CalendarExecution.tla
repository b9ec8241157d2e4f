------------------------- MODULE CalendarExecution -------------------------
(***************************************************************************)
(* Execution of ONE immutable calendar-create Action: execution attempts,  *)
(* the per-Action dispatch guard, the authority-checked dispatch fence,    *)
(* the one-shot transport claim, effect evidence, effect admission,        *)
(* reconciliation of UNKNOWN attempts, terminal no-effect confirmation and *)
(* authorised retry.  Workers are the concurrent callers (threads or       *)
(* processes) of the services that share one SQLite database.              *)
(*                                                                         *)
(* A database transaction whose reads are all validated by a head          *)
(* compare-and-set, or which takes the write lock before reading, is one   *)
(* step.  Where the code reads before it holds the write lock and does not *)
(* validate what it read, or where the validation itself is the mechanism  *)
(* under study, the reads and the commit are two steps.                    *)
(***************************************************************************)
EXTENDS Naturals

CONSTANTS
    Worker,        \* concurrent callers
    Operation,     \* caller-chosen operation ids of transport commands
    NoOperation,   \* "no operation id"
    WriteHead,     \* authority heads the execution gate depends on
    ReadHead,      \* authority heads a reconciliation read depends on
    Permanent,     \* heads whose revocation is final (permission, approval)
    NegativeWorker,\* workers whose execution binding has the terminal-negative contract
    MaxAttempt,    \* bound on attempt generations
    MaxRevision,   \* bound on authority changes per head
    MaxProbe       \* reconciliation_contract.max_probes

ASSUME ConstantsAssumption ==
    /\ MaxAttempt \in Nat \ {0}
    /\ MaxRevision \in Nat
    /\ MaxProbe \in Nat
    /\ Permanent \subseteq WriteHead \cup ReadHead
    /\ NegativeWorker \subseteq Worker
    /\ NoOperation \notin Operation

Head == WriteHead \cup ReadHead

\* Attempts are named by their generation; 0 stands for "no attempt".
Attempt == 1 .. MaxAttempt

AttemptStatus == {"NONE", "PREPARED", "ABANDONED", "DISPATCH_FENCED",
                  "UNKNOWN_EFFECT", "CONFIRMED_EFFECT", "CONFIRMED_NO_EFFECT"}

GuardStatus == (AttemptStatus \ {"NONE", "ABANDONED"}) \cup {"ABSENT", "AVAILABLE"}

VARIABLES
    rev,        \* head revision of every authority record
    active,     \* does the current revision authorise
    status,     \* current status of each attempt
    attRev,     \* head revision of each attempt
    guard,      \* the per-Action dispatch guard: revision, owner, status
    fencedBy,   \* operation whose fence advanced the attempt (fence receipt)
    negative,   \* attempts whose fence pinned the terminal-negative contract
    claimed,    \* attempts with the one-shot dispatch row
    receipt,    \* attempt of the stored transport receipt of each operation
    evidence,   \* minimised effect evidence of each attempt
    retried,    \* attempts whose no-effect retry claim was consumed
    probes      \* number of reconciliation probes started per attempt

\* The provider, which is outside src/: requests on the wire, events created,
\* attempts it has declared terminally not applied.
VARIABLES pending, created, terminal

\* The callers' volatile state, lost in a crash.
VARIABLES pc, job, opid, seen

durable == <<rev, active, status, attRev, guard, fencedBy, negative, claimed,
             receipt, evidence, retried, probes>>
provider == <<pending, created, terminal>>
volatile == <<pc, job, opid, seen>>
vars == <<durable, provider, volatile>>

Evidence == {"NONE", "SEMANTIC_MATCH", "SEMANTIC_DIVERGENCE"}

\* Where a caller stands between two of its database transactions or calls.
Stage == {"idle",
          "record",                          \* about to record UNKNOWN
          "fence", "fencing",                \* before / inside the fence transaction
          "claim", "claiming",               \* before / inside the transport claim
          "call", "await",                   \* claim durable; request sent
          "SEMANTIC_MATCH", "SEMANTIC_DIVERGENCE", \* success answer in memory
          "lookup",                          \* positive probe started
          "found_match", "found_diverge",    \* FOUND answer in memory
          "commit_match", "commit_diverge",  \* inside the probe commit
          "negative_lookup", "negative"}     \* terminal-negative probe, its answer

\* What the reads of a fence transaction captured.
Snapshot == [heads : [WriteHead -> Nat], att : Nat, guard : Nat]
NoSnapshot == [heads |-> [h \in WriteHead |-> 0], att |-> 0, guard |-> 0]

-----------------------------------------------------------------------------
Init ==
    /\ rev = [h \in Head |-> 1]
    /\ active = [h \in Head |-> TRUE]
    /\ status = [a \in Attempt |-> "NONE"]
    /\ attRev = [a \in Attempt |-> 0]
    /\ guard = [rev |-> 0, owner |-> 0, status |-> "ABSENT"]
    /\ fencedBy = [a \in Attempt |-> NoOperation]
    /\ negative = {}
    /\ claimed = {}
    /\ receipt = [o \in Operation |-> 0]
    /\ evidence = [a \in Attempt |-> "NONE"]
    /\ retried = {}
    /\ probes = [a \in Attempt |-> 0]
    /\ pending = [a \in Attempt |-> 0]
    /\ created = [a \in Attempt |-> 0]
    /\ terminal = {}
    /\ pc = [w \in Worker |-> "idle"]
    /\ job = [w \in Worker |-> 0]
    /\ opid = [w \in Worker |-> NoOperation]
    /\ seen = [w \in Worker |-> NoSnapshot]

-----------------------------------------------------------------------------
(* Helpers *)

Go(w, stage) == pc' = [pc EXCEPT ![w] = stage]

\* The call ends: its answer is returned or its DomainError raised.
Finish(w) ==
    /\ pc' = [pc EXCEPT ![w] = "idle"]
    /\ job' = [job EXCEPT ![w] = 0]
    /\ opid' = [opid EXCEPT ![w] = NoOperation]
    /\ seen' = [seen EXCEPT ![w] = NoSnapshot]

\* The attempt and the Action guard agree and the attempt owns the guard.
Holds(a, s) == status[a] = s /\ guard.owner = a /\ guard.status = s

\* One transaction appends a revision to the attempt and to the guard.
Advance(a, s) ==
    /\ status' = [status EXCEPT ![a] = s]
    /\ attRev' = [attRev EXCEPT ![a] = @ + 1]
    /\ guard' = [rev |-> guard.rev + 1, owner |-> a, status |-> s]

\* _require_execution_authority: every head the gate reads authorises now.
ExecutionAuthority == \A h \in WriteHead : active[h]

\* max(attempt_generation) + 1
NextGeneration(a) ==
    /\ status[a] = "NONE"
    /\ \A b \in Attempt : b < a => status[b] # "NONE"

Fenced(a) == fencedBy[a] # NoOperation

-----------------------------------------------------------------------------
(* Authority changes: policy, permission, approval, credential, resource   *)
(* and relationship transitions append a revision and move the head.       *)

ChangeAuthority(h) ==
    /\ rev[h] < MaxRevision
    /\ h \in Permanent => active[h]
    /\ rev' = [rev EXCEPT ![h] = @ + 1]
    /\ \E b \in BOOLEAN :
          /\ h \in Permanent => ~b
          /\ active' = [active EXCEPT ![h] = b]
    /\ UNCHANGED <<status, attRev, guard, fencedBy, negative, claimed, receipt,
                   evidence, retried, probes, provider, volatile>>

-----------------------------------------------------------------------------
(* Attempts *)

PrepareExecutionAttempt(a) ==
    /\ NextGeneration(a)
    /\ ExecutionAuthority
    /\ guard.status \in {"ABSENT", "AVAILABLE"}
    /\ Advance(a, "PREPARED")
    /\ UNCHANGED <<rev, active, fencedBy, negative, claimed, receipt, evidence,
                   retried, probes, provider, volatile>>

AbandonPreparedAttempt(a) ==
    /\ Holds(a, "PREPARED")
    /\ ~ Fenced(a)
    /\ status' = [status EXCEPT ![a] = "ABANDONED"]
    /\ attRev' = [attRev EXCEPT ![a] = @ + 1]
    /\ guard' = [rev |-> guard.rev + 1, owner |-> 0, status |-> "AVAILABLE"]
    /\ UNCHANGED <<rev, active, fencedBy, negative, claimed, receipt, evidence,
                   retried, probes, provider, volatile>>

RecoverFencedAttempt(a) ==
    /\ Fenced(a)
    /\ guard.owner = a /\ guard.status \in {"DISPATCH_FENCED", "UNKNOWN_EFFECT"}
    /\ status[a] = "DISPATCH_FENCED"
    /\ Advance(a, "UNKNOWN_EFFECT")
    /\ UNCHANGED <<rev, active, fencedBy, negative, claimed, receipt, evidence,
                   retried, probes, provider, volatile>>

\* Faulty variant: the retry checks the prior attempt only, not who owns the guard.
RetryEligibleByAttemptAlone(p) == status[p] = "CONFIRMED_NO_EFFECT"

RetryEligible(p) ==
    /\ Holds(p, "CONFIRMED_NO_EFFECT")
    /\ p \notin retried

PrepareRetryAttempt(w, p, a) ==
    /\ RetryEligible(p)
    /\ NextGeneration(a)
    /\ ExecutionAuthority
    /\ w \in NegativeWorker
    /\ retried' = retried \cup {p}
    /\ Advance(a, "PREPARED")
    /\ UNCHANGED <<rev, active, fencedBy, negative, claimed, receipt, evidence,
                   probes, provider, volatile>>

-----------------------------------------------------------------------------
(* Transport: dispatch_create_mutation *)

\* dispatch_create_mutation / _classify_transport_entry.  A stored receipt is replayed,
\* or refused when it answers another attempt: neither changes anything.
BeginDispatch(w, a, o) ==
    /\ pc[w] = "idle"
    /\ status[a] # "NONE"
    /\ receipt[o] = 0
    /\ \/ evidence[a] # "NONE" /\ Go(w, "claim")
       \/ evidence[a] = "NONE" /\ a \in claimed /\ Go(w, "claim")
       \/ /\ evidence[a] = "NONE" /\ a \notin claimed
          /\ status[a] \in {"DISPATCH_FENCED", "UNKNOWN_EFFECT"}
          /\ Go(w, "record")
       \/ /\ evidence[a] = "NONE" /\ a \notin claimed
          /\ status[a] = "PREPARED"
          /\ Go(w, "fence")
    /\ job' = [job EXCEPT ![w] = a]
    /\ opid' = [opid EXCEPT ![w] = o]
    /\ UNCHANGED <<durable, provider, seen>>

\* A fence receipt of the same operation is replayed instead of fencing again.
ReplayFence(w) ==
    /\ pc[w] = "fence"
    /\ fencedBy[job[w]] = opid[w]
    /\ Go(w, "claim")
    /\ UNCHANGED <<durable, provider, job, opid, seen>>

\* No fence receipt was stored under this operation id, for whichever attempt.
OperationUnused(w) == \A a \in Attempt : fencedBy[a] # opid[w]

\* fence_execution_attempt, reads: made before the write lock is held.
ReadFence(w) ==
    /\ pc[w] = "fence"
    /\ OperationUnused(w)
    /\ Holds(job[w], "PREPARED")
    /\ ExecutionAuthority
    /\ seen' = [seen EXCEPT ![w] = [heads |-> [h \in WriteHead |-> rev[h]],
                                    att |-> attRev[job[w]],
                                    guard |-> guard.rev]]
    /\ Go(w, "fencing")
    /\ UNCHANGED <<durable, provider, job, opid>>

\* Faulty variant: the fence trusts the authority it read and revalidates nothing.
AuthorityUnchangedUnchecked(w) == TRUE

\* _cas_head_same on the six authority heads.
AuthorityUnchanged(w) == \A h \in WriteHead : rev[h] = seen[w].heads[h]

\* Faulty variant: the new revisions are appended to whatever the heads are by now.
OwnershipUnchangedUnchecked(w) == TRUE

\* _advance_head on the attempt and on the Action guard.
OwnershipUnchanged(w) ==
    /\ attRev[job[w]] = seen[w].att
    /\ guard.rev = seen[w].guard

\* fence_execution_attempt, commit.
CommitFence(w) ==
    /\ pc[w] = "fencing"
    /\ AuthorityUnchanged(w)
    /\ OwnershipUnchanged(w)
    /\ OperationUnused(w) /\ ~ Fenced(job[w])
    /\ fencedBy' = [fencedBy EXCEPT ![job[w]] = opid[w]]
    /\ negative' = IF w \in NegativeWorker THEN negative \cup {job[w]} ELSE negative
    /\ Advance(job[w], "DISPATCH_FENCED")
    /\ Go(w, "claim")
    /\ seen' = [seen EXCEPT ![w] = NoSnapshot]
    /\ UNCHANGED <<rev, active, claimed, receipt, evidence, retried, probes,
                   provider, job, opid>>

\* _transition_unknown_locked: idempotent from UNKNOWN_EFFECT, else from the fence.
TransitionUnknown(a) ==
    \/ Holds(a, "UNKNOWN_EFFECT") /\ UNCHANGED <<status, attRev, guard>>
    \/ Holds(a, "DISPATCH_FENCED") /\ Advance(a, "UNKNOWN_EFFECT")

SaveReceipt(w) == receipt' = [receipt EXCEPT ![opid[w]] = job[w]]

NoReceipt(w) == receipt[opid[w]] = 0

\* load_operation_receipt replays the receipt of the same command only.
Replays(w) == receipt[opid[w]] = job[w]

\* Only the fenced owner with neither evidence nor a dispatch row may be claimed.
Claimable(a) ==
    /\ Holds(a, "DISPATCH_FENCED")
    /\ evidence[a] = "NONE"
    /\ a \notin claimed

\* The composition of this process still matches the contract the fence pinned.
PinsMatch(w) == (w \in NegativeWorker) <=> (job[w] \in negative)

\* _claim_transport, reads: a stored receipt or existing evidence is returned, a
\* surviving dispatch row makes the attempt UNKNOWN and is never sent again.
ReadClaim(w) ==
    LET a == job[w] IN
    /\ pc[w] = "claim"
    /\ \/ /\ Replays(w)
          /\ Finish(w)
          /\ UNCHANGED durable
       \/ /\ NoReceipt(w) /\ Fenced(a) /\ evidence[a] # "NONE"
          /\ SaveReceipt(w)
          /\ Finish(w)
          /\ UNCHANGED <<rev, active, status, attRev, guard, fencedBy, negative,
                         claimed, evidence, retried, probes>>
       \/ /\ NoReceipt(w) /\ Fenced(a) /\ evidence[a] = "NONE" /\ a \in claimed
          /\ TransitionUnknown(a)
          /\ SaveReceipt(w)
          /\ Finish(w)
          /\ UNCHANGED <<rev, active, fencedBy, negative, claimed, evidence,
                         retried, probes>>
       \/ /\ NoReceipt(w) /\ Fenced(a)
          /\ Claimable(a)
          /\ PinsMatch(w)
          /\ Go(w, "claiming")
          /\ UNCHANGED <<durable, job, opid, seen>>
    /\ UNCHANGED provider

\* Faulty variant: the dispatch row has no primary key on the attempt.
InsertDispatchNoKey(w) == claimed' = claimed \cup {job[w]}

InsertDispatch(w) ==
    /\ job[w] \notin claimed
    /\ claimed' = claimed \cup {job[w]}

\* _claim_transport, commit: the dispatch row is durable before the provider call.
\* The attempt status it was read with is not revalidated.
CommitClaim(w) ==
    /\ pc[w] = "claiming"
    /\ InsertDispatch(w)
    /\ Go(w, "call")
    /\ UNCHANGED <<rev, active, status, attRev, guard, fencedBy, negative, receipt,
                   evidence, retried, probes, provider, job, opid, seen>>

\* mutation_adapter.create_event
CallProvider(w) ==
    /\ pc[w] = "call"
    /\ pending' = [pending EXCEPT ![job[w]] = @ + 1]
    /\ Go(w, "await")
    /\ UNCHANGED <<durable, created, terminal, job, opid, seen>>

\* Faulty variant: the absence of an error is taken for a creation.
CreationReportedOptimistically(w) == TRUE

\* A normalised success answer needs a created event behind it.
CreationReported(w) == created[job[w]] > 0

\* The answer: a success whose content matches the Action or diverges from it, or
\* an adapter error, a lost answer, an invalid response.
ReceiveAnswer(w) ==
    /\ pc[w] = "await"
    /\ \/ CreationReported(w) /\ Go(w, "SEMANTIC_MATCH")
       \/ CreationReported(w) /\ Go(w, "SEMANTIC_DIVERGENCE")
       \/ Go(w, "record")
    /\ UNCHANGED <<durable, provider, job, opid, seen>>

\* _record_unknown of the transport.
RecordUnknown(w) ==
    /\ pc[w] = "record"
    /\ \/ Replays(w) /\ UNCHANGED durable
       \/ /\ NoReceipt(w)
          /\ TransitionUnknown(job[w])
          /\ SaveReceipt(w)
          /\ UNCHANGED <<rev, active, fencedBy, negative, claimed, evidence,
                         retried, probes>>
    /\ Finish(w)
    /\ UNCHANGED provider

\* _commit_effect_evidence: neither attempt status nor guard is checked for a match.
CommitEvidence(w) ==
    LET a == job[w] IN
    /\ pc[w] \in {"SEMANTIC_MATCH", "SEMANTIC_DIVERGENCE"}
    /\ \/ Replays(w) /\ UNCHANGED durable
       \/ /\ NoReceipt(w) /\ a \in claimed /\ evidence[a] # "NONE"
          /\ SaveReceipt(w)
          /\ UNCHANGED <<rev, active, status, attRev, guard, fencedBy, negative,
                         claimed, evidence, retried, probes>>
       \/ /\ NoReceipt(w) /\ a \in claimed /\ evidence[a] = "NONE"
          /\ evidence' = [evidence EXCEPT ![a] = pc[w]]
          /\ IF pc[w] = "SEMANTIC_DIVERGENCE"
             THEN TransitionUnknown(a)
             ELSE UNCHANGED <<status, attRev, guard>>
          /\ SaveReceipt(w)
          /\ UNCHANGED <<rev, active, fencedBy, negative, claimed, retried, probes>>
    /\ Finish(w)
    /\ UNCHANGED provider

-----------------------------------------------------------------------------
(* Effect admission *)

\* Faulty variant: any durable evidence admits the Effect.
AdmissibleOnAnyEvidence(a) ==
    /\ evidence[a] # "NONE"
    /\ Holds(a, "DISPATCH_FENCED") \/ Holds(a, "UNKNOWN_EFFECT")

Admissible(a) ==
    /\ evidence[a] = "SEMANTIC_MATCH"
    /\ Holds(a, "DISPATCH_FENCED") \/ Holds(a, "UNKNOWN_EFFECT")

\* admit_confirmed_effect
AdmitConfirmedEffect(a) ==
    /\ Admissible(a)
    /\ Advance(a, "CONFIRMED_EFFECT")
    /\ UNCHANGED <<rev, active, fencedBy, negative, claimed, receipt, evidence,
                   retried, probes, provider, volatile>>

-----------------------------------------------------------------------------
(* Reconciliation *)

\* _start_probe: takes the write lock first, so its checks hold at its commit.
StartProbe(w, a, stage) ==
    /\ pc[w] = "idle"
    /\ Holds(a, "UNKNOWN_EFFECT")
    /\ evidence[a] = "NONE"
    /\ Fenced(a)
    /\ \A h \in ReadHead : active[h]
    /\ probes[a] < MaxProbe
    /\ probes' = [probes EXCEPT ![a] = @ + 1]
    /\ Go(w, stage)
    /\ job' = [job EXCEPT ![w] = a]
    /\ UNCHANGED <<rev, active, status, attRev, guard, fencedBy, negative, claimed,
                   receipt, evidence, retried, provider, opid, seen>>

StartPositiveProbe(w, a) == StartProbe(w, a, "lookup")

\* Faulty variant: the negative probe asks about an attempt that was never claimed.
NegativePreflightFenceOnly(a) == a \in negative

\* _preflight_terminal_no_effect: the fence pinned the contract, a claim exists.
NegativePreflight(a) == a \in negative /\ a \in claimed

StartNegativeProbe(w, a) ==
    /\ NegativePreflight(a)
    /\ StartProbe(w, a, "negative_lookup")

\* lookup_create_effect searches by the Action's correlation key, which all attempts
\* of the Action share; FOUND needs this attempt's dispatch claim.  NOT_FOUND, an
\* adapter error and an invalid response end the probe with no other change.
LookupCreateEffect(w) ==
    /\ pc[w] = "lookup"
    /\ \/ /\ \E b \in Attempt : created[b] > 0
          /\ job[w] \in claimed
          /\ Go(w, "found_match") \/ Go(w, "found_diverge")
          /\ UNCHANGED <<job, opid, seen>>
       \/ Finish(w)
    /\ UNCHANGED <<durable, provider>>

\* Faulty variant: the state is not looked at again after the lookup.
StillUnresolvedUnchecked(a) == evidence[a] = "NONE"

StillUnresolved(a) == Holds(a, "UNKNOWN_EFFECT") /\ evidence[a] = "NONE"

\* _commit_probe, reads: made before the write lock is held.
ReadProbeCommit(w) ==
    /\ pc[w] \in {"found_match", "found_diverge"}
    /\ StillUnresolved(job[w])
    /\ Go(w, IF pc[w] = "found_match" THEN "commit_match" ELSE "commit_diverge")
    /\ UNCHANGED <<durable, provider, job, opid, seen>>

\* Faulty variant: the lookup's own classification is stored as the comparison.
ComparisonUnnormalised(w) == pc[w]

Comparison(w) ==
    IF pc[w] = "commit_match" THEN "SEMANTIC_MATCH" ELSE "SEMANTIC_DIVERGENCE"

\* _commit_probe, commit: only the evidence key is validated; the attempt stays
\* UNKNOWN_EFFECT until the evidence is admitted.
CommitProbe(w) ==
    /\ pc[w] \in {"commit_match", "commit_diverge"}
    /\ evidence[job[w]] = "NONE"
    /\ evidence' = [evidence EXCEPT ![job[w]] = Comparison(w)]
    /\ Finish(w)
    /\ UNCHANGED <<rev, active, status, attRev, guard, fencedBy, negative, claimed,
                   receipt, retried, probes, provider>>

\* Faulty variant: a request still on the wire is reported as terminally absent.
TerminalNegativeWithoutTerminality(a) ==
    /\ \A b \in Attempt : created[b] = 0
    /\ UNCHANGED terminal

\* The contract of lookup_terminal_no_effect: no event carries the correlation, and
\* this attempt's request will not be applied later.
TerminalNegative(a) ==
    /\ \A b \in Attempt : created[b] = 0
    /\ terminal' = terminal \cup {a}

\* The answer TERMINAL_NO_EFFECT, or an inconclusive or invalid one.
LookupTerminalNoEffect(w) ==
    /\ pc[w] = "negative_lookup"
    /\ \/ /\ TerminalNegative(job[w])
          /\ Go(w, "negative")
          /\ UNCHANGED <<job, opid, seen>>
       \/ Finish(w) /\ UNCHANGED terminal
    /\ UNCHANGED <<durable, pending, created>>

\* _commit_confirmed_no_effect: takes the write lock before it reads.
CommitConfirmedNoEffect(w) ==
    /\ pc[w] = "negative"
    /\ StillUnresolved(job[w])
    /\ Advance(job[w], "CONFIRMED_NO_EFFECT")
    /\ Finish(w)
    /\ UNCHANGED <<rev, active, fencedBy, negative, claimed, receipt, evidence,
                   retried, probes, provider>>

-----------------------------------------------------------------------------
(* The provider and failures *)

ProviderApply(a) ==
    /\ pending[a] > 0
    /\ a \notin terminal
    /\ pending' = [pending EXCEPT ![a] = @ - 1]
    /\ created' = [created EXCEPT ![a] = @ + 1]
    /\ UNCHANGED <<durable, terminal, volatile>>

\* The request is lost, rejected, or refused because it was declared terminal.
ProviderDrop(a) ==
    /\ pending[a] > 0
    /\ pending' = [pending EXCEPT ![a] = @ - 1]
    /\ UNCHANGED <<durable, created, terminal, volatile>>

\* A process dies, or its transaction fails and rolls back with a DomainError.
Crash(w) ==
    /\ pc[w] # "idle"
    /\ Finish(w)
    /\ UNCHANGED <<durable, provider>>

-----------------------------------------------------------------------------
Next ==
    \/ \E h \in Head : ChangeAuthority(h)
    \/ \E a \in Attempt :
          \/ PrepareExecutionAttempt(a)
          \/ AbandonPreparedAttempt(a)
          \/ RecoverFencedAttempt(a)
          \/ AdmitConfirmedEffect(a)
          \/ ProviderApply(a)
          \/ ProviderDrop(a)
    \/ \E w \in Worker, p, a \in Attempt : PrepareRetryAttempt(w, p, a)
    \/ \E w \in Worker, a \in Attempt, o \in Operation : BeginDispatch(w, a, o)
    \/ \E w \in Worker, a \in Attempt :
          \/ StartPositiveProbe(w, a)
          \/ StartNegativeProbe(w, a)
    \/ \E w \in Worker :
          \/ ReplayFence(w)
          \/ ReadFence(w)
          \/ CommitFence(w)
          \/ ReadClaim(w)
          \/ CommitClaim(w)
          \/ CallProvider(w)
          \/ ReceiveAnswer(w)
          \/ RecordUnknown(w)
          \/ CommitEvidence(w)
          \/ LookupCreateEffect(w)
          \/ ReadProbeCommit(w)
          \/ CommitProbe(w)
          \/ LookupTerminalNoEffect(w)
          \/ CommitConfirmedNoEffect(w)
          \/ Crash(w)

Spec == Init /\ [][Next]_vars

-----------------------------------------------------------------------------
(* Properties *)

\* Every variable has its type: attempts and guard carry a known status and a head
\* revision, the guard's owner is an attempt or nobody, a busy caller has an attempt.
TypeOK ==
    /\ rev \in [Head -> Nat]
    /\ active \in [Head -> BOOLEAN]
    /\ status \in [Attempt -> AttemptStatus]
    /\ attRev \in [Attempt -> Nat]
    /\ guard \in [rev : Nat, owner : Attempt \cup {0}, status : GuardStatus]
    /\ fencedBy \in [Attempt -> Operation \cup {NoOperation}]
    /\ negative \in SUBSET Attempt
    /\ claimed \in SUBSET Attempt
    /\ receipt \in [Operation -> Attempt \cup {0}]
    /\ evidence \in [Attempt -> Evidence]
    /\ retried \in SUBSET Attempt
    /\ probes \in [Attempt -> Nat]
    /\ pending \in [Attempt -> Nat]
    /\ created \in [Attempt -> Nat]
    /\ terminal \in SUBSET Attempt
    /\ pc \in [Worker -> Stage]
    /\ job \in [Worker -> Attempt \cup {0}]
    /\ opid \in [Worker -> Operation \cup {NoOperation}]
    /\ seen \in [Worker -> Snapshot]
    /\ \A w \in Worker : pc[w] # "idle" => job[w] \in Attempt

\* At most one external event is ever created for the Action, whatever callers race,
\* crash and retry: transport, reconciliation and retry services together.
AtMostOneEvent ==
    /\ \A a \in Attempt : created[a] <= 1
    /\ \A a, b \in Attempt : created[a] > 0 /\ created[b] > 0 => a = b

\* Evidence and a confirmed Effect are never claimed without the provider event of
\* that very attempt, although the lookup correlates by Action and not by attempt.
EffectIsReal ==
    \A a \in Attempt :
        /\ evidence[a] # "NONE" => created[a] > 0
        /\ status[a] = "CONFIRMED_EFFECT" =>
              created[a] > 0 /\ evidence[a] = "SEMANTIC_MATCH"

\* CONFIRMED_NO_EFFECT is said only of an attempt that was transported, created
\* nothing and can create nothing later, and never beside positive evidence.
NoEffectIsFinal ==
    \A a \in Attempt :
        status[a] = "CONFIRMED_NO_EFFECT" =>
            /\ a \in claimed
            /\ created[a] = 0 /\ a \in terminal
            /\ evidence[a] = "NONE"

\* The per-Action guard and the attempts always agree: an attempt that may still act
\* on the world owns the guard with its own status, so there is at most one of them.
GuardCoherence ==
    /\ \A a \in Attempt :
          status[a] \in {"PREPARED", "DISPATCH_FENCED", "UNKNOWN_EFFECT",
                         "CONFIRMED_EFFECT"} =>
              guard.owner = a /\ guard.status = status[a]
    /\ guard.owner # 0 => guard.status = status[guard.owner]

\* A dispatch fence is committed only while every authority head authorises, however
\* long the fence transaction stood between its reads and its write lock.
FenceUnderCurrentAuthority ==
    [][\A a \in Attempt : ~ Fenced(a) /\ Fenced(a)' => ExecutionAuthority]_vars

\* Known outcomes are final: no caller ever moves a confirmed or abandoned attempt.
OutcomesAreFinal ==
    [][\A a \in Attempt :
          status[a] \in {"ABANDONED", "CONFIRMED_EFFECT", "CONFIRMED_NO_EFFECT"} =>
              status'[a] = status[a]]_vars

\* The provider is called for an attempt at most once, and only behind its durable
\* claim: no request ever joins another request or an event of the same attempt.
OneRequestPerAttempt ==
    [][\A a \in Attempt :
          pending'[a] > pending[a] =>
              a \in claimed /\ pending[a] = 0 /\ created[a] = 0]_vars

-----------------------------------------------------------------------------
(* The inductive invariant behind the safety properties *)

\* The guard is owned exactly while an attempt has its status, and a fence, a claim,
\* a request and an event each exist only behind the step that allows them.
LedgerInv ==
    /\ GuardCoherence
    /\ guard.owner = 0 => guard.status \in {"ABSENT", "AVAILABLE"}
    /\ guard.owner # 0 => guard.status \notin {"ABSENT", "AVAILABLE"}
    /\ \A a \in Attempt :
          /\ Fenced(a) <=> status[a] \notin {"NONE", "PREPARED", "ABANDONED"}
          /\ a \in claimed => Fenced(a)
          /\ a \notin claimed => pending[a] = 0 /\ created[a] = 0
          /\ pending[a] + created[a] <= 1
          /\ a \in terminal => created[a] = 0
          /\ evidence[a] # "NONE" => created[a] > 0
          /\ status[a] = "CONFIRMED_EFFECT" => evidence[a] = "SEMANTIC_MATCH"
          /\ status[a] = "CONFIRMED_NO_EFFECT" => a \in claimed /\ a \in terminal

\* What a caller read or was told is still true, or can no longer be committed.
Holding(w) ==
    LET a == job[w] IN
    /\ pc[w] \in {"fence", "fencing"} => opid[w] # NoOperation
    /\ pc[w] = "fencing" =>
          /\ seen[w].att <= attRev[a]
          /\ seen[w].att = attRev[a] => status[a] = "PREPARED"
          /\ \A h \in WriteHead :
                /\ seen[w].heads[h] <= rev[h]
                /\ seen[w].heads[h] = rev[h] => active[h]
    /\ pc[w] = "claiming" => Fenced(a)
    /\ pc[w] \in {"call", "await", "SEMANTIC_MATCH", "SEMANTIC_DIVERGENCE",
                   "found_match", "found_diverge", "negative_lookup",
                   "negative"} => a \in claimed
    /\ pc[w] \in {"SEMANTIC_MATCH", "SEMANTIC_DIVERGENCE",
                   "commit_match", "commit_diverge"} => created[a] > 0
    /\ pc[w] = "lookup" =>
          status[a] \in {"UNKNOWN_EFFECT", "CONFIRMED_EFFECT", "CONFIRMED_NO_EFFECT"}
    /\ pc[w] \in {"found_match", "found_diverge"} =>
          created[a] > 0 \/ status[a] = "CONFIRMED_NO_EFFECT"
    /\ pc[w] = "negative" => a \in terminal

\* A caller about to send is the only one, and nothing was sent for its attempt.
Sending(w) ==
    pc[w] = "call" =>
        /\ pending[job[w]] = 0 /\ created[job[w]] = 0
        /\ \A v \in Worker : pc[v] = "call" /\ job[v] = job[w] => v = w

CallerInv == \A w \in Worker : Holding(w) /\ Sending(w)

IInv == TypeOK /\ LedgerInv /\ CallerInv

-----------------------------------------------------------------------------
(* The promise kept *)

CreatedEvents == {a \in Attempt : created[a] > 0}

LedgerView ==
    IF guard.status \in {"DISPATCH_FENCED", "UNKNOWN_EFFECT"} THEN "inDoubt"
    ELSE IF guard.status = "CONFIRMED_EFFECT" THEN "effect"
    ELSE IF guard.status = "CONFIRMED_NO_EFFECT" THEN "noEffect"
    ELSE "open"

Outcome == INSTANCE ActionOutcome WITH
    Event <- Attempt, events <- CreatedEvents, ledger <- LedgerView

\* The events of the Action, and what the guard says of it, as one promise: no event
\* appears outside a fenced dispatch, none is denied or confirmed wrongly, none twice.
ImplementsOutcome == Outcome!Spec

=============================================================================
