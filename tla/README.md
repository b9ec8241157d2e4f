# A verification of Alsoul

TLA+ models of the Alsoul services, the TLC runs that check them, and theorems about
them that TLAPS proves. Everything is translated from the Python source; paths below are
relative to the repository root.

## 1. Inventory

Alsoul keeps one relationship between a companion and a counterpart. All durable state is
in one SQLite database that the services reach through SQLAlchemy transactions; another
small database belongs to the local surface. Any number of processes and threads may run
the services at once. External calls (model, web, calendar provider, presentation sink)
are never made inside a transaction.

| Part | Source (`src/alsoul/...`) | State | Operations | What makes it correct |
|---|---|---|---|---|
| Calendar resource and relationship authority | `services/personal_calendar.py`, `_personal_calendar_base.py` | revisioned status of relationship, bindings, read policy, read Permission, credential | register, set status, set policy, grant | revocation is final; one active calendar |
| Calendar-create authority, Action | `services/personal_calendar_action*.py` | create policy, write Permission, immutable Action | set policy, grant, revoke, prepare Action | one Permission per grant event, Action only under current authority |
| Approval | `services/personal_calendar_approval*.py` | consent presentation, Approval and its state | present, admit, revoke | the Approval answers exactly this Action after its consent was shown |
| Execution | `services/personal_calendar_execution*.py` | attempts, dispatch guard per Action, fence, retry claims | prepare, fence, abandon, recover, retry | one attempt at a time may touch the world, only under current authority |
| Transport | `services/personal_calendar_transport*.py` | one-shot dispatch row, minimised evidence, receipts | dispatch | the provider is called at most once per attempt |
| Effect admission | `services/personal_calendar_effect.py` | confirmed Effect | admit | an Effect has real evidence |
| Reconciliation | `services/personal_calendar_reconciliation*.py` | probes, no-effect evidence | positive and terminal-negative probe | UNKNOWN is resolved only by what the provider says of it |
| Mutation completion, presentation, runtime | `services/personal_calendar_mutation_*.py` | projection, model invocation, output, presentation attempts | build, generate, adopt, present, recover, `approve_and_execute` | result told once and only of a confirmed Effect |
| Calendar read | `services/personal_calendar_acquisition*.py`, `*_cognition*.py`, `*_presentation*.py`, `*_runtime.py` | observation attempts, pages, projections, disclosure | acquire, project, adopt, present | answers only from a complete traversal under current authority |
| Progressive presentation | `services/progressive_presentation*.py` | sessions, attempts, frames, receipts, interruptions, history | open, dispatch, receipt, reconcile, interrupt, settle | history is the contiguous presented prefix |
| Response pipeline | `services/foundation*.py`, `runtime.py`, `recovery.py`, `provider_*.py` | Timeline, observations, projections, invocations, outputs | respond, recover | process loss never duplicates a step's result |
| Open loops, projection reuse | `services/conversation_open_loop*.py`, `projection_reuse.py`, `interaction_routing*.py` | loops, aliases, projections | open, close, label, resolve | a reused projection is not stale |
| Memory admission, ingress | `services/memory_admission.py`, `ingress.py` | claims, Timeline events | consider, admit | one admission per event |
| Local surface | `surface/*.py` | reserved inputs, accepted presentations | reserve, accept | replay is idempotent |
| Host, admin, diagnostics, adapters, storage | `host/`, `admin/`, `adapters/`, `storage/` | configuration, encoding, tables | | not modelled: plumbing |

How the parts interact: the Timeline event of a counterpart input drives a runtime; the
runtime calls the services in order; every service re-reads the durable state, checks it,
and commits; what one service leaves is the next one's input. There are no callbacks
between services. The calendar-create chain is
`register -> policy -> grant -> Action -> consent -> Approval -> attempt -> fence -> claim
-> provider -> evidence -> Effect`, with reconciliation and retry behind an uncertain
provider answer.

What is hard is the same everywhere. A transaction (`engine.begin()` on SQLite) takes no
lock until its first write, so everything it has read may be stale when it commits, unless
a compare-and-set of a head (`_cas_head_same`, `_advance_head`), a unique key, or a write
placed before the reads protects it. Processes die between transactions and around
external calls. External requests are lost or take effect late. The list of the concrete
hazards with their lines is `hazards` in `PROJECT.json`.

## 2. Modules

| Module | Models |
|---|---|
| `CalendarApproval` | from the registration of a calendar to the admitted Approval |
| `CalendarExecution` | execution, transport, effect admission and reconciliation of one Action |
| `ActionOutcome` | abstract specification: what those services promise of one Action |
| `CalendarResult` | from the confirmed Effect to the event that tells the counterpart: completion, result plan, presentation, the coordinator; execution enters by `ActionOutcome` |
| `CalendarAcquisition` | reading a calendar for one interaction: Observations, traversals, page fences, the admitted capture |
| `CalendarAnswer` | the answer to it: projection, answer plan, adoption, presentation and recovery |
| `ResponsePipeline` | one reactive response: `respond`, the recovery assessment, reconciliation after a process loss, the local surface as the sink |
| `ProgressivePresentation` | one output presented frame by frame: sessions, attempts, receipts, reconciliation, interruption, history |
| `PresentedPrefix` | abstract specification: what progressive presentation promises the counterpart |
| `CalendarApprovalProofs`, `CalendarExecutionProofs`, `CalendarResultProofs`, `CalendarAcquisitionProofs`, `CalendarAnswerProofs`, `ResponsePipelineProofs`, `ProgressivePresentationProofs` | theorems about the module each is named for, with proofs for TLAPS |
| `NumberedRows` | what the proofs share: lemmas about rows numbered from one without gaps |
| `MC...` | symmetry sets for TLC |

How they compose. The calendar-create chain is `CalendarApproval`, then
`CalendarExecution`, then `CalendarResult`: `CalendarExecution` is checked and proved to
implement `ActionOutcome`, and `CalendarResult` takes exactly the steps of `ActionOutcome`
(`Outcome == INSTANCE ActionOutcome`) for what execution does to its world and ledger, so
that what holds of the result rests on the contract and not on a second copy of the
machine. The read chain is `CalendarAcquisition`, then `CalendarAnswer`, whose `admitted`
set is what the first may have left. `ProgressivePresentation` is what a presentation
attempt becomes when the surface takes frames, and it implements `PresentedPrefix`.

### Steps

An action of the model is a database transaction, or an external call, or a part of a
transaction. A transaction is split into "reads" and "commit" wherever the code reads
before it holds the write lock and that matters: `ReadFence`/`CommitFence`,
`ReadClaim`/`CommitClaim`, `ReadProbeCommit`/`CommitProbe`, and all `Begin...`/`Commit...`
and `Read.../Commit...` pairs of `CalendarApproval`, `AuthorizePage`/`FencePage`,
`OpenAcquisition`/`StartAttempt` and `CheckAdmission`/`AdmitCapture` of
`CalendarAcquisition`, `CheckInvocation`/`OpenInvocation` and `ReadOrphan`/`MarkUnknown` of
`ResponsePipeline`. The commit keeps exactly the checks
that the code makes under the lock: the compare-and-sets and the unique keys. A
transaction is one step when every state it read is validated at commit, when it writes
first (`_start_probe`, `_commit_confirmed_no_effect`, `prepare_retry_attempt`), or when
reading earlier makes no difference: `prepare_execution_attempt` reads authority without
validating it, but a revocation between its reads and its commit leaves the same state as
one directly after the commit, because a PREPARED attempt depends on authority only
through its fence.

A service that only reads (an assessment, a selection) is one step where the rows it reads
only grow, because every state between its reads then allows the same answer.

Two approximations are made and named here. Several SELECTs before the write lock are one
read; each of them sees a committed state, and the model lets other callers change
anything between that one read and the commit. A call that ends in a `DomainError`
changes nothing durable, so it is either the absence of a step or the action `Crash`,
which also stands for the death of the process: it forgets what the caller held in memory
and keeps all tables.

### CalendarExecution

`status`/`attRev` are the current revision of each attempt, `guard` the current revision
of the dispatch guard of the Action, `fencedBy` the fence rows with the operation whose
receipt they are, `negative` the fences that pinned the terminal-negative contract,
`claimed` the dispatch rows, `receipt` the transport receipts by operation id, `evidence`
the minimised evidence, `retried` the consumed retry claims, `probes` the started
reconciliation probes. `rev`/`active` are the heads of the authorities. `pc`, `job`,
`opid`, `seen` are what a caller holds in memory.

The authorities of the gate are an abstract set of heads: each has a revision and
authorises or not; the heads in `Permanent` (Permission, Approval, relationship) never
authorise again. What a policy or a Permission says is not modelled here. The receipts of
commands other than dispatch and fence are left out: a replay of them returns a stored
answer and changes nothing.

The provider is outside the repository; what is assumed of it is what the contracts in
`src/alsoul/domain/personal_calendar_reconciliation.py` and `personal_calendar_no_effect.py`
require: a request is applied at most once per call; a positive answer is true; the answer
TERMINAL_NOT_APPLIED is true and the request will not be applied afterwards; the lookup
searches by correlation key, which all attempts of one Action share. Requests may be lost
or applied arbitrarily late; negative, erroneous or missing answers may come at any time.

`ActionOutcome` has two variables, the events in the world and what the ledger says. Its
refinement (`Outcome`, `ImplementsOutcome`) maps the events to the attempts with a created
event and the ledger to the guard: PREPARED and AVAILABLE are `open`, DISPATCH_FENCED and
UNKNOWN_EFFECT are `inDoubt`.

### CalendarApproval

A Timeline event is its `timeline_seq`; a Permission and an Action carry the number of
their source event, which the code makes unique per event. Events are grants, create
requests and approval challenges of one Action; any other event acts like one of these
that nobody admits. Statuses of relationship, binding and Permission leave ACTIVE for
ever, so comparing the revision of their head is the same as looking whether they are
still ACTIVE; the policy can return to what it was, so it keeps its revision. An empty
policy scope stands for DENY. The consent sink is outside: `ShowConsent` lets the
counterpart see the consent, with or without a trustworthy acceptance. `shownAt` and
`activatedAt` record when that and the activation really happened, for the properties.

### CalendarResult

`approve_and_execute` and the services behind it, from the ledger of one Action to the
Timeline event. `events`/`ledger` move by `ActionOutcome`. `projection`, `invocation`,
`plan`, `adopted` are the completion rows, `attempt` the presentation generations,
`recorded`/`provenance` the Timeline event and the generation bound to it. `pinned` and
`planRoute` are the credential and the model route that the request digests of the run's
stored operations bind; `credential` and `route` are what a selection finds now. A Worker
is a coordinator (`job.run`) or a caller of one service; `pc` is the next service call.
The sink is outside `src/`; its contract (`personal_calendar_mutation_presentation.py`)
is assumed: a terminal refusal means the payload will not be shown later. Operation ids of
a run are functions of the approval event, so a run that is repeated replays what is
stored: a FAILED or UNKNOWN plan operation of the run therefore blocks it for good, and so
does an UNKNOWN transport receipt even when a reconciliation later confirms the Effect.
Only a direct caller of the services gets past these.

### CalendarAcquisition

`observation`, `bound`, `startedAt`, `attempt`, `page`, `fence` and `capture` are the rows
of an interaction's Observations. A provider revision (`snapshotRef`) stands for the
content of the calendar and for the instant it had that content, so that freshness is a
comparison of revisions: `startedAt` is the revision current when the scope was prepared.
Each authority head has a revision and permits or not; `seen` is what a caller read before
its page fence takes the lock. `_start_attempt`, `fence_read_page` and `_commit_success`
read before their first write and are two steps each. Reading before the lock has
consequences that the model shows and the properties allow for: two traversals of one
Observation may be open at once, the restarts may exceed `max_restarts` by one per racing
caller (`Generation` is that bound; `docs/F5_EXECUTABLE_CHECKPOINT.md:463` asks for a
bounded count), and an Observation that one caller marked FAILED may become SUCCEEDED by
another. A commit that conflicts on a unique key, of the capture or of a content row that
another interaction has just inserted, ends the traversal for good (`AdmitCapture`'s second
disjunct). A caller that dies inside a traversal leaves it STARTED, and every later call
refuses (fail-closed by design, `docs/F5A_HOST_INTEGRATION_INCREMENT.md:11`).

### CalendarAnswer

`invocation[r][n]` is the model invocation that operation `generate:n` of result `r`
opened; the operation id names the source event and not the result, so a number that one
result used is refused for another. FAILED stands for UNKNOWN as well: neither is ever
reopened. What policies, credentials and freshness say is a verdict each step draws anew;
frontier, projection and adoption are state. `attempt`, `sink`, `recorded`, `provenance`
are as in `CalendarResult`. A plan that is not faithful to the evidence blocks the
interaction, because its dispatch has succeeded and adoption refuses it.

### ResponsePipeline

No status of a turn is stored: `Assess` derives it from the rows, as `assess_response`
does. `observation`, `result`, `projections`, `invocation`, `target`, `adopted`, `sink`
and `shown` are those rows; `call` is the stage of each running `respond` with the row it
works on. `frontier` says whether the input is still the last Timeline event, which is
what the reuse of a projection depends on: its self and relationship revisions never
change in `src/`, loops change only with Timeline events, and the blocker does not look at
memory claims. `RespondAfterLoss` is a call with `after_process_loss`, which begins with
`reconcile_response_after_process_loss`. Its contract is that the owner of every open
attempt is gone (`provider_recovery.py:16`), but the local surface passes the flag whenever
its own process has not seen the input before (`surface/application.py:129`), and the
command line whenever it is told to; nothing looks whether the owner lives. The model
therefore lets any call reconcile the attempts of living owners, and start an acquisition
beside one that is still open, so that what is checked and proved does not rest on the
contract. `fail_model_invocation` is two steps for both its callers, the reconciliation
(`ReadOrphan`, `MarkUnknown`) and the owner (`CheckFailure`, `FailInvocation`). The
conversational coordinator is the same pipeline without the world stages.

`CommitPresentation` leaves out that `present_companion_output` refuses an output with an
open progressive session: `respond` opens none, and how the two paths exclude each other is
`OneCanonicalPresentation` of `ProgressivePresentation`. `AdoptedIsShown` is thus about
outputs that no other caller presents progressively.

What the model shows beyond its properties: `start_model_invocation` looks at the attempts
of its projection before it holds the lock, and each caller may build a projection of its
own of which only the newest is assessed, so that two attempts may be open at once although
the README says `GeneratedOutput committed` must not regenerate (`README.md:368`,
`docs/F4_CONVERSATIONAL_RESPONSE.md:292`); `fail_model_invocation` updates the row
unconditionally after its read and may turn SUCCEEDED into UNKNOWN; two captures of one
Investigation are ambiguous for ever; an unfaithful generated output is refused adoption
for ever. None of this changes what is shown, which is what `OneAnswerShown` says.

### ProgressivePresentation

`timeline` holds the kinds of events of the relationship, `attempt`, `transport`,
`evidence`, `received`, `terminal` and `interruption` the rows of the one session of an
output, `told` the extent that its history event records. `sinkFrame`, `closed` and `seen`
are the first-party sink: which frame of which generation it holds, which generations it
has closed, and what the counterpart really saw. A transaction that first updates the row
it decides about is one step; a call of the sink is a step between two transactions, so a
settlement or a note of reception that a caller brings back may be late (`job`). The
generic presentation of the same output is an action as well, because each path must
exclude the other. `PresentedPrefix` has two variables, what was seen and what history
tells, with the same names: the refinement mapping is the identity on them.

## 3. Runs

`tlc -config <cfg> <module>`.

| Run | Instance | Shows |
|---|---|---|
| `execution_race` (`Execution_race.cfg`, `MCCalendarExecution`) | 2 callers, 2 dispatch commands, 2 attempts, 1 revocable write head, 1 read head, 2 probes | type invariant, at most one event, Effects are real, absences are final, guard coherence; fences only under current authority, outcomes final, one request per attempt |
| `execution_retry` (`Execution_retry.cfg`) | 2 callers, 3 commands, 3 attempts, one process without the terminal-negative contract | at most one event over three generations; `ActionOutcome` is implemented |
| `approval_consent` (`Approval_consent.cfg`, `MCCalendarApproval`) | 2 callers, 1 calendar, Timeline of 4, 2 policy revisions | informed consent, one active Permission, admission under current authority, revoked Approvals stay revoked |
| `approval_lineage` (`Approval_lineage.cfg`) | 1 caller, 2 calendars, Timeline of 3, 2 policy revisions | type invariant, the lineage of an Action is one calendar's and ordered |
| `approval_two_calendars` (`Approval_two_calendars.cfg`) | 2 callers, 3 calendars | violation of `OneActiveCalendar` |
| `approval_early_grant` (`Approval_early_grant.cfg`) | 2 callers, 2 calendars | violation of `GrantFollowsActivation` |
| `result_told` (`Result_told.cfg`, `MCCalendarResult`) | 2 workers, 1 credential, 1 route, the run's plan operation and another, 2 presentation generations, 1 change, 1 crash | a result is shown at most once and only of a real, confirmed Effect; one live plan; records agree with the sink; what was shown reaches the Timeline |
| `result_rotation` (`Result_rotation.cfg`) | 1 worker, 2 credentials, 1 generation, 1 change, 1 crash | violation of `AcceptanceIsRecorded` |
| `acquisition_race` (`Acquisition_race.cfg`, `MCCalendarAcquisition`) | 2 callers, 2 heads, 2 Observations, 1 restart, 3 traversals, 2 pages, 2 provider revisions, 1 change of authority | one coherent snapshot, conservative freshness, a fence for every page, fences only under current authority |
| `answer_race` (`Answer_race.cfg`, `MCCalendarAnswer`) | 2 callers, 2 results, 2 operations, 2 generations, 1 crash | one answer generated and adopted, shown once, recorded as it was shown and in the end |
| `response_race` (`Response_race.cfg`, `MCResponsePipeline`) | 2 callers, 2 observations, projections and invocations, 1 crash | one answer shown under one key; an adopted output is shown in the end |
| `presentation_race` (`Presentation_race.cfg`, `MCProgressivePresentation`) | 2 callers, 2 frames, 2 attempts, Timeline of 3 | records agree with the sink, one canonical presentation, interruptions lie in their window and are final; `PresentedPrefix` is implemented |

Why the bounds are enough. The races are between two parties: a fence and a revocation, two
claims, a transport and a recovery, a probe and an admission, two grants; two callers and
the environment's own steps give every pair, and the crash of a caller frees it for a third
role. Two attempts are needed for a retry; three for a retry after a retry and for an old
attempt that is looked up while two later ones exist. Two operation ids distinguish the
second call of a command from another command. Two probes let one answer arrive after
another probe has finished. A head with two revisions may be revoked once, which is all
that happens to a Permission or an Approval; the proofs cover heads that change more
often. Four Timeline events are a grant, a request and two replies, or two grants and
anything; three calendars are one that was deactivated and its two would-be replacements.
In the runs of the results: two presentation generations are a payload that may still
arrive while another is sent; two results, projections or observations are what two
callers make at once, each before it sees the other's; two plan operations are the run's
and a direct caller's. Two pages are the first, which fixes the snapshot, and one that may
differ; two provider revisions are before and after an edit; three traversals are two open
at once and a restart. Two frames are a presented one and its successor, two attempts a
lost one and its replacement, three Timeline events the source, an interruption or another
input, and the history. One crash is enough where a call may also return at any error;
`acquisition_race` bounds neither.

Callers, operations and calendars are interchangeable in the runs that declare symmetry;
`execution_retry` uses it for operations only, since its callers differ. Runs with a
liveness property use none.

Deadlock is not checked: once revisions, attempts and the Timeline are used up, the
relationship has ended, or everything is told, nothing more needs to happen.

### Fairness

`CalendarApproval`, `CalendarExecution`, `CalendarAcquisition` and
`ProgressivePresentation` assume none: every step of these is the consequence of a call of
a runtime, a person or an administrator, so nothing must eventually happen in them.
Liveness is a property of the runtimes that drive them, and each states what it needs:

* A call that was started makes its next step (`WF` of `Proceed`): the process runs, and
  its adapters return or time out. It may die (`MaxCrash` times), or come back with an error.
* The host runs `respond` or `approve_and_execute` again for an input that is not done
  (`SF` of `StartRun`, `RecoverResult`; in `ResponsePipeline` the first step of a call is part of
  `Proceed`): the services are built to be replayed, and the documentation says so.
* The sink does not withhold a terminal status from every lookup (`SF` of
  `RecoverPresentation` when it leaves `idle`, of `Recover`), or is not out of reach for
  ever (`SF` of `PresentOutput`). Without it, no client can learn anything.

`ShownIsRecorded` of `CalendarResult` is conditional on the configuration that the run's
requests pinned (`Repeatable`): that condition is what `result_rotation` shows to be
necessary. `ShownIsRecorded` of `CalendarAnswer` excepts a second admitted result, whose
generation the shared operation ids block.

### Findings

* `approval_two_calendars`. `register_calendar_resource` checks
  (`src/alsoul/services/personal_calendar.py:137`) that no calendar is active before it
  holds the write lock, and its commit validates only the uniqueness of the external
  target. The first registration of a relationship is safe, because it inserts the
  relationship head and so holds the lock before the check; later ones are not. TLC
  deactivates a calendar and lets two callers register two others. The documentation
  (`docs/F5B_CALENDAR_ACTION_AUTHORITY_INCREMENT.md:11`) permits exactly one active
  calendar. Everything downstream requires a unique active calendar and refuses until one
  is deactivated.
* `approval_early_grant`. The same transaction reads `activation_timeline_frontier` before
  it holds the write lock. A grant typed in between lies behind the recorded frontier and
  passes the check of `grant_create_permission`
  (`src/alsoul/services/personal_calendar_action.py:317`).

* `result_rotation`. The coordinator selects the credential and the model route anew on
  each run (`src/alsoul/services/personal_calendar_mutation_runtime.py:231`, `:284`), while
  the operation receipts bind a digest of the choice made first
  (`src/alsoul/services/common.py:41`). After a rotation the replay is refused and the
  recovery of an accepted presentation is never reached, although
  `docs/F5B_CALENDAR_MUTATION_RUNTIME_INCREMENT.md:56` says that process replay is
  idempotent and an accepted presentation uses the recovery path.

Two behaviours are by design and worth knowing. An attempt that was fenced but never
claimed becomes UNKNOWN in recovery and can never leave it, because the terminal-negative
preflight demands a claim. And a second call of the same dispatch command that finds the
surviving claim stores an UNKNOWN receipt under their common operation id; the first call
then returns that receipt and its success evidence is dropped, to be found again by a
reconciliation.

## 4. Proofs

`tlapm <module>.tla`, seven modules and the lemmas of `NumberedRows`. All theorems hold for
every value of the constants, from the one assumption of the module they are about (bounds
are naturals, distinguished values are where they belong, `Caller` of
`CalendarAcquisition` is finite). Every invariant, every action property and both
refinements that a passing run checks are theorems; TLC checked the inductive invariants
on the instances of the runs before they were proved.

| Module | Theorem | Statement |
|---|---|---|
| `CalendarExecutionProofs` | `TypeCorrectness`, `Inductive` | `Spec => []TypeOK`, `Spec => []IInv` |
| | `AtMostOneEventHolds`, `EffectIsRealHolds`, `NoEffectIsFinalHolds`, `GuardCoherenceHolds` | the invariants of the runs |
| | `FenceUnderCurrentAuthorityHolds`, `OutcomesAreFinalHolds`, `OneRequestPerAttemptHolds` | the action properties of the runs |
| | `ImplementsOutcomeHolds` | `Spec => ImplementsOutcome` |
| `CalendarApprovalProofs` | `TypeCorrectness`, `Inductive` | `Spec => []TypeOK`, `Spec => []IInv` |
| | `InformedConsentHolds`, `ConsentLineageHolds`, `OneActivePermissionHolds` | the invariants of the runs |
| | `AdmittedUnderAuthorityHolds`, `RevokedStaysRevokedHolds` | the action properties of the runs |
| `CalendarResultProofs` | `TypeCorrectness`, `Inductive` | `Spec => []TypeOK`, `Spec => []IInv` |
| | `ShownAtMostOnceHolds`, `ReportedIsRealHolds`, `OneLivePlanHolds`, `RecordMatchesSinkHolds` | the invariants of the run |
| `CalendarAcquisitionProofs` | `Inductive`, `BoundedInductive` | `Spec => []IInv`, `Spec => []BoundedInv` |
| | `TypeCorrectness`, `OneCoherentSnapshotHolds`, `FreshnessIsConservativeHolds`, `EveryPageFencedHolds` | the invariants of the run |
| | `FencedUnderCurrentAuthorityHolds` | its action property |
| `CalendarAnswerProofs` | `TypeCorrectness`, `Inductive` | `Spec => []TypeOK`, `Spec => []IInv` |
| | `OneAnswerHolds`, `ShownOnceAsRecordedHolds` | the invariants of the run |
| `ResponsePipelineProofs` | `TypeCorrectness`, `Inductive` | `Spec => []TypeOK`, `Spec => []IInv` |
| | `OneAnswer` | `Spec => []OneAnswerShown` |
| `ProgressivePresentationProofs` | `TypeCorrectness`, `Inductive` | `Spec => []TypeOK`, `Spec => []IInv` |
| | `RecordMatchesSinkHolds`, `OneCanonicalPresentationHolds`, `InterruptionInWindowHolds` | the invariants of the run |
| | `InterruptionIsFinalHolds`, `ImplementsPrefixHolds` | its action property, `Spec => ImplementsPrefix` |

**Execution.** None of the safety properties is inductive: that only one event exists
depends on what callers hold in memory. `IInv` adds two parts to the type invariant.
`LedgerInv` relates the tables: a guard with an owner has the owner's status; an attempt is
fenced exactly when its status says so; claims stand behind fences, requests and events
behind claims, `pending + created <= 1` per attempt, evidence behind events, confirmations
behind their evidence. `CallerInv` says of each caller that what it read or was told is
still true or can no longer be committed: a fencing caller whose attempt revision is
unchanged still faces a PREPARED attempt, and a head whose revision is unchanged still
authorises; a caller with a success answer has a created event; a caller with a FOUND
answer has one too or its attempt has been confirmed without effect, which is why the
commit of the probe looks at the status again; a caller about to send is alone and nothing
was sent for its attempt. At most one event then follows because a created attempt is
never `NONE`, `PREPARED`, `ABANDONED` or confirmed absent, hence owns the guard
(`EventsOfOwner`), and the guard has one owner. The inductive step is proved in three
lemmas, one case per action: `LedgerStep`, `SendingStep` and `HoldingStep`; `GrowthStep`
and `HoldingKept` carry the callers that do not move. The refinement proof maps every step
to a step of `ActionOutcome` or to a stutter.

**Approval.** A record, once written, is never written again (`Extends`, kept by every
step), so what a caller has read of records is still true when it commits: `Rows` says what
the records of one event say of each other (a grant after its calendar's frontier, an
Action after its Permission, a consent shown not after the frontier recorded for it, an
Approval after that frontier), and `Holds...` says the same of what a caller has in memory.
The conditional parts are those about what may move: while the event of a granting caller
is the last of the Timeline no other Permission of its calendar is active, which is why one
Permission stays active although the commit reads no other; and a policy whose revision is
unchanged still allows the calendar. `InformedConsent` needs in addition that a presenting
caller's frontier is not before the first showing, whoever showed the consent first.

**Result.** Three arguments in one invariant. Generations are numbered without gaps and all
but the last are refused for good (`Numbered`, `Refusals`), a terminal state of record or
sink is never left (`Generations`), so one generation at most is accepted (`OneAccepted`)
and what a caller learned from the sink is true until it settles it (`Holds`). Whoever
waits for the model waits alone and its invocation is open (`Waits`), so one plan at most
is live. And nothing is projected before the ledger of `ActionOutcome` says "effect", which
has an event behind it (`Chain`).

**Acquisition.** The two open traversals are the difficulty: what a caller checked before
it took the lock may be false when it commits. `IInv` says that each caller inside a
traversal owns its attempt row, STARTED, alone (`Owned`, from rows numbered without gaps,
`Numbered`); that recorded pages have one snapshot, not before the start of the scope
(`PagesOfOneSnapshot`); that a successful attempt is the one of its Observation's capture
(`Admission`), so that nobody appends to the rows it was admitted with; and that the
revision a caller read of a head is either not the current one or that of a head that
permits (`Holds`), which is all the compare-and-set of the fence needs. One lemma per
action; `MoveStep` covers those that write no row, `OwnRowStep` those that write the rows
of the caller's attempt, `CallersKept` those of nobody. The bound on fences is an argument
of its own (`BoundedInv`), because two callers may compute the same transport ordinal. The
slots of an Observation are the pairs of a traversal and a page number. A slot is in
`Spent` when its page is recorded or just fenced, in `Used` when it is recorded, fenced now
or can never be fenced; then `Cardinality(Spent(o)) <= fence[o] <= Cardinality(Used(o))` is
kept by every step: a committed fence adds its slot to both, and a traversal that ends or
whose caller dies can only make `Spent` smaller and `Used` larger. The lower bound is
`EveryPageFenced`, the upper one the type of `fence`.

**Answer.** Operation numbers are named for the event and not for the result, so `op` of a
caller is one more than the invocations of its own result while the number is spent for
every result. Hence a caller of a second result always finds its number taken
(`OneResult`): only one result is ever taken to the model, its invocations are numbered
without gaps and one is live (`Gapless`, `OneLive`), so one output is adopted. The
presentation is the argument of `CalendarResult` again, with `Bindings` for what the
Timeline event and its provenance say of the generation.

**Response.** What makes the answer one is not the model attempts, of which several may be
open and several may succeed, but adoption and the key of the presentation. `IInv` says
that two callers never wait for the same row (`Owned`), so that a generated candidate is
never overwritten after it was adopted; that a caller on the way to adoption holds a
generated candidate, and one on the way to the sink the adopted output (`Holds`); and that
the sink's keys are its outputs (`OutputInv`). One lemma per action again, `MoveStep`,
`OutcomeStep` and `OutputStep` for the groups that write alike. `OneAnswer` follows from
the equality of any two adopted outputs.

**Progressive presentation.** Receipts are the frames `1 .. PresentedExtent` (`Evidence`).
Frame k is only sent when k - 1 has a receipt, so the one frame that can be shown without a
receipt is the next one, and `Frames` says that it was sent by the attempt that is neither
settled nor closed at the sink: the last one (`Attempts`). A settled attempt was closed
first or had no frame left under way, so what it has sent stays as it is. Hence the
counterpart's sight is a prefix, each frame once (`Sight`), ahead of the receipts by one
frame at most (`SeenFacts`), and when history tells the extent every attempt is settled and
none can follow (`Telling`), which makes it exactly what was seen. The refinement maps the
steps of the sink that show a frame to `PresentedPrefix`'s showing, those that append
the history event to its telling, and all others to stutters. `Windows` and `Paths` carry
the interruption and the one canonical path.

Only model-checked: liveness (`ShownIsRecorded` of `CalendarResult` and `CalendarAnswer`,
`AdoptedIsShown` of `ResponsePipeline`), which is out of the prover's reach. The three
properties of the runs that expect a violation are false of the code.

## 5. Not modelled, and the plan

Texts and their parsing, rendering, digests, contract version strings, clocks and the
expiry of Permissions and Approvals (a head that no longer authorises), migrations,
configuration, command lines. Identity of relationship, counterpart and companion is
fixed: there is one of each. By component:

* Open loops, aliases and routing (`conversation_open_loop*.py`, `interaction_routing*.py`):
  a loop is opened, closed or named by the text of one input in the transaction that admits
  it; what could go wrong there is the matching of text.
* Memory admission: one transaction, text matching, a unique key.
* Local surface: `LocalSurfaceStore.accept` is the sink of `ResponsePipeline`; the
  reservation of inputs, the HTTP server and its pages are not modelled.
* Host, administration, diagnostics: they own no state; an administrator's change appears
  as the environment's step on an authority head, a credential or a route.
* Adapters: encoding and decoding; providers and sinks appear by what the services rely on.
* Policies and grants of calendar reading are one action on heads in
  `CalendarAcquisition` and a verdict in `CalendarAnswer`; direct calls of single services
  by a host are modelled in `CalendarResult` only.

Left to do: a module of open loops with two turns that open and close the same one; the
reservation of inputs by the surface; of the liveness properties, the safety steps that
they rest on (what stays enabled until it is taken) as lemmas.
