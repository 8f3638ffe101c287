# Atlas: a TLA+ development of the governed authoring core

Atlas (`gds_workbench`) lets people and agents author governed metadata and
data models. PostgreSQL is the authority: the functions and triggers under
`database/` decide who may write, which Run may execute and which draft may be
applied. The web backend, its durable worker and the MCP server are clients of
those functions. This directory models that core in TLA+, checks the modules
on small instances with TLC, and proves central safety properties for every
instance with TLAPS. Paths below are relative to `src/`; file names such as
`13` stand for `database/13_application_workflow_runs.sql`.

## 1. Inventory

| Component | State it keeps | Operations | What is hard | What makes it correct |
| --- | --- | --- | --- | --- |
| Tenant Lock (`03`) | one lease row per Tenant, append-only event log | acquire, renew, release, override, check, expire; authorize a write | leases against open transactions; transaction time against wall time; a sweep that skips locked rows | one writer Principal at a time, a truthful audit log, live leases protected, lapsed leases removed |
| Workflow Runs (`13`) | Run row with state, frozen revision, claim, lease, recovery count; event log | create, start, cancel, claim, renew, release, append event, complete, no-op, fail | lost workers, lapsed leases, cancel against completion, one statement that fails and claims several Runs | one executor at a time, one outcome, bounded recovery, log and outcome agree |
| Durable web worker (`web_app/.../workflow_worker.py`, `features/workflows/execution/`) | running claims, their execution and heartbeat tasks | poll, execute, heartbeat, cancel, release | two tasks racing per claim, shutdown during a write | never writes after its claim is lost |
| Authoring (`features/<workflow>/service.py`, `features/workflows/authoring/`) | accepted answers in memory; next event sequence; transactions | agent calls with repairs, progress, finalize, retain failed candidate, no-op, fail; apply | replays after a lost answer or a lost worker; advisory coverage; a graph that moves on meanwhile | the log, the draft and the outcome tell one true story |
| Project Change Sets (`15`, `mcp_server/.../change_sets/project.py`) | drafts, staged batches, revisions, digests | create, stage, begin, put, commit, read, validate, archive, expire, apply | idempotent retries, stale digests, two clients, expiry at any time | an applied draft is the validated and approved one; nothing is replaced unseen |
| Project records (`project_validation.py`, `project_apply.py`, `features/project_change_sets/review.py`, `deletion.py`) | the saved graph of a Project | validate a future graph, materialize, lock, unlock, retire, reactivate, delete | closures over layers, locked supports, Objects that leave the inputs | what is saved blocks the next draft only for known causes; locked records stay |
| Human review (`features/project_change_sets/service.py`, `frontend/src/features/project_record_review/`) | receipts by key; dialogs | preview, review, edit, delete, send again | lost answers, changing metadata, starting Runs | a key applies at most once, and what was confirmed |
| Metadata Change Sets (`15`, `16`) | Tenant-wide drafts, edit journal | stage, validate, apply | the digest covers the staged rows only; no revision of the Tenant | as for Projects |
| Project Lock and write fence (`04`, `19`) | `is_locked`, revision, lock events | lock, unlock, guard every write | lock order against Run writes | no write while locked |
| Project lifecycle, prompt and output templates (`12`) | Projects, template versions | archive, configure, publish | archive against starting Runs | running Runs keep their Project |
| Execution results (`14`) | materialized results, receipts | persist deterministic results | replays | exactly once |
| Model usage (`13`, from line 4275) | one row per model request | begin, complete | requests of a lost claim | requests belong to the claim |
| MCP profiling (`mcp_server/.../profiling/`) | claimed plans | claim, execute, record | external warehouse calls | one executor |
| MCP server and read tools | none of its own, besides the expiry loop | expire locks every minute | - | - |
| Identity and authorization | grants | rank of a Principal | grants that lapse in mid-transaction | see Tenant Lock |
| Atlas Bridge and Plugin (`atlas/atlas-bridge/`, `atlas/atlas-plugin/`) | operation records in the workspace | accept, prepare, stage, recover, record results | several windows on the same files, windows that end, late writes | records tell the truth of the draft; nothing is overwritten |
| Tool call log (`17`), rest of the frontend, installation | logs, screens | - | - | - |

How they interact: every ordinary write asks `authorize_tenant_operation`,
which shares the Tenant, grant and lock rows until the transaction ends. A user
creates and starts a Run; a worker claims it, heartbeats the claim, and each of
its write transactions first locks the Run row and checks the claim
(`assert_workflow_run_claim`), then checks authorization, Project and frozen
revision. A completed Run leaves a validated Project Change Set that its owner
applies in a further transaction, which advances the Project revision and makes
every other draft and Run of that revision stale. Locking or archiving a
Project consults the states of its Runs. People author as well: through an
agent in their editor, whose local workbench prepares what an Atlas Bridge
stages with the MCP tools, and in the web dialogs, which change saved records
at once. Whatever the way, a change is judged by the rules of one graph.

`PROJECT.json` lists every component with its status and every hazard at its
line.

## 2. Modules

| Module | Role |
| --- | --- |
| `TenantLock` | lease, audit log, connections with their transactions |
| `WriteFence` | abstract: the holder changes only while nobody writes |
| `MCTenantLock` | instances for TLC |
| `TenantLockProofs` | types, writer exclusion, audit log, leases, refinement of `WriteFence` |
| `WorkflowRun` | Runs, claims, drafts, Project revisions, write transactions |
| `RunOutcome` | abstract: what a Run promises its owner |
| `MCWorkflowRun` | instances for TLC |
| `WorkflowRunProofs` | types, the claim holder is the sole writer |
| `RunInvariantProofs` | Runs alone in their Tenant and in an open Project, claims paid for, logs, drafts, the trigger, refinement of `RunOutcome` |
| `Authoring`, `MCAuthoring`, `AuthoringProofs` | one agent Run from its first call to its end, with recoveries |
| `ChangeSet`, `MCChangeSet`, `ChangeSetProofs` | the MCP tools of Project Change Sets, their clients and lost answers |
| `ProjectDraft` | abstract: what a Project Change Set promises |
| `ProjectGraph` | the records of a Project and the rules between them, without state |
| `FutureGraph`, `MCFutureGraph`, `FutureGraphProofs` | how the saved graph changes: drafts, reviews, deletions, metadata |
| `HumanReview`, `MCHumanReview`, `HumanReviewProofs` | the dialogs of human commands, their keys and retries |
| `BridgeStage`, `MCBridgeStage`, `BridgeStageProofs` | staging from a workspace by several windows, and its recovery |

The modules meet where one's assumption is another's property. `Authoring`
assumes that one execution at a time holds the claim, which is
`WorkflowRun!WriterHoldsClaim`; its `Valid` and the validation in `ChangeSet`
stand for `ProjectGraph!Valid`; the writes that `BridgeStage` sends are the
tools of `ChangeSet`; `HumanReview` takes a lock that behaves as `TenantLock`
and commands whose plans are those of `FutureGraph`.

### TenantLock

`lock` is the `tenant_lock` row, `events` the `tenant_lock_event` table in
order, `now` is `clock_timestamp()`. A connection is in `session`: idle, begun
(its start time is fixed, which is `CURRENT_TIMESTAMP`), or writing. A
lock-management call is the only statement of its transaction and needs the
Tenant row `FOR UPDATE`, hence it is one step that is enabled when no writer
shares the rows, however long it has waited. `lock_timeout` is set by the web
pool alone (`web_app/backend/atlas_platform/database.py:488`, not by the MCP
server) and limits each wait for a row lock: sessions in `Limited` may `TimeOut`
after `MaxWait`, others wait on. A write is three steps,
`Begin`, `AuthorizeWrite`, `EndWrite`, with anything in between, as a real
transaction holds its share locks until it commits. Effective ranks change at
any time, upwards only by an administrator who waits for the grant row, down
also by a grant's expiry, which waits for nobody.

Two facts of the code are kept because they matter: a lease starts at the start
of the transaction and not after the wait, so that it may be over when it is
granted, and `IF v_existing_lock IS NOT NULL`
is a test of a whole record (section 6).

### WorkflowRun

`run` is the row: state, owner, frozen revision, claim (a number for the token,
0 for NULL), `left` (the lease as a timer: `left = 0` is `expires <= now`),
recovery count, and the history counters `claims` and `releases`. `events` is
the Run's part of `project_event_log`, kept by sequence and reduced to kind and
attempt. `draft` is the Run's Project Change Set, `project` the revision and
whether the Project is open, locked or archived. `holder` and `active` are what
the claim and the authorizations ask of the Tenant Lock and of the identities;
`ChangeHolder` and `Deactivate` let them change at any time, even under an open
transaction, which is more than `TenantLock` allows.

`worker` is one claim slot: a process runs `max_concurrent_runs` loops, and
each is a worker here. `tx` says which worker has locked a Run row.
`BeginWrite` is `assert_workflow_run_claim`; every later check of the write is
in `MayCommit`, and the lease is deliberately not among them, since the code
does not recheck it. A commit writes everything of its transaction in one step,
which is what a transaction is. `EndExecution` covers a return, an exception, a
lost claim and a dead process: the claim stays in the row until it lapses.

`ClaimNext` is the statement of `claim_workflow_run`: invalid Runs fail,
exhausted Runs fail, the oldest candidate is claimed, all in one step. In the
database its snapshot is older than the row locks it takes; a Project change in
between gives the state of a claim followed by `EditProject`, so one step loses
no behaviour.

Simplifications, all of them over-approximations: an execution performs its
permitted writes in any order and any number; a refused append leaves the
sequence where it was (in the code it moves on, after which no append of that
execution can succeed); other edits of a Project are one action `EditProject`.
A lost answer of a completed write is `Finalize` followed by `EndExecution`.
Left out: scope selections, prompts, the content of drafts, deterministic
workflows and their receipts, usage rows.

### Authoring

`run` is the Run as its owner sees it, `log` its events, `exec` the memory of
the execution that holds the claim and `world` the saved graph and the source
metadata. A call asks, is answered, is repaired up to `Retries` times (with the
full rejected answer, or a smaller request when that no longer fits), and is
accepted or fails; accepted answers are merged and checked where the code checks
them, which differs by workflow: `Checked`, `LateChecked` and `Builds` say how.
Calls of one execution run side by side. Progress is told under the sequence
that the execution counts itself; an append whose text differs from the one in
the log is refused, and the Run ends in no way but a recovery. `Stop` takes
everything but the log. Kept as the code has it: coverage is enforced or
advisory by workflow, and an advisory shortfall in a last answer is accepted
only if the graph validates.

Bounds of the model: a Mapping pair has one System, and the progress points that
lie below the reporting thresholds are left out. A conflict of a Dimensional
projection is an invalid answer. A Run cancelled by its owner and executions
that write after their claim are left to `WorkflowRun`.

### ChangeSet and ProjectDraft

`cs` holds the Change Set rows, `batch` the staged batches with their manifest
and chunks, `audit` the part of the event log that replays to the row, `view`
and `upload` what each client was told and has sent. Each tool locks the row
before it reads it, so a tool is one step; the answer is a second choice in that
step, told or lost. A batch replays its Commit, a Put of the same chunk is
answered again and another chunk is refused, a stage names the revision it
expects. Drafts and batches found past their time are expired by the tool that
finds them, and that is kept although the tool refuses. Contents are sequences of
chunks; a manifest is what a client planned to send.

`ProjectDraft` has no time, owners, batches, locks or clients: drafts are
numbered, sealed as they stand, applied once over the revision they were made
for, and stay as they are afterwards.

### ProjectGraph and FutureGraph

A graph maps canonical keys to records; a key carries the names it refers to,
so references are computed. A record is active or not, locked or not, has one of
two contents and its supports with their own states. `Valid` is
`validate_future_graph` on `Future(saved, draft)`: locks, scope, references,
active dependencies, rules of new Mappings, assignment of Code. `Materialized`
and `Materializable` are the upserts of `ProjectMaterializer` and its own
refusals. `Plan` of `FutureGraph` is `plan_project_record_review` with the
closure it computes, `Delete` the deletion with its own closure, which nothing
validates afterwards. `catalog` is the registered metadata as
`load_project_physical_scope` reads it: the active Systems, the Objects that can
be told (those whose Connection, System and placement Tenant are active), the
Objects eligible as inputs, and the Systems that feed them. `Recatalog` is a
metadata write of the Tenant, which looks at no Project. Retained history may
name an Object that is no longer an input; it may not name one that cannot be
told, and no record, inactive ones included, may name a System that is not
active (`project_validation.py:632`).

Drafts carry the complete nested arrays of a record, as
`atlas/atlas-plugin/references/project/logical.md:112` asks of their authors. A
Mapping pair has one System; the System of a Context Group belongs to its full
content (`SystemOf`). Not in the graph: names and data types, conformed and
bridge roles, the limits on sizes. Code generation has checks of Systems of its
own, which validation implies.

### HumanReview

`dialog` is the state of each dialog with the key of its current request, `wire`
the requests under way, `tx` the one transaction that runs (a second waits for
the Project row), `receipts` the append-only table that answers a repeated key,
`lock` the Tenant Lock. `Enter` takes the Project and lock rows, `Check` plans
the command anew and compares digests, `Finish` writes. The lock row is taken
`FOR UPDATE` only if it exists. `Replay` comes before the revision is compared.
The dialog sends again until an answer is definite; a 403 is one.

### BridgeStage

`ops` are the operation records of one owner (session.json names the last),
`local` the files, `draft` the server's draft with its last validation answer,
`bridge` what each window is doing and `wire` the writes sent. `Accept`,
`CacheDraft`, `Prepare` and the three `record-operation` checkpoints are
commands of the workbench; a window reads a record, fetches the draft, marks
the record as uncertain, sends part by part, checks the fingerprint and writes
the receipt.

Both programs compare a record with what they read and then rename over it, in
two steps and without a lock (`workspace-state.js:60`, `stage-request.ts:378`).
For a window these are `Check` and `Rename`; a command of the workbench compares
in its own action (`Compared`), keeps the record on its `desk` and renames it
with `Replace`, or ends before (`Abandon`). `lost` is a history variable: the
operations whose mark or receipt was renamed over by a command that had compared
an earlier record. The rename of a new operation is that of `session.json`,
after which it is current.

A window may end at any step, its write may arrive later or be refused. The
begin and put calls of a large dataset touch no draft, so its commit stands for
them. Not modelled: the explicit flag `--validation-failed`, snapshots and
reports, sizes; other commands that rewrite `session.json`, whose rename may
take the pointer back to an earlier operation; the file of a Stage request,
which is written before the record names it; and the answer `replayed` of a
Commit whose batch two windows share, which no property depends on.

### The contracts

`WriteFence` has two variables, the holder and the writers. `RunOutcome` has
three per Run: its phase, the length of its log and its offered draft; no
workers, leases or transactions. Its actions say that a draft, the end of a Run
and its last log entries appear together (`Deliver`, `Reject`), that a Run ends
once, and that only one Run per domain (Tenant) is worked on. `GiveUp` takes a
set, since one claim statement may fail several Runs. `ProjectDraft` is
described with `ChangeSet`.

## 3. Runs

| Run | Instance | States | Question |
| --- | --- | --- | --- |
| `tenant_lock` | 2 Principals, 2 connections (web and MCP), leases of 2, `lock_timeout` 2, time up to 3, log up to 3 | 315,000 | safety, the refinement, and that lapsed rows are swept |
| `tenant_lock_conflict` | one rank, time up to 2 | stops | section 6 |
| `run_recovery` | 1 Run, 2 workers, lease 2, 2 recoveries, 2 attempts, 1 release, 3 events | 146,000 | claims, recovery, and that every running Run ends |
| `run_pair` | 2 Runs of 1 Project, or of 2 Projects of 2 Tenants; 1 worker, revisions up to 3 | 140,000 | drafts, locking, archiving, the contract; several failures in one statement |
| `authoring` | every workflow, 2 calls, 2 repairs, 1 recovery, 2 worlds | 271,000 | a whole agent Run, and that it ends |
| `authoring_empty` | the Builds only | stops | section 6 |
| `change_set` | 2 drafts, 2 batches, 3 clients, 2 datasets, revisions up to 3, in four worlds | 208,000 | the tools and their contract |
| `future_graph` | 8 slices of a Project, 4 states of the metadata | 15,700 | the graph rules |
| `future_graph_groups`, `future_graph_reopened` | one slice each | stops | section 6 |
| `human_review` | 6 dialogs, 2 Principals, revisions up to 2, 2 sends, 2 keys, in five worlds | 268,000 | keys, retries, confirmation |
| `bridge_stage` | 2 windows, 1 workbench process, 2 operations, 2 datasets, revisions up to 4, in two worlds | 1,590,000 | records and drafts |

A *world* is a part of the state space: a CONSTRAINT keeps to the union of some
parts, each of which is closed under the interplay its question needs, since all
of it at once is out of reach. They are in the MC modules.

- `tenant_lock`: after two audit events, only states in which both Principals may
  manage locks (`SteadyLate`); ranks change freely before.
- `run_pair`: two Runs share a Project (`SharedProject`), or two Runs of two
  Tenants run side by side (`OtherTenant`).
- `change_set`: two Principals with a draft each (`TwoOwners`); one client with
  two drafts, expiry, a Project lock and the drafts of others (`TwoDrafts`); one
  client with two batches of one revision and direct stages between
  (`TwoBatches`); two clients of one Principal with one draft and a batch whose
  chunks may differ from its manifest (`TwoClients`).
- `future_graph`: an Entity on an Object that comes and goes, with every lock; a
  Context Group and what rests on it; two layers; links and Subject Areas; a
  Mapping with its rules and Code; artifacts and Validation; two Mappings of one
  System. A draft changes one record or a pair that makes sense together. The
  metadata is whole, or lacks the Object as an input, the Object, or the System;
  it lacks only what some saved record names (`Named`).
- `human_review`: each kind of command alone with all that happens around it, its
  dialog opened again included, an editor that saves twice, and two dialogs at
  once in a quiet Project.
- `bridge_stage`: two windows stage one accepted work at once before any
  validation (`Early`); one window stages work that is edited, validated, staged
  again and applied (`Late`). In both a workbench command may be between its
  comparison and its rename while one window works on the first operation.

What the properties say:

- `WriterHoldsLock`, `ImplementsWriteFence`: an open authorized write keeps the
  lock row with its Principal, also after its lease ran out.
- `AuditTrail`: the log is a chain of leases (`AuditChain`) and its last entry is
  the row (`AuditTellsLock`), whichever call found a lapsed lease first.
- `LiveLeaseProtected`, `LeaseBounded`: how a live lease may change, and that a
  granted lease is one requested duration from a moment that has passed, so that
  it ends at most that far from now. There is no lower bound: a call that has
  waited may be granted a lease that is over.
- `ExpiredLockSwept`: writers that follow one another cannot hold off the sweep.
- `WriterHoldsClaim`: a write transaction belongs to the execution whose claim
  the row carries.
- `LogAgreesWithState`: one start, one end, nothing after it; `completed_with_repair`
  exactly when some event of some execution is of a later attempt.
- `RecoveriesCounted`: every claim after the first is paid for by a recovery or
  a graceful release.
- `GuardNeverFires`: no update of any action is one that the trigger
  `guard_workflow_run` would refuse, so no claim statement is rolled back as a
  whole because of one row.
- `RunningInOpenProject`, `DraftAgreesWithRun`, `NoLostUpdate`: Runs and
  Projects, Runs and drafts, drafts and drafts.
- `ImplementsRunOutcome`: all of it implements the contract.
- `RunsEnd`: a running Run ends.
- `LogIsTrue`, `DraftIsAsSaid`: over crashes and recoveries the log of a
  completed Run is the story of the execution that completed it and is true of
  its draft; drafts are valid or rejected as their Runs say.
- `AcceptedIsSound`: coverage falls short only where that is advisory, and what
  is accepted validates (the empty draft apart: when a saved graph validates
  without any change is `StuckHasCause`, a question of `FutureGraph`). `RunEnds`: whatever calls and workers do, the Run ends.
- `ViewsAreTrue`: a revision identifies a content, so that no client replaces
  records it has not seen, whatever was lost or replayed.
- `SealMatchesDraft`, `AppliedAsApproved`, `ImplementsProjectDraft`: what is
  applied is what was validated and what somebody was told is valid, over the
  revision it was made for, and once.
- `OneOngoing`, `AuditTellsDraft`: one ongoing draft of a Principal; the event
  log replays to the row.
- `StuckHasCause`: the next draft is refused for what is saved exactly when the
  metadata lacks a System or an Object that some saved record names
  (`Catalogued`), or a deletion has left a Validation Group without Mapping
  (`GroupsAreMapped`). Both happen in the run. `RetirementCloses`: while neither
  is so, active records can be retired whenever no locked one depends on them.
  Review accepts inactive records too, and of those the second is false: to
  retire a retired Code artifact makes its Entity part of the draft, whose
  Mappings must then all be assigned, also one that has got its rules since.
- `LockedStays`, `ContentInScope`, `ReviewsKeepRules`: locked records and
  supports, content and inputs, Mappings and their last rule.
- `AppliedOnce`, `AnswersAreTrue`, `AppliedAsConfirmed`, `ReviewExcludesRun`: a
  key, its answers, what the user saw, and running Runs.
- `EvidenceIsTrue`: a receipt fingerprints a draft that holds the accepted
  records, and what is recorded as applied is what was accepted and staged.
- `WritesAreMarked`: every change of the draft, however late, belongs to a
  record that says uncertain and has no receipt, unless a workbench command
  renamed an older record over it (`lost`, section 6). `NothingOverwritten`: a Stage takes nothing from
  the draft unless it stages a failed draft again.

Every property has a mutant: a plausible bug in one definition (the operators
marked `mutant` beside the originals) under which TLC finds it violated in the
same run.

**Bounds.** `MaxTime`, `MaxEvents`, `MaxRevision`, `MaxReleases`, `MaxDraft`,
`MaxSends`, `MaxKeys` and `MaxOperations` bound counters in guards and nothing
else; `MaxWait`, `Lease`, `Life`, `DraftLife`, `Retries`, `MaxRecoveries` and
`MaxAttempts` are parameters of the code with small values. In `tenant_lock` a
lease can be granted, lapse, be found by each of the calls and by the sweep, and
be granted again while another connection waits, also longer than its lease. In `run_recovery` two
recoveries, a release and an exhaustion fit in one behaviour, each with an open
transaction of an earlier claim, and the log has room for events of two
executions. In `run_pair` three revisions let one draft be applied between the
validation and the apply of another; a second Run is enough for every pairwise
property. In `authoring` one recovery gives a second execution that must repeat
what the first one has told, and two calls are what ordering and merging need.
In `change_set` three draft revisions let a batch be overtaken by a stage and be
replayed. In `human_review` a second send of a key meets a Project that has moved
on. In `bridge_stage` four revisions fit a Stage of two writes and one of another
session between them, and a second operation fits a retry of a failed draft; the one workbench process
can overtake a window at each of its steps.
`Runs` are numbers because claims take the oldest first; the windows of
`bridge_stage` are symmetric and declared so.

Deadlock is checked except in `authoring` (a Run that has ended), `human_review`
(all requests answered) and `future_graph` (nothing left to change), where the
system does stop.

**Fairness.** `TenantLock`: the MCP server sweeps every 60 seconds for as long
as it runs (`adapters/mcp/server.py:314`), so the sweep is weakly fair; every
write transaction ends (`idle_in_transaction_session_timeout` and
`statement_timeout`, `web_app/backend/atlas_platform/database.py:488`). Weak
fairness of the sweep suffices although writers disable it, because no new
write is authorized against a lapsed lease. `WorkflowRun`: time passes; some
worker polls (`run_worker_loop` never ends, but no single worker is assumed to
poll); every execution ends (turn limits, request and statement timeouts).
Nothing else is fair: no execution has to write, renew or succeed. `Authoring`:
the execution takes its next step (each agent request has a timeout and its
turns are limited), an answer or its absence comes, and a Run without an
execution is claimed or failed again (`RunsEnd` of `WorkflowRun`). Answers, crashes and changes
of the graph are not fair. The other modules state no fairness and no liveness:
their clients are people and agents who may stop.

## 4. Proofs

Every safety property that a passing run checks is proved for all values of the
constants, each in the proof module of its component. TLC has checked every
inductive invariant on the instance of its run before it was proved. The
assumptions are `ConstantsAssumption`, `CatalogsAssumption`, `GraphConstants`,
`CatalogConstants`, `KeyShapes` and `FutureGraphConstants`, beside the constants they are about: that
numbers are numbers, that a null value is no value, that sets of records are
finite, what a canonical key may cite. TLC evaluates them in every run. So the
theorems hold for any number of Principals, connections, Runs, Projects,
Tenants, workers, clients, windows, workbench processes, calls, keys and records, for any lease and
any value of the bounds.

The modules of proofs are laid out alike: the parts of the invariant, lemmas on
the operators, then what each action does to each part that it can disturb.
Where actions are many, a lemma first classifies the steps by their effect
(`LockSteps`, `StepKinds`), and the parts are proved of the kinds.

**`TenantLockProofs`.**

- `TypeCorrect` and `WriterExclusion`: `WriterHoldsLock` is inductive once the
  types are known. The calls that replace or remove a live row need the rows no
  writer shares (`ManageExcludesWriters`), the sweep skips shared rows, and every
  other step leaves row and writers alone.
- `FenceImplemented`: `AuthorizeWrite` that succeeds is `Start` of the holder,
  `EndWrite` is `Finish`, a change of the row is `Change` and happens without
  writers, the rest is a stutter.
- `AuditTrue`: row and log change together or not at all (`LockSteps`); an event
  that ends a lease closes the chain, one that renews it continues it, and one
  that grants it opens it on a closed chain.
- `LiveLeaseKept` is an action property of the types alone. `LeasesBounded` needs
  `StartsPast`: a lease is counted from the start of its transaction, which is
  not in the future. Nothing is supposed of how long a call waits.

**`WorkflowRunProofs`, `RunInvariantProofs`.**

- `TypeCorrect`. The one interesting conjunct is the bound of the recovery
  count: a claim counts one more only for a candidate with a recovery left.
- `SoleWriter`: a step may change the claim of a Run only if its row is free or
  the step ends the transaction that locked it; a worker takes up a new claim
  only when it has none, and thus no open transaction.
- `RunsAlone`: the steps of workers start no Run (`WorkerOnlyEnds`); creating and
  starting look at the Project, locking and archiving look at the Runs, and the
  two directions leave no gap.
- `ClaimsPaidFor`, row by row (`Counted`): closing a row keeps the account,
  claiming one without a claim uses the turn that its creation or a release
  gave, replacing a claim adds a recovery.
- `HistoryInvariance`: `HistoryInv` joins what rows, claims, drafts and logs say of
  each other (`RowsRest`: a terminal row has no claim, a row without claim no
  lease, only a completed Run is a no-op). `LogTold` and `DraftsTold` are parts of
  it, `GuardSilent` follows step by step, and `UpdatesKept` adds that the result of
  an applied draft is at most the Project's revision (`AppliedBefore`).
- `KeepsContract`: the refinement of `RunOutcome`. A commit is `Progress`, `Deliver`
  or `Reject`, a claim statement is `GiveUp` of the set of Runs it fails, and renewals,
  releases, recoveries and lost executions are stutters.

**`ChangeSetProofs`.** `IInv` adds to the checked properties what the tools rely
on: `RowsMade` (rows that are not made yet are blank), `AtMostOne`, `Behind` (no
client knows a revision the draft has not reached), `BatchesLinked` (a batch was
begun at a revision its draft has passed or is at, and was committed as the
next), `UploadsAreTrue` (what a client knew when it began a batch is true until
the revision moves on, and what it will know is true from the commit on). With
these, `ViewsTrue` holds although a Commit may be answered long after the draft
has moved on: the answer carries the revision of that commit. `SealsMatch`,
`OneDraftEach` and `AuditTells` are parts of it; `AppliedApproved` and `KeepsPromise`, the
refinement of `ProjectDraft`, follow step by step.

**`FutureGraphProofs`.** `TypeOK` is stated there: the saved graph is finite and
every record is one of its key. `Standing` says that references resolve, that
what is active rests on what is active, and that no System of a coded Entity is
assigned twice. It is inductive together with the types, deletions included:
their closure takes whatever refers to what goes. `StuckByMetadataOrGroups`
shows that what is then left to refuse a draft for is the metadata
(`Catalogued`) or a Validation Group, which only a deletion can leave without
Mapping (`StuckByMetadataWithoutDeletes`). `RetirementsClose`
shows that the closure of a retirement is closed: the rounds of `Plan` grow
until they stand still, and in a finite graph they do within as many rounds as
there are records, since each of the others adds one. What remains then stands,
kind of dependent by kind of dependent. `LocksStay`, `ContentRests` and
`RulesRest` are action properties, the last two from what validation and the
closure ask.

**`HumanReviewProofs`.** `KeysOnce` is strengthened by `PlanStands` (between the
plan and the end of its transaction the Project is as confirmed, and the key has
no receipt), `PlansConfirmed` and `ReceiptsOrdered` (receipts follow each other by
revision). `KeysApplyOnce`, `AppliesWhatWasConfirmed`, `RunsAreLeftAlone` and
`DialogsAreToldTheTruth` follow from it.

**`BridgeStageProofs`.** Whether the Stage of an operation retries a failed draft
is settled when it is accepted, but the record forgets it once it is staged. The
invariant is therefore `\E t \in [Nat -> BOOLEAN] : Sound(t)`, with one choice for
every operation, kept from step to step. `Sound` says of records, windows and
writes on the wire that a plan was made from the draft of the revision it
expects: it holds the accepted records and, but for a retry, all that was there.
A write is served only at that revision, which gives `EvidenceTrue` and
`OthersKept`. A record on a desk has the mark and the receipt of the one it
was computed from (`DesksSound`): a stale rename may take away either, but puts
no false receipt in their place. What a receipt says of the writes still under way
(`Settled`) is therefore kept of the operations not in `lost`, and so is that
nobody writes for an operation that is neither marked nor staged (`Untouched`);
`WritesMarked` follows.

**`AuthoringProofs`.** The steps of an execution are of ten kinds (`Steps`,
`StepKinds`): a call moves and perhaps something is told, the execution enters
another phase, stops or begins, the Run ends. `InOrder` and `NoneBusy` make the
call that asks the last one that is settled, so that an accepted answer is laid
over all others (`MergedOver`) and `AcceptedSound` is what its check said.
`ToldIsLogged` and `NotYetFinal` make a completion find the whole log told
(`CompletesParts`): an event of an earlier execution that this one has not told
would be in the place of the last event. `AttemptsTold` says that every attempt in
the log was told of an accepted answer, which makes `completed_with_repair`
exact. `RejectedHolds` and `KeptHolds` carry the records a failing Run keeps.
With them `LogTrue` and `DraftAsSaid`.

Induction over data: the induction theorems of the library take an operator as
parameter and cannot be used, but well-foundedness of the natural numbers can be
cited for a set. `Greatest`, `LeastNumber`, `MaxWithin` and the rounds of a
retirement are proved with the least element of a set of numbers.

Proving has changed the modules where they were wrong or said too much. A dialog
of `HumanReview` that was opened again used its first key a second time.
`RetirementCloses` is about active records and `AcceptedIsSound` not about the
empty draft, for the reasons given in section 3. Recursive operators of
`Authoring` and `FutureGraph` became declarative ones (`Merged`) or recursive
functions (`Rounds`).

Only model-checked: the liveness properties `ExpiredLockSwept`, `RunsEnd` and
`RunEnds`, since fairness and `ENABLED` are beyond the prover. The properties of
the runs that expect a violation are false, with the counterexamples of TLC.

## 5. Not modelled, and the plan

Next theorems, most important first:

1. The safety half of the liveness properties, as action properties: a measure
   of an execution that each of its own steps lowers and only a recovery
   raises, so that what is left to TLC is fairness alone.
2. That the modules fit: what `Authoring` assumes of the claim from
   `WorkflowRun`, and what `HumanReview` assumes of the Tenant Lock from `TenantLock`.

Not modelled:

- The order in which transactions lock rows, and the deadlocks PostgreSQL
  resolves by failing one of them (listed as a hazard).
- The execution and heartbeat tasks inside a worker; `WorkflowRun` has every
  schedule of their effects.
- The Tenant-wide rules of Metadata Change Sets, execution results (`14`; large
  set-oriented SQL, one transaction each), model usage, profiling, prompt and
  output templates.
- What agents are told: contexts and prompts are read-only projections of the
  saved graph (some twelve thousand lines of it), whose correctness is a question of content.
- Field formats, sizes and messages of the validators: `ProjectGraph` keeps the
  rules between records.
- Read tools, the rest of the frontend and the plugin, installation.

## 6. Findings

`acquire_tenant_lock` decides with `IF v_existing_lock IS NOT NULL` (`03:610`)
whether a live lock exists. `v_existing_lock` is a record, and SQL makes a
record `IS NOT NULL` only when all of its fields are. A lock acquired without a
purpose, which is the default of the MCP tool, has a NULL field: the next
acquire by anyone does not see it, tries to insert, and ends in the unique
violation of `uq_tenant_lock_tenant`, reported as an unavailable dependency
instead of the denial `tenant_locked` with the owner and the times
(`tests/mcp/test_database_authorization.py:1329`, `docs/security.md:38`).
Exclusion is not affected. Run `tenant_lock_conflict` shows it with
`ConflictIsDenied`.

Deleting records leaves a graph that nothing validates. `deletion.py` and
`review.py` retire the Validation Group of a System with its last Mapping, but
count an inactive Mapping as one: deleting the active Mapping of a System of
which a retired one remains leaves the Group active, and every later draft of
the Project is refused (`future_graph_groups`, `GroupsAreMapped`;
`atlas/atlas-plugin/references/project/validation.md:66`).

A human review that reactivates a Mapping pair does not consult the Mapping
branches, as `docs/architecture/decisions.md:281` says every Apply does
(`future_graph_reopened`, `OpenedAsBranch`).

A Build over two or more Subject Areas whose calls change nothing reports its
last event as so many of so many calls, and the no-op contract wants one of one
(`authoring/no_op.py:103`): the Run is refused, recovered, authored again and at
last fails, where `docs/architecture/decisions.md:222` lets it complete
(`authoring_empty`, `EmptyResultCompletes`).

Observations without a run of their own:

- A command of the workbench compares the record, a window renames its mark into
  place, the command renames its older record over it, and the window sends: the
  draft changes under a record that has neither mark nor receipt, and nothing
  tells the user that the attempt is uncertain. `WritesAreMarked` without its
  clause on `lost` is violated by this order (`Prepare`, `Check`, `Rename`,
  `Replace`, `Send`, `Serve`), against
  `atlas/atlas-plugin/references/workspace-contract.md:81`, which keeps uncertain
  attempts. Receipts stay true: the draft has moved on, so that a Stage of the
  record is refused until the workbench has cached the draft again.
- A System or Connection that is deactivated blocks every later draft of the
  Projects whose records name it, inactive records included. The records cannot
  be retired out of the way, since a review is validated too; what helps is to
  activate the System again, or an administrator's deletion, which nothing
  validates.
- A window of the Bridge marks its record after a last check that the operation
  is current; a new operation accepted in between hides the uncertain one from
  then on (`atlas-local.js:1172`), which
  `atlas/atlas-plugin/references/workspace-contract.md:52` excludes.
- `cacheServerDraft` is not refused while an attempt is uncertain; with the new
  revision recorded the recovery is refused for good (`stage-request.ts:236`).
- `decisions.md:186` says a failed area keeps the work of earlier areas in a
  rejected draft; that holds when the last answer was invalid, and not when it
  was incomplete, fell short of coverage or never came.
- A queued Run of an archived Project can be neither started nor cancelled
  (`13:2663`).
- Apply of a Metadata Change Set compares the digest of its fresh validation with
  the approved one, "because current metadata can change"
  (`docs/architecture/decisions.md:468`), but the digest is of the staged rows
  alone (`metadata_validation.py:584`): two Principals who hold the Tenant Lock
  one after the other may both have drafts, and an approved insertion may be
  applied as an update of what the other has applied. References, uniqueness and
  locks are revalidated, so what is saved stays consistent.
