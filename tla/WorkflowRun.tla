---------------------------- MODULE WorkflowRun ----------------------------
(***************************************************************************)
(* Workflow Runs: queued by a Principal, started, claimed by a web worker  *)
(* under a lease, recovered by another worker when the lease lapses, and   *)
(* closed once with a result, a failure or a cancellation                  *)
(* (database/13_application_workflow_runs.sql and the worker and authoring *)
(* modules of web_app/backend/atlas_platform/features/workflows).          *)
(*                                                                         *)
(* A write of a worker is one transaction of several steps: it locks the   *)
(* Run row and checks the claim, then works for any length of time, then   *)
(* writes and commits, or rolls back.  All the rest (claiming, renewing,   *)
(* the commands of a Principal) is a single statement or function, modelled*)
(* as one step that waits for, or skips, a locked Run row.  Leases and     *)
(* draft lifetimes are timers counting down: left = 0 is expires <= now.   *)
(***************************************************************************)
EXTENDS Naturals, Sequences

CONSTANTS
    Runs,           \* Workflow Run ids, in order of creation
    Projects, Tenants, Actors, Workers,
    ProjectOf,      \* the Project of each Run
    TenantOf,       \* the Tenant of each Project
    Lease,          \* lease_duration_seconds, in ticks
    DraftLife,      \* lifetime of a Project Change Set (4 hours), in ticks
    MaxRecoveries,  \* 5 in ck_workflow_run_claim
    MaxAttempts,    \* validation_retry_count + 1
    MaxReleases,    \* bound on graceful releases of one Run's claim
    MaxEvents,      \* bound on the events of a Run before its last ones
    MaxRevision,    \* bound on Project revisions
    Idle, Nobody

VARIABLES
    run,        \* application.workflow_run
    events,     \* project.project_event_log of each Run, by sequence
    draft,      \* the Run's mcp.project_change_set
    project,    \* project.project: revision and state
    holder,     \* the Principal whose live Tenant Lock and role permit writes
    active,     \* Principals that are active with one active identity
    tx,         \* the worker whose open transaction has locked the Run row
    worker      \* the claim a worker is executing

vars == <<run, events, draft, project, holder, active, tx, worker>>

-----------------------------------------------------------------------------
(* Types. *)

Completed == {"completed", "completed_with_repair"}
Terminal  == Completed \cup {"failed", "cancelled"}
States    == {"absent", "queued", "running"} \cup Terminal

\* A claim is known by its number; 0 is no claim.  claims and releases are
\* history, the rest are columns.
Run == [state : States, actor : Actors \cup {Nobody}, frozen : Nat, noop : BOOLEAN,
        claim : Nat, left : 0..Lease, recoveries : 0..MaxRecoveries,
        claims : Nat, releases : Nat]

Attempts   == 1..MaxAttempts
EventKinds == {"started", "progress", "backend_validation",
               "completed", "failed", "cancelled"}
Event      == [kind : EventKinds, attempt : Attempts]

\* "active" is a rejected candidate that was retained.
Draft == [status : {"none", "active", "validated", "applied"},
          base : Nat, left : 0..DraftLife, result : Nat]

Project == [revision : Nat, state : {"open", "locked", "archived"}]

\* next is the sequence AgentWorkflowProgress gives to its next event.
Execution == [run : Runs, token : Nat \ {0}, next : Nat]

ASSUME ConstantsAssumption ==
    /\ Runs \subseteq Nat \ {0}
    /\ ProjectOf \in [Runs -> Projects]
    /\ TenantOf \in [Projects -> Tenants]
    /\ Lease \in Nat \ {0} /\ DraftLife \in Nat \ {0}
    /\ MaxRecoveries \in Nat /\ MaxAttempts \in Nat \ {0}
    /\ MaxReleases \in Nat /\ MaxEvents \in Nat /\ MaxRevision \in Nat
    /\ Nobody \notin Actors
    /\ Idle \notin Workers \cup Execution

\* Every variable has its type; the recovery count stays within its CHECK.
TypeOK ==
    /\ run \in [Runs -> Run]
    /\ events \in [Runs -> Seq(Event)]
    /\ draft \in [Runs -> Draft]
    /\ project \in [Projects -> Project]
    /\ holder \in [Tenants -> Actors \cup {Nobody}]
    /\ active \subseteq Actors
    /\ tx \in [Runs -> Workers \cup {Idle}]
    /\ worker \in [Workers -> Execution \cup {Idle}]

-----------------------------------------------------------------------------
(* State formulae. *)

Tenant(r)   == TenantOf[ProjectOf[r]]
Revision(r) == project[ProjectOf[r]].revision
Open(p)     == project[p].state = "open"

\* authorize_tenant_operation(..., 'tenant_project_write') for Principal a.
Authorized(a, t) == a \in active /\ holder[t] = a
ActorMayWrite(r) == Authorized(run[r].actor, Tenant(r))

Running(r) == run[r].state = "running"

\* The Project has not changed since the Run was made.
AnyRevision(r) == TRUE   \* mutant
AtFrozenRevision(r) == Revision(r) = run[r].frozen

\* The Project has not changed since the draft was validated.
AnyBase(r) == TRUE   \* mutant
AtBaseRevision(r) == Revision(r) = draft[r].base

\* No claim, or one past its lease.
ClaimMissing(r)  == run[r].claim = 0                        \* mutant: no recovery
ClaimDueEarly(r) == run[r].claim = 0 \/ run[r].left <= 1    \* mutant: off by one
ClaimDue(r) == run[r].claim = 0 \/ run[r].left = 0

RecoveryLeftOver(r) == run[r].recoveries <= MaxRecoveries   \* mutant: off by one
RecoveryLeft(r) == run[r].recoveries < MaxRecoveries

LastAttempt(r) ==   \* mutant: the attempt of the last event, not the greatest
    IF events[r] = <<>> THEN 1 ELSE events[r][Len(events[r])].attempt

\* The greatest attempt of the Run's events.
MaxAttempt(r) ==
    IF events[r] = <<>> THEN 1
    ELSE CHOOSE a \in {events[r][i].attempt : i \in 1..Len(events[r])} :
             \A i \in 1..Len(events[r]) : events[r][i].attempt <= a

Larger(a, b) == IF a < b THEN b ELSE a

\* Append an event of the given kind at the next sequence.
Log(r, kind, attempt) == Append(events[r], [kind |-> kind, attempt |-> attempt])

\* The row of a Run that ends in a state: its claim columns become NULL.
Closed(row, state) == [row EXCEPT !.state = state, !.claim = 0, !.left = 0]

CompletedState(attempt) ==
    IF attempt > 1 THEN "completed_with_repair" ELSE "completed"

NewRun   == [state |-> "absent", actor |-> Nobody, frozen |-> 0, noop |-> FALSE,
             claim |-> 0, left |-> 0, recoveries |-> 0, claims |-> 0, releases |-> 0]
NewDraft == [status |-> "none", base |-> 0, left |-> 0, result |-> 0]

Init ==
    /\ run = [r \in Runs |-> NewRun]
    /\ events = [r \in Runs |-> <<>>]
    /\ draft = [r \in Runs |-> NewDraft]
    /\ project = [p \in Projects |-> [revision |-> 1, state |-> "open"]]
    /\ holder \in [Tenants -> Actors \cup {Nobody}]
    /\ active = Actors
    /\ tx = [r \in Runs |-> Idle]
    /\ worker = [w \in Workers |-> Idle]

-----------------------------------------------------------------------------
(* Commands of a Principal. *)

\* create_workflow_run: the Run freezes the Project revision it was made at.
Create(r, a) ==
    /\ run[r].state = "absent"
    /\ Authorized(a, Tenant(r))
    /\ Open(ProjectOf[r])
    /\ run' = [run EXCEPT ![r].state = "queued", ![r].actor = a, ![r].frozen = Revision(r)]
    /\ UNCHANGED <<events, draft, project, holder, active, tx, worker>>

\* No Run of the Tenant is running (uq_workflow_run_running_tenant).
AnyTenant(r) == TRUE   \* mutant: the unique index is missing
TenantFree(r) == \A q \in Runs : Running(q) => Tenant(q) # Tenant(r)

\* start_workflow_run
Start(r) ==
    /\ run[r].state = "queued"
    /\ ActorMayWrite(r)
    /\ Open(ProjectOf[r])
    /\ AtFrozenRevision(r)
    /\ TenantFree(r)
    /\ run' = [run EXCEPT ![r].state = "running"]
    /\ events' = [events EXCEPT ![r] = <<[kind |-> "started", attempt |-> 1]>>]
    /\ UNCHANGED <<draft, project, holder, active, tx, worker>>

\* The Run already has a result that outlives it.
DurableOutcome(r) == run[r].noop \/ draft[r].status \in {"validated", "applied"}

\* cancel_workflow_run: the actor takes the Run, and its claim, away at any time.
Cancel(r) ==
    /\ run[r].state \in {"queued", "running"}
    /\ tx[r] = Idle
    /\ ActorMayWrite(r)
    /\ Open(ProjectOf[r])
    /\ ~DurableOutcome(r)
    /\ run' = [run EXCEPT ![r] = Closed(run[r], "cancelled")]
    /\ events' = [events EXCEPT ![r] = Log(r, "cancelled", MaxAttempt(r))]
    /\ UNCHANGED <<draft, project, holder, active, tx, worker>>

\* DatabaseWorkflowDraftApplyService.apply: materialize the validated draft of
\* a completed Run; only a draft with actions advances the Project revision.
ApplyDraft(r, changed) ==
    /\ run[r].state \in Completed
    /\ ActorMayWrite(r)
    /\ Open(ProjectOf[r])
    /\ draft[r].status = "validated"
    /\ draft[r].left > 0
    /\ AtBaseRevision(r)
    /\ Revision(r) + changed <= MaxRevision
    /\ project' = [project EXCEPT ![ProjectOf[r]].revision = @ + changed]
    /\ draft' = [draft EXCEPT ![r].status = "applied", ![r].left = 0,
                              ![r].result = Revision(r) + changed]
    /\ UNCHANGED <<run, events, holder, active, tx, worker>>

-----------------------------------------------------------------------------
(* Claims of the workers. *)

\* Rows another transaction has locked are skipped (FOR UPDATE SKIP LOCKED).
ClaimableLocked(r) == Running(r)                                    \* mutant
ClaimableAnyState(r) == run[r].state # "absent" /\ tx[r] = Idle     \* mutant
Claimable(r) == Running(r) /\ tx[r] = Idle

\* The startup guards: the owner must still exist; at pickup and recovery the
\* Project must be at the frozen revision and the owner allowed to write.
Invalid ==
    {r \in Runs : /\ Claimable(r)
                  /\ \/ project[ProjectOf[r]].state = "archived"
                     \/ run[r].actor \notin active
                     \/ ClaimDue(r) /\ (~AtFrozenRevision(r) \/ ~ActorMayWrite(r))}

\* A lapsed claim that has used up its recoveries.
Exhausted ==
    {r \in Runs \ Invalid : /\ Claimable(r)
                            /\ run[r].claim # 0 /\ run[r].left = 0
                            /\ ~RecoveryLeft(r)}

Candidates ==
    {r \in Runs \ Invalid : /\ Claimable(r)
                            /\ ClaimDue(r)
                            /\ run[r].claim # 0 => RecoveryLeft(r)}

\* The oldest candidate, if any.
Chosen == {r \in Candidates : \A q \in Candidates : r <= q}

\* Replacing a claim counts as a recovery, taking a Run without one does not.
ClaimedUncounted(row) ==   \* mutant: the recovery is not counted
    [row EXCEPT !.claim = row.claims + 1, !.claims = row.claims + 1, !.left = Lease]
Claimed(row) ==
    [row EXCEPT !.claim = row.claims + 1, !.claims = row.claims + 1, !.left = Lease,
                !.recoveries = IF row.claim # 0 THEN @ + 1 ELSE @]

\* claim_workflow_run: fail the invalid and the exhausted Runs and claim the
\* oldest candidate, all in one statement.
ClaimNext(w) ==
    /\ worker[w] = Idle
    /\ Invalid \cup Exhausted \cup Candidates # {}
    /\ run' = [r \in Runs |-> IF r \in Invalid \cup Exhausted THEN Closed(run[r], "failed")
                              ELSE IF r \in Chosen THEN Claimed(run[r]) ELSE run[r]]
    /\ events' = [r \in Runs |-> IF r \in Invalid \cup Exhausted
                                 THEN Log(r, "failed", MaxAttempt(r)) ELSE events[r]]
    /\ \/ Chosen = {} /\ UNCHANGED worker
       \/ \E r \in Chosen :
              worker' = [worker EXCEPT ![w] =
                            [run |-> r, token |-> run[r].claims + 1, next |-> 2]]
    /\ UNCHANGED <<draft, project, holder, active, tx>>

\* Worker w executes a claim of Run r that the row still carries and whose
\* lease has not lapsed; the row is free.
HoldsLiveClaim(w, r) ==
    /\ worker[w] # Idle /\ worker[w].run = r
    /\ Running(r) /\ tx[r] = Idle
    /\ run[r].claim = worker[w].token
    /\ run[r].left > 0

\* renew_workflow_run_claim, from the heartbeat task.
Renew(w, r) ==
    /\ HoldsLiveClaim(w, r)
    /\ Open(ProjectOf[r])
    /\ run' = [run EXCEPT ![r].left = Lease]
    /\ UNCHANGED <<events, draft, project, holder, active, tx, worker>>

\* release_workflow_run_claim, on graceful shutdown: the recovery count stays.
Release(w, r) ==
    /\ HoldsLiveClaim(w, r)
    /\ Open(ProjectOf[r])
    /\ run[r].releases < MaxReleases
    /\ run' = [run EXCEPT ![r].claim = 0, ![r].left = 0, ![r].releases = @ + 1]
    /\ worker' = [worker EXCEPT ![w] = Idle]
    /\ UNCHANGED <<events, draft, project, holder, active, tx>>

\* The execution ends: it returned, failed without closing the Run, lost its
\* claim and was cancelled, or the process died.  The claim is left to lapse
\* and an open transaction is rolled back.
EndExecution(w) ==
    /\ worker[w] # Idle
    /\ worker' = [worker EXCEPT ![w] = Idle]
    /\ tx' = [r \in Runs |-> IF tx[r] = w THEN Idle ELSE tx[r]]
    /\ UNCHANGED <<run, events, draft, project, holder, active>>

-----------------------------------------------------------------------------
(* Write transactions of a worker. *)

\* assert_workflow_run_claim: lock the row, then check the claim.
BeginWrite(w, r) ==
    /\ HoldsLiveClaim(w, r)
    /\ tx' = [tx EXCEPT ![r] = w]
    /\ UNCHANGED <<run, events, draft, project, holder, active, worker>>

\* Any later refusal rolls the transaction back.
Rollback(w, r) ==
    /\ tx[r] = w
    /\ tx' = [tx EXCEPT ![r] = Idle]
    /\ UNCHANGED <<run, events, draft, project, holder, active, worker>>

\* What every write checks again before it commits; the lease is not rechecked.
MayCommit(w, r) ==
    /\ tx[r] = w
    /\ ActorMayWrite(r)
    /\ Open(ProjectOf[r])
    /\ AtFrozenRevision(r)

Commit(r) ==
    /\ tx' = [tx EXCEPT ![r] = Idle]
    /\ UNCHANGED <<project, holder, active>>

\* append_workflow_run_event: a new event takes the next sequence; a sequence
\* already taken is answered when the event is the same and refused otherwise.
AppendEvent(w, r, attempt) ==
    /\ MayCommit(w, r)
    /\ LET n == worker[w].next
           e == [kind |-> "progress", attempt |-> attempt]
       IN  \/ /\ n \in 1..Len(events[r]) /\ events[r][n] = e
              /\ UNCHANGED events
           \/ /\ n = Len(events[r]) + 1 /\ Len(events[r]) < MaxEvents
              /\ events' = [events EXCEPT ![r] = Append(@, e)]
    /\ worker' = [worker EXCEPT ![w].next = @ + 1]
    /\ Commit(r)
    /\ UNCHANGED <<run, draft>>

\* WorkflowChangeSetHandoff.finalize: stage and validate the draft, append the
\* final event and complete the Run, atomically.
Finalize(w, r, attempt) ==
    /\ MayCommit(w, r)
    /\ draft[r].status = "none"
    /\ worker[w].next = Len(events[r]) + 1
    /\ draft' = [draft EXCEPT ![r] = [status |-> "validated", base |-> Revision(r),
                                      left |-> DraftLife, result |-> 0]]
    /\ LET last == Larger(attempt, MaxAttempt(r))
       IN  /\ run' = [run EXCEPT ![r] = Closed(run[r], CompletedState(last))]
           /\ events' = [events EXCEPT ![r] =
                  Append(Log(r, "backend_validation", attempt),
                         [kind |-> "completed", attempt |-> last])]
    /\ Commit(r)
    /\ UNCHANGED worker

\* fail_workflow_run
CloseFailed(r) ==
    /\ ~DurableOutcome(r)
    /\ run' = [run EXCEPT ![r] = Closed(run[r], "failed")]
    /\ events' = [events EXCEPT ![r] = Log(r, "failed", MaxAttempt(r))]

\* WorkflowChangeSetHandoff.retain_failed_candidate: keep the rejected draft
\* and fail the Run, atomically.
RetainFailedCandidate(w, r) ==
    /\ MayCommit(w, r)
    /\ draft[r].status = "none"
    /\ draft' = [draft EXCEPT ![r] = [status |-> "active", base |-> Revision(r),
                                      left |-> DraftLife, result |-> 0]]
    /\ CloseFailed(r)
    /\ Commit(r)
    /\ UNCHANGED worker

\* WorkflowLifecycle.fail
Fail(w, r) ==
    /\ MayCommit(w, r)
    /\ CloseFailed(r)
    /\ Commit(r)
    /\ UNCHANGED <<draft, worker>>

\* complete_authoring_workflow_run_no_op: the result is "nothing to change".
CompleteNoOp(w, r, attempt) ==
    /\ MayCommit(w, r)
    /\ draft[r].status = "none"
    /\ worker[w].next = Len(events[r]) + 1
    /\ attempt >= MaxAttempt(r)
    /\ run' = [run EXCEPT ![r] = [Closed(run[r], CompletedState(attempt)) EXCEPT !.noop = TRUE]]
    /\ events' = [events EXCEPT ![r] = Log(r, "backend_validation", attempt)]
    /\ Commit(r)
    /\ UNCHANGED <<draft, worker>>

-----------------------------------------------------------------------------
(* The surroundings of the Runs. *)

\* Another change of the Project by the Principal that may write (apply_project_change_set
\* and the editors): the running Run is not consulted.
EditProject(p) ==
    /\ \E a \in Actors : Authorized(a, TenantOf[p])
    /\ Open(p)
    /\ project[p].revision < MaxRevision
    /\ project' = [project EXCEPT ![p].revision = @ + 1]
    /\ UNCHANGED <<run, events, draft, holder, active, tx, worker>>

\* set_project_lock, with the check of guard_project_write.
SetProjectLock(p) ==
    /\ \E a \in Actors : Authorized(a, TenantOf[p])
    /\ project[p].revision < MaxRevision
    /\ \/ /\ project[p].state = "open"
          /\ \A r \in Runs : ProjectOf[r] = p => run[r].state \notin {"queued", "running"}
          /\ project' = [project EXCEPT ![p] = [revision |-> @.revision + 1, state |-> "locked"]]
       \/ /\ project[p].state = "locked"
          /\ project' = [project EXCEPT ![p] = [revision |-> @.revision + 1, state |-> "open"]]
    /\ UNCHANGED <<run, events, draft, holder, active, tx, worker>>

\* archive_project
ArchiveProject(p) ==
    /\ \E a \in Actors : Authorized(a, TenantOf[p])
    /\ Open(p)
    /\ project[p].revision < MaxRevision
    /\ \A r \in Runs : Running(r) => Tenant(r) # TenantOf[p]
    /\ project' = [project EXCEPT ![p] = [revision |-> @.revision + 1, state |-> "archived"]]
    /\ UNCHANGED <<run, events, draft, holder, active, tx, worker>>

\* The Tenant Lock or the roles change hands (module TenantLock says how).
ChangeHolder(t) ==
    /\ holder' \in [Tenants -> Actors \cup {Nobody}]
    /\ \A u \in Tenants \ {t} : holder'[u] = holder[u]
    /\ UNCHANGED <<run, events, draft, project, active, tx, worker>>

\* A Principal or its identity is deactivated.
Deactivate(a) ==
    /\ a \in active
    /\ active' = active \ {a}
    /\ UNCHANGED <<run, events, draft, project, holder, tx, worker>>

Down(n) == IF n > 0 THEN n - 1 ELSE 0

Tick ==
    /\ \E r \in Runs : run[r].left > 0 \/ draft[r].left > 0
    /\ run' = [r \in Runs |-> [run[r] EXCEPT !.left = Down(@)]]
    /\ draft' = [r \in Runs |-> [draft[r] EXCEPT !.left = Down(@)]]
    /\ UNCHANGED <<events, project, holder, active, tx, worker>>

-----------------------------------------------------------------------------

Command(r) ==
    \/ \E a \in Actors : Create(r, a)
    \/ Start(r)
    \/ Cancel(r)
    \/ \E changed \in {0, 1} : ApplyDraft(r, changed)

Write(w, r) ==
    \/ BeginWrite(w, r)
    \/ Rollback(w, r)
    \/ \E attempt \in Attempts :
           AppendEvent(w, r, attempt) \/ Finalize(w, r, attempt) \/ CompleteNoOp(w, r, attempt)
    \/ RetainFailedCandidate(w, r)
    \/ Fail(w, r)

WorkerStep(w) ==
    \/ ClaimNext(w)
    \/ EndExecution(w)
    \/ \E r \in Runs : Renew(w, r) \/ Release(w, r) \/ Write(w, r)

Surroundings ==
    \/ \E p \in Projects : EditProject(p) \/ SetProjectLock(p) \/ ArchiveProject(p)
    \/ \E t \in Tenants : ChangeHolder(t)
    \/ \E a \in Actors : Deactivate(a)

Next ==
    \/ \E r \in Runs : Command(r)
    \/ \E w \in Workers : WorkerStep(w)
    \/ Surroundings
    \/ Tick

Spec == Init /\ [][Next]_vars

\* Time passes, some worker polls for claims, and every execution ends:
\* agents have turn limits, requests and statements have timeouts.
FairSpec ==
    /\ Spec
    /\ WF_vars(Tick)
    /\ WF_vars(\E w \in Workers : ClaimNext(w))
    /\ \A w \in Workers : WF_vars(EndExecution(w))

-----------------------------------------------------------------------------
(* Properties. *)

\* An open write transaction belongs to the execution whose claim the row
\* carries, however long ago its lease lapsed: a worker that lost its claim
\* (recovery, release, cancellation, failure) has no way to write.
WriterHoldsClaim ==
    \A r \in Runs : tx[r] # Idle =>
        /\ Running(r)
        /\ worker[tx[r]] # Idle
        /\ worker[tx[r]].run = r
        /\ worker[tx[r]].token = run[r].claim

\* At most one Run of a Tenant runs, its Project is open, and a locked Project
\* has no queued Run that its unlocking could leave behind.
RunningInOpenProject ==
    \A r \in Runs :
        /\ Running(r) => /\ Open(ProjectOf[r])
                         /\ \A q \in Runs \ {r} : Running(q) => Tenant(q) # Tenant(r)
        /\ run[r].state = "queued" => project[ProjectOf[r]].state # "locked"

EndKinds == {"completed", "failed", "cancelled"}

\* The event that closes the log of a Run in a terminal state.
EndKind(r) ==
    IF run[r].noop THEN "backend_validation"
    ELSE IF run[r].state \in Completed THEN "completed" ELSE run[r].state

\* The event log tells the Run's history: nothing before the start, one end,
\* nothing after the end, and a repair exactly when some event is of a later
\* attempt, also when several executions contributed to the log.
LogAgreesWithState ==
    \A r \in Runs :
        LET log == events[r]
            N   == Len(log)
        IN  /\ run[r].state \in {"absent", "queued"} => log = <<>>
            /\ Running(r) => N > 0 /\ log[N].kind \notin EndKinds \cup {"backend_validation"}
            /\ run[r].state \in Terminal => N > 0 /\ log[N].kind = EndKind(r)
            /\ \A i \in 1..N : /\ log[i].kind = "started" => i = 1
                               /\ log[i].kind \in EndKinds => i = N
                               /\ log[i].kind = "backend_validation" =>
                                      run[r].state \in Completed
            /\ run[r].state \in Completed =>
                   (run[r].state = "completed_with_repair") =
                       (\E i \in 1..N : log[i].attempt > 1)

\* What a Run leaves behind agrees with how it ended: a draft that can be
\* applied comes from a completed Run and was validated at the frozen
\* revision, a retained one from a failed Run, a no-op and a cancelled Run
\* leave none.
DraftAgreesWithRun ==
    \A r \in Runs :
        /\ draft[r].status \in {"validated", "applied"} <=>
               run[r].state \in Completed /\ ~run[r].noop
        /\ draft[r].status = "active" => run[r].state = "failed"
        /\ draft[r].status # "none" => draft[r].base = run[r].frozen

\* Two drafts that changed the Project were never applied to the same
\* revision: neither overwrites what the other was not validated against.
NoLostUpdate ==
    \A r, q \in Runs :
        /\ r # q /\ ProjectOf[r] = ProjectOf[q]
        /\ \A s \in {r, q} : draft[s].status = "applied" /\ draft[s].result > draft[s].base
        => draft[r].base # draft[q].base

\* Every claim after a Run's first is paid for by a recovery or by a graceful
\* release, so lapsed leases cannot be replayed beyond the recovery limit.
RecoveriesCounted ==
    \A r \in Runs :
        LET paid == run[r].recoveries + run[r].releases
        IN  /\ run[r].state \notin Terminal =>
                   run[r].claims = IF run[r].claim = 0 THEN paid ELSE paid + 1
            /\ run[r].claims <= paid + 1
            /\ run[r].claim # 0 => run[r].claim = run[r].claims

\* What the trigger guard_workflow_run accepts as an update of a row.
GuardAllows(old, new) ==
    /\ old.state # "absent" => new.actor = old.actor /\ new.frozen = old.frozen
    /\ old.state \in Terminal => new = old
    /\ old.state = "running" /\ new.state = "running" =>
           /\ new.noop = old.noop
           /\ new.recoveries \in {old.recoveries, old.recoveries + 1}
           /\ new.recoveries = old.recoveries + 1 =>
                  old.claim # 0 /\ new.claim \notin {0, old.claim} /\ old.left = 0
           /\ new.recoveries = old.recoveries => 0 \in {old.claim, new.claim}
                                                 \/ new.claim = old.claim
    /\ old.state # new.state =>
           \/ old.state = "absent" /\ new.state = "queued"
           \/ old.state = "queued" /\ new.state = "running"
           \/ old.state \in {"queued", "running"} /\ new.state = "cancelled"
           \/ old.state = "running" /\ new.state \in Completed \cup {"failed"}

\* No update of a Run is one its trigger refuses; in particular a live claim is
\* never handed to another worker and a terminal Run never changes.
GuardNeverFires == [][\A r \in Runs : GuardAllows(run[r], run'[r])]_vars

\* A running Run does not stay running: whatever its workers do, some claim
\* ends it or the recoveries run out.
RunsEnd == \A r \in Runs : Running(r) ~> run[r].state \in Terminal

-----------------------------------------------------------------------------
(* What a Run promises its owner. *)

Phase(r) == CASE run[r].state = "absent"     -> "unmade"
              [] run[r].state = "queued"     -> "waiting"
              [] run[r].state = "running"    -> "working"
              [] run[r].state \in Completed  -> "done"
              [] OTHER                       -> run[r].state

Offer(r) == CASE draft[r].status = "none"      -> "none"
              [] draft[r].status = "active"    -> "rejected"
              [] draft[r].status = "validated" -> "ready"
              [] draft[r].status = "applied"   -> "taken"

Outcome == INSTANCE RunOutcome WITH
    Domain <- [r \in Runs |-> Tenant(r)],
    phase  <- [r \in Runs |-> Phase(r)],
    logged <- [r \in Runs |-> Len(events[r])],
    offer  <- [r \in Runs |-> Offer(r)]

\* Claims, leases, recoveries and transactions implement the contract of
\* RunOutcome.
ImplementsRunOutcome == Outcome!Spec
=============================================================================
