-------------------------- MODULE WorkflowRunProofs --------------------------
(***************************************************************************)
(* For any Runs, workers, leases and limits: the types, and that a worker  *)
(* writes only for the claim the Run carries.                              *)
(***************************************************************************)
EXTENDS WorkflowRun, WellFoundedInduction, TLAPS

\* The bounds of the types.
LEMMA Bounds ==
    /\ MaxAttempts \in Nat /\ 1 \in Attempts
    /\ 0 \in 0..Lease /\ Lease \in 0..Lease /\ 0 \in 0..DraftLife /\ DraftLife \in 0..DraftLife
    /\ MaxRecoveries \in Nat
    /\ ProjectOf \in [Runs -> Projects] /\ TenantOf \in [Projects -> Tenants]
    /\ 0 \in Nat /\ 2 \in Nat /\ Nobody \notin Actors /\ Idle \notin Workers
  BY ConstantsAssumption DEF Attempts

\* Every nonempty set of numbers up to N has a greatest element.
LEMMA Greatest ==
    ASSUME NEW N \in Nat, NEW S \in SUBSET (1..N), S # {}
    PROVE  \E a \in S : \A b \in S : b <= a
  <1> DEFINE less == OpToRel(<, Nat)
             T    == {n \in Nat : \E a \in S : n + a = N}
  <1>1. T # {}
    <2>1. PICK a \in S : TRUE
      OBVIOUS
    <2>2. N - a \in Nat /\ (N - a) + a = N
      OBVIOUS
    <2>3. QED
      BY <2>2
  <1>2. PICK least \in T : \A n \in T : <<n, least>> \notin less
    <2>1. IsWellFoundedOn(less, Nat)
      BY NatLessThanWellFounded
    <2>2. T \subseteq Nat
      OBVIOUS
    <2> HIDE DEF less, T
    <2>3. QED
      BY <1>1, <2>1, <2>2, WFMin
  <1>3. PICK a \in S : least + a = N
    OBVIOUS
  <1>4. ASSUME NEW b \in S
        PROVE  b <= a
    <2>1. N - b \in Nat /\ (N - b) + b = N
      OBVIOUS
    <2>2. N - b \in T
      BY <2>1
    <2>3. ~ (N - b < least)
      BY <1>2, <2>2 DEF OpToRel
    <2>4. least \in Nat /\ a \in Nat /\ b \in Nat
      OBVIOUS
    <2>5. QED
      BY <1>3, <2>3, <2>4
  <1>5. QED
    BY <1>4

\* The greatest attempt of a log is an attempt, and none of its events has a greater one.
LEMMA MaxAttemptIsGreatest ==
    ASSUME TypeOK, NEW r \in Runs
    PROVE  /\ MaxAttempt(r) \in Attempts
           /\ \A i \in 1..Len(events[r]) : events[r][i].attempt <= MaxAttempt(r)
  <1> DEFINE S == {events[r][i].attempt : i \in 1..Len(events[r])}
  <1>1. events[r] \in Seq(Event)
    BY DEF TypeOK
  <1>2. CASE events[r] = <<>>
    BY <1>2, Bounds DEF MaxAttempt
  <1>3. CASE events[r] # <<>>
    <2>1. Len(events[r]) \in Nat \ {0}
      BY <1>1, <1>3
    <2>2. S # {} /\ S \in SUBSET (1..MaxAttempts)
      <3>1. \A i \in 1..Len(events[r]) : events[r][i] \in Event
        BY <1>1
      <3>2. \A i \in 1..Len(events[r]) : events[r][i].attempt \in 1..MaxAttempts
        BY <3>1 DEF Event, Attempts
      <3>3. 1 \in 1..Len(events[r])
        BY <2>1
      <3>4. QED
        BY <3>2, <3>3
    <2>3. \E a \in S : \A b \in S : b <= a
      BY <2>2, Bounds, Greatest
    <2>4. \E a \in S : \A i \in 1..Len(events[r]) : events[r][i].attempt <= a
      BY <2>3
    <2>5. MaxAttempt(r) \in S /\ \A i \in 1..Len(events[r]) : events[r][i].attempt <= MaxAttempt(r)
      BY <1>3, <2>4 DEF MaxAttempt
    <2>6. QED
      BY <2>2, <2>5 DEF Attempts
  <1>4. QED
    BY <1>2, <1>3

\* The rows of a well-typed state.
LEMMA RowTypes ==
    ASSUME TypeOK, NEW r \in Runs
    PROVE  /\ run[r] \in Run /\ events[r] \in Seq(Event) /\ draft[r] \in Draft
           /\ project[ProjectOf[r]] \in Project /\ Revision(r) \in Nat
           /\ run[r].frozen \in Nat /\ run[r].claims \in Nat
  <1>1. project[ProjectOf[r]] \in Project
    BY Bounds DEF TypeOK
  <1>2. Revision(r) \in Nat
    BY <1>1 DEF Revision, Project
  <1>3. run[r] \in Run
    BY DEF TypeOK
  <1>4. run[r].frozen \in Nat /\ run[r].claims \in Nat
    BY <1>3 DEF Run
  <1>5. QED
    BY <1>1, <1>2, <1>3, <1>4 DEF TypeOK

\* A log with one more event is a log.
LEMMA LogType ==
    ASSUME TypeOK, NEW r \in Runs, NEW kind \in EventKinds, NEW a \in Attempts
    PROVE  Log(r, kind, a) \in Seq(Event)
  <1>1. [kind |-> kind, attempt |-> a] \in Event
    BY DEF Event
  <1>2. QED
    BY <1>1, RowTypes DEF Log

\* A row that is closed in a terminal state is a row.
LEMMA ClosedType ==
    ASSUME NEW row \in Run, NEW state \in Terminal
    PROVE  Closed(row, state) \in Run
  BY Bounds DEF Closed, Run, States, Terminal

\* create_workflow_run keeps the types.
LEMMA CreateTypes ==
    ASSUME TypeOK, NEW r \in Runs, NEW a \in Actors, Create(r, a)
    PROVE  TypeOK'
  <1>1. [run[r] EXCEPT !.state = "queued", !.actor = a, !.frozen = Revision(r)] \in Run
    BY RowTypes DEF Run, States
  <1>2. QED
    BY <1>1, Bounds DEF TypeOK, Create

\* start_workflow_run keeps the types.
LEMMA StartTypes ==
    ASSUME TypeOK, NEW r \in Runs, Start(r)
    PROVE  TypeOK'
  <1>1. [run[r] EXCEPT !.state = "running"] \in Run
    BY RowTypes DEF Run, States
  <1>2. [kind |-> "started", attempt |-> 1] \in Event
    BY Bounds DEF Event, EventKinds
  <1>3. QED
    BY <1>1, <1>2, Bounds DEF TypeOK, Start

\* cancel_workflow_run keeps the types.
LEMMA CancelTypes ==
    ASSUME TypeOK, NEW r \in Runs, Cancel(r)
    PROVE  TypeOK'
  <1>1. Closed(run[r], "cancelled") \in Run
    BY ClosedType DEF TypeOK, Terminal
  <1>2. Log(r, "cancelled", MaxAttempt(r)) \in Seq(Event)
    BY MaxAttemptIsGreatest, LogType DEF EventKinds
  <1>3. QED
    BY <1>1, <1>2, Bounds DEF TypeOK, Cancel

\* Applying a draft keeps the types.
LEMMA ApplyDraftTypes ==
    ASSUME TypeOK, NEW r \in Runs, NEW changed \in {0, 1}, ApplyDraft(r, changed)
    PROVE  TypeOK'
  <1>1. Revision(r) + changed \in Nat
    BY RowTypes
  <1>2. [draft[r] EXCEPT !.status = "applied", !.left = 0, !.result = Revision(r) + changed] \in Draft
    BY <1>1, RowTypes, Bounds DEF Draft
  <1>3. [project[ProjectOf[r]] EXCEPT !.revision = @ + changed] \in Project
    BY <1>1, RowTypes DEF Project, Revision
  <1>4. QED
    BY <1>2, <1>3 DEF TypeOK, ApplyDraft

\* claim_workflow_run keeps the types; a candidate has a recovery left, so its count stays within the limit.
LEMMA ClaimNextTypes ==
    ASSUME TypeOK, NEW w \in Workers, ClaimNext(w)
    PROVE  TypeOK'
  <1>1. ASSUME NEW r \in Runs
        PROVE  Closed(run[r], "failed") \in Run /\ Log(r, "failed", MaxAttempt(r)) \in Seq(Event)
    BY ClosedType, MaxAttemptIsGreatest, LogType DEF TypeOK, Terminal, EventKinds
  <1>2. ASSUME NEW r \in Chosen
        PROVE  Claimed(run[r]) \in Run /\ [run |-> r, token |-> run[r].claims + 1, next |-> 2] \in Execution
    <2>1. r \in Runs /\ (run[r].claim # 0 => run[r].recoveries < MaxRecoveries)
      BY DEF Chosen, Candidates, RecoveryLeft
    <2>2. run[r] \in Run
      BY <2>1 DEF TypeOK
    <2>3. run[r].recoveries \in 0..MaxRecoveries /\ run[r].claims \in Nat /\ Lease \in 0..Lease
      BY <2>2, Bounds DEF Run
    <2>4. (IF run[r].claim # 0 THEN run[r].recoveries + 1 ELSE run[r].recoveries) \in 0..MaxRecoveries
      BY <2>1, <2>3, Bounds
    <2>5. Claimed(run[r]) \in Run
      <3> DEFINE c == run[r].claims + 1
                 n == IF run[r].claim # 0 THEN run[r].recoveries + 1 ELSE run[r].recoveries
      <3>1. Claimed(run[r]) = [run[r] EXCEPT !.claim = c, !.claims = c, !.left = Lease, !.recoveries = n]
        BY DEF Claimed
      <3>2. c \in Nat /\ n \in 0..MaxRecoveries
        BY <2>3, <2>4
      <3> HIDE DEF c, n
      <3>3. QED
        BY <2>2, <3>1, <3>2, Bounds DEF Run
    <2>6. QED
      BY <2>1, <2>3, <2>5, Bounds DEF Execution
  <1>3. run' \in [Runs -> Run]
    BY <1>1, <1>2 DEF ClaimNext, TypeOK
  <1>4. events' \in [Runs -> Seq(Event)]
    BY <1>1 DEF ClaimNext, TypeOK
  <1>5. worker' \in [Workers -> Execution \cup {Idle}]
    BY <1>2 DEF ClaimNext, TypeOK
  <1>6. QED
    BY <1>3, <1>4, <1>5 DEF ClaimNext, TypeOK

\* renew_workflow_run_claim keeps the types.
LEMMA RenewTypes ==
    ASSUME TypeOK, NEW w \in Workers, NEW r \in Runs, Renew(w, r)
    PROVE  TypeOK'
  <1>1. [run[r] EXCEPT !.left = Lease] \in Run
    BY RowTypes, Bounds DEF Run
  <1>2. QED
    BY <1>1, Bounds DEF TypeOK, Renew

\* release_workflow_run_claim keeps the types.
LEMMA ReleaseTypes ==
    ASSUME TypeOK, NEW w \in Workers, NEW r \in Runs, Release(w, r)
    PROVE  TypeOK'
  <1>1. [run[r] EXCEPT !.claim = 0, !.left = 0, !.releases = @ + 1] \in Run
    <2>1. run[r] \in Run /\ run[r].releases + 1 \in Nat
      BY RowTypes DEF Run
    <2>2. QED
      BY <2>1, Bounds DEF Run
  <1>2. QED
    BY <1>1, Bounds DEF TypeOK, Release

\* Opening and rolling back a transaction, and ending an execution, keep the types.
LEMMA TransactionTypes ==
    ASSUME TypeOK, NEW w \in Workers, NEW r \in Runs,
           EndExecution(w) \/ BeginWrite(w, r) \/ Rollback(w, r)
    PROVE  TypeOK'
  BY Bounds DEF TypeOK, EndExecution, BeginWrite, Rollback

\* The end of a transaction.
LEMMA CommitTypes ==
    ASSUME TypeOK, NEW r \in Runs, Commit(r)
    PROVE  /\ tx' \in [Runs -> Workers \cup {Idle}]
           /\ project' \in [Projects -> Project]
           /\ holder' \in [Tenants -> Actors \cup {Nobody}]
           /\ active' \subseteq Actors
  BY Bounds DEF TypeOK, Commit

\* The rows and events of fail_workflow_run have their types.
LEMMA FailureTypes ==
    ASSUME TypeOK, NEW r \in Runs, CloseFailed(r)
    PROVE  run' \in [Runs -> Run] /\ events' \in [Runs -> Seq(Event)]
  <1>1. Closed(run[r], "failed") \in Run
    BY RowTypes, ClosedType DEF Terminal
  <1>2. Log(r, "failed", MaxAttempt(r)) \in Seq(Event)
    BY MaxAttemptIsGreatest, LogType DEF EventKinds
  <1>3. QED
    BY <1>1, <1>2 DEF TypeOK, CloseFailed

\* The execution that has a transaction open.
LEMMA WriterExecutes ==
    ASSUME TypeOK, WriterHoldsClaim, NEW w \in Workers, NEW r \in Runs, tx[r] = w
    PROVE  /\ worker[w] \in Execution /\ worker[w].run = r
           /\ worker[w].next \in Nat /\ Running(r)
  <1>1. worker[w] # Idle /\ worker[w].run = r /\ Running(r)
    BY Bounds DEF WriterHoldsClaim
  <1>2. worker[w] \in Execution
    BY <1>1 DEF TypeOK
  <1>3. QED
    BY <1>1, <1>2 DEF Execution

\* append_workflow_run_event keeps the types.
LEMMA AppendEventTypes ==
    ASSUME TypeOK, WriterHoldsClaim,
           NEW w \in Workers, NEW r \in Runs, NEW a \in Attempts, AppendEvent(w, r, a)
    PROVE  TypeOK'
  <1>1. Append(events[r], [kind |-> "progress", attempt |-> a]) \in Seq(Event)
    BY LogType DEF EventKinds, Log
  <1>2. events' \in [Runs -> Seq(Event)]
    BY <1>1 DEF TypeOK, AppendEvent
  <1>3. worker' \in [Workers -> Execution \cup {Idle}]
    <2>1. worker[w] \in Execution /\ worker[w].next \in Nat
      BY WriterExecutes DEF AppendEvent, MayCommit
    <2>2. [worker[w] EXCEPT !.next = @ + 1] \in Execution
      BY <2>1 DEF Execution
    <2>3. worker' = [worker EXCEPT ![w] = [worker[w] EXCEPT !.next = @ + 1]]
      BY DEF AppendEvent
    <2>4. QED
      BY <2>2, <2>3 DEF TypeOK
  <1>4. run' = run /\ draft' = draft
    BY DEF AppendEvent
  <1>5. QED
    BY <1>2, <1>3, <1>4, CommitTypes DEF TypeOK, AppendEvent

\* A draft that a worker leaves.
LEMMA NewDraftTypes ==
    ASSUME TypeOK, NEW r \in Runs, NEW status \in {"active", "validated"},
           draft' = [draft EXCEPT ![r] = [status |-> status, base |-> Revision(r),
                                          left |-> DraftLife, result |-> 0]]
    PROVE  draft' \in [Runs -> Draft]
  <1>1. [status |-> status, base |-> Revision(r), left |-> DraftLife, result |-> 0] \in Draft
    BY RowTypes, Bounds DEF Draft
  <1>2. QED
    BY <1>1 DEF TypeOK

\* The atomic finalization keeps the types.
LEMMA FinalizeTypes ==
    ASSUME TypeOK, NEW w \in Workers, NEW r \in Runs, NEW a \in Attempts, Finalize(w, r, a)
    PROVE  TypeOK'
  <1> DEFINE last == Larger(a, MaxAttempt(r))
             log  == Append(Log(r, "backend_validation", a),
                            [kind |-> "completed", attempt |-> last])
  <1>1. last \in Attempts
    BY MaxAttemptIsGreatest DEF Larger
  <1>2. [kind |-> "completed", attempt |-> last] \in Event
    BY <1>1 DEF Event, EventKinds
  <1>3. log \in Seq(Event)
    <2>1. Log(r, "backend_validation", a) \in Seq(Event)
      BY LogType DEF EventKinds
    <2> HIDE DEF last
    <2>2. QED
      BY <2>1, <1>2
  <1>4. Closed(run[r], CompletedState(last)) \in Run
    BY RowTypes, ClosedType DEF CompletedState, Terminal, Completed
  <1>5. /\ run' = [run EXCEPT ![r] = Closed(run[r], CompletedState(last))]
        /\ events' = [events EXCEPT ![r] = log]
        /\ Commit(r) /\ worker' = worker
    BY DEF Finalize
  <1>6. draft' \in [Runs -> Draft]
    BY NewDraftTypes DEF Finalize
  <1> HIDE DEF last, log
  <1>7. QED
    BY <1>3, <1>4, <1>5, <1>6, CommitTypes DEF TypeOK

\* Failing a Run, with or without a retained candidate, keeps the types.
LEMMA FailTypes ==
    ASSUME TypeOK, NEW w \in Workers, NEW r \in Runs,
           Fail(w, r) \/ RetainFailedCandidate(w, r)
    PROVE  TypeOK'
  <1>1. CloseFailed(r) /\ Commit(r) /\ worker' = worker
    BY DEF Fail, RetainFailedCandidate
  <1>2. draft' \in [Runs -> Draft]
    BY NewDraftTypes DEF TypeOK, Fail, RetainFailedCandidate
  <1>3. QED
    BY <1>1, <1>2, CommitTypes, FailureTypes DEF TypeOK

\* A no-op completion keeps the types.
LEMMA CompleteNoOpTypes ==
    ASSUME TypeOK, NEW w \in Workers, NEW r \in Runs, NEW a \in Attempts, CompleteNoOp(w, r, a)
    PROVE  TypeOK'
  <1> DEFINE row == Closed(run[r], CompletedState(a))
  <1>1. row \in Run
    BY RowTypes, ClosedType DEF CompletedState, Terminal, Completed
  <1>2. [row EXCEPT !.noop = TRUE] \in Run
    <2> HIDE DEF row
    <2>1. QED
      BY <1>1 DEF Run
  <1>3. Log(r, "backend_validation", a) \in Seq(Event)
    BY LogType DEF EventKinds
  <1>4. QED
    BY <1>2, <1>3, CommitTypes DEF TypeOK, CompleteNoOp

\* Changes of Projects, locks and Principals keep the types.
LEMMA SurroundingsTypes ==
    ASSUME TypeOK, Surroundings
    PROVE  TypeOK'
  <1>1. ASSUME NEW p \in Projects, EditProject(p) \/ SetProjectLock(p) \/ ArchiveProject(p)
        PROVE  TypeOK'
    <2>1. project[p] \in Project /\ project[p].revision + 1 \in Nat
      BY DEF TypeOK, Project
    <2>2. /\ [project[p] EXCEPT !.revision = @ + 1] \in Project
          /\ \A s \in {"open", "locked", "archived"} :
                [revision |-> project[p].revision + 1, state |-> s] \in Project
      BY <2>1 DEF Project
    <2>3. project' \in [Projects -> Project]
      BY <1>1, <2>2 DEF TypeOK, EditProject, SetProjectLock, ArchiveProject
    <2>4. QED
      BY <1>1, <2>3 DEF TypeOK, EditProject, SetProjectLock, ArchiveProject
  <1>2. ASSUME NEW t \in Tenants, ChangeHolder(t)
        PROVE  TypeOK'
    BY <1>2 DEF TypeOK, ChangeHolder
  <1>3. ASSUME NEW a \in Actors, Deactivate(a)
        PROVE  TypeOK'
    BY <1>3 DEF TypeOK, Deactivate
  <1>4. QED
    BY <1>1, <1>2, <1>3 DEF Surroundings

\* The passing of time keeps the types: timers stay between 0 and their duration.
LEMMA TickTypes ==
    ASSUME TypeOK, Tick
    PROVE  TypeOK'
  <1>1. ASSUME NEW r \in Runs
        PROVE  [run[r] EXCEPT !.left = Down(@)] \in Run /\ [draft[r] EXCEPT !.left = Down(@)] \in Draft
    <2>1. run[r].left \in 0..Lease /\ draft[r].left \in 0..DraftLife
      BY RowTypes DEF Run, Draft
    <2>2. Down(run[r].left) \in 0..Lease /\ Down(draft[r].left) \in 0..DraftLife
      BY <2>1, ConstantsAssumption DEF Down
    <2>3. QED
      BY <2>2, RowTypes DEF Run, Draft
  <1>2. QED
    BY <1>1 DEF TypeOK, Tick

\* The initial states are well typed.
LEMMA InitTypes == Init => TypeOK
  <1>1. NewRun \in Run /\ NewDraft \in Draft
    BY Bounds DEF NewRun, NewDraft, Run, Draft, States
  <1>2. [revision |-> 1, state |-> "open"] \in Project
    BY DEF Project
  <1>3. QED
    BY <1>1, <1>2 DEF Init, TypeOK
-----------------------------------------------------------------------------

\* TypeOK alone is not inductive: AppendEvent advances the event counter of the
\* execution that has the transaction, so that execution must exist.
IInv == TypeOK /\ WriterHoldsClaim

\* TypeOK is inductive.
LEMMA TypeStep ==
    ASSUME IInv, [Next]_vars
    PROVE  TypeOK'
  <1> USE DEF IInv
  <1>1. ASSUME NEW r \in Runs, Command(r)
        PROVE  TypeOK'
    BY <1>1, CreateTypes, StartTypes, CancelTypes, ApplyDraftTypes DEF Command
  <1>2. ASSUME NEW w \in Workers, NEW r \in Runs, Write(w, r)
        PROVE  TypeOK'
    BY <1>2, TransactionTypes, AppendEventTypes, FinalizeTypes, CompleteNoOpTypes,
       FailTypes DEF Write
  <1>3. ASSUME NEW w \in Workers, WorkerStep(w)
        PROVE  TypeOK'
    <2>1. CASE EndExecution(w)
      BY <2>1 DEF TypeOK, EndExecution
    <2>2. CASE ~EndExecution(w)
      BY <1>2, <1>3, <2>2, ClaimNextTypes, RenewTypes, ReleaseTypes DEF WorkerStep
    <2>3. QED
      BY <2>1, <2>2
  <1>4. CASE UNCHANGED vars
    BY <1>4 DEF vars, TypeOK
  <1>5. QED
    BY <1>1, <1>3, <1>4, SurroundingsTypes, TickTypes DEF Next

\* What WriterHoldsClaim says of one Run.
Held(r) == tx[r] # Idle => /\ Running(r) /\ worker[tx[r]] # Idle
                           /\ worker[tx[r]].run = r /\ worker[tx[r]].token = run[r].claim

\* WriterHoldsClaim is inductive relative to TypeOK: no step changes the claim of a Run whose row is
\* locked, or the execution that locked it, without ending the transaction.
LEMMA WriterStep ==
    ASSUME IInv, TypeOK', [Next]_vars
    PROVE  WriterHoldsClaim'
  <1> SUFFICES ASSUME NEW q \in Runs
               PROVE  Held(q)'
    BY DEF Held, WriterHoldsClaim, Running
  <1>0. Held(q)
    BY DEF IInv, Held, WriterHoldsClaim
  \* Steps that leave the transaction of q, its claim and its worker alone.
  <1>1. ASSUME tx'[q] = tx[q], run'[q].state = run[q].state, run'[q].claim = run[q].claim,
               worker' = worker
        PROVE  Held(q)'
    BY <1>0, <1>1 DEF Held, Running
  \* Steps that end or never had a transaction of q.
  <1>2. ASSUME tx'[q] = Idle
        PROVE  Held(q)'
    BY <1>2 DEF Held
  <1>3. ASSUME NEW r \in Runs, Command(r)
        PROVE  Held(q)'
    <2>1. tx' = tx /\ worker' = worker
      BY <1>3 DEF Command, Create, Start, Cancel, ApplyDraft
    <2>2. CASE q # r
      <3>1. run'[q] = run[q]
        BY <1>3, <2>2 DEF Command, Create, Start, Cancel, ApplyDraft, IInv, TypeOK
      <3>2. QED
        BY <1>1, <2>1, <3>1
    <2>3. CASE q = r
      <3>1. CASE tx[r] = Idle
        BY <1>2, <2>1, <2>3, <3>1
      <3>2. CASE tx[r] # Idle
        <4>1. Running(r)
          BY <1>0, <2>3, <3>2 DEF Held
        <4>2. run' = run
          BY <1>3, <3>2, <4>1 DEF Command, Create, Start, Cancel, ApplyDraft, Running
        <4>3. QED
          BY <1>1, <2>1, <4>2
      <3>3. QED
        BY <3>1, <3>2
    <2>4. QED
      BY <2>2, <2>3
  <1>4. ASSUME NEW w \in Workers, ClaimNext(w)
        PROVE  Held(q)'
    <2>1. CASE tx[q] = Idle
      BY <1>2, <1>4, <2>1 DEF ClaimNext
    <2>2. CASE tx[q] # Idle
      <3>1. q \notin Invalid \cup Exhausted \cup Chosen
        BY <2>2 DEF Invalid, Exhausted, Chosen, Candidates, Claimable
      <3>2. run'[q] = run[q] /\ tx' = tx
        BY <1>4, <3>1 DEF ClaimNext
      <3>3. worker'[tx[q]] = worker[tx[q]]
        <4>1. tx[q] \in Workers /\ tx[q] # w
          BY <1>0, <1>4, <2>2 DEF Held, ClaimNext, IInv, TypeOK
        <4>2. QED
          BY <1>4, <4>1 DEF ClaimNext, IInv, TypeOK
      <3>4. QED
        BY <1>0, <3>2, <3>3 DEF Held, Running
    <2>3. QED
      BY <2>1, <2>2
  <1>5. ASSUME NEW w \in Workers, EndExecution(w)
        PROVE  Held(q)'
    <2>1. tx'[q] = IF tx[q] = w THEN Idle ELSE tx[q]
      BY <1>5 DEF EndExecution
    <2>2. CASE tx[q] \in {w, Idle}
      BY <1>2, <2>1, <2>2
    <2>3. CASE tx[q] \notin {w, Idle}
      <3>1. worker'[tx[q]] = worker[tx[q]] /\ run' = run /\ tx'[q] = tx[q]
        BY <1>5, <2>1, <2>3 DEF EndExecution, IInv, TypeOK
      <3>2. QED
        BY <1>0, <3>1 DEF Held, Running
    <2>4. QED
      BY <2>2, <2>3
  <1>6. ASSUME NEW w \in Workers, NEW r \in Runs, Renew(w, r) \/ Release(w, r)
        PROVE  Held(q)'
    <2>1. tx' = tx /\ tx[r] = Idle
      BY <1>6 DEF Renew, Release, HoldsLiveClaim
    <2>2. CASE q = r
      BY <1>2, <2>1, <2>2
    <2>3. CASE q # r
      <3>1. run'[q] = run[q]
        BY <1>6, <2>3 DEF Renew, Release, IInv, TypeOK
      <3>2. CASE tx[q] = Idle
        BY <1>2, <2>1, <3>2
      <3>3. CASE tx[q] # Idle
        <4>1. tx[q] \in Workers /\ tx[q] # w
          BY <1>0, <1>6, <2>3, <3>3 DEF Held, Renew, Release, HoldsLiveClaim, IInv, TypeOK
        <4>2. worker'[tx[q]] = worker[tx[q]]
          BY <1>6, <4>1 DEF Renew, Release, IInv, TypeOK
        <4>3. QED
          BY <1>0, <2>1, <3>1, <4>2 DEF Held, Running
      <3>4. QED
        BY <3>2, <3>3
    <2>4. QED
      BY <2>2, <2>3
  <1>7. ASSUME NEW w \in Workers, NEW r \in Runs, BeginWrite(w, r)
        PROVE  Held(q)'
    <2>1. CASE q # r
      <3>1. tx'[q] = tx[q] /\ run' = run /\ worker' = worker
        BY <1>7, <2>1 DEF BeginWrite, IInv, TypeOK
      <3>2. QED
        BY <1>1, <3>1
    <2>2. CASE q = r
      BY <1>7, <2>2 DEF BeginWrite, HoldsLiveClaim, Held, Running, IInv, TypeOK
    <2>3. QED
      BY <2>1, <2>2
  <1>8. ASSUME NEW w \in Workers, NEW r \in Runs, Write(w, r), ~BeginWrite(w, r)
        PROVE  Held(q)'
    <2>1. tx[r] = w /\ tx' = [tx EXCEPT ![r] = Idle]
      BY <1>8 DEF Write, Rollback, AppendEvent, Finalize, RetainFailedCandidate, Fail,
                  CompleteNoOp, MayCommit, Commit
    <2>2. CASE q = r
      BY <1>2, <2>1, <2>2 DEF IInv, TypeOK
    <2>3. CASE q # r
      <3>1. run'[q] = run[q] /\ tx'[q] = tx[q]
        BY <1>8, <2>1, <2>3 DEF Write, Rollback, AppendEvent, Finalize, RetainFailedCandidate,
                  Fail, CompleteNoOp, CloseFailed, IInv, TypeOK
      <3>2. CASE worker' = worker
        BY <1>1, <3>1, <3>2
      <3>3. CASE worker' = [worker EXCEPT ![w].next = @ + 1]
        <4>1. CASE tx[q] = Idle
          BY <1>2, <3>1, <4>1
        <4>2. CASE tx[q] # Idle
          <5>1. tx[q] \in Workers /\ worker[tx[q]] \in Execution
            BY <1>0, <4>2 DEF Held, IInv, TypeOK
          <5>2. tx[q] # w
            BY <1>0, <2>1, <2>3, <4>2, Bounds DEF Held, IInv, WriterHoldsClaim
          <5>3. worker'[tx[q]] = worker[tx[q]]
            BY <3>3, <5>1, <5>2 DEF IInv, TypeOK
          <5>4. QED
            BY <1>0, <3>1, <5>3 DEF Held, Running
        <4>3. QED
          BY <4>1, <4>2
      <3>4. QED
        BY <1>8, <3>2, <3>3 DEF Write, Rollback, AppendEvent, Finalize, RetainFailedCandidate,
                  Fail, CompleteNoOp
    <2>4. QED
      BY <2>2, <2>3
  <1>9. CASE Surroundings \/ UNCHANGED vars
    <2>1. run' = run /\ tx' = tx /\ worker' = worker
      BY <1>9 DEF Surroundings, EditProject, SetProjectLock, ArchiveProject, ChangeHolder,
                  Deactivate, vars
    <2>2. QED
      BY <1>1, <2>1
  <1>10. CASE Tick
    <2>1. tx' = tx /\ worker' = worker /\ run'[q] = [run[q] EXCEPT !.left = Down(@)]
      BY <1>10 DEF Tick
    <2>2. run[q] \in Run
      BY DEF IInv, TypeOK
    <2>3. run'[q].state = run[q].state /\ run'[q].claim = run[q].claim
      BY <2>1, <2>2 DEF Run
    <2>4. QED
      BY <1>1, <2>1, <2>3
  <1>11. QED
    BY <1>3, <1>4, <1>5, <1>6, <1>7, <1>8, <1>9, <1>10 DEF Next, WorkerStep

\* The types and the sole writer together are an invariant.
LEMMA Invariance == Spec => []IInv
  <1>1. Init => IInv
    BY InitTypes DEF Init, IInv, WriterHoldsClaim
  <1>2. IInv /\ [Next]_vars => IInv'
    BY TypeStep, WriterStep DEF IInv
  <1>3. QED
    BY <1>1, <1>2, PTL DEF Spec

\* Every variable keeps its type; in particular no claim, by recovery or after a
\* release, takes the recovery count past the limit of ck_workflow_run_claim.
THEOREM TypeCorrect == Spec => []TypeOK
  BY Invariance, PTL DEF IInv

\* For any number of workers, Runs and recoveries, an open write transaction is
\* that of the execution whose claim the Run carries: the check of
\* assert_workflow_run_claim at the start of a transaction is enough, although the
\* lease may lapse, and its Run be looked for by other workers, before it commits.
THEOREM SoleWriter == Spec => []WriterHoldsClaim
  BY Invariance, PTL DEF IInv
=============================================================================
