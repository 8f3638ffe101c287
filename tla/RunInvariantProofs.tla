-------------------------- MODULE RunInvariantProofs --------------------------
(***************************************************************************)
(* For any Runs, Projects, workers and limits: a Run runs alone in its     *)
(* Tenant and in an open Project; every claim after its first is paid for  *)
(* by a recovery or a release; the state of a Run, its draft and its log   *)
(* agree; the trigger that guards Run rows never refuses; no update of a   *)
(* Project is lost; and the Runs implement RunOutcome.                     *)
(***************************************************************************)
EXTENDS WorkflowRunProofs

\* A transition that starts no Run and makes none: every Run keeps its state or ends.
KeepsOrEnds == \A q \in Runs : run'[q].state = run[q].state \/ run'[q].state \in Terminal

\* No terminal state is one in which a Run waits or runs.
LEMMA TerminalIsOver == "queued" \notin Terminal /\ "running" \notin Terminal /\ "absent" \notin Terminal
  BY DEF Terminal, Completed

\* Runs that only end cannot violate the exclusion.
LEMMA EndingKeepsOpen ==
    ASSUME RunningInOpenProject, KeepsOrEnds, project' = project
    PROVE  RunningInOpenProject'
  BY TerminalIsOver DEF RunningInOpenProject, KeepsOrEnds, Running, Open, Tenant

\* The step of a worker starts no Run.
LEMMA WorkerOnlyEnds ==
    ASSUME TypeOK, NEW w \in Workers, WorkerStep(w)
    PROVE  KeepsOrEnds /\ project' = project
  <1>1. \A row \in Run, s \in Terminal : Closed(row, s).state = s
    BY DEF Closed, Run
  <1>2. \A q \in Runs : run[q] \in Run
    BY DEF TypeOK
  <1>3. CASE ClaimNext(w)
    <2>1. \A q \in Runs : Claimed(run[q]).state = run[q].state
      BY <1>2 DEF Claimed, Run
    <2>2. \A q \in Runs : Closed(run[q], "failed").state \in Terminal
      BY <1>1, <1>2 DEF Terminal
    <2>3. QED
      BY <1>3, <2>1, <2>2 DEF ClaimNext, KeepsOrEnds
  <1>4. CASE EndExecution(w)
    BY <1>4 DEF EndExecution, KeepsOrEnds
  <1>5. ASSUME NEW r \in Runs, Renew(w, r) \/ Release(w, r)
        PROVE  KeepsOrEnds /\ project' = project
    <2>1. \A q \in Runs : run'[q].state = run[q].state
      <3>1. /\ [run[r] EXCEPT !.left = Lease].state = run[r].state
            /\ [run[r] EXCEPT !.claim = 0, !.left = 0, !.releases = @ + 1].state = run[r].state
        BY <1>2 DEF Run
      <3>2. QED
        BY <1>5, <3>1 DEF Renew, Release, TypeOK
    <2>2. QED
      BY <1>5, <2>1 DEF Renew, Release, KeepsOrEnds
  <1>6. ASSUME NEW r \in Runs, Write(w, r)
        PROVE  KeepsOrEnds /\ project' = project
    <2>1. project' = project
      BY <1>6 DEF Write, BeginWrite, Rollback, AppendEvent, Finalize, CompleteNoOp,
                  RetainFailedCandidate, Fail, Commit
    <2>2. CASE run' = run
      BY <2>1, <2>2 DEF KeepsOrEnds
    <2>3. CASE run' # run
      <3>1. PICK s \in Terminal :
                \/ run' = [run EXCEPT ![r] = Closed(run[r], s)]
                \/ run' = [run EXCEPT ![r] = [Closed(run[r], s) EXCEPT !.noop = TRUE]]
        BY <1>6, <2>3 DEF Write, BeginWrite, Rollback, AppendEvent, Finalize, CompleteNoOp,
                  RetainFailedCandidate, Fail, CloseFailed, CompletedState, Terminal, Completed
      <3>2. Closed(run[r], s) \in Run /\ Closed(run[r], s).state = s
        BY <1>1, <1>2, ClosedType
      <3>3. [Closed(run[r], s) EXCEPT !.noop = TRUE].state = s
        BY <3>2 DEF Run
      <3>4. run'[r].state = s /\ \A q \in Runs \ {r} : run'[q] = run[q]
        BY <3>1, <3>2, <3>3 DEF TypeOK
      <3>5. QED
        BY <2>1, <3>4 DEF KeepsOrEnds
    <2>4. QED
      BY <2>2, <2>3
  <1>7. QED
    BY <1>3, <1>4, <1>5, <1>6 DEF WorkerStep

\* RunningInOpenProject is inductive relative to TypeOK.
LEMMA OpenStep ==
    ASSUME TypeOK, RunningInOpenProject, [Next]_vars
    PROVE  RunningInOpenProject'
  <1>1. ASSUME NEW r \in Runs, NEW a \in Actors, Create(r, a)
        PROVE  RunningInOpenProject'
    <2>1. /\ run'[r].state = "queued" /\ Open(ProjectOf[r]) /\ project' = project
          /\ \A q \in Runs \ {r} : run'[q] = run[q]
      BY <1>1, RowTypes DEF Create, TypeOK, Run
    <2>2. QED
      BY <2>1 DEF RunningInOpenProject, Running, Open, Tenant
  <1>2. ASSUME NEW r \in Runs, Start(r)
        PROVE  RunningInOpenProject'
    <2>1. /\ run'[r].state = "running" /\ Open(ProjectOf[r]) /\ TenantFree(r) /\ project' = project
          /\ \A q \in Runs \ {r} : run'[q] = run[q]
      BY <1>2, RowTypes DEF Start, TypeOK, Run
    <2>2. QED
      BY <2>1 DEF RunningInOpenProject, Running, Open, Tenant, TenantFree
  <1>3. ASSUME NEW r \in Runs, Cancel(r)
        PROVE  RunningInOpenProject'
    <2>1. KeepsOrEnds /\ project' = project
      BY <1>3, RowTypes DEF Cancel, Closed, KeepsOrEnds, TypeOK, Run, Terminal
    <2>2. QED
      BY <2>1, EndingKeepsOpen
  <1>4. ASSUME NEW r \in Runs, NEW changed \in {0, 1}, ApplyDraft(r, changed)
        PROVE  RunningInOpenProject'
    <2>1. run' = run /\ \A p \in Projects : project'[p].state = project[p].state
      BY <1>4, Bounds DEF ApplyDraft, TypeOK, Project
    <2>2. QED
      BY <2>1, Bounds DEF RunningInOpenProject, Running, Open, Tenant
  <1>5. ASSUME NEW w \in Workers, WorkerStep(w)
        PROVE  RunningInOpenProject'
    BY <1>5, WorkerOnlyEnds, EndingKeepsOpen
  <1>6. ASSUME NEW p \in Projects, EditProject(p)
        PROVE  RunningInOpenProject'
    <2>1. run' = run /\ \A o \in Projects : project'[o].state = project[o].state
      BY <1>6 DEF EditProject, TypeOK, Project
    <2>2. QED
      BY <2>1, Bounds DEF RunningInOpenProject, Running, Open, Tenant
  <1>7. ASSUME NEW p \in Projects, SetProjectLock(p)
        PROVE  RunningInOpenProject'
    <2>1. run' = run /\ \A o \in Projects \ {p} : project'[o] = project[o]
      BY <1>7 DEF SetProjectLock, TypeOK
    <2>2. CASE project[p].state = "open"
      <3>1. \A r \in Runs : ProjectOf[r] = p => run[r].state \notin {"queued", "running"}
        BY <1>7, <2>2 DEF SetProjectLock
      <3>2. QED
        BY <2>1, <3>1, Bounds DEF RunningInOpenProject, Running, Open, Tenant
    <2>3. CASE project[p].state # "open"
      <3>1. project'[p].state = "open"
        BY <1>7, <2>3 DEF SetProjectLock, TypeOK
      <3>2. QED
        BY <2>1, <3>1, Bounds DEF RunningInOpenProject, Running, Open, Tenant
    <2>4. QED
      BY <2>2, <2>3
  <1>8. ASSUME NEW p \in Projects, ArchiveProject(p)
        PROVE  RunningInOpenProject'
    <2>1. run' = run /\ project'[p].state = "archived" /\ \A o \in Projects \ {p} : project'[o] = project[o]
      BY <1>8 DEF ArchiveProject, TypeOK
    <2>2. \A r \in Runs : Running(r) => ProjectOf[r] # p
      BY <1>8 DEF ArchiveProject, Tenant
    <2>3. QED
      BY <2>1, <2>2, Bounds DEF RunningInOpenProject, Running, Open, Tenant
  <1>9. CASE (\E t \in Tenants : ChangeHolder(t)) \/ (\E a \in Actors : Deactivate(a)) \/ UNCHANGED vars
    <2>1. run' = run /\ project' = project
      BY <1>9 DEF ChangeHolder, Deactivate, vars
    <2>2. QED
      BY <2>1 DEF RunningInOpenProject, Running, Open, Tenant
  <1>10. CASE Tick
    <2>1. KeepsOrEnds /\ project' = project
      BY <1>10, RowTypes DEF Tick, KeepsOrEnds, Run
    <2>2. QED
      BY <2>1, EndingKeepsOpen
  <1>11. ASSUME NEW r \in Runs, Command(r)
         PROVE  RunningInOpenProject'
    BY <1>1, <1>2, <1>3, <1>4, <1>11 DEF Command
  <1>12. CASE Surroundings
    BY <1>6, <1>7, <1>8, <1>9, <1>12 DEF Surroundings
  <1>13. QED
    BY <1>5, <1>9, <1>10, <1>11, <1>12 DEF Next

\* For any Tenants, Projects and Runs: two Runs of one Tenant never run together and
\* neither archiving nor locking a Project leaves a running Run in it, although these
\* commands check the Runs, and start_workflow_run the Project, independently.
THEOREM RunsAlone == Spec => []RunningInOpenProject
  <1>1. Init => RunningInOpenProject
    <2> SUFFICES ASSUME Init
                 PROVE  RunningInOpenProject
      OBVIOUS
    <2>1. \A r \in Runs : run[r].state = "absent"
      BY DEF Init, NewRun
    <2>2. \A r \in Runs : run[r].state # "queued" /\ ~Running(r)
      BY <2>1 DEF Running
    <2>3. QED
      BY <2>2 DEF RunningInOpenProject
  <1>2. TypeOK /\ RunningInOpenProject /\ [Next]_vars => RunningInOpenProject'
    BY OpenStep
  <1>3. QED
    BY <1>1, <1>2, TypeCorrect, PTL DEF Spec
-----------------------------------------------------------------------------

\* What RecoveriesCounted says of one row.
Counted(row) ==
    LET paid == row.recoveries + row.releases
    IN  /\ row.state \notin Terminal => row.claims = IF row.claim = 0 THEN paid ELSE paid + 1
        /\ row.claims <= paid + 1
        /\ row.claim # 0 => row.claim = row.claims

\* The numbers of a row.
LEMMA RowNumbers ==
    ASSUME NEW row \in Run
    PROVE  /\ row.claim \in Nat /\ row.claims \in Nat /\ row.releases \in Nat
           /\ row.recoveries \in Nat
  BY Bounds DEF Run

\* Closing a row takes its claim away and keeps the account.
LEMMA ClosedCounted ==
    ASSUME NEW row \in Run, Counted(row), NEW s \in Terminal
    PROVE  Counted(Closed(row, s)) /\ Counted([Closed(row, s) EXCEPT !.noop = TRUE])
  <1> DEFINE c == Closed(row, s)
             n == [c EXCEPT !.noop = TRUE]
  <1>1. c \in Run
    BY ClosedType
  <1>2. /\ c.state = s /\ c.claim = 0 /\ c.claims = row.claims
        /\ c.recoveries = row.recoveries /\ c.releases = row.releases
    BY DEF Closed, Run
  <1>3. /\ n.state = s /\ n.claim = 0 /\ n.claims = row.claims
        /\ n.recoveries = row.recoveries /\ n.releases = row.releases
    <2> HIDE DEF c
    <2>1. QED
      BY <1>1, <1>2 DEF Run
  <1> HIDE DEF c, n
  <1>4. Counted(c) /\ Counted(n)
    BY <1>2, <1>3 DEF Counted
  <1>5. QED
    BY <1>4 DEF c, n

\* Claiming a running row takes a recovery when it replaces a claim, else the first or a released turn.
LEMMA ClaimedCounted ==
    ASSUME NEW row \in Run, Counted(row), row.state = "running"
    PROVE  Counted(Claimed(row))
  <1> DEFINE c == Claimed(row)
  <1>1. /\ c.state = "running" /\ c.claim = row.claims + 1 /\ c.claims = row.claims + 1
        /\ c.releases = row.releases
        /\ c.recoveries = IF row.claim # 0 THEN row.recoveries + 1 ELSE row.recoveries
    BY DEF Claimed, Run
  <1> HIDE DEF c
  <1>2. Counted(c)
    BY <1>1, RowNumbers, TerminalIsOver DEF Counted
  <1>3. QED
    BY <1>2 DEF c

\* Releasing a claim makes room for one more.
LEMMA ReleasedCounted ==
    ASSUME NEW row \in Run, Counted(row), row.state = "running", row.claim # 0
    PROVE  Counted([row EXCEPT !.claim = 0, !.left = 0, !.releases = @ + 1])
  <1> DEFINE c == [row EXCEPT !.claim = 0, !.left = 0, !.releases = @ + 1]
  <1>1. /\ c.state = "running" /\ c.claim = 0 /\ c.claims = row.claims
        /\ c.releases = row.releases + 1 /\ c.recoveries = row.recoveries
    BY DEF Run
  <1> HIDE DEF c
  <1>2. Counted(c)
    BY <1>1, RowNumbers, TerminalIsOver DEF Counted
  <1>3. QED
    BY <1>2 DEF c

\* A row whose claim and counts are kept, and which is not reopened, keeps the account.
LEMMA KeptCounted ==
    ASSUME NEW old \in Run, NEW new, Counted(old),
           new.claim = old.claim, new.claims = old.claims,
           new.recoveries = old.recoveries, new.releases = old.releases,
           old.state \in Terminal => new.state \in Terminal
    PROVE  Counted(new)
  BY DEF Counted

\* RecoveriesCounted is inductive relative to TypeOK, row by row.
LEMMA CountStep ==
    ASSUME TypeOK, RecoveriesCounted, [Next]_vars, NEW q \in Runs
    PROVE  Counted(run'[q])
  <1>1. run[q] \in Run /\ Counted(run[q])
    BY DEF TypeOK, RecoveriesCounted, Counted
  <1>2. ASSUME run'[q] = run[q]
        PROVE  Counted(run'[q])
    BY <1>1, <1>2
  <1>3. ASSUME NEW s \in Terminal,
               run'[q] \in {Closed(run[q], s), [Closed(run[q], s) EXCEPT !.noop = TRUE]}
        PROVE  Counted(run'[q])
    BY <1>1, <1>3, ClosedCounted
  <1>4. ASSUME NEW r \in Runs, Command(r)
        PROVE  Counted(run'[q])
    <2>1. CASE q # r
      <3>1. run'[q] = run[q]
        BY <1>4, <2>1 DEF Command, Create, Start, Cancel, ApplyDraft, TypeOK
      <3>2. QED
        BY <1>2, <3>1
    <2>2. ASSUME NEW a \in Actors, Create(r, a), q = r
          PROVE  Counted(run'[q])
      <3>1. /\ run[q].state = "absent"
            /\ run'[q] = [run[q] EXCEPT !.state = "queued", !.actor = a, !.frozen = Revision(r)]
        BY <2>2 DEF Create, TypeOK
      <3>2. /\ run'[q].claim = run[q].claim /\ run'[q].claims = run[q].claims
            /\ run'[q].recoveries = run[q].recoveries /\ run'[q].releases = run[q].releases
        BY <1>1, <3>1 DEF Run
      <3>3. QED
        BY <1>1, <3>1, <3>2, KeptCounted, TerminalIsOver
    <2>3. ASSUME Start(r), q = r
          PROVE  Counted(run'[q])
      <3>1. run[q].state = "queued" /\ run'[q] = [run[q] EXCEPT !.state = "running"]
        BY <2>3 DEF Start, TypeOK
      <3>2. /\ run'[q].claim = run[q].claim /\ run'[q].claims = run[q].claims
            /\ run'[q].recoveries = run[q].recoveries /\ run'[q].releases = run[q].releases
        BY <1>1, <3>1 DEF Run
      <3>3. QED
        BY <1>1, <3>1, <3>2, KeptCounted, TerminalIsOver
    <2>4. ASSUME Cancel(r), q = r
          PROVE  Counted(run'[q])
      <3>1. run'[q] = Closed(run[q], "cancelled")
        BY <2>4 DEF Cancel, TypeOK
      <3>2. QED
        BY <1>3, <3>1 DEF Terminal
    <2>5. ASSUME NEW changed \in {0, 1}, ApplyDraft(r, changed)
          PROVE  Counted(run'[q])
      BY <1>2, <2>5 DEF ApplyDraft
    <2>6. QED
      BY <1>4, <2>1, <2>2, <2>3, <2>4, <2>5 DEF Command
  <1>5. ASSUME NEW w \in Workers, ClaimNext(w)
        PROVE  Counted(run'[q])
    <2>1. CASE q \in Invalid \cup Exhausted
      <3>1. run'[q] = Closed(run[q], "failed")
        BY <1>5, <2>1 DEF ClaimNext
      <3>2. QED
        BY <1>3, <3>1 DEF Terminal
    <2>2. CASE q \notin Invalid \cup Exhausted /\ q \in Chosen
      <3>1. run[q].state = "running"
        BY <2>2 DEF Chosen, Candidates, Claimable, Running
      <3>2. run'[q] = Claimed(run[q])
        BY <1>5, <2>2 DEF ClaimNext
      <3>3. QED
        BY <1>1, <3>1, <3>2, ClaimedCounted
    <2>3. CASE q \notin Invalid \cup Exhausted /\ q \notin Chosen
      BY <1>2, <1>5, <2>3 DEF ClaimNext
    <2>4. QED
      BY <2>1, <2>2, <2>3
  <1>6. ASSUME NEW w \in Workers, NEW r \in Runs, Renew(w, r)
        PROVE  Counted(run'[q])
    <2>1. run'[q] = IF q = r THEN [run[q] EXCEPT !.left = Lease] ELSE run[q]
      BY <1>6 DEF Renew, TypeOK
    <2>2. /\ run'[q].claim = run[q].claim /\ run'[q].claims = run[q].claims
          /\ run'[q].recoveries = run[q].recoveries /\ run'[q].releases = run[q].releases
          /\ run'[q].state = run[q].state
      BY <1>1, <2>1 DEF Run
    <2>3. QED
      BY <1>1, <2>2, KeptCounted
  <1>7. ASSUME NEW w \in Workers, NEW r \in Runs, Release(w, r)
        PROVE  Counted(run'[q])
    <2>1. CASE q = r
      <3>1. worker[w] \in Execution /\ run[q].claim = worker[w].token /\ run[q].state = "running"
        BY <1>7, <2>1 DEF Release, HoldsLiveClaim, Running, TypeOK
      <3>2. run[q].claim # 0
        BY <3>1 DEF Execution
      <3>3. run'[q] = [run[q] EXCEPT !.claim = 0, !.left = 0, !.releases = @ + 1]
        BY <1>7, <2>1 DEF Release, TypeOK
      <3>4. QED
        BY <1>1, <3>1, <3>2, <3>3, ReleasedCounted
    <2>2. CASE q # r
      BY <1>2, <1>7, <2>2 DEF Release, TypeOK
    <2>3. QED
      BY <2>1, <2>2
  <1>8. ASSUME NEW w \in Workers, NEW r \in Runs, Write(w, r)
        PROVE  Counted(run'[q])
    <2>1. CASE run'[q] = run[q]
      BY <1>2, <2>1
    <2>2. CASE run'[q] # run[q]
      <3>1. PICK s \in Terminal :
                \/ run' = [run EXCEPT ![r] = Closed(run[r], s)]
                \/ run' = [run EXCEPT ![r] = [Closed(run[r], s) EXCEPT !.noop = TRUE]]
        BY <1>8, <2>2 DEF Write, BeginWrite, Rollback, AppendEvent, Finalize, CompleteNoOp,
                  RetainFailedCandidate, Fail, CloseFailed, CompletedState, Terminal, Completed
      <3>2. q = r
        BY <2>2, <3>1 DEF TypeOK
      <3>3. run'[q] \in {Closed(run[q], s), [Closed(run[q], s) EXCEPT !.noop = TRUE]}
        BY <3>1, <3>2 DEF TypeOK
      <3>4. QED
        BY <1>3, <3>3
    <2>3. QED
      BY <2>1, <2>2
  <1>9. ASSUME NEW w \in Workers, EndExecution(w)
        PROVE  Counted(run'[q])
    BY <1>2, <1>9 DEF EndExecution
  <1>10. CASE Surroundings \/ UNCHANGED vars
    BY <1>2, <1>10 DEF Surroundings, EditProject, SetProjectLock, ArchiveProject, ChangeHolder,
                       Deactivate, vars
  <1>11. CASE Tick
    <2>1. run'[q] = [run[q] EXCEPT !.left = Down(@)]
      BY <1>11 DEF Tick
    <2>2. /\ run'[q].claim = run[q].claim /\ run'[q].claims = run[q].claims
          /\ run'[q].recoveries = run[q].recoveries /\ run'[q].releases = run[q].releases
          /\ run'[q].state = run[q].state
      BY <1>1, <2>1 DEF Run
    <2>3. QED
      BY <1>1, <2>2, KeptCounted
  <1>12. ASSUME NEW w \in Workers, WorkerStep(w)
         PROVE  Counted(run'[q])
    BY <1>5, <1>6, <1>7, <1>8, <1>9, <1>12 DEF WorkerStep
  <1>13. QED
    BY <1>4, <1>10, <1>11, <1>12 DEF Next

\* For any recovery limit and any number of workers: the claims of a Run are its
\* first, its recoveries and its releases, so claim_workflow_run hands a Run whose
\* workers keep losing it to at most MaxRecoveries further workers.
THEOREM ClaimsPaidFor == Spec => []RecoveriesCounted
  <1>1. Init => RecoveriesCounted
    <2> SUFFICES ASSUME Init
                 PROVE  RecoveriesCounted
      OBVIOUS
    <2>1. \A r \in Runs : run[r] = NewRun
      BY DEF Init
    <2>2. Counted(NewRun)
      BY DEF Counted, NewRun
    <2>3. QED
      BY <2>1, <2>2 DEF RecoveriesCounted, Counted
  <1>2. TypeOK /\ RecoveriesCounted /\ [Next]_vars => RecoveriesCounted'
    <2>1. ASSUME \A q \in Runs : Counted(run'[q])
          PROVE  RecoveriesCounted'
      BY <2>1 DEF Counted, RecoveriesCounted
    <2>2. QED
      BY <2>1, CountStep
  <1>3. QED
    BY <1>1, <1>2, TypeCorrect, PTL DEF Spec

-----------------------------------------------------------------------------
(* What a step does to one Run: its row, its events and its draft. *)

\* A row without a claim has no lease, a Run that is over has no claim, and
\* only a completed one has nothing to change.
RowsRest ==
    \A r \in Runs : /\ run[r].claim = 0 => run[r].left = 0
                    /\ run[r].state \in Terminal => run[r].claim = 0
                    /\ run[r].noop => run[r].state \in Completed

SameRun(old, new) ==
    /\ new.state = old.state /\ new.actor = old.actor
    /\ new.frozen = old.frozen /\ new.noop = old.noop

SameDraft(old, new) ==
    /\ new.status = old.status /\ new.base = old.base /\ new.result = old.result

\* The claim columns of a row while the Run keeps its state.
ClaimMoves(old, new) ==
    /\ old.state \in Terminal => new = old
    /\ new.claim = 0 => new.left = 0
    /\ \/ new.claim = old.claim /\ new.recoveries = old.recoveries
       \/ 0 \in {old.claim, new.claim} /\ new.recoveries = old.recoveries
       \/ /\ old.claim # 0 /\ old.left = 0 /\ new.claim \notin {0, old.claim}
          /\ new.recoveries = old.recoveries + 1

\* The Run keeps its state; its log may grow while it runs.
Idles(q) ==
    /\ SameRun(run[q], run'[q]) /\ SameDraft(draft[q], draft'[q])
    /\ ClaimMoves(run[q], run'[q])
    /\ \/ events'[q] = events[q]
       \/ Running(q) /\ \E a \in Attempts : events'[q] = Log(q, "progress", a)

\* It is made.
Made(q) ==
    /\ run[q].state = "absent" /\ run'[q].state = "queued" /\ run'[q].noop = run[q].noop
    /\ run'[q].claim = run[q].claim /\ run'[q].left = run[q].left
    /\ events'[q] = events[q] /\ draft'[q] = draft[q]

\* It starts.
Started(q) ==
    /\ run[q].state = "queued" /\ run'[q].state = "running" /\ run'[q].noop = run[q].noop
    /\ run'[q].actor = run[q].actor /\ run'[q].frozen = run[q].frozen
    /\ run'[q].claim = run[q].claim /\ run'[q].left = run[q].left
    /\ events'[q] = <<[kind |-> "started", attempt |-> 1]>> /\ draft'[q] = draft[q]

\* It ends without a result; a rejected draft may stay.
Stopped(q, s) ==
    /\ s \in {"failed", "cancelled"} /\ run[q].state \in {"queued", "running"}
    /\ s = "failed" => Running(q)
    /\ run'[q] = Closed(run[q], s)
    /\ events'[q] = Log(q, s, MaxAttempt(q))
    /\ \/ draft'[q] = draft[q]
       \/ /\ s = "failed" /\ draft'[q].status = "active"
          /\ draft'[q].base = run[q].frozen

\* It completes with a draft.
Delivered(q, a) ==
    LET last == Larger(a, MaxAttempt(q)) IN
    /\ Running(q) /\ run'[q] = Closed(run[q], CompletedState(last))
    /\ events'[q] = Append(Log(q, "backend_validation", a), [kind |-> "completed", attempt |-> last])
    /\ draft'[q].status = "validated" /\ draft'[q].base = run[q].frozen

\* It completes with nothing to change.
NothingToDo(q, a) ==
    /\ Running(q) /\ a >= MaxAttempt(q)
    /\ run'[q] = [Closed(run[q], CompletedState(a)) EXCEPT !.noop = TRUE]
    /\ events'[q] = Log(q, "backend_validation", a)
    /\ draft[q].status = "none" /\ draft'[q] = draft[q]

\* Its draft is applied.
Taken(q) ==
    /\ run'[q] = run[q] /\ events'[q] = events[q]
    /\ draft[q].status = "validated" /\ draft'[q].status = "applied"
    /\ draft'[q].base = draft[q].base

RunMoves(q) ==
    \/ Idles(q) \/ Made(q) \/ Started(q) \/ Taken(q)
    \/ Stopped(q, "failed") \/ Stopped(q, "cancelled")
    \/ \E a \in Attempts : Delivered(q, a) \/ NothingToDo(q, a)

\* A step that leaves a Run alone.
LEMMA LeftAlone ==
    ASSUME RowsRest, NEW q \in Runs,
           run'[q] = run[q], events'[q] = events[q], SameDraft(draft[q], draft'[q])
    PROVE  Idles(q)
  BY DEF RowsRest, Idles, SameRun, ClaimMoves

\* A command of a Principal.
LEMMA CommandMoves ==
    ASSUME TypeOK, RowsRest, NEW r \in Runs, Command(r), NEW q \in Runs
    PROVE  RunMoves(q)
  <1>1. run[q] \in Run /\ draft[q] \in Draft
    BY RowTypes
  <1>2. CASE q # r
    <2>1. run'[q] = run[q] /\ events'[q] = events[q] /\ draft'[q] = draft[q]
      BY <1>2 DEF Command, Create, Start, Cancel, ApplyDraft, TypeOK
    <2>2. QED
      BY <2>1, LeftAlone DEF SameDraft, RunMoves
  <1>3. ASSUME NEW a \in Actors, Create(r, a), q = r
        PROVE  RunMoves(q)
    <2>1. run'[q] = [run[q] EXCEPT !.state = "queued", !.actor = a, !.frozen = Revision(r)]
      BY <1>3 DEF Create, TypeOK
    <2>2. /\ run'[q].state = "queued" /\ run'[q].noop = run[q].noop
          /\ run'[q].claim = run[q].claim /\ run'[q].left = run[q].left
      BY <1>1, <2>1 DEF Run
    <2>3. Made(q)
      BY <1>3, <2>2 DEF Create, Made
    <2>4. QED
      BY <2>3 DEF RunMoves
  <1>4. ASSUME Start(r), q = r
        PROVE  RunMoves(q)
    <2>1. /\ run[q].state = "queued" /\ run'[q] = [run[q] EXCEPT !.state = "running"]
          /\ events'[q] = <<[kind |-> "started", attempt |-> 1]>> /\ draft' = draft
      BY <1>4 DEF Start, TypeOK
    <2>2. Started(q)
      BY <1>1, <2>1 DEF Started, Run
    <2>3. QED
      BY <2>2 DEF RunMoves
  <1>5. ASSUME Cancel(r), q = r
        PROVE  RunMoves(q)
    <2>1. Stopped(q, "cancelled")
      BY <1>5 DEF Cancel, Stopped, TypeOK
    <2>2. QED
      BY <2>1 DEF RunMoves
  <1>6. ASSUME NEW changed \in {0, 1}, ApplyDraft(r, changed), q = r
        PROVE  RunMoves(q)
    <2>1. /\ draft[q].status = "validated" /\ run' = run /\ events' = events
          /\ draft'[q] = [draft[q] EXCEPT !.status = "applied", !.left = 0,
                                          !.result = Revision(r) + changed]
      BY <1>6 DEF ApplyDraft, TypeOK
    <2>2. draft'[q].status = "applied" /\ draft'[q].base = draft[q].base
      BY <1>1, <2>1 DEF Draft
    <2>3. QED
      BY <2>1, <2>2 DEF Taken, RunMoves
  <1>7. QED
    BY <1>2, <1>3, <1>4, <1>5, <1>6 DEF Command

\* Claims are handed out and given back.
LEMMA ClaimStepMoves ==
    ASSUME TypeOK, RowsRest, RecoveriesCounted, NEW w \in Workers, NEW q \in Runs,
           \/ ClaimNext(w) \/ EndExecution(w)
           \/ \E r \in Runs : Renew(w, r) \/ Release(w, r)
    PROVE  RunMoves(q)
  <1>1. run[q] \in Run /\ draft[q] \in Draft
    BY RowTypes
  <1>2. ASSUME draft' = draft, events' = events, run'[q] = run[q]
        PROVE  RunMoves(q)
    BY <1>2, LeftAlone DEF SameDraft, RunMoves
  <1>3. CASE ClaimNext(w)
    <2>1. CASE q \in Invalid \cup Exhausted
      <3>1. Running(q)
        BY <2>1 DEF Invalid, Exhausted, Claimable
      <3>2. Stopped(q, "failed")
        BY <1>3, <2>1, <3>1 DEF ClaimNext, Stopped, Running
      <3>3. QED
        BY <3>2 DEF RunMoves
    <2>2. CASE q \notin Invalid \cup Exhausted /\ q \in Chosen
      <3>1. run'[q] = Claimed(run[q]) /\ events'[q] = events[q] /\ draft' = draft
        BY <1>3, <2>2 DEF ClaimNext
      <3>2. Running(q) /\ ClaimDue(q)
        BY <2>2 DEF Chosen, Candidates, Claimable
      <3>3. /\ run[q].claims \in Nat
            /\ run[q].claim # 0 => run[q].claim = run[q].claims
        BY <1>1, RowNumbers DEF RecoveriesCounted
      <3>4. run[q].claims + 1 \notin {0, run[q].claims}
        BY <3>3
      <3>5. /\ SameRun(run[q], run'[q])
            /\ run'[q].claim = run[q].claims + 1
            /\ run'[q].recoveries = IF run[q].claim # 0 THEN run[q].recoveries + 1
                                                        ELSE run[q].recoveries
        BY <1>1, <3>1 DEF Claimed, Run, SameRun
      <3>6. ClaimMoves(run[q], run'[q])
        BY <3>2, <3>3, <3>4, <3>5, TerminalIsOver DEF ClaimMoves, ClaimDue, Running
      <3>7. QED
        BY <3>1, <3>5, <3>6 DEF Idles, SameDraft, RunMoves
    <2>3. CASE q \notin Invalid \cup Exhausted /\ q \notin Chosen
      <3>1. run'[q] = run[q] /\ events'[q] = events[q] /\ draft' = draft
        BY <1>3, <2>3 DEF ClaimNext
      <3>2. QED
        BY <3>1, LeftAlone DEF SameDraft, RunMoves
    <2>4. QED
      BY <2>1, <2>2, <2>3
  <1>4. CASE EndExecution(w)
    BY <1>2, <1>4 DEF EndExecution
  <1>5. ASSUME NEW r \in Runs, Renew(w, r) \/ Release(w, r), r # q
        PROVE  RunMoves(q)
    BY <1>2, <1>5 DEF Renew, Release, TypeOK
  <1>6. CASE Renew(w, q) \/ Release(w, q)
    <2>1. /\ Running(q) /\ run[q].claim = worker[w].token /\ worker[w] \in Execution
          /\ draft' = draft /\ events' = events
      BY <1>6 DEF Renew, Release, HoldsLiveClaim, TypeOK
    <2>2. run[q].claim # 0
      BY <2>1 DEF Execution
    <2>3. \/ run'[q] = [run[q] EXCEPT !.left = Lease]
          \/ run'[q] = [run[q] EXCEPT !.claim = 0, !.left = 0, !.releases = @ + 1]
      BY <1>6 DEF Renew, Release, TypeOK
    <2>4. /\ SameRun(run[q], run'[q]) /\ run'[q].recoveries = run[q].recoveries
          /\ run'[q].claim = run[q].claim \/ (run'[q].claim = 0 /\ run'[q].left = 0)
      BY <1>1, <2>3 DEF Run, SameRun
    <2>5. ClaimMoves(run[q], run'[q])
      BY <2>1, <2>2, <2>4, TerminalIsOver DEF ClaimMoves, Running
    <2>6. QED
      BY <2>1, <2>4, <2>5 DEF Idles, SameDraft, RunMoves
  <1>7. QED
    BY <1>3, <1>4, <1>5, <1>6

\* A write of a worker.
LEMMA WriteMoves ==
    ASSUME IInv, RowsRest, NEW w \in Workers, NEW r \in Runs, Write(w, r), NEW q \in Runs
    PROVE  RunMoves(q)
  <1>1. /\ TypeOK /\ run[q] \in Run /\ draft[q] \in Draft
        /\ tx[r] = w => Running(r)
    BY RowTypes, Bounds DEF IInv, WriterHoldsClaim
  <1>2. ASSUME draft'[q] = draft[q], events'[q] = events[q], run'[q] = run[q]
        PROVE  RunMoves(q)
    BY <1>2, LeftAlone DEF SameDraft, RunMoves
  <1>3. CASE q # r
    <2>1. draft'[q] = draft[q] /\ events'[q] = events[q] /\ run'[q] = run[q]
      BY <1>1, <1>3 DEF Write, BeginWrite, Rollback, AppendEvent, Finalize, CompleteNoOp,
                        RetainFailedCandidate, Fail, CloseFailed, TypeOK
    <2>2. QED
      BY <1>2, <2>1
  <1>4. CASE q = r /\ (BeginWrite(w, r) \/ Rollback(w, r))
    BY <1>2, <1>4 DEF BeginWrite, Rollback
  <1>5. ASSUME NEW a \in Attempts, AppendEvent(w, r, a), q = r
        PROVE  RunMoves(q)
    <2>1. /\ Running(q) /\ run' = run /\ draft' = draft
          /\ events' = events \/ events'[q] = Log(q, "progress", a)
      BY <1>1, <1>5 DEF AppendEvent, MayCommit, Log, TypeOK
    <2>2. ClaimMoves(run[q], run'[q])
      BY <2>1 DEF ClaimMoves, RowsRest
    <2>3. QED
      BY <2>1, <2>2 DEF Idles, SameRun, SameDraft, RunMoves
  <1>6. ASSUME NEW a \in Attempts, Finalize(w, r, a), q = r
        PROVE  RunMoves(q)
    <2>1. /\ Running(q) /\ Revision(q) = run[q].frozen
          /\ draft'[q] = [status |-> "validated", base |-> Revision(q), left |-> DraftLife, result |-> 0]
      BY <1>1, <1>6 DEF Finalize, MayCommit, AtFrozenRevision, TypeOK
    <2>2. Delivered(q, a)
      BY <1>1, <1>6, <2>1 DEF Finalize, Delivered, TypeOK
    <2>3. QED
      BY <2>2 DEF RunMoves
  <1>7. ASSUME NEW a \in Attempts, CompleteNoOp(w, r, a), q = r
        PROVE  RunMoves(q)
    <2>1. NothingToDo(q, a)
      BY <1>1, <1>7 DEF CompleteNoOp, MayCommit, NothingToDo, TypeOK
    <2>2. QED
      BY <2>1 DEF RunMoves
  <1>8. ASSUME RetainFailedCandidate(w, r) \/ Fail(w, r), q = r
        PROVE  RunMoves(q)
    <2>1. Running(q) /\ Revision(q) = run[q].frozen
      BY <1>1, <1>8 DEF RetainFailedCandidate, Fail, MayCommit, AtFrozenRevision
    <2>2. run'[q] = Closed(run[q], "failed") /\ events'[q] = Log(q, "failed", MaxAttempt(q))
      BY <1>1, <1>8 DEF RetainFailedCandidate, Fail, CloseFailed, TypeOK
    <2>3. \/ draft' = draft
          \/ draft'[q] = [status |-> "active", base |-> Revision(q), left |-> DraftLife, result |-> 0]
      BY <1>1, <1>8 DEF RetainFailedCandidate, Fail, TypeOK
    <2>4. Stopped(q, "failed")
      BY <2>1, <2>2, <2>3 DEF Stopped, Running
    <2>5. QED
      BY <2>4 DEF RunMoves
  <1>9. QED
    BY <1>3, <1>4, <1>5, <1>6, <1>7, <1>8 DEF Write

\* Every step moves every Run in one of these ways.
LEMMA StepMoves ==
    ASSUME IInv, RowsRest, RecoveriesCounted, [Next]_vars, NEW q \in Runs
    PROVE  RunMoves(q)
  <1>1. TypeOK /\ run[q] \in Run /\ draft[q] \in Draft
    BY RowTypes DEF IInv
  <1>2. ASSUME draft' = draft, events' = events, run' = run
        PROVE  RunMoves(q)
    BY <1>2, LeftAlone DEF SameDraft, RunMoves
  <1>3. CASE Surroundings \/ UNCHANGED vars
    <2>1. draft' = draft /\ events' = events /\ run' = run
      BY <1>3 DEF Surroundings, EditProject, SetProjectLock, ArchiveProject, ChangeHolder,
                  Deactivate, vars
    <2>2. QED
      BY <1>2, <2>1
  <1>4. CASE Tick
    <2>1. /\ run'[q] = [run[q] EXCEPT !.left = Down(run[q].left)]
          /\ draft'[q] = [draft[q] EXCEPT !.left = Down(draft[q].left)] /\ events' = events
      BY <1>4 DEF Tick
    <2>2. /\ SameRun(run[q], run'[q]) /\ SameDraft(draft[q], draft'[q])
          /\ run'[q].claim = run[q].claim /\ run'[q].recoveries = run[q].recoveries
          /\ run'[q].left = Down(run[q].left)
      BY <1>1, <2>1 DEF Run, Draft, SameRun, SameDraft
    <2>3. run[q].left = 0 => run'[q].left = 0 /\ run'[q] = run[q]
      <3>1. Down(0) = 0
        BY DEF Down
      <3>2. QED
        BY <1>1, <2>1, <2>2, <3>1 DEF Run
    <2>4. ClaimMoves(run[q], run'[q])
      BY <2>2, <2>3 DEF ClaimMoves, RowsRest
    <2>5. QED
      BY <2>1, <2>2, <2>4 DEF Idles, RunMoves
  <1>5. ASSUME NEW w \in Workers, WorkerStep(w)
        PROVE  RunMoves(q)
    BY <1>1, <1>5, ClaimStepMoves, WriteMoves DEF WorkerStep
  <1>6. QED
    BY <1>1, <1>3, <1>4, <1>5, CommandMoves DEF Next

-----------------------------------------------------------------------------
(* The row, the draft and the log of a Run agree. *)

\* How a Run ends.
LEMMA EndStates ==
    /\ \A a : CompletedState(a) \in Completed
    /\ "failed" \in Terminal \ Completed /\ "cancelled" \in Terminal \ Completed
    /\ Completed \subseteq Terminal
    /\ "absent" \notin Completed /\ "queued" \notin Completed /\ "running" \notin Completed
  BY DEF CompletedState, Completed, Terminal

\* The row of a Run that is closed.
LEMMA ClosedRow ==
    ASSUME NEW row \in Run, NEW s
    PROVE  LET c == Closed(row, s)
               n == [c EXCEPT !.noop = TRUE]
           IN  /\ c.state = s /\ c.claim = 0 /\ c.left = 0 /\ c.noop = row.noop
               /\ c.actor = row.actor /\ c.frozen = row.frozen
               /\ n.state = s /\ n.claim = 0 /\ n.left = 0 /\ n.noop = TRUE
               /\ n.actor = row.actor /\ n.frozen = row.frozen
  <1> DEFINE c == Closed(row, s)
             n == [c EXCEPT !.noop = TRUE]
  <1>1. /\ c = [c EXCEPT !.noop = row.noop]
        /\ c.state = s /\ c.claim = 0 /\ c.left = 0 /\ c.noop = row.noop
        /\ c.actor = row.actor /\ c.frozen = row.frozen
    BY DEF Closed, Run
  <1>2. /\ DOMAIN c = DOMAIN row
    BY DEF Closed, Run
  <1>3. {"state", "actor", "frozen", "noop", "claim", "left"} \subseteq DOMAIN row
    BY DEF Run
  <1> HIDE DEF c
  <1>4. /\ n.state = c.state /\ n.claim = c.claim /\ n.left = c.left /\ n.noop = TRUE
        /\ n.actor = c.actor /\ n.frozen = c.frozen
    BY <1>2, <1>3
  <1>5. QED
    BY <1>1, <1>4 DEF c

\* Rows stay as RowsRest says.
LEMMA RestStep ==
    ASSUME IInv, RowsRest, RecoveriesCounted, [Next]_vars
    PROVE  RowsRest'
  <1> SUFFICES ASSUME NEW q \in Runs
               PROVE  /\ run'[q].claim = 0 => run'[q].left = 0
                      /\ run'[q].state \in Terminal => run'[q].claim = 0
                      /\ run'[q].noop => run'[q].state \in Completed
    BY DEF RowsRest
  <1>1. /\ RunMoves(q) /\ run[q] \in Run
        /\ run[q].claim = 0 => run[q].left = 0
        /\ run[q].state \in Terminal => run[q].claim = 0
        /\ run[q].noop => run[q].state \in Completed
    BY StepMoves, RowTypes DEF IInv, RowsRest
  <1>2. CASE Idles(q)
    BY <1>1, <1>2 DEF Idles, SameRun, ClaimMoves
  <1>3. CASE Made(q) \/ Started(q) \/ Taken(q)
    BY <1>1, <1>3, EndStates, TerminalIsOver DEF Made, Started, Taken
  <1>4. ASSUME NEW s \in {"failed", "cancelled"}, Stopped(q, s)
        PROVE  run'[q].claim = 0 /\ run'[q].left = 0 /\ ~run'[q].noop
    BY <1>1, <1>4, EndStates, ClosedRow DEF Stopped
  <1>5. ASSUME NEW a \in Attempts, Delivered(q, a) \/ NothingToDo(q, a)
        PROVE  run'[q].claim = 0 /\ run'[q].left = 0 /\ run'[q].state \in Completed
    <2>1. PICK s \in Completed : \/ run'[q] = Closed(run[q], s)
                                 \/ run'[q] = [Closed(run[q], s) EXCEPT !.noop = TRUE]
      BY <1>5, EndStates DEF Delivered, NothingToDo
    <2>2. /\ Closed(run[q], s).state = s /\ Closed(run[q], s).claim = 0
          /\ Closed(run[q], s).left = 0
          /\ [Closed(run[q], s) EXCEPT !.noop = TRUE].state = s
          /\ [Closed(run[q], s) EXCEPT !.noop = TRUE].claim = 0
          /\ [Closed(run[q], s) EXCEPT !.noop = TRUE].left = 0
      BY <1>1, ClosedRow
    <2>3. QED
      BY <2>1, <2>2
  <1>6. QED
    BY <1>1, <1>2, <1>3, <1>4, <1>5 DEF RunMoves

\* DraftAgreesWithRun is inductive relative to RowsRest.
LEMMA DraftStep ==
    ASSUME IInv, RowsRest, RecoveriesCounted, DraftAgreesWithRun, [Next]_vars
    PROVE  DraftAgreesWithRun'
  <1> SUFFICES ASSUME NEW q \in Runs
               PROVE  /\ draft'[q].status \in {"validated", "applied"} <=>
                            run'[q].state \in Completed /\ ~run'[q].noop
                      /\ draft'[q].status = "active" => run'[q].state = "failed"
                      /\ draft'[q].status # "none" => draft'[q].base = run'[q].frozen
    BY DEF DraftAgreesWithRun
  <1>1. /\ RunMoves(q) /\ run[q] \in Run /\ draft[q] \in Draft
        /\ run[q].noop => run[q].state \in Completed
        /\ draft[q].status \in {"validated", "applied"} <=> run[q].state \in Completed /\ ~run[q].noop
        /\ draft[q].status = "active" => run[q].state = "failed"
        /\ draft[q].status # "none" => draft[q].base = run[q].frozen
    BY StepMoves, RowTypes DEF IInv, RowsRest, DraftAgreesWithRun
  <1>2. draft[q].status \in {"none", "active", "validated", "applied"}
    BY <1>1 DEF Draft
  <1>3. CASE Idles(q)
    BY <1>1, <1>3 DEF Idles, SameRun, SameDraft
  <1>4. CASE Made(q)
    BY <1>1, <1>2, <1>4, EndStates DEF Made
  <1>5. CASE Started(q)
    BY <1>1, <1>2, <1>5, EndStates DEF Started
  <1>6. CASE Taken(q)
    BY <1>1, <1>6 DEF Taken
  <1>7. ASSUME NEW s \in {"failed", "cancelled"}, Stopped(q, s)
        PROVE  /\ run'[q].state = s /\ run'[q].state \notin Completed
               /\ run'[q].frozen = run[q].frozen
               /\ \/ draft'[q].status = "none"
                  \/ s = "failed" /\ draft'[q].status = "active" /\ draft'[q].base = run[q].frozen
    <2>1. draft[q].status = "none"
      BY <1>1, <1>2, <1>7, EndStates DEF Stopped
    <2>2. QED
      BY <1>1, <1>7, <2>1, EndStates, ClosedRow DEF Stopped
  <1>8. ASSUME NEW a \in Attempts, Delivered(q, a)
        PROVE  /\ run'[q].state \in Completed /\ ~run'[q].noop /\ run'[q].frozen = run[q].frozen
               /\ draft'[q].status = "validated" /\ draft'[q].base = run[q].frozen
    BY <1>1, <1>8, EndStates, ClosedRow DEF Delivered, Running
  <1>9. ASSUME NEW a \in Attempts, NothingToDo(q, a)
        PROVE  run'[q].noop /\ draft'[q].status = "none"
    BY <1>1, <1>9, ClosedRow DEF NothingToDo
  <1>10. QED
    BY <1>1, <1>3, <1>4, <1>5, <1>6, <1>7, <1>8, <1>9 DEF RunMoves

\* What LogAgreesWithState says of one Run.
LogAgrees(log, row) ==
    LET N == Len(log) IN
    /\ row.state \in {"absent", "queued"} => log = <<>>
    /\ row.state = "running" => N > 0 /\ log[N].kind \notin EndKinds \cup {"backend_validation"}
    /\ row.state \in Terminal =>
           N > 0 /\ log[N].kind = IF row.noop THEN "backend_validation"
                                  ELSE IF row.state \in Completed THEN "completed" ELSE row.state
    /\ \A i \in 1..N : /\ log[i].kind = "started" => i = 1
                       /\ log[i].kind \in EndKinds => i = N
                       /\ log[i].kind = "backend_validation" => row.state \in Completed
    /\ row.state \in Completed =>
           (row.state = "completed_with_repair") = (\E i \in 1..N : log[i].attempt > 1)

\* One more event.
LEMMA OneMore ==
    ASSUME NEW log \in Seq(Event), NEW e \in Event
    PROVE  /\ Append(log, e) \in Seq(Event) /\ Len(log) \in Nat
           /\ Len(Append(log, e)) = Len(log) + 1 /\ Append(log, e)[Len(log) + 1] = e
           /\ \A i \in 1..(Len(log) + 1) : i = Len(log) + 1 \/ i \in 1..Len(log)
           /\ \A i \in 1..Len(log) : Append(log, e)[i] = log[i] /\ i \in 1..(Len(log) + 1)
           /\ Len(log) + 1 \in 1..(Len(log) + 1)
  OBVIOUS

\* The log of a Run that is not over has no end.
LEMMA OpenLog ==
    ASSUME NEW log \in Seq(Event), NEW row, LogAgrees(log, row),
           row.state \in {"queued", "running"}
    PROVE  \A i \in 1..Len(log) : /\ log[i].kind = "started" => i = 1
                                  /\ log[i].kind \notin EndKinds \cup {"backend_validation"}
  <1>1. CASE row.state = "queued"
    <2>1. Len(log) = 0
      BY <1>1 DEF LogAgrees
    <2>2. QED
      BY <2>1
  <1>2. CASE row.state = "running"
    BY <1>2, EndStates DEF LogAgrees
  <1>3. QED
    BY <1>1, <1>2

\* Progress of a running Run.
LEMMA LogProgress ==
    ASSUME NEW log \in Seq(Event), NEW row, LogAgrees(log, row), row.state = "running",
           NEW a \in Attempts
    PROVE  LogAgrees(Append(log, [kind |-> "progress", attempt |-> a]), row)
  <1> DEFINE e == [kind |-> "progress", attempt |-> a]
             new == Append(log, e)
  <1>1. e \in Event /\ e.kind = "progress"
    BY DEF Event, EventKinds
  <1>2. "progress" # "started" /\ "progress" \notin EndKinds \cup {"backend_validation"}
    BY DEF EndKinds
  <1> HIDE DEF e
  <1>3. /\ Len(log) \in Nat /\ Len(new) = Len(log) + 1 /\ new[Len(log) + 1] = e
        /\ \A i \in 1..(Len(log) + 1) : i = Len(log) + 1 \/ i \in 1..Len(log)
        /\ \A i \in 1..Len(log) : new[i] = log[i]
    BY <1>1, OneMore
  <1>4. \A i \in 1..Len(log) : /\ log[i].kind = "started" => i = 1
                               /\ log[i].kind \notin EndKinds \cup {"backend_validation"}
    BY OpenLog
  <1> HIDE DEF new
  <1>5. \A i \in 1..Len(new) : /\ new[i].kind = "started" => i = 1
                               /\ new[i].kind \notin EndKinds \cup {"backend_validation"}
    BY <1>1, <1>2, <1>3, <1>4
  <1>6. Len(new) > 0 /\ new[Len(new)].kind \notin EndKinds \cup {"backend_validation"}
    BY <1>1, <1>2, <1>3
  <1>7. LogAgrees(new, row)
    BY <1>5, <1>6, EndStates, TerminalIsOver DEF LogAgrees
  <1>8. QED
    BY <1>7 DEF new, e

\* A Run ends without a result.
LEMMA LogStop ==
    ASSUME NEW log \in Seq(Event), NEW row, LogAgrees(log, row),
           row.state \in {"queued", "running"},
           NEW s \in {"failed", "cancelled"}, NEW a \in Attempts,
           NEW next, next.state = s, ~next.noop
    PROVE  LogAgrees(Append(log, [kind |-> s, attempt |-> a]), next)
  <1> DEFINE e == [kind |-> s, attempt |-> a]
             new == Append(log, e)
  <1>1. e \in Event /\ e.kind = s
    BY DEF Event, EventKinds
  <1>2. s # "started" /\ s # "backend_validation" /\ s # "absent" /\ s # "queued" /\ s # "running"
    OBVIOUS
  <1> HIDE DEF e
  <1>3. /\ Len(log) \in Nat /\ Len(new) = Len(log) + 1 /\ new[Len(log) + 1] = e
        /\ \A i \in 1..(Len(log) + 1) : i = Len(log) + 1 \/ i \in 1..Len(log)
        /\ \A i \in 1..Len(log) : new[i] = log[i]
    BY <1>1, OneMore
  <1>4. \A i \in 1..Len(log) : /\ log[i].kind = "started" => i = 1
                               /\ log[i].kind \notin EndKinds \cup {"backend_validation"}
    BY OpenLog
  <1> HIDE DEF new
  <1>5. \A i \in 1..Len(new) : /\ new[i].kind = "started" => i = 1
                               /\ new[i].kind \in EndKinds => i = Len(new)
                               /\ new[i].kind # "backend_validation"
    BY <1>1, <1>2, <1>3, <1>4
  <1>6. Len(new) > 0 /\ new[Len(new)].kind = s
    BY <1>1, <1>3
  <1>7. LogAgrees(new, next)
    BY <1>2, <1>5, <1>6, EndStates DEF LogAgrees
  <1>8. QED
    BY <1>7 DEF new, e

\* A Run completes with the last event of attempt a, the greatest so far: an
\* event of a later attempt than the first makes it a repair.
LEMMA LogComplete ==
    ASSUME NEW log \in Seq(Event), NEW row, LogAgrees(log, row), row.state = "running",
           NEW a \in Attempts, \A i \in 1..Len(log) : log[i].attempt <= a,
           NEW next, next.state = CompletedState(a), next.noop
    PROVE  LogAgrees(Append(log, [kind |-> "backend_validation", attempt |-> a]), next)
  <1> DEFINE e == [kind |-> "backend_validation", attempt |-> a]
             new == Append(log, e)
  <1>1. e \in Event /\ e.kind = "backend_validation" /\ e.attempt = a
    BY DEF Event, EventKinds
  <1>2. a \in Nat /\ \A i \in 1..Len(log) : log[i].attempt \in Nat
    <2>1. \A i \in 1..Len(log) : log[i] \in Event
      OBVIOUS
    <2>2. QED
      BY <2>1 DEF Event, Attempts
  <1> HIDE DEF e
  <1>3. /\ Len(log) \in Nat /\ Len(new) = Len(log) + 1 /\ new[Len(log) + 1] = e
        /\ \A i \in 1..(Len(log) + 1) : i = Len(log) + 1 \/ i \in 1..Len(log)
        /\ \A i \in 1..Len(log) : new[i] = log[i]
        /\ Len(log) + 1 \in 1..(Len(log) + 1)
    BY <1>1, OneMore
  <1>4. \A i \in 1..Len(log) : /\ log[i].kind = "started" => i = 1
                               /\ log[i].kind \notin EndKinds \cup {"backend_validation"}
    BY OpenLog
  <1> HIDE DEF new
  <1>5. \A i \in 1..Len(new) : /\ new[i].kind = "started" => i = 1
                               /\ new[i].kind \notin EndKinds
    BY <1>1, <1>3, <1>4 DEF EndKinds
  <1>6. Len(new) > 0 /\ new[Len(new)].kind = "backend_validation"
    BY <1>1, <1>3
  <1>7. (next.state = "completed_with_repair") = (\E i \in 1..Len(new) : new[i].attempt > 1)
    <2>1. a > 1 <=> \E i \in 1..Len(new) : new[i].attempt > 1
      <3>1. a > 1 => \E i \in 1..Len(new) : new[i].attempt > 1
        BY <1>1, <1>3
      <3>2. \A i \in 1..Len(new) : new[i].attempt > 1 => a > 1
        BY <1>1, <1>2, <1>3
      <3>3. QED
        BY <3>1, <3>2
    <2>2. next.state = "completed_with_repair" <=> a > 1
      BY DEF CompletedState
    <2>3. QED
      BY <2>1, <2>2
  <1>8. next.state \in Completed /\ next.state \notin {"absent", "queued", "running"}
    BY EndStates
  <1>9. LogAgrees(new, next)
    BY <1>5, <1>6, <1>7, <1>8 DEF LogAgrees
  <1>10. QED
    BY <1>9 DEF new, e

\* A Run completes with a draft: two events, the last of the greatest attempt.
LEMMA LogDeliver ==
    ASSUME NEW log \in Seq(Event), NEW row, LogAgrees(log, row), row.state = "running",
           NEW a \in Attempts, NEW last \in Attempts, a <= last,
           \A i \in 1..Len(log) : log[i].attempt <= last,
           NEW next, next.state = CompletedState(last), ~next.noop
    PROVE  LogAgrees(Append(Append(log, [kind |-> "backend_validation", attempt |-> a]),
                            [kind |-> "completed", attempt |-> last]), next)
  <1> DEFINE e == [kind |-> "backend_validation", attempt |-> a]
             f == [kind |-> "completed", attempt |-> last]
             mid == Append(log, e)
             new == Append(mid, f)
  <1>1. /\ e \in Event /\ e.kind = "backend_validation" /\ e.attempt = a
        /\ f \in Event /\ f.kind = "completed" /\ f.attempt = last
    BY DEF Event, EventKinds
  <1>2. a \in Nat /\ last \in Nat /\ \A i \in 1..Len(log) : log[i].attempt \in Nat
    <2>1. \A i \in 1..Len(log) : log[i] \in Event
      OBVIOUS
    <2>2. QED
      BY <2>1 DEF Event, Attempts
  <1> HIDE DEF e, f
  <1>3. /\ mid \in Seq(Event) /\ Len(log) \in Nat
        /\ Len(mid) = Len(log) + 1 /\ mid[Len(log) + 1] = e
        /\ \A i \in 1..(Len(log) + 1) : i = Len(log) + 1 \/ i \in 1..Len(log)
        /\ \A i \in 1..Len(log) : mid[i] = log[i]
    BY <1>1, OneMore
  <1> HIDE DEF mid
  <1>4. /\ Len(mid) \in Nat /\ Len(new) = Len(mid) + 1 /\ new[Len(mid) + 1] = f
        /\ \A i \in 1..(Len(mid) + 1) : i = Len(mid) + 1 \/ i \in 1..Len(mid)
        /\ \A i \in 1..Len(mid) : new[i] = mid[i]
        /\ Len(mid) + 1 \in 1..(Len(mid) + 1)
    BY <1>1, <1>3, OneMore
  <1>5. \A i \in 1..Len(log) : /\ log[i].kind = "started" => i = 1
                               /\ log[i].kind \notin EndKinds \cup {"backend_validation"}
    BY OpenLog
  <1> HIDE DEF new
  <1>6. \A i \in 1..Len(mid) : /\ mid[i].kind = "started" => i = 1
                               /\ mid[i].kind \notin EndKinds
                               /\ mid[i].attempt <= last
    BY <1>1, <1>3, <1>5 DEF EndKinds
  <1>7. \A i \in 1..Len(new) : /\ new[i].kind = "started" => i = 1
                               /\ new[i].kind \in EndKinds => i = Len(new)
    BY <1>1, <1>4, <1>6
  <1>8. Len(new) > 0 /\ new[Len(new)].kind = "completed"
    BY <1>1, <1>4
  <1>9. (next.state = "completed_with_repair") = (\E i \in 1..Len(new) : new[i].attempt > 1)
    <2>1. last > 1 <=> \E i \in 1..Len(new) : new[i].attempt > 1
      <3>1. last > 1 => \E i \in 1..Len(new) : new[i].attempt > 1
        BY <1>1, <1>4
      <3>2. \A i \in 1..Len(mid) : mid[i].attempt \in Nat
        BY <1>1, <1>2, <1>3
      <3>3. \A i \in 1..Len(new) : new[i].attempt > 1 => last > 1
        BY <1>1, <1>2, <1>4, <1>6, <3>2
      <3>4. QED
        BY <3>1, <3>3
    <2>2. next.state = "completed_with_repair" <=> last > 1
      BY DEF CompletedState
    <2>3. QED
      BY <2>1, <2>2
  <1>10. next.state \in Completed /\ next.state \notin {"absent", "queued", "running"}
    BY EndStates
  <1>11. LogAgrees(new, next)
    BY <1>7, <1>8, <1>9, <1>10 DEF LogAgrees
  <1>12. QED
    BY <1>11 DEF new, mid, e, f

\* LogAgreesWithState is inductive relative to RowsRest.
LEMMA LogStep ==
    ASSUME IInv, RowsRest, RecoveriesCounted, LogAgreesWithState, [Next]_vars
    PROVE  LogAgreesWithState'
  <1> SUFFICES ASSUME NEW q \in Runs
               PROVE  LogAgrees(events'[q], run'[q])
    BY DEF LogAgreesWithState, LogAgrees, EndKind, Running
  <1> DEFINE log == events[q]
             row == run[q]
             most == MaxAttempt(q)
  <1>1. /\ RunMoves(q) /\ row \in Run /\ log \in Seq(Event) /\ LogAgrees(log, row)
        /\ row.noop => row.state \in Completed
    BY StepMoves, RowTypes DEF IInv, RowsRest, LogAgreesWithState, LogAgrees, EndKind, Running
  <1>2. most \in Attempts /\ \A i \in 1..Len(log) : log[i].attempt <= most
    BY MaxAttemptIsGreatest DEF IInv
  <1>3. CASE Idles(q)
    <2>1. LogAgrees(events'[q], row)
      BY <1>1, <1>3, LogProgress DEF Idles, Log, Running
    <2>2. QED
      BY <1>3, <2>1 DEF Idles, SameRun, LogAgrees
  <1>4. CASE Made(q) \/ Taken(q)
    BY <1>1, <1>4, EndStates, TerminalIsOver DEF Made, Taken, LogAgrees
  <1>5. CASE Started(q)
    <2> DEFINE e == [kind |-> "started", attempt |-> 1]
    <2>1. /\ events'[q] = <<e>> /\ Len(<<e>>) = 1 /\ \A i \in 1..1 : <<e>>[i].kind = "started" /\ i = 1
      BY <1>5 DEF Started
    <2>2. "started" \notin EndKinds \cup {"backend_validation"}
      BY DEF EndKinds
    <2>3. run'[q].state = "running"
      BY <1>5 DEF Started
    <2>4. PICK new : /\ new = events'[q] /\ Len(new) = 1
                     /\ \A i \in 1..Len(new) : new[i].kind = "started" /\ i = 1
                     /\ new[Len(new)].kind = "started"
      BY <2>1
    <2>5. LogAgrees(new, run'[q])
      <3>1. /\ run'[q].state \notin Terminal /\ run'[q].state \notin Completed
            /\ run'[q].state \notin {"absent", "queued"}
        BY <2>3, EndStates, TerminalIsOver
      <3>2. Len(new) > 0 /\ new[Len(new)].kind \notin EndKinds \cup {"backend_validation"}
        BY <2>2, <2>4
      <3>3. \A i \in 1..Len(new) : /\ new[i].kind = "started" => i = 1
                                   /\ new[i].kind \notin EndKinds \cup {"backend_validation"}
        BY <2>2, <2>4
      <3> HIDE DEF log, row, most, e
      <3>4. QED
        BY <3>1, <3>2, <3>3 DEF LogAgrees
    <2>6. QED
      BY <2>4, <2>5
  <1>6. ASSUME NEW s \in {"failed", "cancelled"}, Stopped(q, s)
        PROVE  LogAgrees(events'[q], run'[q])
    <2>1. /\ row.state \in {"queued", "running"} /\ run'[q] = Closed(row, s)
          /\ events'[q] = Append(log, [kind |-> s, attempt |-> most])
      BY <1>6 DEF Stopped, Log
    <2>2. run'[q].state = s /\ ~run'[q].noop
      BY <1>1, <2>1, EndStates, ClosedRow
    <2> HIDE DEF log, row, most
    <2>3. QED
      BY <1>1, <1>2, <2>1, <2>2, LogStop
  <1>7. ASSUME NEW a \in Attempts, Delivered(q, a)
        PROVE  LogAgrees(events'[q], run'[q])
    <2> DEFINE last == Larger(a, most)
    <2>1. /\ row.state = "running" /\ run'[q] = Closed(row, CompletedState(last))
          /\ events'[q] = Append(Append(log, [kind |-> "backend_validation", attempt |-> a]),
                                 [kind |-> "completed", attempt |-> last])
      BY <1>7 DEF Delivered, Log, Running
    <2>2. run'[q].state = CompletedState(last) /\ ~run'[q].noop
      BY <1>1, <2>1, EndStates, ClosedRow
    <2>3. \A i \in 1..Len(log) : log[i].attempt \in Attempts
      <3>1. \A i \in 1..Len(log) : log[i] \in Event
        BY <1>1
      <3>2. QED
        BY <3>1 DEF Event
    <2> HIDE DEF log, row, most
    <2>4. /\ last \in Attempts /\ a <= last
          /\ \A i \in 1..Len(log) : log[i].attempt <= last
      BY <1>2, <2>3, Bounds DEF Larger, Attempts
    <2> HIDE DEF last
    <2>5. QED
      BY <1>1, <2>1, <2>2, <2>4, LogDeliver
  <1>8. ASSUME NEW a \in Attempts, NothingToDo(q, a)
        PROVE  LogAgrees(events'[q], run'[q])
    <2>1. /\ row.state = "running" /\ a >= most
          /\ run'[q] = [Closed(row, CompletedState(a)) EXCEPT !.noop = TRUE]
          /\ events'[q] = Append(log, [kind |-> "backend_validation", attempt |-> a])
      BY <1>8 DEF NothingToDo, Log, Running
    <2>2. run'[q].state = CompletedState(a) /\ run'[q].noop
      BY <1>1, <2>1, ClosedRow
    <2>3. \A i \in 1..Len(log) : log[i].attempt \in Attempts
      <3>1. \A i \in 1..Len(log) : log[i] \in Event
        BY <1>1
      <3>2. QED
        BY <3>1 DEF Event
    <2> HIDE DEF log, row, most
    <2>4. \A i \in 1..Len(log) : log[i].attempt <= a
      BY <1>2, <2>1, <2>3, Bounds DEF Attempts
    <2>5. QED
      BY <1>1, <2>1, <2>2, <2>4, LogComplete
  <1>9. QED
    BY <1>1, <1>3, <1>4, <1>5, <1>6, <1>7, <1>8 DEF RunMoves

-----------------------------------------------------------------------------
(* The inductive invariant of a Run's history, and what follows from it. *)

HistoryInv ==
    IInv /\ RowsRest /\ RecoveriesCounted /\ DraftAgreesWithRun /\ LogAgreesWithState

\* Rows, claims, drafts and logs agree in every reachable state.
THEOREM HistoryInvariance == Spec => []HistoryInv
  <1>1. Init => RowsRest /\ DraftAgreesWithRun /\ LogAgreesWithState
    <2> SUFFICES ASSUME Init
                 PROVE  RowsRest /\ DraftAgreesWithRun /\ LogAgreesWithState
      OBVIOUS
    <2>1. ASSUME NEW q \in Runs
          PROVE  /\ run[q].claim = 0 /\ run[q].left = 0 /\ ~run[q].noop
                 /\ run[q].state = "absent" /\ draft[q].status = "none"
                 /\ events[q] = <<>> /\ Len(events[q]) = 0
      BY DEF Init, NewRun, NewDraft
    <2>2. RowsRest /\ DraftAgreesWithRun
      BY <2>1, EndStates DEF RowsRest, DraftAgreesWithRun
    <2>3. ASSUME NEW q \in Runs
          PROVE  LogAgrees(events[q], run[q])
      <3>1. /\ run[q].state \notin Terminal /\ run[q].state \notin Completed
            /\ run[q].state # "running" /\ events[q] = <<>>
        BY <2>1, EndStates, TerminalIsOver
      <3>2. \A i \in 1..Len(events[q]) : FALSE
        BY <2>1
      <3>3. QED
        BY <3>1, <3>2 DEF LogAgrees
    <2>4. LogAgreesWithState
      BY <2>3 DEF LogAgreesWithState, LogAgrees, EndKind, Running
    <2>5. QED
      BY <2>2, <2>4
  <1>2. HistoryInv /\ [Next]_vars => (RowsRest /\ DraftAgreesWithRun /\ LogAgreesWithState)'
    BY RestStep, DraftStep, LogStep DEF HistoryInv
  <1>3. Spec => [](IInv /\ RecoveriesCounted)
    BY Invariance, ClaimsPaidFor, PTL
  <1>4. QED
    BY <1>1, <1>2, <1>3, PTL DEF Spec, HistoryInv

\* LogAgreesWithState: the log tells the Run's history, whichever executions,
\* recoveries and cancellations wrote it.
THEOREM LogTold == Spec => []LogAgreesWithState
  BY HistoryInvariance, PTL DEF HistoryInv

\* DraftAgreesWithRun: what a Run leaves behind agrees with how it ended.
THEOREM DraftsTold == Spec => []DraftAgreesWithRun
  BY HistoryInvariance, PTL DEF HistoryInv

\* GuardNeverFires: no statement of the model updates a Run in a way that the
\* trigger guard_workflow_run refuses.
THEOREM GuardSilent == Spec => GuardNeverFires
  <1>1. ASSUME HistoryInv, [Next]_vars, NEW q \in Runs
        PROVE  GuardAllows(run[q], run'[q])
    <2> DEFINE old == run[q]
               new == run'[q]
    <2>1. /\ RunMoves(q) /\ old \in Run /\ old.recoveries \in Nat
          /\ old.noop => old.state \in Completed
      BY <1>1, StepMoves, RowTypes, RowNumbers DEF HistoryInv, IInv, RowsRest
    <2>2. CASE Idles(q)
      <3>1. SameRun(old, new) /\ ClaimMoves(old, new)
        BY <2>2 DEF Idles
      <3>2. old.recoveries # old.recoveries + 1
        BY <2>1
      <3> HIDE DEF old, new
      <3>3. GuardAllows(old, new)
        BY <3>1, <3>2 DEF SameRun, ClaimMoves, GuardAllows
      <3>4. QED
        BY <3>3 DEF old, new
    <2>3. CASE Taken(q)
      <3>1. new = old /\ old.recoveries # old.recoveries + 1
        BY <2>1, <2>3 DEF Taken
      <3> HIDE DEF old, new
      <3>2. GuardAllows(old, new)
        BY <3>1 DEF GuardAllows
      <3>3. QED
        BY <3>2 DEF old, new
    <2>4. CASE Made(q) \/ Started(q)
      BY <2>4, TerminalIsOver DEF Made, Started, GuardAllows
    <2>5. ASSUME NEW s \in {"failed", "cancelled"}, Stopped(q, s)
          PROVE  GuardAllows(old, new)
      <3>1. /\ new.state = s /\ new.actor = old.actor /\ new.frozen = old.frozen
            /\ old.state \in {"queued", "running"} /\ (s = "failed" => old.state = "running")
        BY <2>1, <2>5, ClosedRow DEF Stopped, Running
      <3> HIDE DEF old, new
      <3>2. QED
        BY <3>1, TerminalIsOver DEF GuardAllows
    <2>6. ASSUME NEW a \in Attempts, Delivered(q, a) \/ NothingToDo(q, a)
          PROVE  GuardAllows(old, new)
      <3>1. PICK s \in Completed : \/ new = Closed(old, s)
                                   \/ new = [Closed(old, s) EXCEPT !.noop = TRUE]
        BY <2>6, EndStates DEF Delivered, NothingToDo
      <3>2. old.state = "running"
        BY <2>6 DEF Delivered, NothingToDo, Running
      <3>3. new.state = s /\ new.actor = old.actor /\ new.frozen = old.frozen
        <4>1. /\ Closed(old, s).state = s /\ Closed(old, s).actor = old.actor
              /\ Closed(old, s).frozen = old.frozen
              /\ [Closed(old, s) EXCEPT !.noop = TRUE].state = s
              /\ [Closed(old, s) EXCEPT !.noop = TRUE].actor = old.actor
              /\ [Closed(old, s) EXCEPT !.noop = TRUE].frozen = old.frozen
          BY <2>1, ClosedRow
        <4>2. QED
          BY <3>1, <4>1
      <3> HIDE DEF old, new
      <3>4. QED
        BY <3>2, <3>3, EndStates, TerminalIsOver DEF GuardAllows
    <2>7. QED
      BY <2>1, <2>2, <2>3, <2>4, <2>5, <2>6 DEF RunMoves
  <1>2. HistoryInv /\ [Next]_vars => [\A r \in Runs : GuardAllows(run[r], run'[r])]_vars
    BY <1>1
  <1>3. QED
    BY <1>2, HistoryInvariance, PTL DEF Spec, GuardNeverFires

-----------------------------------------------------------------------------
(* No update is lost. *)

\* The Project revision never goes back.
LEMMA RevisionsGrow ==
    ASSUME TypeOK, TypeOK', [Next]_vars, NEW p \in Projects
    PROVE  /\ project[p].revision \in Nat /\ project'[p].revision \in Nat
           /\ project[p].revision <= project'[p].revision
  <1>1. /\ project[p] \in Project /\ project[p].revision \in Nat /\ project[p].revision + 1 \in Nat
        /\ project'[p].revision \in Nat
    BY DEF TypeOK, Project
  <1>2. CASE project'[p] = project[p]
    BY <1>1, <1>2
  <1>3. ASSUME NEW r \in Runs, NEW changed \in {0, 1}, ApplyDraft(r, changed), p = ProjectOf[r]
        PROVE  project[p].revision <= project'[p].revision
    <2> DEFINE n == project[p].revision + changed
    <2>1. project' = [project EXCEPT ![p].revision = n]
      BY <1>3 DEF ApplyDraft
    <2>2. n \in Nat /\ project[p].revision <= n
      BY <1>1
    <2> HIDE DEF n
    <2>3. project'[p].revision = n
      BY <1>1, <2>1 DEF TypeOK, Project
    <2>4. QED
      BY <2>2, <2>3
  <1>4. ASSUME EditProject(p) \/ SetProjectLock(p) \/ ArchiveProject(p)
        PROVE  project[p].revision <= project'[p].revision
    <2> DEFINE n == project[p].revision + 1
    <2>1. PICK s : \/ project' = [project EXCEPT ![p].revision = n]
                   \/ project' = [project EXCEPT ![p] = [revision |-> n, state |-> s]]
      BY <1>4 DEF EditProject, SetProjectLock, ArchiveProject
    <2>2. n \in Nat /\ project[p].revision <= n
      BY <1>1
    <2> HIDE DEF n
    <2>3. project'[p].revision = n
      BY <1>1, <2>1 DEF TypeOK, Project
    <2>4. QED
      BY <2>2, <2>3
  <1>5. ASSUME NEW o \in Projects, EditProject(o) \/ SetProjectLock(o) \/ ArchiveProject(o), o # p
        PROVE  project'[p] = project[p]
    BY <1>5 DEF EditProject, SetProjectLock, ArchiveProject, TypeOK
  <1>6. ASSUME NEW r \in Runs, Command(r)
        PROVE  \/ project'[p] = project[p]
               \/ \E changed \in {0, 1} : ApplyDraft(r, changed) /\ p = ProjectOf[r]
    <2>1. Create(r, run'[r].actor) \/ project' = project \/ \E changed \in {0, 1} : ApplyDraft(r, changed)
      BY <1>6 DEF Command, Create, Start, Cancel
    <2>2. QED
      BY <1>6, Bounds DEF Command, Create, Start, Cancel, ApplyDraft, TypeOK
  <1>7. ASSUME NEW w \in Workers, WorkerStep(w)
        PROVE  project' = project
    BY <1>7, WorkerOnlyEnds
  <1>8. CASE (\E t \in Tenants : ChangeHolder(t)) \/ (\E a \in Actors : Deactivate(a))
             \/ Tick \/ UNCHANGED vars
    BY <1>2, <1>8 DEF ChangeHolder, Deactivate, Tick, vars
  <1>9. QED
    BY <1>1, <1>2, <1>3, <1>4, <1>5, <1>6, <1>7, <1>8 DEF Next, Surroundings

\* Only applying a draft makes it an applied one, or changes an applied one.
LEMMA OnlyApplied ==
    ASSUME TypeOK, [Next]_vars, ~\E r \in Runs, changed \in {0, 1} : ApplyDraft(r, changed),
           NEW q \in Runs, draft'[q].status = "applied"
    PROVE  SameDraft(draft[q], draft'[q])
  <1>1. draft[q] \in Draft
    BY RowTypes
  <1>2. CASE draft'[q] = draft[q]
    BY <1>2 DEF SameDraft
  <1>3. ASSUME NEW r \in Runs, Command(r)
        PROVE  draft' = draft
    BY <1>3 DEF Command, Create, Start, Cancel
  <1>4. ASSUME NEW w \in Workers, WorkerStep(w)
        PROVE  draft'[q] = draft[q]
    <2>1. ASSUME NEW r \in Runs, Write(w, r)
          PROVE  draft'[q] = draft[q]
      <3>1. CASE draft' = draft
        BY <3>1
      <3>2. CASE draft' # draft
        <4>1. PICK d : d.status # "applied" /\ draft' = [draft EXCEPT ![r] = d]
          BY <2>1, <3>2 DEF Write, BeginWrite, Rollback, AppendEvent, Finalize, CompleteNoOp,
                            RetainFailedCandidate, Fail
        <4>2. QED
          BY <4>1 DEF TypeOK
      <3>3. QED
        BY <3>1, <3>2
    <2>2. QED
      BY <1>4, <2>1 DEF WorkerStep, ClaimNext, EndExecution, Renew, Release
  <1>5. CASE Surroundings \/ UNCHANGED vars
    BY <1>2, <1>5 DEF Surroundings, EditProject, SetProjectLock, ArchiveProject, ChangeHolder,
                      Deactivate, vars
  <1>6. CASE Tick
    <2>1. draft'[q] = [draft[q] EXCEPT !.left = Down(draft[q].left)]
      BY <1>6 DEF Tick
    <2>2. QED
      BY <1>1, <2>1 DEF SameDraft, Draft
  <1>7. QED
    BY <1>2, <1>3, <1>4, <1>5, <1>6 DEF Next

\* The Project is at least at the revision that an applied draft left it at.
AppliedBefore ==
    \A r \in Runs : draft[r].status = "applied" => draft[r].result <= Revision(r)

\* A draft that was applied and changed the Project.
Changed(d) == d.status = "applied" /\ d.result > d.base

\* Applying a draft puts its result past everything applied before.
LEMMA ApplyKeeps ==
    ASSUME TypeOK, TypeOK', AppliedBefore, NoLostUpdate, [Next]_vars,
           NEW r \in Runs, NEW changed \in {0, 1}, ApplyDraft(r, changed)
    PROVE  AppliedBefore' /\ NoLostUpdate'
  <1> DEFINE base == Revision(r)
             n == base + changed
  <1>1. /\ draft[r] \in Draft /\ draft[r].base = base /\ base \in Nat
        /\ project[ProjectOf[r]] \in Project
    BY RowTypes DEF ApplyDraft, AtBaseRevision
  <1>2. n \in Nat
    BY <1>1
  <1>3. /\ draft' = [draft EXCEPT ![r].status = "applied", ![r].left = 0, ![r].result = n]
        /\ project' = [project EXCEPT ![ProjectOf[r]].revision = n]
    BY DEF ApplyDraft, Revision
  <1> HIDE DEF n
  <1>4. /\ draft'[r].result = n /\ draft'[r].base = base /\ Revision(r)' = n
        /\ \A q \in Runs \ {r} : draft'[q] = draft[q]
    <2>1. draft'[r] = [draft[r] EXCEPT !.status = "applied", !.left = 0, !.result = n]
      BY <1>3 DEF TypeOK
    <2>2. draft'[r].result = n /\ draft'[r].base = base
      BY <1>1, <2>1 DEF Draft
    <2>3. project'[ProjectOf[r]].revision = n
      BY <1>1, <1>3, Bounds DEF TypeOK, Project
    <2>4. QED
      BY <1>3, <2>2, <2>3 DEF Revision, TypeOK
  <1>5. \A q \in Runs : /\ Revision(q) \in Nat /\ Revision(q)' \in Nat
                        /\ Revision(q) <= Revision(q)'
    BY RevisionsGrow, Bounds DEF Revision
  <1>6. \A q \in Runs : draft[q].result \in Nat /\ draft[q].base \in Nat
    BY RowTypes DEF Draft
  <1>7. AppliedBefore'
    <2>1. \A q \in Runs \ {r} : draft[q].status = "applied" => draft[q].result <= Revision(q)'
      <3> SUFFICES ASSUME NEW q \in Runs \ {r}, draft[q].status = "applied"
                   PROVE  draft[q].result <= Revision(q)'
        OBVIOUS
      <3>1. draft[q].result <= Revision(q) /\ Revision(q) <= Revision(q)'
        BY <1>5 DEF AppliedBefore
      <3>2. QED
        BY <1>5, <1>6, <3>1
    <2>2. \A q \in Runs : draft'[q].status = "applied" => draft'[q].result <= Revision(q)'
      BY <1>2, <1>4, <2>1
    <2>3. QED
      BY <2>2 DEF AppliedBefore
  <1>8. ASSUME NEW q \in Runs \ {r}, ProjectOf[q] = ProjectOf[r], Changed(draft[q])
        PROVE  draft[q].base # base
    <2>1. draft[q].result <= base /\ draft[q].result > draft[q].base
      BY <1>8 DEF AppliedBefore, Changed, Revision
    <2>2. QED
      BY <1>1, <1>6, <2>1
  <1>9. NoLostUpdate'
    <2> SUFFICES ASSUME NEW a \in Runs, NEW b \in Runs, a # b, ProjectOf[a] = ProjectOf[b],
                        Changed(draft'[a]), Changed(draft'[b])
                 PROVE  draft'[a].base # draft'[b].base
      BY DEF NoLostUpdate, Changed
    <2>1. CASE a # r /\ b # r
      BY <1>4, <2>1 DEF NoLostUpdate, Changed
    <2>2. CASE a = r \/ b = r
      BY <1>4, <1>8, <2>2
    <2>3. QED
      BY <2>1, <2>2
  <1>10. QED
    BY <1>7, <1>9

\* NoLostUpdate: two drafts that changed the Project were never applied to the
\* same revision.
THEOREM UpdatesKept == Spec => []NoLostUpdate
  <1>1. Init => AppliedBefore /\ NoLostUpdate
    <2> SUFFICES ASSUME Init
                 PROVE  \A q \in Runs : draft[q].status = "none"
      BY DEF AppliedBefore, NoLostUpdate
    <2>1. QED
      BY DEF Init, NewDraft
  <1>2. TypeOK /\ TypeOK' /\ AppliedBefore /\ NoLostUpdate /\ [Next]_vars =>
           AppliedBefore' /\ NoLostUpdate'
    <2> SUFFICES ASSUME TypeOK, TypeOK', AppliedBefore, NoLostUpdate, [Next]_vars,
                        ~\E r \in Runs, changed \in {0, 1} : ApplyDraft(r, changed)
                 PROVE  AppliedBefore' /\ NoLostUpdate'
      BY ApplyKeeps
    <2>1. \A q \in Runs : draft'[q].status = "applied" => SameDraft(draft[q], draft'[q])
      BY OnlyApplied
    <2>2. AppliedBefore'
      <3> SUFFICES ASSUME NEW q \in Runs, draft'[q].status = "applied"
                   PROVE  draft'[q].result <= Revision(q)'
        BY DEF AppliedBefore
      <3>1. draft'[q].result = draft[q].result /\ draft[q].result <= Revision(q)
        BY <2>1 DEF SameDraft, AppliedBefore
      <3>2. /\ Revision(q) \in Nat /\ Revision(q)' \in Nat /\ Revision(q) <= Revision(q)'
        BY RevisionsGrow, Bounds DEF Revision
      <3>3. draft[q].result \in Nat
        BY RowTypes DEF Draft
      <3>4. QED
        BY <3>1, <3>2, <3>3
    <2>3. NoLostUpdate'
      BY <2>1 DEF NoLostUpdate, SameDraft
    <2>4. QED
      BY <2>2, <2>3
  <1>3. QED
    BY <1>1, <1>2, TypeCorrect, PTL DEF Spec

-----------------------------------------------------------------------------
(* Runs implement RunOutcome. *)

PhaseOf(s) == CASE s = "absent"    -> "unmade"
                [] s = "queued"    -> "waiting"
                [] s = "running"   -> "working"
                [] s \in Completed -> "done"
                [] OTHER           -> s

OfferOf(s) == CASE s = "none"      -> "none"
                [] s = "active"    -> "rejected"
                [] s = "validated" -> "ready"
                [] s = "applied"   -> "taken"

\* What the owner sees of the Runs.
Phases == [r \in Runs |-> Phase(r)]
Logged == [r \in Runs |-> Len(events[r])]
Offers == [r \in Runs |-> Offer(r)]

\* The phase of a state.
LEMMA PhaseTold ==
    /\ PhaseOf("absent") = "unmade" /\ PhaseOf("queued") = "waiting"
    /\ PhaseOf("running") = "working" /\ PhaseOf("failed") = "failed"
    /\ PhaseOf("cancelled") = "cancelled" /\ \A s \in Completed : PhaseOf(s) = "done"
  <1>1. /\ PhaseOf("absent") = "unmade" /\ PhaseOf("queued") = "waiting"
        /\ PhaseOf("running") = "working"
    BY DEF PhaseOf, Completed
  <1>2. PhaseOf("failed") = "failed" /\ PhaseOf("cancelled") = "cancelled"
    BY DEF PhaseOf, Completed
  <1>3. PhaseOf("completed") = "done" /\ PhaseOf("completed_with_repair") = "done"
    BY DEF PhaseOf, Completed
  <1>4. QED
    BY <1>1, <1>2, <1>3 DEF Completed

\* The offer of a draft.
LEMMA OfferTold ==
    /\ OfferOf("none") = "none" /\ OfferOf("active") = "rejected"
    /\ OfferOf("validated") = "ready" /\ OfferOf("applied") = "taken"
  BY DEF OfferOf

\* What is seen depends on the state, the log and the draft's status.
LEMMA SeenAs ==
    /\ Phases = [r \in Runs |-> PhaseOf(run[r].state)]
    /\ Phases' = [r \in Runs |-> PhaseOf(run'[r].state)]
    /\ Offers = [r \in Runs |-> OfferOf(draft[r].status)]
    /\ Offers' = [r \in Runs |-> OfferOf(draft'[r].status)]
    /\ Logged' = [r \in Runs |-> Len(events'[r])]
  BY DEF Phases, Phase, PhaseOf, Offers, Offer, OfferOf, Logged

\* A step that changes nothing that is seen.
LEMMA OutcomeStutters ==
    ASSUME events' = events,
           \A q \in Runs : run'[q].state = run[q].state /\ draft'[q].status = draft[q].status
    PROVE  UNCHANGED Outcome!vars
  <1>1. Phases' = Phases /\ Offers' = Offers /\ Logged' = Logged
    BY SeenAs DEF Logged
  <1>2. QED
    BY <1>1 DEF Outcome!vars, Phases, Offers, Logged

\* A step that moves one Run.
LEMMA OneSeen ==
    ASSUME NEW r \in Runs,
           \A q \in Runs \ {r} : run'[q] = run[q] /\ events'[q] = events[q] /\ draft'[q] = draft[q]
    PROVE  /\ Phases' = [Phases EXCEPT ![r] = PhaseOf(run'[r].state)]
           /\ Logged' = [Logged EXCEPT ![r] = Len(events'[r])]
           /\ Offers' = [Offers EXCEPT ![r] = OfferOf(draft'[r].status)]
           /\ Phases[r] = PhaseOf(run[r].state) /\ Logged[r] = Len(events[r])
           /\ Offers[r] = OfferOf(draft[r].status)
  BY SeenAs DEF Logged

\* One Run moves: the owner sees a step of RunOutcome, or nothing.
LEMMA OneRunSeen ==
    ASSUME HistoryInv, NEW r \in Runs, RunMoves(r), Started(r) => TenantFree(r),
           \A q \in Runs \ {r} : run'[q] = run[q] /\ events'[q] = events[q] /\ draft'[q] = draft[q]
    PROVE  Outcome!Next \/ UNCHANGED Outcome!vars
  <1> DEFINE n == Len(events[r])
  <1>1. /\ Phases' = [Phases EXCEPT ![r] = PhaseOf(run'[r].state)]
        /\ Logged' = [Logged EXCEPT ![r] = Len(events'[r])]
        /\ Offers' = [Offers EXCEPT ![r] = OfferOf(draft'[r].status)]
        /\ Phases[r] = PhaseOf(run[r].state) /\ Logged[r] = n
        /\ Offers[r] = OfferOf(draft[r].status)
    BY OneSeen
  <1>2. /\ TypeOK /\ run[r] \in Run /\ events[r] \in Seq(Event) /\ n \in Nat
        /\ Phases = [Phases EXCEPT ![r] = Phases[r]]
        /\ Logged = [Logged EXCEPT ![r] = Logged[r]]
        /\ Offers = [Offers EXCEPT ![r] = Offers[r]]
    <2>1. TypeOK
      BY DEF HistoryInv, IInv
    <2>2. run[r] \in Run /\ events[r] \in Seq(Event)
      BY <2>1, RowTypes
    <2>3. n \in Nat
      BY <2>2
    <2>4. /\ Phases = [Phases EXCEPT ![r] = Phases[r]]
          /\ Logged = [Logged EXCEPT ![r] = Logged[r]]
          /\ Offers = [Offers EXCEPT ![r] = Offers[r]]
      BY DEF Phases, Logged, Offers
    <2>5. QED
      BY <2>1, <2>2, <2>3, <2>4
  <1>3. \A kind, a : Len(Log(r, kind, a)) = n + 1
    BY <1>2 DEF Log
  <1>4. CASE Idles(r)
    <2>1. PhaseOf(run'[r].state) = Phases[r] /\ OfferOf(draft'[r].status) = Offers[r]
      BY <1>1, <1>4 DEF Idles, SameRun, SameDraft
    <2>2. Phases' = Phases /\ Offers' = Offers
      BY <1>1, <1>2, <2>1
    <2>3. CASE events'[r] = events[r]
      <3>1. Logged' = Logged
        BY <1>1, <1>2, <2>3
      <3>2. QED
        BY <2>2, <3>1 DEF Outcome!vars, Phases, Logged, Offers
    <2>4. CASE events'[r] # events[r]
      <3>1. Running(r) /\ Len(events'[r]) = n + 1
        BY <1>3, <1>4, <2>4 DEF Idles
      <3>2. Phases[r] = "working" /\ Logged' = [Logged EXCEPT ![r] = Logged[r] + 1]
        BY <1>1, <3>1, PhaseTold DEF Running
      <3>3. Outcome!Progress(r)
        BY <2>2, <3>2 DEF Outcome!Progress, Phases, Logged, Offers
      <3>4. QED
        BY <3>3 DEF Outcome!Next
    <2>5. QED
      BY <2>3, <2>4
  <1>5. CASE Made(r)
    <2>1. /\ Phases[r] = "unmade" /\ Phases' = [Phases EXCEPT ![r] = "waiting"]
          /\ Logged' = Logged /\ Offers' = Offers
      BY <1>1, <1>2, <1>5, PhaseTold DEF Made
    <2>2. Outcome!Request(r)
      BY <2>1 DEF Outcome!Request, Phases, Logged, Offers
    <2>3. QED
      BY <2>2 DEF Outcome!Next
  <1>6. CASE Started(r)
    <2>1. Len(events'[r]) = 1
      BY <1>6 DEF Started
    <2>2. /\ Phases[r] = "waiting" /\ Phases' = [Phases EXCEPT ![r] = "working"]
          /\ Logged' = [Logged EXCEPT ![r] = 1] /\ Offers' = Offers
      BY <1>1, <1>2, <1>6, <2>1, PhaseTold DEF Started
    <2>3. \A q \in Runs : Phases[q] = "working" => Tenant(q) # Tenant(r)
      <3>1. \A q \in Runs : Phases[q] = "working" => Running(q)
        BY RowTypes, <1>2 DEF Phases, Phase, Running, Run, States, Terminal, Completed
      <3>2. QED
        BY <1>6, <3>1 DEF TenantFree
    <2>4. Outcome!Begin(r)
      BY <2>2, <2>3 DEF Outcome!Begin, Phases, Logged, Offers
    <2>5. QED
      BY <2>4 DEF Outcome!Next
  <1>7. CASE Taken(r)
    <2>1. run[r].state \in Completed
      BY <1>7 DEF Taken, HistoryInv, DraftAgreesWithRun
    <2>2. /\ Phases[r] = "done" /\ Offers[r] = "ready"
          /\ Offers' = [Offers EXCEPT ![r] = "taken"]
          /\ Phases' = Phases /\ Logged' = Logged
      BY <1>1, <1>2, <1>7, <2>1, PhaseTold, OfferTold DEF Taken
    <2>3. Outcome!Take(r)
      BY <2>2 DEF Outcome!Take, Phases, Logged, Offers
    <2>4. QED
      BY <2>3 DEF Outcome!Next
  <1>8. CASE Stopped(r, "cancelled")
    <2>1. /\ run'[r].state = "cancelled" /\ run[r].state \in {"queued", "running"}
          /\ Len(events'[r]) = n + 1 /\ draft'[r] = draft[r]
      BY <1>2, <1>3, <1>8, ClosedRow DEF Stopped
    <2>2. /\ Phases[r] \in {"waiting", "working"} /\ Phases' = [Phases EXCEPT ![r] = "cancelled"]
          /\ Logged' = [Logged EXCEPT ![r] = Logged[r] + 1] /\ Offers' = Offers
      BY <1>1, <1>2, <2>1, PhaseTold
    <2>3. Outcome!Cancel(r)
      BY <2>2 DEF Outcome!Cancel, Phases, Logged, Offers
    <2>4. QED
      BY <2>3 DEF Outcome!Next
  <1>9. CASE Stopped(r, "failed")
    <2>1. /\ run'[r].state = "failed" /\ run[r].state = "running" /\ Len(events'[r]) = n + 1
          /\ draft'[r] = draft[r] \/ draft'[r].status = "active"
      BY <1>2, <1>3, <1>9, ClosedRow DEF Stopped, Running
    <2>2. /\ Phases[r] = "working" /\ Phases' = [Phases EXCEPT ![r] = "failed"]
          /\ Logged' = [Logged EXCEPT ![r] = Logged[r] + 1]
      BY <1>1, <2>1, PhaseTold
    <2>3. CASE draft'[r].status = "active"
      <3>1. Offers' = [Offers EXCEPT ![r] = "rejected"]
        BY <1>1, <2>3, OfferTold
      <3>2. Outcome!Reject(r)
        BY <2>2, <3>1 DEF Outcome!Reject, Phases, Logged, Offers
      <3>3. QED
        BY <3>2 DEF Outcome!Next
    <2>4. CASE draft'[r] = draft[r]
      <3>1. Offers' = Offers
        BY <1>1, <1>2, <2>4
      <3>2. /\ Phases' = [q \in Runs |-> IF q \in {r} THEN "failed" ELSE Phases[q]]
            /\ Logged' = [q \in Runs |-> IF q \in {r} THEN Logged[q] + 1 ELSE Logged[q]]
        BY <2>2 DEF Phases, Logged
      <3>3. Outcome!GiveUp({r})
        BY <2>2, <3>1, <3>2 DEF Outcome!GiveUp, Phases, Logged, Offers
      <3>4. QED
        BY <3>3 DEF Outcome!Next
    <2>5. QED
      BY <2>1, <2>3, <2>4
  <1>10. ASSUME NEW a \in Attempts, Delivered(r, a)
         PROVE  Outcome!Next
    <2> DEFINE last == Larger(a, MaxAttempt(r))
    <2>1. /\ run[r].state = "running" /\ run'[r] = Closed(run[r], CompletedState(last))
          /\ events'[r] = Append(Log(r, "backend_validation", a), [kind |-> "completed", attempt |-> last])
          /\ draft'[r].status = "validated"
      BY <1>10 DEF Delivered, Running
    <2>2. run'[r].state \in Completed
      BY <1>2, <2>1, EndStates, ClosedRow
    <2>3. Len(events'[r]) = n + 2
      <3>1. Log(r, "backend_validation", a) \in Seq(Event)
        BY <1>2, LogType DEF EventKinds
      <3>2. Len(events'[r]) = Len(Log(r, "backend_validation", a)) + 1
        BY <2>1, <3>1
      <3>3. QED
        BY <1>2, <1>3, <3>2
    <2>4. /\ Phases[r] = "working" /\ Phases' = [Phases EXCEPT ![r] = "done"]
          /\ Logged' = [Logged EXCEPT ![r] = Logged[r] + 2]
          /\ Offers' = [Offers EXCEPT ![r] = "ready"]
      BY <1>1, <2>1, <2>2, <2>3, PhaseTold, OfferTold
    <2>5. Outcome!Deliver(r)
      BY <2>4 DEF Outcome!Deliver, Phases, Logged, Offers
    <2>6. QED
      BY <2>5 DEF Outcome!Next
  <1>11. ASSUME NEW a \in Attempts, NothingToDo(r, a)
         PROVE  Outcome!Next
    <2>1. /\ run[r].state = "running" /\ draft'[r] = draft[r] /\ Len(events'[r]) = n + 1
          /\ run'[r] = [Closed(run[r], CompletedState(a)) EXCEPT !.noop = TRUE]
      BY <1>3, <1>11 DEF NothingToDo, Running
    <2>2. run'[r].state \in Completed
      BY <1>2, <2>1, EndStates, ClosedRow
    <2>3. /\ Phases[r] = "working" /\ Phases' = [Phases EXCEPT ![r] = "done"]
          /\ Logged' = [Logged EXCEPT ![r] = Logged[r] + 1] /\ Offers' = Offers
      BY <1>1, <1>2, <2>1, <2>2, PhaseTold
    <2>4. Outcome!Deliver(r)
      BY <2>3 DEF Outcome!Deliver, Phases, Logged, Offers
    <2>5. QED
      BY <2>4 DEF Outcome!Next
  <1>12. QED
    BY <1>4, <1>5, <1>6, <1>7, <1>8, <1>9, <1>10, <1>11 DEF RunMoves

\* claim_workflow_run gives up the Runs that it finds invalid or exhausted,
\* all at once.
LEMMA ClaimSeen ==
    ASSUME HistoryInv, NEW w \in Workers, ClaimNext(w)
    PROVE  Outcome!Next
  <1> DEFINE S == Invalid \cup Exhausted
  <1>1. \A q \in Runs : run[q] \in Run /\ events[q] \in Seq(Event)
    BY RowTypes DEF HistoryInv, IInv
  <1>2. S \in SUBSET Runs /\ \A q \in S : run[q].state = "running"
    BY DEF Invalid, Exhausted, Claimable, Running
  <1>3. ASSUME NEW q \in Runs
        PROVE  /\ run'[q].state = IF q \in S THEN "failed" ELSE run[q].state
               /\ Len(events'[q]) = IF q \in S THEN Len(events[q]) + 1 ELSE Len(events[q])
    <2>1. CASE q \in S
      <3>1. run'[q] = Closed(run[q], "failed") /\ events'[q] = Log(q, "failed", MaxAttempt(q))
        BY <2>1 DEF ClaimNext
      <3>2. run'[q].state = "failed"
        BY <1>1, <3>1, ClosedRow
      <3>3. QED
        BY <1>1, <2>1, <3>1, <3>2 DEF Log
    <2>2. CASE q \notin S
      <3>1. (run'[q] = Claimed(run[q]) \/ run'[q] = run[q]) /\ events'[q] = events[q]
        BY <2>2 DEF ClaimNext
      <3>2. Claimed(run[q]).state = run[q].state
        BY <1>1 DEF Claimed, Run
      <3>3. QED
        BY <2>2, <3>1, <3>2
    <2>3. QED
      BY <2>1, <2>2
  <1> HIDE DEF S
  <1>4. /\ \A q \in S : Phases[q] = "working"
        /\ Phases' = [q \in Runs |-> IF q \in S THEN "failed" ELSE Phases[q]]
        /\ Logged' = [q \in Runs |-> IF q \in S THEN Logged[q] + 1 ELSE Logged[q]]
    BY <1>2, <1>3, SeenAs, PhaseTold DEF Logged
  <1>5. Offers' = Offers
    BY SeenAs DEF ClaimNext
  <1>6. Outcome!GiveUp(S)
    BY <1>4, <1>5 DEF Outcome!GiveUp, Phases, Logged, Offers
  <1>7. \E T \in SUBSET Runs : Outcome!GiveUp(T)
    BY <1>2, <1>4, <1>5, Zenon DEF Outcome!GiveUp, Phases, Logged, Offers
  <1>8. QED
    BY <1>7 DEF Outcome!Next

\* Every step is one of RunOutcome or is not seen.
LEMMA OutcomeStep ==
    ASSUME HistoryInv, [Next]_vars
    PROVE  Outcome!Next \/ UNCHANGED Outcome!vars
  <1>1. /\ TypeOK /\ \A q \in Runs : RunMoves(q)
        /\ \A q \in Runs : run[q] \in Run /\ draft[q] \in Draft
    BY StepMoves, RowTypes DEF HistoryInv, IInv
  <1>2. ASSUME NEW r \in Runs, Command(r)
        PROVE  Outcome!Next \/ UNCHANGED Outcome!vars
    <2>1. \A q \in Runs \ {r} : run'[q] = run[q] /\ events'[q] = events[q] /\ draft'[q] = draft[q]
      BY <1>1, <1>2 DEF Command, Create, Start, Cancel, ApplyDraft, TypeOK
    <2>2. Started(r) => TenantFree(r)
      <3> SUFFICES ASSUME Started(r) PROVE TenantFree(r)
        OBVIOUS
      <3>1. /\ run[r].state = "queued" /\ run'[r].state = "running"
        BY DEF Started
      <3>2. ASSUME Cancel(r) PROVE run'[r].state = "cancelled"
        <4>1. run'[r] = Closed(run[r], "cancelled")
          BY <1>1, <3>2 DEF Cancel, TypeOK
        <4>2. QED
          BY <1>1, <4>1, ClosedRow
      <3>3. QED
        BY <1>2, <3>1, <3>2 DEF Command, Create, Start, ApplyDraft
    <2>3. QED
      BY <1>1, <2>1, <2>2, OneRunSeen
  <1>3. ASSUME NEW w \in Workers, NEW r \in Runs, Write(w, r)
        PROVE  Outcome!Next \/ UNCHANGED Outcome!vars
    <2>1. \A q \in Runs \ {r} : run'[q] = run[q] /\ events'[q] = events[q] /\ draft'[q] = draft[q]
      BY <1>1, <1>3 DEF Write, BeginWrite, Rollback, AppendEvent, Finalize, CompleteNoOp,
                        RetainFailedCandidate, Fail, CloseFailed, TypeOK
    <2>2. ~Started(r)
      <3>1. KeepsOrEnds
        BY <1>1, <1>3, WorkerOnlyEnds DEF WorkerStep
      <3>2. QED
        BY <3>1, TerminalIsOver DEF Started, KeepsOrEnds
    <2>3. QED
      BY <1>1, <2>1, <2>2, OneRunSeen
  <1>4. ASSUME NEW w \in Workers, NEW r \in Runs, Renew(w, r) \/ Release(w, r)
        PROVE  UNCHANGED Outcome!vars
    <2>1. events' = events /\ draft' = draft
      BY <1>4 DEF Renew, Release
    <2>2. /\ [run[r] EXCEPT !.left = Lease].state = run[r].state
          /\ [run[r] EXCEPT !.claim = 0, !.left = 0, !.releases = @ + 1].state = run[r].state
      BY <1>1 DEF Run
    <2>3. \A q \in Runs : run'[q].state = run[q].state
      BY <1>1, <1>4, <2>2 DEF Renew, Release, TypeOK
    <2>4. QED
      BY <2>1, <2>3, OutcomeStutters
  <1>5. ASSUME NEW w \in Workers, EndExecution(w)
        PROVE  UNCHANGED Outcome!vars
    BY <1>5, OutcomeStutters DEF EndExecution
  <1>6. CASE Surroundings \/ UNCHANGED vars
    <2>1. draft' = draft /\ events' = events /\ run' = run
      BY <1>6 DEF Surroundings, EditProject, SetProjectLock, ArchiveProject, ChangeHolder,
                  Deactivate, vars
    <2>2. QED
      BY <2>1, OutcomeStutters
  <1>7. CASE Tick
    <2>1. \A q \in Runs : /\ run'[q] = [run[q] EXCEPT !.left = Down(run[q].left)]
                          /\ draft'[q] = [draft[q] EXCEPT !.left = Down(draft[q].left)]
      BY <1>7 DEF Tick
    <2>2. \A q \in Runs : run'[q].state = run[q].state /\ draft'[q].status = draft[q].status
      BY <1>1, <2>1 DEF Run, Draft
    <2>3. events' = events
      BY <1>7 DEF Tick
    <2>4. QED
      BY <2>2, <2>3, OutcomeStutters
  <1>8. QED
    BY <1>2, <1>3, <1>4, <1>5, <1>6, <1>7, ClaimSeen DEF Next, WorkerStep

\* Nothing is made, logged or offered at first.
LEMMA InitOutcome ==
    ASSUME Init
    PROVE  Outcome!Init
  <1>1. \A r \in Runs : run[r].state = "absent" /\ events[r] = <<>> /\ draft[r].status = "none"
    BY DEF Init, NewRun, NewDraft
  <1>2. \A r \in Runs : Phase(r) = "unmade" /\ Len(events[r]) = 0 /\ Offer(r) = "none"
    <2>1. \A r \in Runs : /\ Phase(r) = PhaseOf(run[r].state)
                          /\ Offer(r) = OfferOf(draft[r].status)
      BY DEF Phase, PhaseOf, Offer, OfferOf
    <2>2. \A r \in Runs : Phase(r) = "unmade" /\ Offer(r) = "none"
      BY <1>1, <2>1, PhaseTold, OfferTold
    <2>3. Len(<<>>) = 0
      OBVIOUS
    <2>4. QED
      BY <1>1, <2>2, <2>3
  <1>3. QED
    BY <1>2 DEF Outcome!Init

\* Claims, leases, recoveries and transactions, for any number of workers,
\* implement RunOutcome: a Run is worked on at most once and alone in its
\* Tenant, and its end, its draft and the end of its log appear together.
THEOREM KeepsContract == Spec => ImplementsRunOutcome
  <1>1. Init => Outcome!Init
    BY InitOutcome
  <1>2. HistoryInv /\ [Next]_vars => [Outcome!Next]_(Outcome!vars)
    BY OutcomeStep
  <1>3. QED
    BY <1>1, <1>2, HistoryInvariance, PTL DEF Spec, ImplementsRunOutcome, Outcome!Spec

=============================================================================
