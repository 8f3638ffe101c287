----------------------------- MODULE Authoring -----------------------------
(***************************************************************************)
(* One started Workflow Run authored by agents                             *)
(* (features/<workflow>/service.py, execute_started, and                   *)
(* workflows/authoring: repair, progress, change_set_handoff, no_op).      *)
(*                                                                         *)
(* An execution makes one agent call per Subject Area, Mapping pair,       *)
(* Entity, System or table, lets each be repaired a bounded number of      *)
(* times, keeps what it accepts in memory, reports in the Run's event log, *)
(* and ends the Run with one draft, with no change or with a failure.  A   *)
(* worker that stops leaves the Run running: another execution begins      *)
(* again from nothing and must tell the log the same story.  That one      *)
(* execution at a time holds the claim is WorkflowRun's WriterHoldsClaim.  *)
(***************************************************************************)
EXTENDS Naturals, Sequences, FiniteSets, FiniteSetsExt

CONSTANTS
    Workflows,          \* the kinds of Run checked, among AllWorkflows
    Calls,              \* agent calls of a Run that makes several
    Retries,            \* validation_retry_count
    MaxRecoveries,      \* 5 in ck_workflow_run_claim
    Worlds,             \* states of the saved graph and source metadata
    Records, Contents,  \* what a draft maps to what
    Answers(_, _),      \* Answers(w, i): the drafts call i of w may answer
    Valid(_, _),        \* Valid(world, docs): validate_future_graph
    None

VARIABLES
    run,        \* application.workflow_run and the draft it owns
    log,        \* project.project_event_log from sequence 2 on
    exec,       \* the memory of the worker that executes it
    world       \* what validation reads now

vars == <<run, log, exec, world>>

-----------------------------------------------------------------------------
(* The kinds of Run. *)

AllWorkflows == {"logical", "dimensional", "optimize", "mapping", "code_generation",
                 "validation", "subject_area", "analysis", "per_table"}

Builds      == {"logical", "dimensional"}       \* one call per Subject Area
Downstream  == {"code_generation", "validation"}
OneCall     == {"optimize", "subject_area", "analysis"}
Announcing  == Builds \cup {"optimize", "mapping"}  \* an event before each call
Forgiving   == {"mapping", "per_table"}         \* a failed call is left out
LateChecked == {"analysis", "per_table"}        \* no graph check before the hand-off

CallsOf(w) == 1..(IF w \in OneCall THEN 1 ELSE Calls)
Width(w)   == IF w = "per_table" THEN 2 ELSE 1  \* asyncio workers

Most == Retries + 1

Drafts == UNION {[S -> Contents] : S \in SUBSET Records}

ASSUME ConstantsAssumption ==
    /\ Workflows \subseteq AllWorkflows
    /\ Calls \in Nat \ {0} /\ Retries \in Nat
    /\ IsFiniteSet(Records)
    /\ \A w \in Workflows : \A i \in CallsOf(w) : Answers(w, i) \subseteq Drafts
    /\ None \notin Drafts

-----------------------------------------------------------------------------
(* An execution. *)

\* A draft maps record keys to contents; a later answer replaces a record.
Over(g, f) == [k \in DOMAIN f \cup DOMAIN g |-> IF k \in DOMAIN g THEN g[k] ELSE f[k]]
Empty == <<>>

NewCall == [st |-> "todo", tries |-> 0, attempt |-> 1, answer |-> Empty,
            repair |-> "none", rejected |-> None, short |-> FALSE]

NewExec == [phase |-> "calls", world |-> world, told |-> <<>>, kept |-> Empty,
            call |-> [i \in CallsOf(run.workflow) |-> NewCall]]
NoExec  == [phase |-> "idle", world |-> world, told |-> <<>>, kept |-> Empty,
            call |-> <<>>]

In(states)  == {i \in DOMAIN exec.call : exec.call[i].st \in states}
Settled     == In({"answered", "accepted"})
Failed      == In({"missed", "failed"})

\* The accepted answers, a record as the last call that has it.
Authors(k) == {i \in Settled : k \in DOMAIN exec.call[i].answer}
Merged == [k \in UNION {DOMAIN exec.call[i].answer : i \in Settled} |->
             exec.call[Max(Authors(k))].answer[k]]
Count(docs) == Cardinality(DOMAIN docs)

Highest(S) == Max({exec.call[i].attempt : i \in S} \cup {1})

Warned == \/ In({"missed", "failed", "skipped"}) # {}
          \/ \E i \in Settled : exec.call[i].attempt > 1 \/ exec.call[i].short

Event(stage, attempt, warned, current, findings, note) ==
    [stage |-> stage, attempt |-> attempt, warned |-> warned, current |-> current,
     findings |-> findings, note |-> note]

-----------------------------------------------------------------------------
(* The event log. *)

\* An event whose sequence is in the log already must be that very event.
SameStage(e, n) == log[n].stage = e.stage /\ log[n].current = e.current    \* mutant
Same(e, n) == log[n] = e

Accepts(e) ==
    LET n == Len(exec.told) + 1 IN
    IF n <= Len(log) THEN Same(e, n) ELSE e.attempt \in 1..Most

Logged(e) == IF Len(exec.told) < Len(log) THEN log ELSE Append(log, e)

\* append_event, and then what the execution remembers next; a refused event
\* fails the Run.
Tell(e, next) ==
    \/ /\ Accepts(e)
       /\ log' = Logged(e)
       /\ exec' = [next EXCEPT !.told = Append(@, e)]
    \/ /\ ~Accepts(e)
       /\ exec' = [exec EXCEPT !.phase = "fail"]
       /\ UNCHANGED log

\* Downstream, Subject Area and Analysis Runs announce themselves once.
Start ==
    /\ exec.phase = "calls" /\ run.workflow \notin Announcing /\ exec.told = <<>>
    /\ Tell(Event("start", 1, FALSE, 0, 0, 0), exec)
    /\ UNCHANGED <<run, world>>

\* The next call, when a worker is free.
Busy == In({"asking", "answered", "missed"})
Turn(i) ==
    /\ exec.phase = "calls" /\ exec.call[i].st = "todo"
    /\ \A j \in In({"todo"}) : i <= j
    /\ Cardinality(Busy) < Width(run.workflow)

Opened(i) == [exec EXCEPT !.call[i].st = "asking"]

\* Builds and Optimize say how many records are staged so far, Mapping says 0.
Announcement(i) ==
    Event("call", 1, FALSE, i - 1, IF run.workflow = "mapping" THEN 0 ELSE Count(Merged), i)

Open(i) ==
    /\ Turn(i)
    /\ \/ run.workflow \in Announcing /\ Tell(Announcement(i), Opened(i))
       \/ /\ run.workflow \notin Announcing /\ exec.told # <<>>
          /\ exec' = Opened(i) /\ UNCHANGED log
    /\ UNCHANGED <<run, world>>

\* An area without eligible Objects has nothing to build.
Skip(i) ==
    /\ Turn(i) /\ run.workflow \in Builds
    /\ exec' = [exec EXCEPT !.call[i].st = "skipped"]
    /\ UNCHANGED <<run, log, world>>

\* A Mapping pair that is already authored is announced and left as it is.
Preserve(i) ==
    /\ Turn(i) /\ run.workflow = "mapping"
    /\ Tell(Announcement(i), [exec EXCEPT !.call[i].st = "answered",
                                           !.call[i].repair = "preserved"])
    /\ UNCHANGED <<run, world>>


-----------------------------------------------------------------------------
(* One attempt of a call (ValidationRepairRunner). *)

\* Raised by the last attempt, or by an attempt no repair can follow.
Raise(i, rejected) ==
    IF run.workflow \in Forgiving
    THEN [exec EXCEPT !.call[i] = [NewCall EXCEPT !.st = "missed", !.rejected = rejected]]
    ELSE IF rejected = None THEN [exec EXCEPT !.phase = "fail"]
    ELSE [exec EXCEPT !.phase = "retain", !.kept = rejected]

Accept(i, a, attempt, short) ==
    [exec EXCEPT !.call[i] = [NewCall EXCEPT !.st = "answered", !.attempt = attempt,
                                             !.answer = a, !.short = short]]

\* What is kept for review of an answer that was complete and rejected: all
\* work so far with it, but an answer whose only fault is coverage is not kept.
Kept(i, a, graph) ==
    CASE run.workflow \in Builds \cup {"optimize"} -> IF graph THEN Over(a, Merged) ELSE None
      [] run.workflow = "mapping"      -> a
      [] run.workflow \in Downstream   -> IF i = Calls THEN Over(a, Merged) ELSE None
      [] run.workflow = "subject_area" -> a

\* After an answer that is not complete, Logical and Mapping forget the one
\* that was; the others still have it.
Remembered(i) ==
    IF run.workflow \in {"logical", "optimize", "mapping"} THEN None
    ELSE exec.call[i].rejected

\* After every attempt only advisory coverage may still fall short.
AdvisoryAlways(graph, short) == run.workflow \in Builds /\ short /\ ~graph     \* mutant
Advisory(graph, short) ==
    run.workflow \in Builds /\ ~run.enforced /\ short /\ ~graph

Checked(a) == run.workflow \in LateChecked \/ Valid(exec.world, Over(a, Merged))

LastTry(i) == exec.call[i].tries + 1 > Retries

Answered(i, a, malformed, short) ==
    LET graph    == ~Checked(a)
        tries    == exec.call[i].tries + 1
        rejected == IF malformed THEN Remembered(i) ELSE Kept(i, a, graph)
    IN /\ exec.call[i].st = "asking"
       /\ exec' =
            IF ~malformed /\ ~graph /\ ~short THEN Accept(i, a, tries, FALSE)
            ELSE IF ~LastTry(i)
            THEN [exec EXCEPT !.call[i].tries = tries, !.call[i].repair = "full",
                              !.call[i].rejected = rejected]
            ELSE IF ~malformed /\ Advisory(graph, short) THEN Accept(i, a, Most, TRUE)
            ELSE Raise(i, rejected)

\* Only a Build of an area measures coverage.  An answer of Dimensional that
\* cannot be projected on the physical model counts as one not Valid.
Answer(i) ==
    /\ exec.phase = "calls" /\ i \in DOMAIN exec.call
    /\ \E a \in Answers(run.workflow, i), malformed \in BOOLEAN,
          short \in (IF run.workflow \in Builds THEN BOOLEAN ELSE {FALSE}) :
            Answered(i, a, malformed, short)
    /\ UNCHANGED <<run, log, world>>

\* The repair request with the rejected answer filled the model's context: a
\* remaining attempt is spent on one without it, which must be smaller.
Exhausted(i) == exec.call[i].repair = "full" /\ ~LastTry(i)

Unanswered(i) ==
    /\ exec.phase = "calls" /\ i \in DOMAIN exec.call /\ exec.call[i].st = "asking"
    /\ \/ Exhausted(i) /\ exec' = [exec EXCEPT !.call[i].tries = @ + 1,
                                               !.call[i].repair = "compact"]
       \/ exec' = (IF run.workflow \in Forgiving THEN Raise(i, None)
                   ELSE [exec EXCEPT !.phase = "fail"])
    /\ UNCHANGED <<run, log, world>>

\* A call that is over is reported: each Mapping pair, the last Entity or
\* System, each table that was not analysed.
Reported(i) ==
    \/ run.workflow = "mapping"
    \/ run.workflow \in Downstream /\ i = Calls
    \/ run.workflow = "per_table" /\ exec.call[i].st = "missed"

Outcome(i) == IF exec.call[i].st = "missed" THEN "failed" ELSE "accepted"

Report(i) ==
    LET missed  == exec.call[i].st = "missed"
        done    == In({"accepted", "failed"}) \cup {i}
        attempt == IF run.workflow = "mapping" THEN exec.call[i].attempt ELSE Highest(done)
    IN CASE run.workflow = "mapping" ->
              Event("report", attempt, missed, i, IF missed THEN 1 ELSE 0,
                    IF exec.call[i].repair = "preserved" THEN 0
                    ELSE Count(exec.call[i].answer) + 1)
         [] run.workflow \in Downstream -> Event("report", attempt, Warned, i, 0, 0)
         [] run.workflow = "per_table"  ->
              Event("report", attempt, TRUE, Cardinality(done), Count(Merged), i)

Close(i) ==
    /\ exec.phase = "calls" /\ i \in In({"answered", "missed"})
    /\ LET next == [exec EXCEPT !.call[i].st = Outcome(i)] IN
       \/ Reported(i) /\ Tell(Report(i), next)
       \/ ~Reported(i) /\ exec' = next /\ UNCHANGED log
    /\ UNCHANGED <<run, world>>

-----------------------------------------------------------------------------
(* The end of an execution. *)

AllOver == \A i \in DOMAIN exec.call : exec.call[i].st \in {"accepted", "failed", "skipped"}

\* A failure with no successful change is not a no-op.
NothingDone ==
    \/ run.workflow = "mapping" /\ Failed # {} /\ Merged = Empty
    \/ run.workflow = "per_table" /\ Failed = DOMAIN exec.call

Gather ==
    /\ exec.phase = "calls" /\ AllOver
    /\ LET first == exec.call[Min(Failed)].rejected IN
       exec' = IF ~NothingDone THEN [exec EXCEPT !.phase = "final"]
               ELSE IF first = None THEN [exec EXCEPT !.phase = "fail"]
               ELSE [exec EXCEPT !.phase = "retain", !.kept = first]
    /\ UNCHANGED <<run, log, world>>

\* The current and total of the last event: the Builds count their calls.
FinalCount == IF run.workflow \in Builds THEN Cardinality(DOMAIN exec.call) ELSE 1

FinalEvent == Event("final", Highest(Settled), Warned, FinalCount, Count(Merged), 0)

Ended(draft, sealed) ==
    [run EXCEPT !.state = IF \E n \in DOMAIN log' : log'[n].attempt > 1
                          THEN "completed_with_repair" ELSE "completed",
                !.draft = draft, !.sealed = sealed]

\* WorkflowChangeSetHandoff.finalize: validated draft, last event and Run in
\* one transaction, against the graph as it is now.
SoundThen == Valid(exec.world, Merged)      \* mutant: as it was when context was read
SoundNow == Valid(world, Merged)

Finalize ==
    /\ exec.phase = "final" /\ Merged # Empty
    /\ \/ SoundNow /\ Accepts(FinalEvent)
          /\ log' = Logged(FinalEvent)
          /\ exec' = [exec EXCEPT !.phase = "done", !.told = Append(@, FinalEvent)]
          /\ run' = Ended(Merged, TRUE)
       \/ SoundNow /\ ~Accepts(FinalEvent)
          /\ exec' = NoExec /\ UNCHANGED <<run, log>>
       \/ ~SoundNow
          /\ exec' = [exec EXCEPT !.phase = "retain", !.kept = Merged]
          /\ UNCHANGED <<run, log>>
    /\ UNCHANGED world

\* The no-op contract allows one call and one event of the next sequence.
NoOpFits == FinalCount = 1

CompleteNoOp ==
    /\ exec.phase = "final" /\ Merged = Empty
    /\ IF NoOpFits /\ Accepts(FinalEvent)
       THEN /\ log' = Logged(FinalEvent)
            /\ exec' = [exec EXCEPT !.phase = "done", !.told = Append(@, FinalEvent)]
            /\ run' = Ended(None, FALSE)
       ELSE exec' = NoExec /\ UNCHANGED <<run, log>>
    /\ UNCHANGED world

\* retain_failed_candidate: the rejected draft and the failure of the Run in
\* one transaction, unless the draft is valid by now.
Retain ==
    /\ exec.phase = "retain"
    /\ IF Valid(world, exec.kept)
       THEN exec' = NoExec /\ UNCHANGED run
       ELSE /\ run' = [run EXCEPT !.state = "failed", !.draft = exec.kept]
            /\ exec' = [exec EXCEPT !.phase = "done"]
    /\ UNCHANGED <<log, world>>

Fail ==
    /\ exec.phase = "fail"
    /\ run' = [run EXCEPT !.state = "failed"]
    /\ exec' = [exec EXCEPT !.phase = "done"]
    /\ UNCHANGED <<log, world>>

-----------------------------------------------------------------------------
(* Failures around it, and recovery. *)

\* The database, the Tenant Lock, the Project revision or the code refuses.
Refused ==
    /\ exec.phase = "calls"
    /\ exec' = [exec EXCEPT !.phase = "fail"]
    /\ UNCHANGED <<run, log, world>>

\* The worker stops, or its last transaction is not known to have committed.
Stop ==
    /\ exec.phase \in {"calls", "final", "retain", "fail"}
    /\ exec' = NoExec
    /\ UNCHANGED <<run, log, world>>

RecoveredUncounted == run       \* mutant
Recovered == [run EXCEPT !.recoveries = @ + 1]
RecoveryLeft == run.recoveries < MaxRecoveries

Recover ==
    /\ run.state = "running" /\ exec.phase = "idle"
    /\ RecoveryLeft
    /\ run' = Recovered
    /\ exec' = NewExec
    /\ UNCHANGED <<log, world>>

GiveUp ==
    /\ run.state = "running" /\ exec.phase = "idle"
    /\ ~RecoveryLeft
    /\ run' = [run EXCEPT !.state = "failed"]
    /\ UNCHANGED <<log, exec, world>>

\* Source metadata or another user's work changes what is valid.
Drift ==
    /\ run.state = "running"
    /\ world' \in Worlds \ {world}
    /\ UNCHANGED <<run, log, exec>>

-----------------------------------------------------------------------------
Init ==
    /\ run \in [workflow : Workflows, enforced : BOOLEAN, state : {"running"},
                recoveries : {0}, draft : {None}, sealed : {FALSE}]
    /\ run.enforced => run.workflow \in Builds
    /\ world \in Worlds
    /\ log = <<>>
    /\ exec = NewExec

Work ==
    \/ Start \/ Gather \/ Finalize \/ CompleteNoOp \/ Retain \/ Fail
    \/ \E i \in DOMAIN exec.call :
          Open(i) \/ Skip(i) \/ Preserve(i) \/ Answer(i) \/ Unanswered(i) \/ Close(i)

Next == Work \/ Refused \/ Stop \/ Recover \/ GiveUp \/ Drift

Spec == Init /\ [][Next]_vars

\* The worker runs what it claimed, and a Run left running is claimed again
\* or given up (the poll of every worker).
FairSpec == Spec /\ WF_vars(Work) /\ WF_vars(Recover) /\ WF_vars(GiveUp)

-----------------------------------------------------------------------------
(* Properties. *)

Completed == run.state \in {"completed", "completed_with_repair"}

\* Over crashes and recoveries the log of a completed Run is what the
\* execution that completed it has told, event by event: an event left by an
\* earlier execution is there only if this one said the same.  And that story
\* is true of the draft: the last event counts its records, names the most
\* attempts any accepted answer took, and the Run is completed with repair
\* exactly if that is more than one.
LogIsTrue ==
    Completed =>
        LET last == log[Len(log)]
            most == Max({exec.call[i].attempt : i \in Settled} \cup {1})
        IN /\ log = exec.told
           /\ last.findings = (IF run.draft = None THEN 0 ELSE Count(run.draft))
           /\ last.attempt = most
           /\ (run.state = "completed_with_repair") = (most > 1)
           /\ run.draft # None => run.draft = Merged

\* What is accepted is sound where it is checked: coverage falls short only
\* where it is advisory, and all work so far is a valid draft of the graph
\* the execution has read.
AcceptedIsSound ==
    exec.phase \in {"calls", "final"} =>
        /\ run.enforced => \A i \in Settled : ~exec.call[i].short
        /\ run.workflow \notin LateChecked /\ Merged # Empty => Valid(exec.world, Merged)

\* The draft of a completed Run is valid in the graph of that moment; a draft
\* that fails with its Run is not, and holds the accepted answers too.
DraftIsAsSaid ==
    [][run'.draft # run.draft =>
          IF run'.sealed THEN Valid(world, run'.draft)
          ELSE /\ run'.state = "failed" /\ ~Valid(world, run'.draft)
               /\ DOMAIN Merged \subseteq DOMAIN run'.draft]_vars

\* Every Run ends, however its calls fail and its workers stop.
RunEnds == <>(run.state # "running")

\* docs/architecture/decisions.md:222: "an empty Logical result can complete
\* as no effective change": an execution whose calls are over without a
\* change and whose log agrees completes its Run when it says so.
EmptyResultCompletes ==
    [][(CompleteNoOp /\ Accepts(FinalEvent)) => Completed']_vars
=============================================================================
