-------------------------- MODULE AuthoringProofs --------------------------
(***************************************************************************)
(* For any number of calls, repairs and recoveries, any answers and any    *)
(* notion of a valid graph: what an execution accepts is sound, the log of *)
(* a completed Run is the story of the execution that completed it and is  *)
(* true of its draft, and a draft is as sound as its Run says.             *)
(***************************************************************************)
EXTENDS Authoring, FiniteSetTheorems, NaturalsInduction, TLAPS

-----------------------------------------------------------------------------
(* Numbers. *)

\* What some natural number does, a least one does.
LEMMA LeastNumber ==
    ASSUME NEW T, T \subseteq Nat, T # {}
    PROVE  \E x \in T : \A y \in T : x <= y
  <1> DEFINE R == OpToRel(<, Nat)
  <1>1. IsWellFoundedOn(R, Nat)
    BY NatLessThanWellFounded
  <1>2. \A x, y \in Nat : y < x => <<y, x>> \in R
    BY DEF OpToRel
  <1> HIDE DEF R
  <1>3. PICK x \in T : \A y \in T : ~(<<y, x>> \in R)
    BY <1>1, WFMin
  <1>4. ASSUME NEW y \in T
        PROVE  x <= y
    <2>1. x \in Nat /\ y \in Nat
      OBVIOUS
    <2>2. ~(y < x)
      BY <1>2, <1>3, <2>1
    <2>3. QED
      BY <2>1, <2>2
  <1>5. QED
    BY <1>4

\* The least of some numbers is one of them.
LEMMA MinWithin ==
    ASSUME NEW S, S \subseteq Nat, S # {}
    PROVE  Min(S) \in S
  <1>1. \E x \in S : \A y \in S : x <= y
    BY LeastNumber
  <1>2. QED
    BY <1>1 DEF Min

\* The greatest of some numbers up to B is one of them, and none is greater.
LEMMA MaxWithin ==
    ASSUME NEW B \in Nat, NEW S, S \subseteq 0..B, S # {}
    PROVE  Max(S) \in S /\ \A y \in S : y <= Max(S)
  <1> DEFINE T == {n \in Nat : \A y \in S : y <= n}
  <1>1. B \in T
    OBVIOUS
  <1>2. T \subseteq Nat /\ T # {}
    BY <1>1
  <1>3. PICK m \in T : \A n \in T : m <= n
    BY <1>2, LeastNumber
  <1>4. m \in Nat /\ \A y \in S : y <= m
    OBVIOUS
  <1>5. m \in S
    <2> SUFFICES ASSUME m \notin S
                 PROVE  FALSE
      OBVIOUS
    <2>1. \A y \in S : y \in Nat /\ y <= m - 1
      BY <1>4
    <2>2. m - 1 \in Nat
      <3>1. PICK y \in S : TRUE
        OBVIOUS
      <3>2. y \in Nat /\ y <= m - 1
        BY <2>1
      <3>3. QED
        BY <1>4, <3>2
    <2>3. m - 1 \in T
      BY <2>1, <2>2
    <2>4. QED
      BY <1>3, <1>4, <2>3
  <1>6. \E x \in S : \A y \in S : x >= y
    BY <1>4, <1>5
  <1>7. Max(S) \in S /\ \A y \in S : Max(S) >= y
    BY <1>6 DEF Max
  <1>8. QED
    BY <1>7

\* A number beyond others is the greatest with them.
LEMMA MaxIs ==
    ASSUME NEW S, S \subseteq Nat, NEW i \in S, \A y \in S : y <= i
    PROVE  Max(S) = i
  <1>1. \E x \in S : \A y \in S : x >= y
    OBVIOUS
  <1> DEFINE m == Max(S)
  <1>2. m \in S /\ \A y \in S : m >= y
    BY <1>1 DEF Max
  <1> HIDE DEF m
  <1>3. m \in Nat /\ i \in Nat /\ m >= i /\ m <= i
    BY <1>2
  <1>4. m = i
    BY <1>3
  <1>5. QED
    BY <1>4 DEF m

-----------------------------------------------------------------------------
(* Drafts. *)

\* A draft maps records to contents.
LEMMA DraftParts ==
    ASSUME NEW f
    PROVE  f \in Drafts <=> /\ f = [k \in DOMAIN f |-> f[k]] /\ DOMAIN f \subseteq Records
                            /\ \A k \in DOMAIN f : f[k] \in Contents
  BY DEF Drafts

\* The draft without records.
LEMMA EmptyDraft == Empty \in Drafts /\ DOMAIN Empty = {}
  <1>1. DOMAIN <<>> = {}
    OBVIOUS
  <1>2. <<>> \in [{} -> Contents]
    BY <1>1
  <1>3. QED
    BY <1>1, <1>2 DEF Empty, Drafts

\* A draft over another has the records of both.
LEMMA OverDraft ==
    ASSUME NEW f \in Drafts, NEW g \in Drafts
    PROVE  Over(g, f) \in Drafts /\ DOMAIN Over(g, f) = DOMAIN f \cup DOMAIN g
  <1> DEFINE h == Over(g, f)
  <1>1. /\ DOMAIN h = DOMAIN f \cup DOMAIN g /\ h = [k \in DOMAIN h |-> h[k]]
        /\ \A k \in DOMAIN h : h[k] = IF k \in DOMAIN g THEN g[k] ELSE f[k]
    BY DEF Over
  <1> HIDE DEF h
  <1>2. /\ DOMAIN f \subseteq Records /\ \A k \in DOMAIN f : f[k] \in Contents
        /\ DOMAIN g \subseteq Records /\ \A k \in DOMAIN g : g[k] \in Contents
    BY DraftParts
  <1>3. h \in Drafts
    BY <1>1, <1>2, DraftParts
  <1>4. QED
    BY <1>1, <1>3 DEF h

\* A draft has a number of records.
LEMMA CountNat ==
    ASSUME NEW f \in Drafts
    PROVE  Count(f) \in Nat
  <1>1. IsFiniteSet(Records) /\ DOMAIN f \subseteq Records
    BY ConstantsAssumption, DraftParts
  <1>2. IsFiniteSet(DOMAIN f)
    BY <1>1, FS_Subset
  <1>3. QED
    BY <1>2, FS_CardinalityType DEF Count

-----------------------------------------------------------------------------
(* The invariant. *)

CallRecords ==
    [st : {"todo", "asking", "answered", "missed", "skipped", "accepted", "failed"},
     tries : 0..Retries, attempt : 1..Most, answer : Drafts,
     repair : {"none", "full", "compact", "preserved"},
     rejected : Drafts \cup {None}, short : BOOLEAN]

Events ==
    [stage : {"start", "call", "report", "final"}, attempt : 1..Most, warned : BOOLEAN,
     current : Nat, findings : Nat, note : Nat]

TypeOK ==
    /\ run \in [workflow : Workflows, enforced : BOOLEAN,
                state : {"running", "failed", "completed", "completed_with_repair"},
                recoveries : Nat, draft : Drafts \cup {None}, sealed : BOOLEAN]
    /\ log \in Seq(Events)
    /\ world \in Worlds
    /\ exec.phase \in {"calls", "final", "retain", "fail", "done", "idle"}
    /\ exec = [phase |-> exec.phase, world |-> exec.world, told |-> exec.told,
               kept |-> exec.kept, call |-> exec.call]
    /\ exec.world \in Worlds
    /\ exec.told \in Seq(Events)
    /\ exec.kept \in Drafts \cup {None}
    /\ IF exec.phase = "idle" THEN exec.call = <<>>
       ELSE exec.call \in [CallsOf(run.workflow) -> CallRecords]

\* How a Run and the execution of it stand together.
Phases ==
    /\ exec.phase \in {"calls", "final", "retain", "fail"} => run.state = "running"
    /\ exec.phase = "done" => run.state # "running"
    /\ exec.phase = "idle" => run.state \in {"running", "failed"}
    /\ run.state = "running" => run.draft = None /\ ~run.sealed

Pending == {"todo", "asking", "answered", "missed"}

\* All workflows but one finish a call before they begin the next.
InOrder ==
    run.workflow # "per_table" =>
        \A i, j \in DOMAIN exec.call :
            i < j /\ exec.call[i].st \in Pending => exec.call[j].st = "todo"

\* A call that has not begun is new; one that failed counts no repair.
Fresh ==
    \A i \in DOMAIN exec.call :
        /\ exec.call[i].st = "todo" => exec.call[i] = NewCall
        /\ exec.call[i].st \in {"missed", "failed"} => exec.call[i].attempt = 1

\* What an execution has told is what the log begins with.
ToldIsLogged ==
    /\ Len(exec.told) <= Len(log)
    /\ \A n \in 1..Len(exec.told) : exec.told[n] = log[n]

NotYetFinal ==
    run.state = "running" => \A n \in 1..Len(log) : log[n].stage # "final"

\* No attempt has been told that no accepted answer took.
AttemptsTold ==
    exec.phase \in {"calls", "final"} =>
        \A n \in 1..Len(exec.told) :
            \/ exec.told[n].attempt = 1
            \/ \E i \in Settled : exec.told[n].attempt <= exec.call[i].attempt

\* A rejected answer is remembered with all that was accepted before it.
RejectedHolds ==
    exec.phase = "calls" /\ run.workflow \notin Forgiving =>
        \A i \in In({"asking"}) :
            exec.call[i].rejected # None => DOMAIN Merged \subseteq DOMAIN exec.call[i].rejected

KeptHolds ==
    exec.phase = "retain" => exec.kept # None /\ DOMAIN Merged \subseteq DOMAIN exec.kept

IInv ==
    /\ TypeOK /\ Phases /\ InOrder /\ Fresh
    /\ ToldIsLogged /\ NotYetFinal /\ AttemptsTold
    /\ RejectedHolds /\ KeptHolds
    /\ AcceptedIsSound /\ LogIsTrue

-----------------------------------------------------------------------------
(* Calls. *)

\* A Run makes at least one call and at most Calls.
LEMMA CallsParts ==
    ASSUME NEW w
    PROVE  1 \in CallsOf(w) /\ CallsOf(w) \subseteq 1..Calls
  BY ConstantsAssumption DEF CallsOf

\* The calls of an execution.
LEMMA CallParts ==
    ASSUME TypeOK
    PROVE  /\ DOMAIN exec.call \subseteq 1..Calls
           /\ \A i \in DOMAIN exec.call : exec.call[i] \in CallRecords
  <1>1. CASE exec.phase = "idle"
    BY <1>1 DEF TypeOK
  <1>2. CASE exec.phase # "idle"
    <2>1. exec.call \in [CallsOf(run.workflow) -> CallRecords]
      BY <1>2 DEF TypeOK
    <2>2. QED
      BY <2>1, CallsParts
  <1>3. QED
    BY <1>1, <1>2

\* The states a set of calls is taken by.
LEMMA InParts ==
    ASSUME NEW states
    PROVE  /\ In(states) \subseteq DOMAIN exec.call
           /\ \A i \in DOMAIN exec.call : i \in In(states) <=> exec.call[i].st \in states
  BY DEF In

\* The most attempts of some calls.
LEMMA HighestIs ==
    ASSUME TypeOK, NEW S, S \subseteq DOMAIN exec.call
    PROVE  /\ Highest(S) \in 1..Most
           /\ \A i \in S : exec.call[i].attempt <= Highest(S)
           /\ Highest(S) = 1 \/ \E i \in S : Highest(S) = exec.call[i].attempt
  <1> DEFINE T == {exec.call[i].attempt : i \in S} \cup {1}
             m == Max(T)
  <1>1. \A i \in S : exec.call[i].attempt \in 1..Most
    BY CallParts DEF CallRecords
  <1>2. Most \in Nat /\ 1 \in 1..Most
    BY ConstantsAssumption DEF Most
  <1>3. T \subseteq 1..Most /\ T \subseteq 0..Most /\ T # {}
    BY <1>1, <1>2
  <1>4. m \in T /\ \A y \in T : y <= m
    <2> HIDE DEF T
    <2>1. QED
      BY <1>2, <1>3, MaxWithin
  <1> HIDE DEF m
  <1>5. m \in 1..Most /\ \A i \in S : exec.call[i].attempt <= m
    BY <1>3, <1>4
  <1>6. m = 1 \/ \E i \in S : m = exec.call[i].attempt
    BY <1>4
  <1>7. Highest(S) = m
    BY DEF Highest, m
  <1>8. QED
    BY <1>5, <1>6, <1>7

\* The last call that has a record is one of those that have it.
LEMMA AuthorsParts ==
    ASSUME TypeOK, NEW k, Authors(k) # {}
    PROVE  Max(Authors(k)) \in Authors(k)
  <1>1. Authors(k) \subseteq 0..Calls /\ Calls \in Nat
    BY CallParts, InParts, ConstantsAssumption DEF Authors, Settled
  <1>2. QED
    BY <1>1, MaxWithin

\* What has been accepted makes a draft.
LEMMA MergedDraft ==
    ASSUME TypeOK
    PROVE  /\ Merged \in Drafts
           /\ DOMAIN Merged = UNION {DOMAIN exec.call[i].answer : i \in Settled}
  <1> DEFINE D == UNION {DOMAIN exec.call[i].answer : i \in Settled}
             c(k) == exec.call[Max(Authors(k))].answer[k]
             f == [k \in D |-> c(k)]
  <1>1. \A i \in Settled : exec.call[i].answer \in Drafts
    BY CallParts, InParts DEF Settled, CallRecords
  <1>2. \A k \in D : k \in Records /\ c(k) \in Contents
    <2> TAKE k \in D
    <2>1. PICK i \in Settled : k \in DOMAIN exec.call[i].answer
      OBVIOUS
    <2>2. i \in Authors(k)
      BY <2>1 DEF Authors
    <2> DEFINE j == Max(Authors(k))
    <2>3. j \in Authors(k)
      BY <2>2, AuthorsParts
    <2>4. j \in Settled /\ k \in DOMAIN exec.call[j].answer
      BY <2>3 DEF Authors
    <2> HIDE DEF j
    <2>5. exec.call[j].answer \in Drafts
      BY <1>1, <2>4
    <2>6. k \in Records /\ exec.call[j].answer[k] \in Contents
      BY <2>4, <2>5, DraftParts
    <2>7. QED
      BY <2>6 DEF j
  <1> HIDE DEF c, D
  <1>3. f \in [D -> Contents] /\ D \in SUBSET Records
    BY <1>2
  <1>4. f \in Drafts /\ DOMAIN f = D
    BY <1>3 DEF Drafts
  <1>5. Merged = f
    BY DEF Merged, D, c
  <1>6. QED
    BY <1>4, <1>5 DEF D

\* Nothing has been accepted while no call is settled.
LEMMA NothingMerged ==
    ASSUME TypeOK, Settled = {}
    PROVE  DOMAIN Merged = {}
  BY MergedDraft

-----------------------------------------------------------------------------
(* What a step does. *)

\* The states of a call follow one another.
Moved(i, c) ==
    \/ /\ exec.call[i].st = "todo" /\ Turn(i)
       /\ \/ c = [NewCall EXCEPT !.st = "asking"]
          \/ c = [NewCall EXCEPT !.st = "skipped"]
          \/ c = [NewCall EXCEPT !.st = "answered", !.repair = "preserved"]
    \/ /\ exec.call[i].st = "asking" /\ c.st = "asking"
       /\ run.workflow \notin Forgiving /\ c.rejected # None
            => DOMAIN Merged \subseteq DOMAIN c.rejected
    \/ /\ exec.call[i].st = "asking" /\ c.st = "answered"
       /\ run.enforced => ~c.short
       /\ run.workflow \notin LateChecked => Valid(exec.world, Over(c.answer, Merged))
    \/ exec.call[i].st = "asking" /\ c.st = "missed" /\ c.attempt = 1
    \/ exec.call[i].st = "answered" /\ c = [exec.call[i] EXCEPT !.st = "accepted"]
    \/ exec.call[i].st = "missed" /\ c = [exec.call[i] EXCEPT !.st = "failed"]

Moving(call) ==
    \/ call = exec.call
    \/ \E i \in DOMAIN exec.call : \E c \in CallRecords :
          Moved(i, c) /\ call = [exec.call EXCEPT ![i] = c]

Silent == log' = log /\ exec'.told = exec.told

Telling(e) ==
    /\ e \in Events /\ e.stage # "final"
    /\ e.attempt = 1 \/ \E i \in Settled : e.attempt <= exec.call[i].attempt

Says(e) == Accepts(e) /\ log' = Logged(e) /\ exec'.told = Append(exec.told, e)

Moves ==
    /\ exec.phase = "calls"
    /\ exec' = [phase |-> "calls", world |-> exec.world, told |-> exec'.told,
                kept |-> exec.kept, call |-> exec'.call]
    /\ Moving(exec'.call)
    /\ Silent \/ \E e \in Events : Telling(e) /\ Says(e)
    /\ UNCHANGED <<run, world>>

Enters(phase, kept) ==
    /\ exec' = [exec EXCEPT !.phase = phase, !.kept = kept]
    /\ UNCHANGED <<run, log, world>>

Fails   == exec.phase = "calls" /\ Enters("fail", exec.kept)
Settles == exec.phase = "calls" /\ Enters("final", exec.kept)
Holds   == /\ exec.phase \in {"calls", "final"}
           /\ \E x \in Drafts : DOMAIN Merged \subseteq DOMAIN x /\ Enters("retain", x)

Stops ==
    /\ exec.phase \in {"calls", "final", "retain", "fail"}
    /\ exec' = NoExec /\ UNCHANGED <<run, log, world>>

Begins ==
    /\ run.state = "running" /\ exec.phase = "idle"
    /\ run' = [run EXCEPT !.recoveries = @ + 1]
    /\ exec' = NewExec /\ UNCHANGED <<log, world>>

GivesUp ==
    /\ run.state = "running" /\ exec.phase = "idle"
    /\ run' = [run EXCEPT !.state = "failed"] /\ UNCHANGED <<exec, log, world>>

Loses ==
    /\ exec.phase \in {"retain", "fail"}
    /\ \E d \in Drafts \cup {None} :
          /\ run' = [run EXCEPT !.state = "failed", !.draft = d]
          /\ d # None => exec.phase = "retain" /\ d = exec.kept /\ ~Valid(world, d)
    /\ exec' = [exec EXCEPT !.phase = "done"] /\ UNCHANGED <<log, world>>

Completes ==
    /\ exec.phase = "final"
    /\ Accepts(FinalEvent) /\ log' = Logged(FinalEvent)
    /\ exec' = [exec EXCEPT !.phase = "done", !.told = Append(@, FinalEvent)]
    /\ \/ run' = Ended(Merged, TRUE) /\ Valid(world, Merged)
       \/ run' = Ended(None, FALSE) /\ Merged = Empty
    /\ UNCHANGED world

Rests == UNCHANGED <<run, log, exec>> /\ world' \in Worlds

\* A call moves and nothing is told.
LEMMA MovesSilently ==
    ASSUME TypeOK, exec.phase = "calls", NEW call, Moving(call),
           exec' = [exec EXCEPT !.call = call], UNCHANGED <<run, log, world>>
    PROVE  Moves
  <1>1. exec = [phase |-> exec.phase, world |-> exec.world, told |-> exec.told,
                kept |-> exec.kept, call |-> exec.call]
    BY DEF TypeOK
  <1>2. exec' = [phase |-> "calls", world |-> exec.world, told |-> exec.told,
                 kept |-> exec.kept, call |-> call]
    BY <1>1
  <1>3. exec'.told = exec.told /\ exec'.call = call
    BY <1>2
  <1>4. QED
    BY <1>2, <1>3 DEF Moves, Silent

\* A call moves and an event is told, or the Run is told to fail.
LEMMA MovesTelling ==
    ASSUME TypeOK, exec.phase = "calls", NEW call, Moving(call),
           NEW e \in Events, Telling(e),
           Tell(e, [exec EXCEPT !.call = call]), UNCHANGED <<run, world>>
    PROVE  Moves \/ Fails
  <1>1. exec = [phase |-> exec.phase, world |-> exec.world, told |-> exec.told,
                kept |-> exec.kept, call |-> exec.call]
    BY DEF TypeOK
  <1>2. CASE /\ Accepts(e) /\ log' = Logged(e)
             /\ exec' = [[exec EXCEPT !.call = call] EXCEPT !.told = Append(@, e)]
    <2>1. exec' = [phase |-> "calls", world |-> exec.world, told |-> Append(exec.told, e),
                   kept |-> exec.kept, call |-> call]
      BY <1>1, <1>2
    <2>2. exec'.told = Append(exec.told, e) /\ exec'.call = call
      BY <2>1
    <2>3. QED
      BY <1>2, <2>1, <2>2 DEF Moves, Says
  <1>3. CASE exec' = [exec EXCEPT !.phase = "fail"] /\ UNCHANGED log
    <2>1. exec' = [exec EXCEPT !.phase = "fail", !.kept = exec.kept]
      BY <1>1, <1>3
    <2>2. QED
      BY <1>3, <2>1 DEF Fails, Enters
  <1>4. QED
    BY <1>2, <1>3 DEF Tell

\* A new call, and what it may become without an answer.
LEMMA NewCalls ==
    /\ NewCall \in CallRecords
    /\ [NewCall EXCEPT !.st = "asking"] \in CallRecords
    /\ [NewCall EXCEPT !.st = "skipped"] \in CallRecords
    /\ [NewCall EXCEPT !.st = "answered", !.repair = "preserved"] \in CallRecords
  <1>1. Empty \in Drafts /\ 0 \in 0..Retries /\ 1 \in 1..Most
    BY EmptyDraft, ConstantsAssumption DEF Most
  <1>2. QED
    BY <1>1 DEF NewCall, CallRecords

\* What is announced of a call.
LEMMA Announced ==
    ASSUME TypeOK, NEW i \in DOMAIN exec.call
    PROVE  Announcement(i) \in Events /\ Telling(Announcement(i))
  <1>1. i \in 1..Calls /\ Calls \in Nat
    BY CallParts, ConstantsAssumption
  <1>2. i - 1 \in Nat /\ i \in Nat
    BY <1>1
  <1>3. Count(Merged) \in Nat
    BY MergedDraft, CountNat
  <1>4. 1 \in 1..Most
    BY ConstantsAssumption DEF Most
  <1>5. (IF run.workflow = "mapping" THEN 0 ELSE Count(Merged)) \in Nat
    BY <1>3
  <1>6. Announcement(i) \in Events
    BY <1>2, <1>4, <1>5 DEF Announcement, Event, Events
  <1>7. Announcement(i).stage = "call" /\ Announcement(i).attempt = 1
    BY DEF Announcement, Event
  <1>8. QED
    BY <1>6, <1>7 DEF Telling

\* A Run announces itself.
LEMMA StartMoves ==
    ASSUME IInv, Start
    PROVE  Moves \/ Fails
  <1> DEFINE e == Event("start", 1, FALSE, 0, 0, 0)
  <1>1. TypeOK /\ exec.phase = "calls" /\ Tell(e, exec) /\ UNCHANGED <<run, world>>
    BY DEF Start, IInv
  <1>2. e \in Events /\ e.stage = "start" /\ e.attempt = 1
    <2>1. 1 \in 1..Most
      BY ConstantsAssumption DEF Most
    <2>2. QED
      BY <2>1 DEF Event, Events
  <1> HIDE DEF e
  <1>3. Telling(e)
    BY <1>2 DEF Telling
  <1>4. exec = [exec EXCEPT !.call = exec.call]
    BY <1>1 DEF TypeOK
  <1>5. Moving(exec.call)
    BY DEF Moving
  <1>6. Tell(e, [exec EXCEPT !.call = exec.call])
    BY <1>1, <1>4
  <1>7. QED
    BY <1>1, <1>2, <1>3, <1>5, <1>6, MovesTelling

\* A call is opened.
LEMMA OpenMoves ==
    ASSUME IInv, NEW i \in DOMAIN exec.call, Open(i)
    PROVE  Moves \/ Fails
  <1> DEFINE c == [NewCall EXCEPT !.st = "asking"]
             call == [exec.call EXCEPT ![i] = c]
  <1>1. TypeOK /\ Turn(i) /\ exec.phase = "calls" /\ exec.call[i].st = "todo"
    BY DEF Open, Turn, IInv
  <1>2. exec.call[i] = NewCall
    BY <1>1 DEF IInv, Fresh
  <1>3. Opened(i) = [exec EXCEPT !.call = call]
    BY <1>2 DEF Opened
  <1>4. c \in CallRecords /\ Moved(i, c)
    BY <1>1, NewCalls DEF Moved
  <1> HIDE DEF c
  <1>5. Moving(call)
    BY <1>4 DEF Moving
  <1> HIDE DEF call
  <1>6. CASE Tell(Announcement(i), Opened(i))
    <2>1. Announcement(i) \in Events /\ Telling(Announcement(i))
      BY <1>1, Announced
    <2>2. Tell(Announcement(i), [exec EXCEPT !.call = call]) /\ UNCHANGED <<run, world>>
      BY <1>3, <1>6 DEF Open
    <2> DEFINE e == Announcement(i)
    <2> HIDE DEF e
    <2>3. e \in Events /\ Telling(e) /\ Tell(e, [exec EXCEPT !.call = call])
      BY <2>1, <2>2 DEF e
    <2>4. QED
      BY <1>1, <1>5, <2>2, <2>3, MovesTelling
  <1>7. CASE exec' = Opened(i) /\ UNCHANGED log
    BY <1>1, <1>3, <1>5, <1>7, MovesSilently DEF Open
  <1>8. QED
    BY <1>6, <1>7 DEF Open

\* An area is skipped.
LEMMA SkipMoves ==
    ASSUME IInv, NEW i \in DOMAIN exec.call, Skip(i)
    PROVE  Moves
  <1> DEFINE c == [NewCall EXCEPT !.st = "skipped"]
             call == [exec.call EXCEPT ![i] = c]
  <1>1. /\ TypeOK /\ Turn(i) /\ exec.phase = "calls" /\ exec.call[i].st = "todo"
        /\ UNCHANGED <<run, log, world>>
    BY DEF Skip, Turn, IInv
  <1>2. exec.call[i] = NewCall
    BY <1>1 DEF IInv, Fresh
  <1>3. exec' = [exec EXCEPT !.call = call]
    BY <1>2 DEF Skip
  <1>4. c \in CallRecords /\ Moved(i, c)
    BY <1>1, NewCalls DEF Moved
  <1> HIDE DEF c
  <1>5. Moving(call)
    BY <1>4 DEF Moving
  <1> HIDE DEF call
  <1>6. QED
    BY <1>1, <1>3, <1>5, MovesSilently

\* A Mapping pair is preserved.
LEMMA PreserveMoves ==
    ASSUME IInv, NEW i \in DOMAIN exec.call, Preserve(i)
    PROVE  Moves \/ Fails
  <1> DEFINE c == [NewCall EXCEPT !.st = "answered", !.repair = "preserved"]
             call == [exec.call EXCEPT ![i] = c]
             e == Announcement(i)
  <1>1. /\ TypeOK /\ Turn(i) /\ exec.phase = "calls" /\ exec.call[i].st = "todo"
        /\ UNCHANGED <<run, world>>
    BY DEF Preserve, Turn, IInv
  <1>2. exec.call[i] = NewCall
    BY <1>1 DEF IInv, Fresh
  <1>3. [exec EXCEPT !.call[i].st = "answered", !.call[i].repair = "preserved"]
          = [exec EXCEPT !.call = call]
    BY <1>1, <1>2 DEF TypeOK
  <1>4. c \in CallRecords /\ Moved(i, c)
    BY <1>1, NewCalls DEF Moved
  <1> HIDE DEF c
  <1>5. Moving(call)
    BY <1>4 DEF Moving
  <1> HIDE DEF call
  <1>6. e \in Events /\ Telling(e)
    BY <1>1, Announced
  <1>7. Tell(e, [exec EXCEPT !.call = call])
    BY <1>3 DEF Preserve
  <1> HIDE DEF e
  <1>8. QED
    BY <1>1, <1>5, <1>6, <1>7, MovesTelling

\* Where calls are taken in order, nothing after an open call is settled, and
\* the only call of a Run is open before anything is settled.
LEMMA OpenIsLast ==
    ASSUME IInv, run.workflow # "per_table", NEW i \in In({"asking"})
    PROVE  /\ i \notin Settled /\ \A j \in Settled : j < i
           /\ run.workflow \in OneCall => Settled = {}
  <1>1. TypeOK /\ InOrder
    BY DEF IInv
  <1>2. i \in DOMAIN exec.call /\ exec.call[i].st = "asking"
    BY DEF In
  <1>3. ASSUME NEW j \in Settled
        PROVE  j < i
    <2>1. j \in DOMAIN exec.call /\ exec.call[j].st \in {"answered", "accepted"}
      BY DEF Settled, In
    <2>2. i \in Nat /\ j \in Nat /\ i # j
      BY <1>1, <1>2, <2>1, CallParts
    <2>3. ~(i < j)
      BY <1>1, <1>2, <2>1 DEF InOrder, Pending
    <2>4. QED
      BY <2>2, <2>3
  <1>4. i \notin Settled
    BY <1>2 DEF Settled, In
  <1>5. ASSUME run.workflow \in OneCall
        PROVE  Settled = {}
    <2>1. exec.phase # "idle"
      BY <1>1, <1>2 DEF TypeOK
    <2>2. DOMAIN exec.call = 1..1
      BY <1>1, <1>5, <2>1 DEF TypeOK, CallsOf
    <2>3. \A j \in DOMAIN exec.call : j = i
      BY <1>2, <2>2
    <2>4. QED
      BY <1>3, <1>4, <2>3 DEF Settled, In
  <1>6. QED
    BY <1>3, <1>4, <1>5

\* What a repair remembers, or a Run keeps, of a rejected answer holds all that
\* was accepted before it.
LEMMA RejectedFits ==
    ASSUME IInv, exec.phase = "calls", NEW i \in In({"asking"}), NEW a \in Drafts,
           NEW malformed \in BOOLEAN, NEW graph \in BOOLEAN,
           ~malformed => run.workflow \notin LateChecked,
           NEW x, x = IF malformed THEN Remembered(i) ELSE Kept(i, a, graph)
    PROVE  /\ x \in Drafts \cup {None}
           /\ run.workflow \notin Forgiving /\ x # None => DOMAIN Merged \subseteq DOMAIN x
  <1>1. TypeOK /\ i \in DOMAIN exec.call /\ exec.call[i] \in CallRecords
    BY CallParts, InParts DEF IInv
  <1>2. CASE malformed
    <2>1. x \in {None, exec.call[i].rejected}
      BY <1>2 DEF Remembered
    <2>2. exec.call[i].rejected \in Drafts \cup {None}
      BY <1>1 DEF CallRecords
    <2>3. run.workflow \notin Forgiving /\ exec.call[i].rejected # None
            => DOMAIN Merged \subseteq DOMAIN exec.call[i].rejected
      BY DEF IInv, RejectedHolds
    <2>4. QED
      BY <2>1, <2>2, <2>3
  <1>3. CASE ~malformed
    <2>1. x = Kept(i, a, graph)
      BY <1>3
    <2>2. Merged \in Drafts
      BY <1>1, MergedDraft
    <2>3. Over(a, Merged) \in Drafts /\ DOMAIN Merged \subseteq DOMAIN Over(a, Merged)
      BY <2>2, OverDraft
    <2>4. CASE run.workflow \in Builds \cup {"optimize"}
      <3>1. x = IF graph THEN Over(a, Merged) ELSE None
        BY <2>1, <2>4 DEF Kept, Builds, Downstream
      <3>2. QED
        BY <2>3, <3>1
    <2>5. CASE run.workflow = "mapping"
      <3>1. x = a
        BY <2>1, <2>5 DEF Kept, Builds, Downstream
      <3>2. QED
        BY <2>5, <3>1 DEF Forgiving
    <2>6. CASE run.workflow \in Downstream
      <3>1. x = IF i = Calls THEN Over(a, Merged) ELSE None
        BY <2>1, <2>6 DEF Kept, Builds, Downstream
      <3>2. QED
        BY <2>3, <3>1
    <2>7. CASE run.workflow = "subject_area"
      <3>1. x = a
        BY <2>1, <2>7 DEF Kept, Builds, Downstream
      <3>2. Settled = {}
        BY <2>7, OpenIsLast DEF OneCall
      <3>3. DOMAIN Merged = {}
        BY <1>1, <3>2, NothingMerged
      <3>4. QED
        BY <3>1, <3>3
    <2>8. run.workflow \in AllWorkflows /\ run.workflow \notin LateChecked
      BY <1>1, <1>3, ConstantsAssumption DEF TypeOK
    <2>9. QED
      BY <2>4, <2>5, <2>6, <2>7, <2>8 DEF AllWorkflows, Builds, Downstream, LateChecked
  <1>4. QED
    BY <1>2, <1>3

\* A call that is given up is missed, or ends the execution.
LEMMA RaiseKinds ==
    ASSUME IInv, exec.phase = "calls", NEW i \in In({"asking"}),
           NEW x \in Drafts \cup {None},
           run.workflow \notin Forgiving /\ x # None => DOMAIN Merged \subseteq DOMAIN x,
           exec' = Raise(i, x), UNCHANGED <<run, log, world>>
    PROVE  Moves \/ Fails \/ Holds
  <1>1. /\ TypeOK /\ i \in DOMAIN exec.call /\ exec.call[i].st = "asking"
    BY DEF In, IInv
  <1>2. exec = [phase |-> exec.phase, world |-> exec.world, told |-> exec.told,
                kept |-> exec.kept, call |-> exec.call]
    BY <1>1 DEF TypeOK
  <1>3. CASE run.workflow \in Forgiving
    <2> DEFINE c == [NewCall EXCEPT !.st = "missed", !.rejected = x]
               call == [exec.call EXCEPT ![i] = c]
    <2>1. exec' = [exec EXCEPT !.call = call]
      BY <1>3 DEF Raise
    <2>2. c \in CallRecords /\ c.st = "missed" /\ c.attempt = 1
      BY NewCalls DEF NewCall, CallRecords
    <2> HIDE DEF c
    <2>3. Moved(i, c)
      BY <1>1, <2>2 DEF Moved
    <2>4. Moving(call)
      BY <1>1, <2>2, <2>3 DEF Moving
    <2> HIDE DEF call
    <2>5. QED
      BY <1>1, <2>1, <2>4, MovesSilently
  <1>4. CASE run.workflow \notin Forgiving /\ x = None
    <2>1. exec' = [exec EXCEPT !.phase = "fail"]
      BY <1>4 DEF Raise
    <2>2. exec' = [exec EXCEPT !.phase = "fail", !.kept = exec.kept]
      BY <1>2, <2>1
    <2>3. QED
      BY <2>2 DEF Fails, Enters
  <1>5. CASE run.workflow \notin Forgiving /\ x # None
    <2>1. exec' = [exec EXCEPT !.phase = "retain", !.kept = x]
      BY <1>5 DEF Raise
    <2>2. QED
      BY <1>5, <2>1 DEF Holds, Enters
  <1>6. QED
    BY <1>3, <1>4, <1>5

\* An answer is accepted, repaired or given up.
LEMMA AnswerKinds ==
    ASSUME IInv, NEW i \in DOMAIN exec.call, Answer(i)
    PROVE  Moves \/ Fails \/ Holds
  <1>1. TypeOK /\ exec.phase = "calls" /\ UNCHANGED <<run, log, world>>
    BY DEF Answer, IInv
  <1>2. PICK a \in Answers(run.workflow, i), malformed \in BOOLEAN,
             short \in (IF run.workflow \in Builds THEN BOOLEAN ELSE {FALSE}) :
               Answered(i, a, malformed, short)
    BY DEF Answer
  <1> DEFINE graph == ~Checked(a)
             tries == exec.call[i].tries + 1
             x == IF malformed THEN Remembered(i) ELSE Kept(i, a, graph)
  <1>3. exec.call[i].st = "asking" /\ i \in In({"asking"})
    BY <1>2 DEF Answered, In
  <1>4. a \in Drafts /\ short \in BOOLEAN /\ graph \in BOOLEAN
    <2>1. run.workflow \in Workflows /\ i \in CallsOf(run.workflow)
      BY <1>1 DEF TypeOK
    <2>2. Answers(run.workflow, i) \subseteq Drafts
      BY <2>1, ConstantsAssumption
    <2>3. a \in Drafts
      BY <2>2
    <2>4. QED
      BY <2>3
  <1>5. /\ exec.call[i].tries \in 0..Retries /\ exec.call[i] \in CallRecords
        /\ Retries \in Nat
    BY <1>1, CallParts, ConstantsAssumption DEF CallRecords
  <1>6. CASE ~malformed /\ ~graph /\ ~short
    <2> DEFINE c == [NewCall EXCEPT !.st = "answered", !.attempt = tries,
                                    !.answer = a, !.short = FALSE]
               call == [exec.call EXCEPT ![i] = c]
    <2>1. exec' = [exec EXCEPT !.call = call]
      BY <1>2, <1>6 DEF Answered, Accept
    <2>2. tries \in 1..Most
      BY <1>5 DEF Most
    <2>3. /\ c \in CallRecords /\ c.st = "answered" /\ c.answer = a
          /\ c.short = FALSE
      BY <1>4, <2>2, NewCalls DEF NewCall, CallRecords
    <2>4. run.workflow \notin LateChecked => Valid(exec.world, Over(a, Merged))
      BY <1>6 DEF Checked
    <2> HIDE DEF c, graph, x
    <2>5. Moved(i, c)
      BY <1>3, <2>3, <2>4 DEF Moved
    <2>6. Moving(call)
      BY <2>3, <2>5 DEF Moving
    <2> HIDE DEF call
    <2>7. QED
      BY <1>1, <2>1, <2>6, MovesSilently
  <1>7. CASE ~(~malformed /\ ~graph /\ ~short)
    <2>1. ~malformed => run.workflow \notin LateChecked
      BY <1>7 DEF Checked, LateChecked, Builds
    <2>2. /\ x \in Drafts \cup {None}
          /\ run.workflow \notin Forgiving /\ x # None => DOMAIN Merged \subseteq DOMAIN x
      <3> HIDE DEF graph
      <3>1. x = IF malformed THEN Remembered(i) ELSE Kept(i, a, graph)
        OBVIOUS
      <3> HIDE DEF x
      <3>2. QED
        BY <1>1, <1>3, <1>4, <2>1, <3>1, RejectedFits
    <2>3. CASE ~LastTry(i)
      <3> DEFINE c == [exec.call[i] EXCEPT !.tries = tries, !.repair = "full", !.rejected = x]
                 call == [exec.call EXCEPT ![i] = c]
      <3>1. exec' = [exec EXCEPT !.call = call]
        BY <1>2, <1>7, <2>3 DEF Answered
      <3>2. tries \in 0..Retries
        BY <1>5, <2>3 DEF LastTry
      <3> HIDE DEF x, tries
      <3>3. c \in CallRecords /\ c.st = "asking" /\ c.rejected = x
        BY <1>3, <1>5, <2>2, <3>2 DEF CallRecords
      <3> HIDE DEF c
      <3>4. Moved(i, c)
        BY <1>3, <2>2, <3>3 DEF Moved
      <3>5. Moving(call)
        BY <3>3, <3>4 DEF Moving
      <3> HIDE DEF call
      <3>6. QED
        BY <1>1, <3>1, <3>5, MovesSilently
    <2>4. CASE LastTry(i) /\ ~malformed /\ Advisory(graph, short)
      <3> DEFINE c == [NewCall EXCEPT !.st = "answered", !.attempt = Most,
                                      !.answer = a, !.short = TRUE]
                 call == [exec.call EXCEPT ![i] = c]
      <3>1. exec' = [exec EXCEPT !.call = call]
        BY <1>2, <1>7, <2>4 DEF Answered, Accept
      <3>2. Most \in 1..Most
        BY <1>5 DEF Most
      <3>3. c \in CallRecords /\ c.st = "answered" /\ c.answer = a
        BY <1>4, <3>2, NewCalls DEF NewCall, CallRecords
      <3>4. /\ ~run.enforced
            /\ run.workflow \notin LateChecked => Valid(exec.world, Over(a, Merged))
        BY <2>4 DEF Advisory, Checked
      <3> HIDE DEF c, graph, x
      <3>5. Moved(i, c)
        BY <1>3, <3>3, <3>4 DEF Moved
      <3>6. Moving(call)
        BY <3>3, <3>5 DEF Moving
      <3> HIDE DEF call
      <3>7. QED
        BY <1>1, <3>1, <3>6, MovesSilently
    <2>5. CASE LastTry(i) /\ ~(~malformed /\ Advisory(graph, short))
      <3>1. exec' = Raise(i, x)
        BY <1>2, <1>7, <2>5 DEF Answered
      <3> HIDE DEF x
      <3>2. QED
        BY <1>1, <1>3, <2>2, <3>1, RaiseKinds
    <2>6. QED
      BY <2>3, <2>4, <2>5
  <1>8. QED
    BY <1>6, <1>7

\* A call without an answer is asked once more with less, or given up.
LEMMA UnansweredKinds ==
    ASSUME IInv, NEW i \in DOMAIN exec.call, Unanswered(i)
    PROVE  Moves \/ Fails \/ Holds
  <1>1. /\ TypeOK /\ exec.phase = "calls" /\ UNCHANGED <<run, log, world>>
        /\ exec.call[i].st = "asking" /\ i \in In({"asking"})
    BY DEF Unanswered, IInv, In
  <1>2. /\ exec.call[i].tries \in 0..Retries /\ exec.call[i] \in CallRecords
        /\ Retries \in Nat
    BY <1>1, CallParts, ConstantsAssumption DEF CallRecords
  <1>3. CASE /\ Exhausted(i)
             /\ exec' = [exec EXCEPT !.call[i].tries = @ + 1, !.call[i].repair = "compact"]
    <2> DEFINE tries == exec.call[i].tries + 1
               c == [exec.call[i] EXCEPT !.tries = tries, !.repair = "compact"]
               call == [exec.call EXCEPT ![i] = c]
    <2>1. exec' = [exec EXCEPT !.call = call]
      BY <1>1, <1>3 DEF TypeOK
    <2>2. tries \in 0..Retries
      BY <1>2, <1>3 DEF Exhausted, LastTry
    <2> HIDE DEF tries
    <2>3. c \in CallRecords /\ c.st = "asking" /\ c.rejected = exec.call[i].rejected
      BY <1>1, <1>2, <2>2 DEF CallRecords
    <2> HIDE DEF c
    <2>4. run.workflow \notin Forgiving /\ c.rejected # None
            => DOMAIN Merged \subseteq DOMAIN c.rejected
      BY <1>1, <2>3 DEF IInv, RejectedHolds
    <2>5. Moved(i, c)
      BY <1>1, <2>3, <2>4 DEF Moved
    <2>6. Moving(call)
      BY <2>3, <2>5 DEF Moving
    <2> HIDE DEF call
    <2>7. QED
      BY <1>1, <2>1, <2>6, MovesSilently
  <1>4. CASE exec' = Raise(i, None)
    <2> DEFINE x == None
    <2>1. x \in Drafts \cup {None} /\ exec' = Raise(i, x) /\ x = None
      BY <1>4
    <2> HIDE DEF x
    <2>2. QED
      BY <1>1, <2>1, RaiseKinds
  <1>5. CASE exec' = [exec EXCEPT !.phase = "fail"]
    <2>1. exec' = [exec EXCEPT !.phase = "fail", !.kept = exec.kept]
      BY <1>1, <1>5 DEF TypeOK
    <2>2. QED
      BY <1>1, <2>1 DEF Fails, Enters
  <1>6. QED
    BY <1>3, <1>4, <1>5 DEF Unanswered

\* What is reported of a call that is over: no more attempts than an accepted
\* answer took.
LEMMA ReportTells ==
    ASSUME IInv, NEW i \in In({"answered", "missed"}), Reported(i)
    PROVE  Report(i) \in Events /\ Telling(Report(i))
  <1> DEFINE missed == exec.call[i].st = "missed"
             done == In({"accepted", "failed"}) \cup {i}
  <1>1. TypeOK /\ Fresh
    BY DEF IInv
  <1>2. /\ i \in DOMAIN exec.call /\ exec.call[i] \in CallRecords /\ i \in 1..Calls
        /\ exec.call[i].st \in {"answered", "missed"}
    BY <1>1, CallParts DEF In
  <1>3. done \subseteq DOMAIN exec.call /\ DOMAIN exec.call \subseteq 1..Calls /\ Calls \in Nat
    BY <1>1, <1>2, CallParts, InParts, ConstantsAssumption
  <1>4. Cardinality(done) \in Nat
    <2>1. IsFiniteSet(1..Calls)
      BY <1>3, FS_Interval
    <2>2. IsFiniteSet(done)
      BY <1>3, <2>1, FS_Subset
    <2>3. QED
      BY <2>2, FS_CardinalityType
  <1>5. ASSUME NEW j \in done
        PROVE  exec.call[j].attempt = 1 \/ j \in Settled
    <2>1. exec.call[j].st \in {"accepted", "failed", "answered", "missed"}
      BY <1>2 DEF In
    <2>2. QED
      BY <1>1, <1>3, <2>1 DEF Fresh, Settled, In
  <1>6. /\ Highest(done) \in 1..Most
        /\ Highest(done) = 1 \/ \E j \in Settled : Highest(done) <= exec.call[j].attempt
    <2> DEFINE h == Highest(done)
    <2>1. h \in 1..Most /\ (h = 1 \/ \E j \in done : h = exec.call[j].attempt)
      BY <1>1, <1>3, HighestIs
    <2> HIDE DEF h, done
    <2>2. h \in Nat
      BY <2>1, ConstantsAssumption DEF Most
    <2>3. h = 1 \/ \E j \in Settled : h = exec.call[j].attempt
      BY <1>5, <2>1
    <2>4. h = 1 \/ \E j \in Settled : h <= exec.call[j].attempt
      BY <2>2, <2>3
    <2>5. QED
      BY <2>1, <2>4 DEF h
  <1>7. /\ exec.call[i].attempt \in 1..Most
        /\ \/ exec.call[i].attempt = 1
           \/ \E j \in Settled : exec.call[i].attempt <= exec.call[j].attempt
    <2>1. exec.call[i].attempt \in 1..Most /\ exec.call[i].attempt \in Nat
      BY <1>2, ConstantsAssumption DEF CallRecords, Most
    <2>2. exec.call[i].attempt = 1 \/ i \in Settled
      BY <1>5
    <2>3. QED
      BY <2>1, <2>2
  <1>8. /\ Count(Merged) \in Nat /\ Count(exec.call[i].answer) + 1 \in Nat
        /\ missed \in BOOLEAN /\ Warned \in BOOLEAN /\ i \in Nat
    <2>1. Count(exec.call[i].answer) \in Nat
      BY <1>2, CountNat DEF CallRecords
    <2>2. Count(Merged) \in Nat
      BY <1>1, MergedDraft, CountNat
    <2>3. QED
      BY <1>2, <2>1, <2>2 DEF Warned
  <1> HIDE DEF missed, done
  <1>9. CASE run.workflow = "mapping"
    <2> DEFINE f == IF missed THEN 1 ELSE 0
               n == IF exec.call[i].repair = "preserved" THEN 0
                    ELSE Count(exec.call[i].answer) + 1
    <2>1. Report(i) = Event("report", exec.call[i].attempt, missed, i, f, n)
      BY <1>9 DEF Report, missed, Downstream
    <2>2. f \in Nat /\ n \in Nat
      BY <1>8
    <2> HIDE DEF f, n
    <2>3. Report(i) \in Events /\ Report(i).stage = "report"
          /\ Report(i).attempt = exec.call[i].attempt
      BY <1>7, <1>8, <2>1, <2>2 DEF Event, Events
    <2>4. QED
      BY <1>7, <2>3 DEF Telling
  <1>10. CASE run.workflow \in Downstream
    <2>1. Report(i) = Event("report", Highest(done), Warned, i, 0, 0)
      BY <1>10 DEF Report, done, Downstream
    <2>2. Report(i) \in Events /\ Report(i).stage = "report"
          /\ Report(i).attempt = Highest(done)
      BY <1>6, <1>8, <2>1 DEF Event, Events
    <2>3. QED
      BY <1>6, <2>2 DEF Telling
  <1>11. CASE run.workflow = "per_table"
    <2>1. Report(i) = Event("report", Highest(done), TRUE, Cardinality(done), Count(Merged), i)
      BY <1>11 DEF Report, done, Downstream
    <2>2. Report(i) \in Events /\ Report(i).stage = "report"
          /\ Report(i).attempt = Highest(done)
      BY <1>4, <1>6, <1>8, <2>1 DEF Event, Events
    <2>3. QED
      BY <1>6, <2>2 DEF Telling
  <1>12. QED
    BY <1>9, <1>10, <1>11 DEF Reported

\* A call is closed.
LEMMA CloseMoves ==
    ASSUME IInv, NEW i \in DOMAIN exec.call, Close(i)
    PROVE  Moves \/ Fails
  <1> DEFINE c == [exec.call[i] EXCEPT !.st = Outcome(i)]
             call == [exec.call EXCEPT ![i] = c]
             e == Report(i)
  <1>1. /\ TypeOK /\ exec.phase = "calls" /\ i \in In({"answered", "missed"})
        /\ UNCHANGED <<run, world>>
    BY DEF Close, IInv
  <1>2. exec.call[i].st \in {"answered", "missed"} /\ exec.call[i] \in CallRecords
    BY <1>1, CallParts DEF In
  <1>3. [exec EXCEPT !.call[i].st = Outcome(i)] = [exec EXCEPT !.call = call]
    BY <1>1 DEF TypeOK
  <1>4. c \in CallRecords /\ Moved(i, c)
    <2>1. CASE exec.call[i].st = "answered"
      BY <1>2, <2>1 DEF Outcome, Moved, CallRecords
    <2>2. CASE exec.call[i].st = "missed"
      BY <1>2, <2>2 DEF Outcome, Moved, CallRecords
    <2>3. QED
      BY <1>2, <2>1, <2>2
  <1> HIDE DEF c
  <1>5. Moving(call)
    BY <1>4 DEF Moving
  <1> HIDE DEF call
  <1>6. CASE Reported(i) /\ Tell(Report(i), [exec EXCEPT !.call[i].st = Outcome(i)])
    <2>1. e \in Events /\ Telling(e) /\ Tell(e, [exec EXCEPT !.call = call])
      BY <1>1, <1>3, <1>6, ReportTells
    <2> HIDE DEF e
    <2>2. QED
      BY <1>1, <1>5, <2>1, MovesTelling
  <1>7. CASE exec' = [exec EXCEPT !.call[i].st = Outcome(i)] /\ UNCHANGED log
    <2>1. exec' = [exec EXCEPT !.call = call]
      BY <1>3, <1>7
    <2>2. QED
      BY <1>1, <1>5, <1>7, <2>1, MovesSilently
  <1>8. QED
    BY <1>6, <1>7 DEF Close

\* When the calls are over, the Run goes on to its end, fails, or keeps the
\* first answer that was rejected.
LEMMA GatherKinds ==
    ASSUME IInv, Gather
    PROVE  Settles \/ Fails \/ Holds
  <1> DEFINE first == exec.call[Min(Failed)].rejected
  <1>1. TypeOK /\ exec.phase = "calls" /\ UNCHANGED <<run, log, world>>
    BY DEF Gather, IInv
  <1>2. exec = [phase |-> exec.phase, world |-> exec.world, told |-> exec.told,
                kept |-> exec.kept, call |-> exec.call]
    BY <1>1 DEF TypeOK
  <1>3. exec' = IF ~NothingDone THEN [exec EXCEPT !.phase = "final"]
                ELSE IF first = None THEN [exec EXCEPT !.phase = "fail"]
                ELSE [exec EXCEPT !.phase = "retain", !.kept = first]
    BY DEF Gather
  <1>4. ASSUME NothingDone
        PROVE  first \in Drafts \cup {None} /\ DOMAIN Merged = {}
    <2>1. Failed \subseteq DOMAIN exec.call /\ DOMAIN exec.call \subseteq 1..Calls
      BY <1>1, CallParts, InParts DEF Failed
    <2>2. Failed # {}
      <3>1. DOMAIN exec.call = CallsOf(run.workflow)
        BY <1>1 DEF TypeOK
      <3>2. QED
        BY <1>4, <3>1, CallsParts DEF NothingDone
    <2>3. Min(Failed) \in Failed
      <3>1. Failed \subseteq Nat
        BY <2>1
      <3>2. QED
        BY <2>2, <3>1, MinWithin
    <2>4. exec.call[Min(Failed)] \in CallRecords
      BY <1>1, <2>1, <2>3, CallParts
    <2>5. first \in Drafts \cup {None}
      BY <2>4 DEF CallRecords
    <2>6. DOMAIN Merged = {}
      <3>1. CASE run.workflow = "mapping" /\ Merged = Empty
        BY <3>1, EmptyDraft
      <3>2. CASE Failed = DOMAIN exec.call
        <4>1. Settled = {}
          BY <3>2 DEF Settled, Failed, In
        <4>2. QED
          BY <1>1, <4>1, NothingMerged
      <3>3. QED
        BY <1>4, <3>1, <3>2 DEF NothingDone
    <2>7. QED
      BY <2>5, <2>6
  <1> HIDE DEF first
  <1>5. CASE ~NothingDone
    <2>1. exec' = [exec EXCEPT !.phase = "final", !.kept = exec.kept]
      BY <1>2, <1>3, <1>5
    <2>2. QED
      BY <1>1, <2>1 DEF Settles, Enters
  <1>6. CASE NothingDone /\ first = None
    <2>1. exec' = [exec EXCEPT !.phase = "fail", !.kept = exec.kept]
      BY <1>2, <1>3, <1>6
    <2>2. QED
      BY <1>1, <2>1 DEF Fails, Enters
  <1>7. CASE NothingDone /\ first # None
    <2>1. exec' = [exec EXCEPT !.phase = "retain", !.kept = first]
      BY <1>3, <1>7
    <2>2. first \in Drafts /\ DOMAIN Merged \subseteq DOMAIN first
      BY <1>4, <1>7
    <2>3. QED
      BY <1>1, <2>1, <2>2 DEF Holds, Enters
  <1>8. QED
    BY <1>5, <1>6, <1>7

\* A Run with changes ends with its draft, keeps it as rejected, or is left.
LEMMA FinalizeKinds ==
    ASSUME IInv, Finalize
    PROVE  Completes \/ Stops \/ Holds
  <1>1. TypeOK /\ exec.phase = "final" /\ UNCHANGED world
    BY DEF Finalize, IInv
  <1>2. CASE /\ SoundNow /\ Accepts(FinalEvent) /\ log' = Logged(FinalEvent)
             /\ exec' = [exec EXCEPT !.phase = "done", !.told = Append(@, FinalEvent)]
             /\ run' = Ended(Merged, TRUE)
    BY <1>1, <1>2 DEF Completes, SoundNow
  <1>3. CASE exec' = NoExec /\ UNCHANGED <<run, log>>
    BY <1>1, <1>3 DEF Stops
  <1>4. CASE exec' = [exec EXCEPT !.phase = "retain", !.kept = Merged] /\ UNCHANGED <<run, log>>
    <2>1. Merged \in Drafts
      BY <1>1, MergedDraft
    <2>2. QED
      BY <1>1, <1>4, <2>1 DEF Holds, Enters
  <1>5. QED
    BY <1>2, <1>3, <1>4 DEF Finalize

\* A Run without changes ends without a draft, or is left.
LEMMA NoOpKinds ==
    ASSUME IInv, CompleteNoOp
    PROVE  Completes \/ Stops
  <1>1. exec.phase = "final" /\ UNCHANGED world /\ Merged = Empty
    BY DEF CompleteNoOp
  <1>2. CASE NoOpFits /\ Accepts(FinalEvent)
    BY <1>1, <1>2 DEF CompleteNoOp, Completes
  <1>3. CASE ~(NoOpFits /\ Accepts(FinalEvent))
    BY <1>1, <1>3 DEF CompleteNoOp, Stops
  <1>4. QED
    BY <1>2, <1>3

\* A rejected draft is kept with the failure of its Run, unless it is valid now.
LEMMA RetainKinds ==
    ASSUME IInv, Retain
    PROVE  Loses \/ Stops
  <1>1. TypeOK /\ exec.phase = "retain" /\ UNCHANGED <<log, world>>
    BY DEF Retain, IInv
  <1>2. CASE Valid(world, exec.kept)
    BY <1>1, <1>2 DEF Retain, Stops
  <1>3. CASE ~Valid(world, exec.kept)
    <2>1. exec.kept \in Drafts \cup {None}
      BY <1>1 DEF TypeOK
    <2>2. run' = [run EXCEPT !.state = "failed", !.draft = exec.kept]
          /\ exec' = [exec EXCEPT !.phase = "done"]
      BY <1>3 DEF Retain
    <2>3. QED
      BY <1>1, <1>3, <2>1, <2>2 DEF Loses
  <1>4. QED
    BY <1>2, <1>3

\* A failure leaves no draft.
LEMMA FailKinds ==
    ASSUME IInv, Fail
    PROVE  Loses
  <1>1. TypeOK /\ exec.phase = "fail" /\ UNCHANGED <<log, world>> /\ run.draft = None
    BY DEF Fail, IInv, Phases
  <1>2. run' = [run EXCEPT !.state = "failed"] /\ exec' = [exec EXCEPT !.phase = "done"]
    BY DEF Fail
  <1>3. run' = [run EXCEPT !.state = "failed", !.draft = None]
    BY <1>1, <1>2 DEF TypeOK
  <1>4. QED
    BY <1>1, <1>2, <1>3 DEF Loses

Steps == Moves \/ Fails \/ Settles \/ Holds \/ Stops \/ Begins \/ GivesUp \/ Loses
           \/ Completes \/ Rests

\* Every step is one of ten kinds.
LEMMA StepKinds ==
    ASSUME IInv, [Next]_vars
    PROVE  Steps
  <1>1. TypeOK
    BY DEF IInv
  <1>2. CASE UNCHANGED vars
    BY <1>1, <1>2 DEF Steps, Rests, vars, TypeOK
  <1>3. CASE Work
    <2>1. CASE Start
      BY <2>1, StartMoves DEF Steps
    <2>2. CASE Gather
      BY <2>2, GatherKinds DEF Steps
    <2>3. CASE Finalize
      BY <2>3, FinalizeKinds DEF Steps
    <2>4. CASE CompleteNoOp
      BY <2>4, NoOpKinds DEF Steps
    <2>5. CASE Retain
      BY <2>5, RetainKinds DEF Steps
    <2>6. CASE Fail
      BY <2>6, FailKinds DEF Steps
    <2>7. ASSUME NEW i \in DOMAIN exec.call,
                 Open(i) \/ Skip(i) \/ Preserve(i) \/ Answer(i) \/ Unanswered(i) \/ Close(i)
          PROVE  Steps
      BY <2>7, OpenMoves, SkipMoves, PreserveMoves, AnswerKinds, UnansweredKinds,
         CloseMoves DEF Steps
    <2>8. QED
      BY <1>3, <2>1, <2>2, <2>3, <2>4, <2>5, <2>6, <2>7 DEF Work
  <1>4. CASE Refused
    <2>1. exec.phase = "calls" /\ exec' = [exec EXCEPT !.phase = "fail"]
          /\ UNCHANGED <<run, log, world>>
      BY <1>4 DEF Refused
    <2>2. exec' = [exec EXCEPT !.phase = "fail", !.kept = exec.kept]
      BY <1>1, <2>1 DEF TypeOK
    <2>3. QED
      BY <2>1, <2>2 DEF Fails, Enters, Steps
  <1>5. CASE Stop
    BY <1>5 DEF Stop, Stops, Steps
  <1>6. CASE Recover
    BY <1>6 DEF Recover, Recovered, Begins, Steps
  <1>7. CASE GiveUp
    BY <1>7 DEF GiveUp, GivesUp, Steps
  <1>8. CASE Drift
    BY <1>8 DEF Drift, Rests, Steps
  <1>9. QED
    BY <1>2, <1>3, <1>4, <1>5, <1>6, <1>7, <1>8 DEF Next

-----------------------------------------------------------------------------
(* What a step does to the accepted answers. *)

\* The same settled calls with the same answers make the same draft.
LEMMA SameMerged ==
    ASSUME Settled' = Settled, \A i \in Settled : exec'.call[i].answer = exec.call[i].answer,
           TypeOK
    PROVE  Merged' = Merged
  <1> DEFINE D == UNION {DOMAIN exec.call[i].answer : i \in Settled}
  <1>1. UNION {DOMAIN exec'.call[i].answer : i \in Settled'} = D
    OBVIOUS
  <1>2. \A k : Authors(k)' = Authors(k)
    BY DEF Authors
  <1>3. \A k \in D : Max(Authors(k)) \in Settled
    <2> TAKE k \in D
    <2>1. Authors(k) # {}
      BY DEF Authors
    <2>2. QED
      BY <2>1, AuthorsParts DEF Authors
  <1> HIDE DEF D
  <1>4. \A k \in D : exec'.call[Max(Authors(k))].answer[k] = exec.call[Max(Authors(k))].answer[k]
    BY <1>3
  <1>5. Merged = [k \in D |-> exec.call[Max(Authors(k))].answer[k]]
    BY DEF Merged, D
  <1>6. Merged' = [k \in D |-> exec'.call[Max(Authors(k))].answer[k]]
    BY <1>1, <1>2 DEF Merged
  <1>7. QED
    BY <1>4, <1>5, <1>6

\* Calls that stay as they are.
LEMMA CallsRest ==
    ASSUME TypeOK, exec'.call = exec.call
    PROVE  Settled' = Settled /\ Merged' = Merged
  <1>1. Settled' = Settled
    BY DEF Settled, In
  <1>2. QED
    BY <1>1, SameMerged

\* An answer accepted after all others is laid over them.
LEMMA MergedOver ==
    ASSUME TypeOK, NEW i \in DOMAIN exec.call, i \notin Settled, \A j \in Settled : j < i,
           NEW c \in CallRecords, exec'.call = [exec.call EXCEPT ![i] = c],
           Settled' = Settled \cup {i}
    PROVE  Merged' = Over(c.answer, Merged)
  <1> DEFINE D == UNION {DOMAIN exec.call[j].answer : j \in Settled}
             E == DOMAIN c.answer
  <1>1. /\ exec'.call[i] = c
        /\ \A j \in Settled : exec'.call[j] = exec.call[j]
    BY InParts DEF Settled
  <1>2. UNION {DOMAIN exec'.call[j].answer : j \in Settled'} = D \cup E
    BY <1>1
  <1>3. DOMAIN exec.call \subseteq Nat /\ Settled \subseteq DOMAIN exec.call
    BY CallParts, InParts DEF Settled
  <1>4. ASSUME NEW k \in E
        PROVE  Max(Authors(k)') = i
    <2>1. Authors(k)' = {j \in Settled' : k \in DOMAIN exec'.call[j].answer}
      BY DEF Authors
    <2> DEFINE S == Authors(k)'
    <2>2. S \subseteq Nat /\ i \in S
      BY <1>1, <1>3, <1>4, <2>1
    <2>3. \A j \in S : j <= i
      BY <1>3, <2>1
    <2> HIDE DEF S
    <2>4. Max(S) = i
      BY <2>2, <2>3, MaxIs
    <2>5. QED
      BY <2>4 DEF S
  <1>5. ASSUME NEW k \in D, k \notin E
        PROVE  Authors(k)' = Authors(k) /\ Max(Authors(k)) \in Settled
    <2>1. Authors(k)' = Authors(k)
      BY <1>1, <1>5 DEF Authors
    <2>2. Authors(k) # {}
      BY DEF Authors
    <2>3. QED
      BY <2>1, <2>2, AuthorsParts DEF Authors
  <1>6. Merged = [k \in D |-> exec.call[Max(Authors(k))].answer[k]]
    BY DEF Merged
  <1>7. Merged' = [k \in D \cup E |-> exec'.call[Max(Authors(k)')].answer[k]]
    BY <1>2 DEF Merged
  <1> HIDE DEF D, E
  <1>8. DOMAIN Merged = D
    BY <1>6
  <1>9. \A k \in D \cup E : exec'.call[Max(Authors(k)')].answer[k]
                              = IF k \in E THEN c.answer[k] ELSE Merged[k]
    <2> TAKE k \in D \cup E
    <2>1. CASE k \in E
      BY <1>1, <1>4, <2>1
    <2>2. CASE k \notin E
      BY <1>1, <1>5, <1>6, <2>2
    <2>3. QED
      BY <2>1, <2>2
  <1>10. Over(c.answer, Merged) = [k \in D \cup E |-> IF k \in E THEN c.answer[k] ELSE Merged[k]]
    BY <1>8 DEF Over, E
  <1>11. QED
    BY <1>7, <1>9, <1>10

Adds(i, c) ==
    \/ Settled' = Settled /\ Merged' = Merged
    \/ /\ Settled' = Settled \cup {i} /\ i \notin Settled
       /\ \/ Merged' = Merged /\ ~c.short
          \/ /\ exec.call[i].st = "asking" /\ c.st = "answered"
             /\ run.workflow # "per_table" => Merged' = Over(c.answer, Merged)

\* A move of a call leaves what has been accepted as it is or adds one answer.
LEMMA MovedAdds ==
    ASSUME IInv, NEW i \in DOMAIN exec.call, NEW c \in CallRecords, Moved(i, c),
           exec'.call = [exec.call EXCEPT ![i] = c]
    PROVE  Adds(i, c)
  <1>1. TypeOK
    BY DEF IInv
  <1>2. /\ exec'.call[i] = c /\ DOMAIN exec'.call = DOMAIN exec.call
        /\ \A j \in DOMAIN exec.call : j # i => exec'.call[j] = exec.call[j]
    OBVIOUS
  <1>3. CASE /\ exec.call[i].st \notin {"answered", "accepted"}
             /\ c.st \notin {"answered", "accepted"}
    <2>1. Settled' = Settled /\ i \notin Settled
      BY <1>2, <1>3 DEF Settled, In
    <2>2. \A j \in Settled : exec'.call[j].answer = exec.call[j].answer
      BY <1>2, <2>1 DEF Settled, In
    <2>3. QED
      BY <1>1, <2>1, <2>2, SameMerged DEF Adds
  <1>4. CASE exec.call[i].st = "answered" /\ c = [exec.call[i] EXCEPT !.st = "accepted"]
    <2>1. exec.call[i] \in CallRecords
      BY <1>1, CallParts
    <2>2. c.answer = exec.call[i].answer /\ c.st = "accepted"
      BY <1>4, <2>1 DEF CallRecords
    <2>3. Settled' = Settled
      BY <1>2, <1>4, <2>2 DEF Settled, In
    <2>4. \A j \in Settled : exec'.call[j].answer = exec.call[j].answer
      BY <1>2, <2>2 DEF Settled, In
    <2>5. QED
      BY <1>1, <2>3, <2>4, SameMerged DEF Adds
  <1>5. CASE /\ exec.call[i].st = "todo"
             /\ c = [NewCall EXCEPT !.st = "answered", !.repair = "preserved"]
    <2>1. c.st = "answered" /\ c.answer = Empty /\ c.short = FALSE
      BY <1>5 DEF NewCall
    <2>2. Settled' = Settled \cup {i} /\ i \notin Settled
      BY <1>2, <1>5, <2>1 DEF Settled, In
    <2>3. Merged' = Merged
      <3> DEFINE D == UNION {DOMAIN exec.call[j].answer : j \in Settled}
      <3>1. \A j \in Settled : exec'.call[j] = exec.call[j]
        BY <1>2, <2>2 DEF Settled, In
      <3>2. DOMAIN exec'.call[i].answer = {}
        BY <1>2, <2>1, EmptyDraft
      <3>3. UNION {DOMAIN exec'.call[j].answer : j \in Settled'} = D
        BY <2>2, <3>1, <3>2
      <3>4. \A k \in D : Authors(k)' = Authors(k) /\ Max(Authors(k)) \in Settled
        <4> TAKE k \in D
        <4>1. Authors(k)' = Authors(k)
          BY <2>2, <3>1, <3>2 DEF Authors
        <4>2. Authors(k) # {}
          BY DEF Authors
        <4>3. QED
          BY <1>1, <4>1, <4>2, AuthorsParts DEF Authors
      <3>5. Merged = [k \in D |-> exec.call[Max(Authors(k))].answer[k]]
        BY DEF Merged
      <3>6. Merged' = [k \in D |-> exec'.call[Max(Authors(k)')].answer[k]]
        BY <3>3 DEF Merged
      <3> HIDE DEF D
      <3>7. \A k \in D : exec'.call[Max(Authors(k)')].answer[k] = exec.call[Max(Authors(k))].answer[k]
        BY <3>1, <3>4
      <3>8. QED
        BY <3>5, <3>6, <3>7
    <2>4. QED
      BY <2>1, <2>2, <2>3 DEF Adds
  <1>6. CASE exec.call[i].st = "asking" /\ c.st = "answered"
    <2>1. Settled' = Settled \cup {i} /\ i \notin Settled
      BY <1>2, <1>6 DEF Settled, In
    <2>2. ASSUME run.workflow # "per_table"
          PROVE  Merged' = Over(c.answer, Merged)
      <3>1. i \in In({"asking"})
        BY <1>6 DEF In
      <3>2. \A j \in Settled : j < i
        BY <2>2, <3>1, OpenIsLast
      <3>3. QED
        BY <1>1, <2>1, <3>2, MergedOver
    <2>3. QED
      BY <1>6, <2>1, <2>2 DEF Adds
  <1>7. QED
    <2>1. exec.call[i] \in CallRecords
      BY <1>1, CallParts
    <2>2. ASSUME exec.call[i].st = "missed", c = [exec.call[i] EXCEPT !.st = "failed"]
          PROVE  c.st = "failed"
      BY <2>1, <2>2 DEF CallRecords
    <2>3. [NewCall EXCEPT !.st = "asking"].st = "asking"
          /\ [NewCall EXCEPT !.st = "skipped"].st = "skipped"
      BY DEF NewCall
    <2>4. QED
      BY <1>3, <1>4, <1>5, <1>6, <2>2, <2>3 DEF Moved

-----------------------------------------------------------------------------
(* The invariant is kept. *)

\* The last event of a Run is an event.
LEMMA FinalEvents ==
    ASSUME TypeOK
    PROVE  /\ FinalEvent \in Events
           /\ FinalEvent.stage = "final" /\ FinalEvent.attempt = Highest(Settled)
           /\ FinalEvent.findings = Count(Merged)
  <1>1. Highest(Settled) \in 1..Most
    BY HighestIs, InParts DEF Settled
  <1>2. FinalCount \in Nat
    <2>1. IsFiniteSet(1..Calls)
      BY ConstantsAssumption, FS_Interval
    <2>2. IsFiniteSet(DOMAIN exec.call)
      BY <2>1, CallParts, FS_Subset
    <2>3. Cardinality(DOMAIN exec.call) \in Nat
      BY <2>2, FS_CardinalityType
    <2>4. QED
      BY <2>3 DEF FinalCount
  <1>3. Count(Merged) \in Nat
    BY MergedDraft, CountNat
  <1>4. Warned \in BOOLEAN
    BY DEF Warned
  <1>5. QED
    BY <1>1, <1>2, <1>3, <1>4 DEF FinalEvent, Event, Events

\* A log that takes an event up stays one, and has it in its place.
LEMMA LoggedParts ==
    ASSUME TypeOK, ToldIsLogged, NEW e \in Events, Accepts(e), log' = Logged(e),
           exec'.told = Append(exec.told, e)
    PROVE  /\ log' \in Seq(Events) /\ exec'.told \in Seq(Events)
           /\ ToldIsLogged'
           /\ \/ log' = log /\ Len(exec.told) < Len(log)
              \/ log' = Append(log, e) /\ Len(exec.told) = Len(log)
  <1>1. /\ log \in Seq(Events) /\ exec.told \in Seq(Events)
        /\ Len(exec.told) <= Len(log) /\ \A n \in 1..Len(exec.told) : exec.told[n] = log[n]
        /\ Len(log) \in Nat /\ Len(exec.told) \in Nat
    BY DEF TypeOK, ToldIsLogged
  <1> DEFINE told == exec'.told
             m == Len(exec.told)
  <1>2. /\ told \in Seq(Events) /\ Len(told) = m + 1 /\ told[m + 1] = e
        /\ \A n \in 1..m : told[n] = exec.told[n]
    BY <1>1
  <1> HIDE DEF told, m
  <1>3. CASE m < Len(log)
    <2>1. log' = log
      BY <1>3 DEF Logged, m
    <2>2. m + 1 <= Len(log)
      BY <1>1, <1>3 DEF m
    <2>3. log[m + 1] = e
      BY <2>2 DEF Accepts, Same, m
    <2>4. \A n \in 1..(m + 1) : told[n] = log[n]
      <3> TAKE n \in 1..(m + 1)
      <3>1. n \in 1..m \/ n = m + 1
        BY <1>1 DEF m
      <3>2. QED
        BY <1>1, <1>2, <2>3, <3>1 DEF m
    <2>5. Len(told) <= Len(log') /\ \A n \in 1..Len(told) : told[n] = log'[n]
      BY <1>2, <2>1, <2>2, <2>4
    <2>6. QED
      BY <1>1, <1>2, <1>3, <2>1, <2>5 DEF ToldIsLogged, told, m
  <1>4. CASE ~(m < Len(log))
    <2>1. log' = Append(log, e) /\ m = Len(log)
      BY <1>1, <1>4 DEF Logged, m
    <2>2. /\ log' \in Seq(Events) /\ Len(log') = m + 1 /\ log'[m + 1] = e
          /\ \A n \in 1..m : log'[n] = log[n]
      BY <1>1, <2>1
    <2>3. \A n \in 1..(m + 1) : told[n] = log'[n]
      <3> TAKE n \in 1..(m + 1)
      <3>1. n \in 1..m \/ n = m + 1
        BY <1>1 DEF m
      <3>2. QED
        BY <1>1, <1>2, <2>2, <3>1 DEF m
    <2>4. Len(told) <= Len(log') /\ \A n \in 1..Len(told) : told[n] = log'[n]
      BY <1>1, <1>2, <2>2, <2>3 DEF m
    <2>5. QED
      BY <1>2, <2>1, <2>2, <2>4 DEF ToldIsLogged, told, m
  <1>5. QED
    BY <1>3, <1>4

\* The calls of an execution stay calls of the Run.
LEMMA MovesTyped ==
    ASSUME IInv, Moves
    PROVE  /\ exec'.call \in [CallsOf(run.workflow) -> CallRecords]
           /\ log' \in Seq(Events) /\ exec'.told \in Seq(Events) /\ ToldIsLogged'
  <1>1. TypeOK /\ ToldIsLogged /\ exec.phase = "calls"
    BY DEF Moves, IInv
  <1>2. exec.call \in [CallsOf(run.workflow) -> CallRecords]
    BY <1>1 DEF TypeOK
  <1>3. exec'.call \in [CallsOf(run.workflow) -> CallRecords]
    BY <1>2 DEF Moves, Moving
  <1>4. ASSUME Silent
        PROVE  log' \in Seq(Events) /\ exec'.told \in Seq(Events) /\ ToldIsLogged'
    BY <1>1, <1>4 DEF Silent, TypeOK, ToldIsLogged
  <1>5. ASSUME NEW e \in Events, Says(e)
        PROVE  log' \in Seq(Events) /\ exec'.told \in Seq(Events) /\ ToldIsLogged'
    BY <1>1, <1>5, LoggedParts DEF Says
  <1>6. QED
    BY <1>3, <1>4, <1>5 DEF Moves

\* Types.
LEMMA TypeStep ==
    ASSUME IInv, Steps
    PROVE  TypeOK'
  <1>1. TypeOK /\ ToldIsLogged /\ Phases
    BY DEF IInv
  <1>2. /\ run \in [workflow : Workflows, enforced : BOOLEAN,
                    state : {"running", "failed", "completed", "completed_with_repair"},
                    recoveries : Nat, draft : Drafts \cup {None}, sealed : BOOLEAN]
        /\ log \in Seq(Events) /\ world \in Worlds
        /\ exec = [phase |-> exec.phase, world |-> exec.world, told |-> exec.told,
                   kept |-> exec.kept, call |-> exec.call]
        /\ exec.world \in Worlds /\ exec.told \in Seq(Events)
        /\ exec.kept \in Drafts \cup {None}
        /\ exec.phase # "idle" => exec.call \in [CallsOf(run.workflow) -> CallRecords]
    BY <1>1 DEF TypeOK
  <1>3. <<>> \in Seq(Events) /\ Empty \in Drafts
    BY EmptyDraft
  <1>4. CASE Moves
    <2>1. /\ exec'.call \in [CallsOf(run.workflow) -> CallRecords]
          /\ log' \in Seq(Events) /\ exec'.told \in Seq(Events)
      BY <1>4, MovesTyped
    <2>2. /\ run' = run /\ world' = world
          /\ exec' = [phase |-> "calls", world |-> exec.world, told |-> exec'.told,
                      kept |-> exec.kept, call |-> exec'.call]
      BY <1>4 DEF Moves
    <2>3. exec'.phase = "calls" /\ exec'.world = exec.world /\ exec'.kept = exec.kept
      BY <2>2
    <2>4. exec' = [phase |-> exec'.phase, world |-> exec'.world, told |-> exec'.told,
                   kept |-> exec'.kept, call |-> exec'.call]
      BY <2>2, <2>3
    <2>5. QED
      BY <1>2, <2>1, <2>2, <2>3, <2>4 DEF TypeOK
  <1>5. ASSUME NEW phase \in {"fail", "final", "retain"}, NEW x \in Drafts \cup {None},
               Enters(phase, x), exec.phase \in {"calls", "final"}
        PROVE  TypeOK'
    <2>1. exec' = [phase |-> phase, world |-> exec.world, told |-> exec.told,
                   kept |-> x, call |-> exec.call]
      BY <1>2, <1>5 DEF Enters
    <2>2. UNCHANGED <<run, log, world>>
      BY <1>5 DEF Enters
    <2>3. exec'.phase = phase /\ exec'.world = exec.world /\ exec'.told = exec.told
          /\ exec'.kept = x /\ exec'.call = exec.call
      BY <2>1
    <2>4. QED
      BY <1>2, <1>5, <2>1, <2>2, <2>3 DEF TypeOK
  <1>6. CASE Fails \/ Settles \/ Holds
    <2>1. exec.kept \in Drafts \cup {None}
      BY <1>2
    <2>2. QED
      BY <1>5, <1>6, <2>1 DEF Fails, Settles, Holds
  <1>7. CASE Stops
    BY <1>2, <1>3, <1>7 DEF Stops, NoExec, TypeOK
  <1>8. CASE Begins
    <2>1. [i \in CallsOf(run.workflow) |-> NewCall] \in [CallsOf(run.workflow) -> CallRecords]
      BY NewCalls
    <2> DEFINE call == [i \in CallsOf(run.workflow) |-> NewCall]
    <2> HIDE DEF call
    <2>2. exec' = [phase |-> "calls", world |-> world, told |-> <<>>, kept |-> Empty,
                   call |-> call]
      BY <1>8 DEF Begins, NewExec, call
    <2>3. call \in [CallsOf(run.workflow) -> CallRecords]
      BY <2>1 DEF call
    <2>4. run' = [run EXCEPT !.recoveries = @ + 1] /\ UNCHANGED <<log, world>>
      BY <1>8 DEF Begins
    <2>5. run.recoveries \in Nat /\ run.recoveries + 1 \in Nat
      BY <1>2
    <2>6. /\ run'.workflow = run.workflow
          /\ run' \in [workflow : Workflows, enforced : BOOLEAN,
                       state : {"running", "failed", "completed", "completed_with_repair"},
                       recoveries : Nat, draft : Drafts \cup {None}, sealed : BOOLEAN]
      BY <1>2, <2>4, <2>5
    <2>7. QED
      BY <1>2, <1>3, <2>2, <2>3, <2>4, <2>6 DEF TypeOK
  <1>9. CASE GivesUp
    <2>1. /\ run'.workflow = run.workflow
          /\ run' \in [workflow : Workflows, enforced : BOOLEAN,
                       state : {"running", "failed", "completed", "completed_with_repair"},
                       recoveries : Nat, draft : Drafts \cup {None}, sealed : BOOLEAN]
      BY <1>2, <1>9 DEF GivesUp
    <2>2. QED
      BY <1>1, <1>9, <2>1 DEF GivesUp, TypeOK
  <1>10. CASE Loses
    <2>1. PICK d \in Drafts \cup {None} : run' = [run EXCEPT !.state = "failed", !.draft = d]
      BY <1>10 DEF Loses
    <2>2. /\ run'.workflow = run.workflow
          /\ run' \in [workflow : Workflows, enforced : BOOLEAN,
                       state : {"running", "failed", "completed", "completed_with_repair"},
                       recoveries : Nat, draft : Drafts \cup {None}, sealed : BOOLEAN]
      BY <1>2, <2>1
    <2>3. exec' = [phase |-> "done", world |-> exec.world, told |-> exec.told,
                   kept |-> exec.kept, call |-> exec.call]
          /\ UNCHANGED <<log, world>> /\ exec.phase # "idle"
      BY <1>2, <1>10 DEF Loses
    <2>4. QED
      BY <1>2, <2>2, <2>3 DEF TypeOK
  <1>11. CASE Completes
    <2>1. FinalEvent \in Events /\ Merged \in Drafts
      BY <1>1, FinalEvents, MergedDraft
    <2>2. PICK d \in Drafts \cup {None}, s \in BOOLEAN : run' = Ended(d, s)
      BY <1>11, <2>1 DEF Completes
    <2>3. /\ run'.workflow = run.workflow
          /\ run' \in [workflow : Workflows, enforced : BOOLEAN,
                       state : {"running", "failed", "completed", "completed_with_repair"},
                       recoveries : Nat, draft : Drafts \cup {None}, sealed : BOOLEAN]
      <3> DEFINE P == \E n \in DOMAIN log' : log'[n].attempt > 1
                 st == IF P THEN "completed_with_repair" ELSE "completed"
      <3>1. run' = [run EXCEPT !.state = st, !.draft = d, !.sealed = s]
        BY <2>2 DEF Ended
      <3>2. st \in {"running", "failed", "completed", "completed_with_repair"}
        OBVIOUS
      <3> HIDE DEF st
      <3>3. QED
        BY <1>2, <3>1, <3>2
    <2>4. exec' = [phase |-> "done", world |-> exec.world,
                   told |-> Append(exec.told, FinalEvent),
                   kept |-> exec.kept, call |-> exec.call]
          /\ world' = world /\ exec.phase # "idle"
      BY <1>2, <1>11 DEF Completes
    <2>5. exec'.told = Append(exec.told, FinalEvent)
      BY <2>4
    <2>6. log' \in Seq(Events) /\ exec'.told \in Seq(Events)
      <3> DEFINE e == FinalEvent
      <3>1. e \in Events /\ Accepts(e) /\ log' = Logged(e) /\ exec'.told = Append(exec.told, e)
        BY <1>11, <2>1, <2>5 DEF Completes
      <3> HIDE DEF e
      <3>2. QED
        BY <1>1, <3>1, LoggedParts
    <2>7. QED
      BY <1>2, <2>3, <2>4, <2>6 DEF TypeOK
  <1>12. CASE Rests
    BY <1>1, <1>12 DEF Rests, TypeOK
  <1>13. QED
    BY <1>4, <1>6, <1>7, <1>8, <1>9, <1>10, <1>11, <1>12 DEF Steps

\* What follows for the Run and the execution from each kind of step.
LEMMA StepParts ==
    ASSUME IInv, Steps
    PROVE  /\ Moves => exec'.phase = "calls" /\ exec.phase = "calls" /\ run' = run
           /\ Fails \/ Holds \/ Settles =>
                /\ exec.phase \in {"calls", "final"} /\ exec'.phase \in {"fail", "retain", "final"}
                /\ run' = run /\ log' = log /\ world' = world /\ exec'.call = exec.call
                /\ exec'.told = exec.told /\ exec'.world = exec.world
           /\ Stops => /\ exec.phase \in {"calls", "final", "retain", "fail"}
                       /\ exec'.phase = "idle" /\ run' = run /\ log' = log
                       /\ exec'.call = <<>> /\ exec'.told = <<>>
           /\ Begins => /\ exec.phase = "idle" /\ exec'.phase = "calls" /\ log' = log
                        /\ run.state = "running" /\ run'.state = "running"
                        /\ run'.draft = run.draft /\ run'.sealed = run.sealed
                        /\ run'.workflow = run.workflow /\ exec'.told = <<>>
                        /\ exec'.call = [i \in CallsOf(run.workflow) |-> NewCall]
           /\ GivesUp => /\ exec.phase = "idle" /\ exec' = exec /\ run'.state = "failed"
                         /\ log' = log /\ run'.workflow = run.workflow
                         /\ run'.draft = run.draft
           /\ Loses => /\ exec.phase \in {"retain", "fail"} /\ exec'.phase = "done"
                       /\ run'.state = "failed" /\ log' = log
                       /\ run'.workflow = run.workflow /\ exec'.call = exec.call
                       /\ exec'.told = exec.told
           /\ Completes => /\ exec.phase = "final" /\ exec'.phase = "done"
                           /\ run'.state \in {"completed", "completed_with_repair"}
                           /\ run'.workflow = run.workflow /\ exec'.call = exec.call
                           /\ exec'.told = Append(exec.told, FinalEvent)
           /\ Rests => run' = run /\ exec' = exec /\ log' = log
  <1>1. /\ run \in [workflow : Workflows, enforced : BOOLEAN,
                    state : {"running", "failed", "completed", "completed_with_repair"},
                    recoveries : Nat, draft : Drafts \cup {None}, sealed : BOOLEAN]
        /\ exec = [phase |-> exec.phase, world |-> exec.world, told |-> exec.told,
                   kept |-> exec.kept, call |-> exec.call]
    BY DEF IInv, TypeOK
  <1>2. ASSUME Moves
        PROVE  exec'.phase = "calls" /\ exec.phase = "calls" /\ run' = run
    <2>1. exec' = [phase |-> "calls", world |-> exec.world, told |-> exec'.told,
                   kept |-> exec.kept, call |-> exec'.call]
      BY <1>2 DEF Moves
    <2>2. exec'.phase = "calls"
      BY <2>1
    <2>3. QED
      BY <1>2, <2>2 DEF Moves
  <1>3. ASSUME Fails \/ Holds \/ Settles
        PROVE  /\ exec.phase \in {"calls", "final"} /\ exec'.phase \in {"fail", "retain", "final"}
               /\ run' = run /\ log' = log /\ world' = world /\ exec'.call = exec.call
               /\ exec'.told = exec.told /\ exec'.world = exec.world
    <2>1. ASSUME NEW p \in {"fail", "retain", "final"}, NEW x, Enters(p, x)
          PROVE  /\ exec'.phase \in {"fail", "retain", "final"}
                 /\ run' = run /\ log' = log /\ world' = world /\ exec'.call = exec.call
                 /\ exec'.told = exec.told /\ exec'.world = exec.world
      BY <1>1, <2>1 DEF Enters
    <2>2. QED
      BY <1>3, <2>1 DEF Fails, Holds, Settles
  <1>4. Stops => /\ exec.phase \in {"calls", "final", "retain", "fail"}
                 /\ exec'.phase = "idle" /\ run' = run /\ log' = log
                 /\ exec'.call = <<>> /\ exec'.told = <<>>
    BY DEF Stops, NoExec
  <1>5. Begins => /\ exec.phase = "idle" /\ exec'.phase = "calls" /\ log' = log
                  /\ run.state = "running" /\ run'.state = "running"
                  /\ run'.draft = run.draft /\ run'.sealed = run.sealed
                  /\ run'.workflow = run.workflow /\ exec'.told = <<>>
                  /\ exec'.call = [i \in CallsOf(run.workflow) |-> NewCall]
    <2> DEFINE call == [i \in CallsOf(run.workflow) |-> NewCall]
    <2> SUFFICES ASSUME Begins
                 PROVE  /\ exec.phase = "idle" /\ exec'.phase = "calls" /\ log' = log
                        /\ run.state = "running" /\ run'.state = "running"
                        /\ run'.draft = run.draft /\ run'.sealed = run.sealed
                        /\ run'.workflow = run.workflow /\ exec'.told = <<>>
                        /\ exec'.call = call
      OBVIOUS
    <2>1. exec' = [phase |-> "calls", world |-> world, told |-> <<>>, kept |-> Empty,
                   call |-> call]
      BY DEF Begins, NewExec
    <2> HIDE DEF call
    <2>2. QED
      BY <1>1, <2>1 DEF Begins
  <1>6. GivesUp => /\ exec.phase = "idle" /\ exec' = exec /\ run'.state = "failed"
                   /\ log' = log /\ run'.workflow = run.workflow /\ run'.draft = run.draft
    BY <1>1 DEF GivesUp
  <1>7. ASSUME Loses
        PROVE  /\ exec.phase \in {"retain", "fail"} /\ exec'.phase = "done"
               /\ run'.state = "failed" /\ log' = log
               /\ run'.workflow = run.workflow /\ exec'.call = exec.call
               /\ exec'.told = exec.told
    BY <1>1, <1>7 DEF Loses
  <1>8. ASSUME Completes
        PROVE  /\ exec.phase = "final" /\ exec'.phase = "done"
               /\ run'.state \in {"completed", "completed_with_repair"}
               /\ run'.workflow = run.workflow /\ exec'.call = exec.call
               /\ exec'.told = Append(exec.told, FinalEvent)
    <2>1. exec' = [phase |-> "done", world |-> exec.world,
                   told |-> Append(exec.told, FinalEvent),
                   kept |-> exec.kept, call |-> exec.call]
      BY <1>1, <1>8 DEF Completes
    <2>2. PICK d, s : run' = Ended(d, s)
      BY <1>8 DEF Completes
    <2>3. run'.state \in {"completed", "completed_with_repair"} /\ run'.workflow = run.workflow
      <3> DEFINE P == \E n \in DOMAIN log' : log'[n].attempt > 1
                 st == IF P THEN "completed_with_repair" ELSE "completed"
      <3>1. run' = [run EXCEPT !.state = st, !.draft = d, !.sealed = s]
        BY <2>2 DEF Ended
      <3>2. st \in {"completed", "completed_with_repair"}
        OBVIOUS
      <3> HIDE DEF st
      <3>3. QED
        BY <1>1, <3>1, <3>2
    <2>4. QED
      BY <1>8, <2>1, <2>3 DEF Completes
  <1>9. Rests => run' = run /\ exec' = exec /\ log' = log
    BY DEF Rests
  <1>10. QED
    BY <1>2, <1>3, <1>4, <1>5, <1>6, <1>7, <1>8, <1>9

\* Run and execution.
LEMMA PhasesStep ==
    ASSUME IInv, Steps
    PROVE  Phases'
  <1>1. Phases /\ TypeOK
    BY DEF IInv
  <1>2. CASE Moves \/ Fails \/ Holds \/ Settles
    <2>1. /\ exec.phase \in {"calls", "final"} /\ run' = run
          /\ exec'.phase \in {"calls", "fail", "retain", "final"}
      BY <1>2, StepParts
    <2>2. QED
      BY <1>1, <2>1 DEF Phases
  <1>3. CASE Stops
    BY <1>1, <1>3, StepParts DEF Phases
  <1>4. CASE Begins
    BY <1>1, <1>4, StepParts DEF Phases
  <1>5. CASE GivesUp
    BY <1>1, <1>5, StepParts DEF Phases
  <1>6. CASE Loses
    BY <1>1, <1>6, StepParts DEF Phases
  <1>7. CASE Completes
    BY <1>1, <1>7, StepParts DEF Phases
  <1>8. CASE Rests
    BY <1>1, <1>8, StepParts DEF Phases
  <1>9. QED
    BY <1>2, <1>3, <1>4, <1>5, <1>6, <1>7, <1>8 DEF Steps

\* A call in its turn is the only one that is pending and not still to do.
LEMMA NoneBusy ==
    ASSUME IInv, NEW i \in DOMAIN exec.call, Turn(i), run.workflow # "per_table",
           NEW j \in DOMAIN exec.call, exec.call[j].st \in Pending
    PROVE  exec.call[j].st = "todo" /\ i <= j
  <1>1. TypeOK
    BY DEF IInv
  <1>2. Cardinality(Busy) < 1
    BY DEF Turn, Width
  <1>3. IsFiniteSet(Busy)
    <2>1. IsFiniteSet(1..Calls)
      BY ConstantsAssumption, FS_Interval
    <2>2. Busy \subseteq 1..Calls
      BY <1>1, CallParts DEF Busy, In
    <2>3. QED
      BY <2>1, <2>2, FS_Subset
  <1>4. Cardinality(Busy) = 0
    BY <1>2, <1>3, FS_CardinalityType
  <1>5. Busy = {}
    BY <1>3, <1>4, FS_EmptySet
  <1>6. exec.call[j].st = "todo"
    BY <1>5 DEF Busy, In, Pending
  <1>7. i <= j
    BY <1>6 DEF Turn, In
  <1>8. QED
    BY <1>6, <1>7

\* Only a pending call moves.
LEMMA MovedPending ==
    ASSUME NEW i, NEW c, Moved(i, c)
    PROVE  exec.call[i].st \in Pending
  BY DEF Moved, Pending

\* The call that moves, if any, and what that adds.
LEMMA MovesAdd ==
    ASSUME IInv, Moves
    PROVE  \/ exec'.call = exec.call
           \/ \E i \in DOMAIN exec.call : \E c \in CallRecords :
                 /\ Moved(i, c) /\ exec'.call = [exec.call EXCEPT ![i] = c]
                 /\ exec'.call[i] = c /\ DOMAIN exec'.call = DOMAIN exec.call
                 /\ \A j \in DOMAIN exec.call : j # i => exec'.call[j] = exec.call[j]
                 /\ Adds(i, c)
  <1>1. ASSUME NEW i \in DOMAIN exec.call, NEW c \in CallRecords, Moved(i, c),
               exec'.call = [exec.call EXCEPT ![i] = c]
        PROVE  /\ exec'.call[i] = c /\ DOMAIN exec'.call = DOMAIN exec.call
               /\ \A j \in DOMAIN exec.call : j # i => exec'.call[j] = exec.call[j]
               /\ Adds(i, c)
    BY <1>1, MovedAdds
  <1>2. QED
    BY <1>1 DEF Moves, Moving

\* What is settled stays settled, with the attempts it took.
LEMMA SettledKept ==
    ASSUME IInv, Moves
    PROVE  \A j \in Settled : /\ j \in Settled'
                              /\ exec'.call[j].attempt = exec.call[j].attempt
                              /\ exec'.call[j].short = exec.call[j].short
  <1>1. TypeOK
    BY DEF IInv
  <1>2. CASE exec'.call = exec.call
    BY <1>1, <1>2, CallsRest
  <1>3. ASSUME NEW i \in DOMAIN exec.call, NEW c \in CallRecords, Moved(i, c),
               exec'.call[i] = c, DOMAIN exec'.call = DOMAIN exec.call,
               \A j \in DOMAIN exec.call : j # i => exec'.call[j] = exec.call[j]
        PROVE  \A j \in Settled : /\ j \in Settled'
                                  /\ exec'.call[j].attempt = exec.call[j].attempt
                                  /\ exec'.call[j].short = exec.call[j].short
    <2> TAKE j \in Settled
    <2>1. j \in DOMAIN exec.call /\ exec.call[j].st \in {"answered", "accepted"}
      BY DEF Settled, In
    <2>2. CASE j # i
      BY <1>3, <2>1, <2>2 DEF Settled, In
    <2>3. CASE j = i
      <3>1. c = [exec.call[i] EXCEPT !.st = "accepted"]
        BY <1>3, <2>1, <2>3 DEF Moved
      <3>2. exec.call[i] \in CallRecords
        BY <1>1, CallParts
      <3>3. c.st = "accepted" /\ c.attempt = exec.call[i].attempt /\ c.short = exec.call[i].short
        BY <3>1, <3>2 DEF CallRecords
      <3>4. QED
        BY <1>3, <2>1, <2>3, <3>3 DEF Settled, In
    <2>4. QED
      BY <2>2, <2>3
  <1>4. QED
    BY <1>2, <1>3, MovesAdd

\* A new execution has not settled a call.
LEMMA NothingBegun ==
    ASSUME exec'.call = [i \in CallsOf(run.workflow) |-> NewCall]
    PROVE  /\ \A i \in DOMAIN exec'.call : exec'.call[i] = NewCall
           /\ Settled' = {} /\ In({"asking"})' = {} /\ Merged' = Empty
  <1>1. \A i \in DOMAIN exec'.call : exec'.call[i] = NewCall
    OBVIOUS
  <1>2. NewCall.st = "todo"
    BY DEF NewCall
  <1>3. Settled' = {} /\ In({"asking"})' = {}
    BY <1>1, <1>2 DEF Settled, In
  <1>4. DOMAIN Merged' = {} /\ Merged' = [k \in {} |-> Merged'[k]]
    BY <1>3 DEF Merged
  <1>5. Merged' \in [{} -> Contents] /\ Empty \in [{} -> Contents]
    <2>1. DOMAIN Empty = {} /\ Empty \in Drafts
      BY EmptyDraft
    <2>2. Empty \in [{} -> Contents]
      BY <2>1 DEF Drafts
    <2>3. QED
      BY <1>4, <2>2
  <1>6. Merged' = Empty
    BY <1>5
  <1>7. QED
    BY <1>1, <1>3, <1>6

\* The kinds of step that leave the calls alone.
LEMMA CallsStay ==
    ASSUME IInv, Fails \/ Holds \/ Settles \/ GivesUp \/ Loses \/ Completes \/ Rests
    PROVE  exec'.call = exec.call /\ run'.workflow = run.workflow
  <1>1. Steps
    BY DEF Steps
  <1>2. QED
    BY <1>1, StepParts

\* One call after the other.
LEMMA InOrderStep ==
    ASSUME IInv, Steps
    PROVE  InOrder'
  <1>1. TypeOK /\ InOrder
    BY DEF IInv
  <1>2. ASSUME Moves, run.workflow # "per_table",
               NEW i \in DOMAIN exec.call, NEW c \in CallRecords, Moved(i, c),
               exec'.call[i] = c, DOMAIN exec'.call = DOMAIN exec.call,
               \A j \in DOMAIN exec.call : j # i => exec'.call[j] = exec.call[j]
        PROVE  \A a, b \in DOMAIN exec'.call :
                   a < b /\ exec'.call[a].st \in Pending => exec'.call[b].st = "todo"
    <2> SUFFICES ASSUME NEW a \in DOMAIN exec.call, NEW b \in DOMAIN exec.call,
                        a < b, exec'.call[a].st \in Pending
                 PROVE  exec'.call[b].st = "todo"
      BY <1>2
    <2>1. a \in Nat /\ b \in Nat /\ a # b
      BY <1>1, CallParts
    <2>2. exec.call[a].st \in Pending
      BY <1>2, MovedPending
    <2>3. exec.call[b].st = "todo"
      BY <1>1, <1>2, <2>2 DEF InOrder
    <2>4. b # i
      <3> SUFFICES ASSUME b = i
                   PROVE  FALSE
        OBVIOUS
      <3>1. Turn(i)
        BY <1>2, <2>3 DEF Moved
      <3>2. i <= a
        BY <1>2, <2>2, <3>1, NoneBusy
      <3>3. QED
        BY <2>1, <3>2
    <2>5. QED
      BY <1>2, <2>3, <2>4
  <1>3. CASE Moves
    <2>1. run' = run
      BY <1>3 DEF Moves
    <2>2. CASE exec'.call = exec.call
      BY <1>1, <2>1, <2>2 DEF InOrder
    <2>3. CASE exec'.call # exec.call
      <3>1. PICK i \in DOMAIN exec.call, c \in CallRecords :
               /\ Moved(i, c)
               /\ exec'.call[i] = c /\ DOMAIN exec'.call = DOMAIN exec.call
               /\ \A j \in DOMAIN exec.call : j # i => exec'.call[j] = exec.call[j]
        BY <1>3, <2>3, MovesAdd
      <3>2. run.workflow # "per_table" =>
               \A a, b \in DOMAIN exec'.call :
                   a < b /\ exec'.call[a].st \in Pending => exec'.call[b].st = "todo"
        BY <1>2, <1>3, <3>1
      <3>3. QED
        BY <2>1, <3>2 DEF InOrder
    <2>4. QED
      BY <2>2, <2>3
  <1>4. CASE Stops
    <2>1. exec'.call = <<>> /\ DOMAIN <<>> = {}
      BY <1>4, StepParts
    <2>2. QED
      BY <2>1 DEF InOrder
  <1>5. CASE Begins
    <2>1. exec'.call = [i \in CallsOf(run.workflow) |-> NewCall]
      BY <1>5, StepParts
    <2>2. \A i \in DOMAIN exec'.call : exec'.call[i].st = "todo"
      BY <2>1, NothingBegun DEF NewCall
    <2>3. QED
      BY <2>2 DEF InOrder
  <1>6. CASE Fails \/ Holds \/ Settles \/ GivesUp \/ Loses \/ Completes \/ Rests
    BY <1>1, <1>6, CallsStay DEF InOrder
  <1>7. QED
    BY <1>3, <1>4, <1>5, <1>6 DEF Steps

\* New calls are new.
LEMMA FreshStep ==
    ASSUME IInv, Steps
    PROVE  Fresh'
  <1>1. TypeOK /\ Fresh
    BY DEF IInv
  <1>2. CASE Moves
    <2>1. CASE exec'.call = exec.call
      BY <1>1, <2>1 DEF Fresh
    <2>2. CASE exec'.call # exec.call
      <3>1. PICK i \in DOMAIN exec.call, c \in CallRecords :
               /\ Moved(i, c)
               /\ exec'.call[i] = c /\ DOMAIN exec'.call = DOMAIN exec.call
               /\ \A j \in DOMAIN exec.call : j # i => exec'.call[j] = exec.call[j]
        BY <1>2, <2>2, MovesAdd
      <3>2. exec.call[i] \in CallRecords
        BY <1>1, CallParts
      <3>3. /\ [NewCall EXCEPT !.st = "asking"].st = "asking"
            /\ [NewCall EXCEPT !.st = "skipped"].st = "skipped"
            /\ [NewCall EXCEPT !.st = "answered", !.repair = "preserved"].st = "answered"
            /\ [exec.call[i] EXCEPT !.st = "accepted"].st = "accepted"
            /\ [exec.call[i] EXCEPT !.st = "failed"].st = "failed"
            /\ [exec.call[i] EXCEPT !.st = "failed"].attempt = exec.call[i].attempt
        BY <3>2 DEF NewCall, CallRecords
      <3>4. c.st # "todo"
        BY <3>1, <3>3 DEF Moved
      <3>5. c.st = "missed" => c.attempt = 1
        BY <3>1, <3>3 DEF Moved
      <3>6. c.st = "failed" => c.attempt = 1
        BY <1>1, <3>1, <3>3 DEF Moved, Fresh
      <3>7. QED
        BY <1>1, <3>1, <3>4, <3>5, <3>6 DEF Fresh
    <2>3. QED
      BY <2>1, <2>2
  <1>3. CASE Stops
    <2>1. exec'.call = <<>> /\ DOMAIN <<>> = {}
      BY <1>3, StepParts
    <2>2. QED
      BY <2>1 DEF Fresh
  <1>4. CASE Begins
    <2>1. exec'.call = [i \in CallsOf(run.workflow) |-> NewCall]
      BY <1>4, StepParts
    <2>2. \A i \in DOMAIN exec'.call : exec'.call[i] = NewCall
      BY <2>1, NothingBegun
    <2>3. NewCall.attempt = 1
      BY DEF NewCall
    <2>4. QED
      BY <2>2, <2>3 DEF Fresh
  <1>5. CASE Fails \/ Holds \/ Settles \/ GivesUp \/ Loses \/ Completes \/ Rests
    BY <1>1, <1>5, CallsStay DEF Fresh
  <1>6. QED
    BY <1>2, <1>3, <1>4, <1>5 DEF Steps

\* The log begins with what has been told.
LEMMA ToldStep ==
    ASSUME IInv, Steps
    PROVE  ToldIsLogged'
  <1>1. TypeOK /\ ToldIsLogged
    BY DEF IInv
  <1>2. CASE Moves
    BY <1>2, MovesTyped
  <1>3. CASE Fails \/ Holds \/ Settles \/ GivesUp \/ Loses \/ Rests
    <2>1. exec'.told = exec.told /\ log' = log
      BY <1>3, StepParts
    <2>2. QED
      BY <1>1, <2>1 DEF ToldIsLogged
  <1>4. CASE Stops \/ Begins
    <2>1. exec'.told = <<>> /\ log' = log
      BY <1>4, StepParts
    <2>2. Len(log) \in Nat
      BY <1>1 DEF TypeOK
    <2>3. QED
      BY <2>1, <2>2 DEF ToldIsLogged
  <1>5. CASE Completes
    <2> DEFINE e == FinalEvent
    <2>1. e \in Events /\ Accepts(e) /\ log' = Logged(e) /\ exec'.told = Append(exec.told, e)
      BY <1>1, <1>5, FinalEvents, StepParts DEF Completes
    <2> HIDE DEF e
    <2>2. QED
      BY <1>1, <2>1, LoggedParts
  <1>6. QED
    BY <1>2, <1>3, <1>4, <1>5 DEF Steps

\* The last event of a Run is told with its completion and not before.
LEMMA NotYetFinalStep ==
    ASSUME IInv, Steps
    PROVE  NotYetFinal'
  <1>1. TypeOK /\ ToldIsLogged /\ NotYetFinal /\ Phases
    BY DEF IInv
  <1>2. CASE Moves
    <2>1. run' = run /\ run.state = "running"
      BY <1>1, <1>2 DEF Moves, Phases
    <2>2. log \in Seq(Events) /\ \A n \in 1..Len(log) : log[n].stage # "final"
      BY <1>1, <2>1 DEF NotYetFinal, TypeOK
    <2>3. ASSUME Silent
          PROVE  NotYetFinal'
      BY <2>2, <2>3 DEF Silent, NotYetFinal
    <2>4. ASSUME NEW e \in Events, Telling(e), Says(e)
          PROVE  NotYetFinal'
      <3>1. log' = log \/ log' = Append(log, e)
        BY <1>1, <2>4, LoggedParts DEF Says
      <3>2. e.stage # "final"
        BY <2>4 DEF Telling
      <3>3. \A n \in 1..Len(log') : log'[n].stage # "final"
        BY <2>2, <3>1, <3>2
      <3>4. QED
        BY <3>3 DEF NotYetFinal
    <2>5. QED
      BY <1>2, <2>3, <2>4 DEF Moves
  <1>3. CASE Fails \/ Holds \/ Settles \/ Stops \/ Begins \/ Rests
    <2>1. log' = log /\ (run'.state = "running" => run.state = "running")
      BY <1>3, StepParts
    <2>2. QED
      BY <1>1, <2>1 DEF NotYetFinal
  <1>4. CASE GivesUp \/ Loses \/ Completes
    BY <1>4, StepParts DEF NotYetFinal
  <1>5. QED
    BY <1>2, <1>3, <1>4 DEF Steps

\* What is told of attempts, an accepted answer took.
LEMMA AttemptsToldStep ==
    ASSUME IInv, Steps
    PROVE  AttemptsTold'
  <1>1. TypeOK /\ ToldIsLogged /\ AttemptsTold
    BY DEF IInv
  <1>2. exec.told \in Seq(Events)
    BY <1>1 DEF TypeOK
  <1>3. CASE Moves
    <2> DEFINE Took(a) == a = 1 \/ \E i \in Settled : a <= exec.call[i].attempt
               Takes(a) == a = 1 \/ \E i \in Settled' : a <= exec'.call[i].attempt
    <2>1. \A a : Took(a) => Takes(a)
      BY <1>3, SettledKept
    <2>2. \A n \in 1..Len(exec.told) : Took(exec.told[n].attempt)
      BY <1>1, <1>3 DEF AttemptsTold, Moves
    <2>3. ASSUME NEW e \in Events, Telling(e)
          PROVE  Took(e.attempt)
      BY <2>3 DEF Telling
    <2> HIDE DEF Took, Takes
    <2>4. ASSUME Silent
          PROVE  \A n \in 1..Len(exec'.told) : Takes(exec'.told[n].attempt)
      BY <2>1, <2>2, <2>4 DEF Silent
    <2>5. ASSUME NEW e \in Events, Telling(e), Says(e)
          PROVE  \A n \in 1..Len(exec'.told) : Takes(exec'.told[n].attempt)
      <3>1. exec'.told = Append(exec.told, e)
        BY <2>5 DEF Says
      <3>2. Took(e.attempt)
        BY <2>3, <2>5
      <3>3. \A n \in 1..Len(exec'.told) : Took(exec'.told[n].attempt)
        BY <1>2, <2>2, <3>1, <3>2
      <3>4. QED
        BY <2>1, <3>3
    <2>6. \A n \in 1..Len(exec'.told) : Takes(exec'.told[n].attempt)
      BY <1>3, <2>4, <2>5 DEF Moves
    <2>7. QED
      BY <2>6 DEF AttemptsTold, Takes
  <1>4. CASE Fails \/ Holds \/ Settles
    <2>1. exec'.told = exec.told /\ exec'.call = exec.call /\ exec.phase \in {"calls", "final"}
      BY <1>4, StepParts
    <2>2. Settled' = Settled
      BY <1>1, <2>1, CallsRest
    <2>3. QED
      BY <1>1, <2>1, <2>2 DEF AttemptsTold
  <1>5. CASE Begins
    <2>1. exec'.told = <<>>
      BY <1>5, StepParts
    <2>2. QED
      BY <2>1 DEF AttemptsTold
  <1>6. CASE Stops \/ GivesUp \/ Loses \/ Completes
    <2>1. exec'.phase \in {"idle", "done"}
      BY <1>6, StepParts
    <2>2. QED
      BY <2>1 DEF AttemptsTold
  <1>7. CASE Rests
    <2>1. exec' = exec
      BY <1>7 DEF Rests
    <2>2. Settled' = Settled
      BY <1>1, <2>1, CallsRest
    <2>3. QED
      BY <1>1, <2>1, <2>2 DEF AttemptsTold
  <1>8. QED
    BY <1>3, <1>4, <1>5, <1>6, <1>7 DEF Steps

\* A rejected answer has all that was accepted before it.
LEMMA RejectedHoldsStep ==
    ASSUME IInv, Steps
    PROVE  RejectedHolds'
  <1>1. TypeOK /\ RejectedHolds /\ InOrder
    BY DEF IInv
  <1>2. CASE Moves
    <2>1. run' = run /\ exec.phase = "calls"
      BY <1>2 DEF Moves
    <2>2. CASE exec'.call = exec.call
      <3>1. Merged' = Merged /\ In({"asking"})' = In({"asking"})
        BY <1>1, <2>2, CallsRest DEF In
      <3>2. QED
        BY <1>1, <2>1, <2>2, <3>1 DEF RejectedHolds
    <2>3. CASE exec'.call # exec.call
      <3>1. PICK i \in DOMAIN exec.call, c \in CallRecords :
               /\ Moved(i, c) /\ Adds(i, c)
               /\ exec'.call[i] = c /\ DOMAIN exec'.call = DOMAIN exec.call
               /\ \A j \in DOMAIN exec.call : j # i => exec'.call[j] = exec.call[j]
        BY <1>2, <2>3, MovesAdd
      <3>2. SUFFICES ASSUME run.workflow \notin Forgiving, NEW j \in In({"asking"})',
                            exec'.call[j].rejected # None
                     PROVE  DOMAIN Merged' \subseteq DOMAIN exec'.call[j].rejected
        BY <2>1 DEF RejectedHolds
      <3>3. run.workflow # "per_table" /\ j \in DOMAIN exec.call /\ exec'.call[j].st = "asking"
        BY <3>1, <3>2 DEF Forgiving, In
      <3>4. j = i
        <4> SUFFICES ASSUME j # i
                     PROVE  FALSE
          OBVIOUS
        <4>1. exec.call[j].st = "asking"
          BY <3>1, <3>3
        <4>2. exec.call[i].st \in Pending /\ i \in Nat /\ j \in Nat
          BY <1>1, <3>1, <3>3, MovedPending, CallParts
        <4>3. ~(i < j)
          BY <1>1, <3>3, <4>1, <4>2 DEF InOrder
        <4>4. j < i
          BY <4>2, <4>3
        <4>5. exec.call[i].st = "todo"
          BY <1>1, <3>3, <4>1, <4>4 DEF InOrder, Pending
        <4>6. Turn(i)
          BY <3>1, <4>5 DEF Moved
        <4>7. exec.call[j].st = "todo"
          BY <3>3, <4>1, <4>6, NoneBusy DEF Pending
        <4>8. QED
          BY <4>1, <4>7
      <3>5. c.st = "asking"
        BY <3>1, <3>3, <3>4
      <3>6. Merged' = Merged
        <4>1. i \notin Settled'
          BY <3>1, <3>5 DEF Settled, In
        <4>2. QED
          BY <3>1, <4>1 DEF Adds
      <3>7. CASE exec.call[i].st = "asking"
        <4>1. c.rejected # None => DOMAIN Merged \subseteq DOMAIN c.rejected
          BY <3>1, <3>2, <3>5, <3>7 DEF Moved
        <4>2. QED
          BY <3>1, <3>2, <3>4, <3>6, <4>1
      <3>8. CASE exec.call[i].st # "asking"
        <4>1. [NewCall EXCEPT !.st = "asking"].rejected = None
              /\ [NewCall EXCEPT !.st = "skipped"].st = "skipped"
              /\ [NewCall EXCEPT !.st = "answered", !.repair = "preserved"].st = "answered"
          BY DEF NewCall
        <4>2. exec.call[i] \in CallRecords
          BY <1>1, CallParts
        <4>3. /\ [exec.call[i] EXCEPT !.st = "accepted"].st = "accepted"
              /\ [exec.call[i] EXCEPT !.st = "failed"].st = "failed"
          BY <4>2 DEF CallRecords
        <4>4. c.rejected = None
          BY <3>1, <3>5, <3>8, <4>1, <4>3 DEF Moved
        <4>5. QED
          BY <3>1, <3>2, <3>4, <4>4
      <3>9. QED
        BY <3>7, <3>8
    <2>4. QED
      BY <2>2, <2>3
  <1>3. CASE Begins
    <2>1. exec'.call = [i \in CallsOf(run.workflow) |-> NewCall]
      BY <1>3, StepParts
    <2>2. In({"asking"})' = {}
      BY <2>1, NothingBegun
    <2>3. QED
      BY <2>2 DEF RejectedHolds
  <1>4. CASE Rests
    <2>1. exec' = exec /\ run' = run
      BY <1>4 DEF Rests
    <2>2. Merged' = Merged /\ In({"asking"})' = In({"asking"})
      BY <1>1, <2>1, CallsRest DEF In
    <2>3. QED
      BY <1>1, <2>1, <2>2 DEF RejectedHolds
  <1>5. CASE Fails \/ Holds \/ Settles \/ Stops \/ GivesUp \/ Loses \/ Completes
    <2>1. exec'.phase # "calls"
      BY <1>5, StepParts
    <2>2. QED
      BY <2>1 DEF RejectedHolds
  <1>6. QED
    BY <1>2, <1>3, <1>4, <1>5 DEF Steps

\* What is kept for review has all that was accepted.
LEMMA KeptHoldsStep ==
    ASSUME IInv, Steps
    PROVE  KeptHolds'
  <1>1. TypeOK /\ KeptHolds
    BY DEF IInv
  <1>2. CASE Holds
    <2>1. PICK x \in Drafts : DOMAIN Merged \subseteq DOMAIN x /\ Enters("retain", x)
      BY <1>2 DEF Holds
    <2>2. exec'.kept = x
      <3>1. exec = [phase |-> exec.phase, world |-> exec.world, told |-> exec.told,
                    kept |-> exec.kept, call |-> exec.call]
        BY <1>1 DEF TypeOK
      <3>2. exec' = [exec EXCEPT !.phase = "retain", !.kept = x]
        BY <2>1 DEF Enters
      <3>3. QED
        BY <3>1, <3>2
    <2>3. Merged' = Merged
      BY <1>1, <1>2, StepParts, CallsRest DEF Steps
    <2>4. x # None
      BY ConstantsAssumption
    <2>5. QED
      BY <2>1, <2>2, <2>3, <2>4 DEF KeptHolds
  <1>3. CASE Rests
    <2>1. exec' = exec
      BY <1>3 DEF Rests
    <2>2. Merged' = Merged
      BY <1>1, <2>1, CallsRest
    <2>3. QED
      BY <1>1, <2>1, <2>2 DEF KeptHolds
  <1>4. CASE Fails \/ Settles
    <2>1. exec'.phase # "retain"
      <3>1. exec = [phase |-> exec.phase, world |-> exec.world, told |-> exec.told,
                    kept |-> exec.kept, call |-> exec.call]
        BY <1>1 DEF TypeOK
      <3>2. QED
        BY <1>4, <3>1 DEF Fails, Settles, Enters
    <2>2. QED
      BY <2>1 DEF KeptHolds
  <1>5. CASE Moves \/ Begins \/ Stops \/ GivesUp \/ Loses \/ Completes
    <2>1. exec'.phase # "retain"
      BY <1>5, StepParts
    <2>2. QED
      BY <2>1 DEF KeptHolds
  <1>6. QED
    BY <1>2, <1>3, <1>4, <1>5 DEF Steps

\* What is accepted is sound.
LEMMA AcceptedStep ==
    ASSUME IInv, Steps
    PROVE  AcceptedIsSound'
  <1>1. TypeOK /\ AcceptedIsSound
    BY DEF IInv
  <1>2. CASE Moves
    <2>1. run' = run /\ exec.phase = "calls" /\ exec'.world = exec.world
      <3>1. exec' = [phase |-> "calls", world |-> exec.world, told |-> exec'.told,
                     kept |-> exec.kept, call |-> exec'.call]
        BY <1>2 DEF Moves
      <3>2. exec'.world = exec.world
        BY <3>1
      <3>3. QED
        BY <1>2, <3>2 DEF Moves
    <2>2. /\ run.enforced => \A i \in Settled : ~exec.call[i].short
          /\ run.workflow \notin LateChecked /\ Merged # Empty => Valid(exec.world, Merged)
      BY <1>1, <2>1 DEF AcceptedIsSound
    <2>3. CASE exec'.call = exec.call
      <3>1. Merged' = Merged /\ Settled' = Settled
        BY <1>1, <2>3, CallsRest
      <3>2. QED
        BY <2>1, <2>2, <2>3, <3>1 DEF AcceptedIsSound
    <2>4. CASE exec'.call # exec.call
      <3>1. PICK i \in DOMAIN exec.call, c \in CallRecords :
               Moved(i, c) /\ Adds(i, c) /\ exec'.call[i] = c
        BY <1>2, <2>4, MovesAdd
      <3>2. \A j \in Settled : exec'.call[j].short = exec.call[j].short
        BY <1>2, SettledKept
      <3>3. CASE Settled' = Settled /\ Merged' = Merged
        BY <2>1, <2>2, <3>2, <3>3 DEF AcceptedIsSound
      <3>4. CASE Settled' = Settled \cup {i} /\ Merged' = Merged /\ ~c.short
        BY <2>1, <2>2, <3>1, <3>2, <3>4 DEF AcceptedIsSound
      <3>5. CASE /\ Settled' = Settled \cup {i}
                 /\ exec.call[i].st = "asking" /\ c.st = "answered"
                 /\ run.workflow # "per_table" => Merged' = Over(c.answer, Merged)
        <4>1. /\ run.enforced => ~c.short
              /\ run.workflow \notin LateChecked => Valid(exec.world, Over(c.answer, Merged))
          BY <3>1, <3>5 DEF Moved
        <4>2. run.enforced => \A j \in Settled' : ~exec'.call[j].short
          BY <2>2, <3>1, <3>2, <3>5, <4>1
        <4>3. run.workflow \notin LateChecked => Valid(exec.world, Merged')
          BY <3>5, <4>1 DEF LateChecked
        <4>4. QED
          BY <2>1, <4>2, <4>3 DEF AcceptedIsSound
      <3>6. QED
        BY <3>1, <3>3, <3>4, <3>5 DEF Adds
    <2>5. QED
      BY <2>3, <2>4
  <1>3. CASE Begins
    <2>1. exec'.call = [i \in CallsOf(run.workflow) |-> NewCall]
      BY <1>3, StepParts
    <2>2. Settled' = {} /\ Merged' = Empty
      BY <2>1, NothingBegun
    <2>3. Empty' = Empty
      BY DEF Empty
    <2>4. QED
      BY <2>2, <2>3 DEF AcceptedIsSound
  <1>4. CASE Settles \/ Rests
    <2>1. /\ exec'.call = exec.call /\ exec'.world = exec.world /\ run' = run
          /\ exec'.phase = exec.phase \/ exec.phase = "calls"
      BY <1>4, StepParts DEF Settles
    <2>2. Merged' = Merged /\ Settled' = Settled
      BY <1>1, <2>1, CallsRest
    <2>3. exec'.phase \in {"calls", "final"} => exec.phase \in {"calls", "final"}
      BY <2>1
    <2>4. QED
      BY <1>1, <2>1, <2>2, <2>3 DEF AcceptedIsSound
  <1>5. CASE Fails \/ Holds
    <2>1. exec'.phase \notin {"calls", "final"}
      <3>1. exec = [phase |-> exec.phase, world |-> exec.world, told |-> exec.told,
                    kept |-> exec.kept, call |-> exec.call]
        BY <1>1 DEF TypeOK
      <3>2. QED
        BY <1>5, <3>1 DEF Fails, Holds, Enters
    <2>2. QED
      BY <2>1 DEF AcceptedIsSound
  <1>6. CASE Stops \/ GivesUp \/ Loses \/ Completes
    <2>1. exec'.phase \notin {"calls", "final"}
      BY <1>6, StepParts
    <2>2. QED
      BY <2>1 DEF AcceptedIsSound
  <1>7. QED
    BY <1>2, <1>3, <1>4, <1>5, <1>6 DEF Steps

\* A completion finds the whole log told and adds the last event to both.
LEMMA CompletesParts ==
    ASSUME IInv, Completes
    PROVE  /\ log' = Append(log, FinalEvent) /\ exec'.told = log'
           /\ log \in Seq(Events) /\ log = exec.told
  <1>1. TypeOK /\ ToldIsLogged /\ NotYetFinal /\ Phases /\ ToldIsLogged'
    BY ToldStep DEF IInv, Steps
  <1>2. exec'.told = Append(exec.told, FinalEvent)
    BY StepParts DEF Steps
  <1> DEFINE e == FinalEvent
  <1>3. e \in Events /\ e.stage = "final" /\ Accepts(e) /\ log' = Logged(e)
        /\ exec'.told = Append(exec.told, e)
    BY <1>1, <1>2, FinalEvents DEF Completes
  <1>4. \A n \in 1..Len(log) : log[n].stage # "final"
    BY <1>1 DEF Completes, Phases, NotYetFinal
  <1> HIDE DEF e
  <1>5. /\ log \in Seq(Events) /\ exec.told \in Seq(Events) /\ Len(log) \in Nat
        /\ Len(exec.told) \in Nat /\ Len(exec.told) <= Len(log)
        /\ \A n \in 1..Len(exec.told) : exec.told[n] = log[n]
    BY <1>1 DEF TypeOK, ToldIsLogged
  <1>6. ~(Len(exec.told) < Len(log))
    <2> SUFFICES ASSUME Len(exec.told) < Len(log)
                 PROVE  FALSE
      OBVIOUS
    <2>1. Len(exec.told) + 1 \in 1..Len(log)
      BY <1>5
    <2>2. log[Len(exec.told) + 1] = e
      BY <1>3, <2>1 DEF Accepts, Same
    <2>3. QED
      BY <1>3, <1>4, <2>1, <2>2
  <1>7. log' = Append(log, e)
    BY <1>3, <1>6 DEF Logged
  <1>8. Len(exec.told) = Len(log)
    BY <1>5, <1>6
  <1>9. log = exec.told
    BY <1>5, <1>8
  <1>10. QED
    BY <1>3, <1>5, <1>7, <1>9 DEF e

\* The draft a completion leaves, and how it names the Run.
LEMMA EndedParts ==
    ASSUME TypeOK, NEW d, NEW s, run' = Ended(d, s)
    PROVE  /\ run'.draft = d /\ run'.sealed = s
           /\ run'.state = IF \E n \in DOMAIN log' : log'[n].attempt > 1
                           THEN "completed_with_repair" ELSE "completed"
  <1> DEFINE P == \E n \in DOMAIN log' : log'[n].attempt > 1
             st == IF P THEN "completed_with_repair" ELSE "completed"
  <1>1. run' = [run EXCEPT !.state = st, !.draft = d, !.sealed = s]
    BY DEF Ended
  <1> HIDE DEF st
  <1>2. run'.draft = d /\ run'.sealed = s /\ run'.state = st
    BY <1>1 DEF TypeOK
  <1>3. QED
    BY <1>2 DEF st

\* The log of a completed Run is true.
LEMMA LogIsTrueStep ==
    ASSUME IInv, Steps
    PROVE  LogIsTrue'
  <1>1. TypeOK /\ Phases /\ LogIsTrue /\ AttemptsTold
    BY DEF IInv
  <1>2. CASE Completes
    <2> DEFINE most == Highest(Settled)
    <2>1. log' = Append(log, FinalEvent) /\ exec'.told = log' /\ log \in Seq(Events)
          /\ log = exec.told
      BY <1>2, CompletesParts
    <2>2. FinalEvent \in Events /\ FinalEvent.attempt = most /\ FinalEvent.findings = Count(Merged)
      BY <1>1, FinalEvents
    <2>3. log'[Len(log')] = FinalEvent
      BY <2>1, <2>2
    <2>4. exec'.call = exec.call
      BY <1>2, CallsStay
    <2>5. Settled' = Settled /\ Merged' = Merged
      BY <1>1, <2>4, CallsRest
    <2>6. Max({exec'.call[i].attempt : i \in Settled'} \cup {1}) = most
      BY <2>4, <2>5 DEF Highest
    <2>7. PICK d \in {Merged, None}, s \in BOOLEAN :
             /\ run' = Ended(d, s)
             /\ (d = Merged /\ d # None) \/ (d = None /\ Merged = Empty)
      <3>1. Merged # None
        BY <1>1, MergedDraft, ConstantsAssumption
      <3>2. CASE run' = Ended(Merged, TRUE)
        BY <3>1, <3>2
      <3>3. CASE run' = Ended(None, FALSE) /\ Merged = Empty
        BY <3>3
      <3>4. QED
        BY <1>2, <3>2, <3>3 DEF Completes
    <2>8. /\ run'.draft = d
          /\ run'.state = IF \E n \in DOMAIN log' : log'[n].attempt > 1
                          THEN "completed_with_repair" ELSE "completed"
      BY <1>1, <2>7, EndedParts
    <2>9. Count(Merged) = IF run'.draft = None THEN 0 ELSE Count(run'.draft)
      <3>1. Count(Empty) = 0
        BY EmptyDraft, FS_EmptySet DEF Count
      <3>2. QED
        BY <2>7, <2>8, <3>1
    <2>10. most \in 1..Most /\ \A i \in Settled : exec.call[i].attempt <= most
      BY <1>1, HighestIs, InParts DEF Settled
    <2> HIDE DEF most
    <2>11. (\E n \in DOMAIN log' : log'[n].attempt > 1) <=> most > 1
      <3>1. /\ DOMAIN log' = 1..(Len(log) + 1) /\ Len(log) \in Nat
            /\ \A n \in 1..Len(log) : log'[n] = exec.told[n]
            /\ log'[Len(log) + 1] = FinalEvent
        BY <2>1, <2>2
      <3>2. most > 1 => \E n \in DOMAIN log' : log'[n].attempt > 1
        BY <2>2, <3>1
      <3>3. ASSUME NEW n \in 1..Len(log), exec.told[n].attempt > 1
            PROVE  most > 1
        <4>1. n \in 1..Len(exec.told) /\ exec.told[n].attempt \in Nat
          <5>1. exec.told[n] \in Events
            BY <2>1
          <5>2. exec.told[n].attempt \in 1..Most
            BY <5>1 DEF Events
          <5>3. QED
            BY <2>1, <5>2
        <4>2. exec.phase = "final"
          BY <1>2 DEF Completes
        <4>3. exec.told[n].attempt # 1
          BY <3>3, <4>1
        <4>4. PICK i \in Settled : exec.told[n].attempt <= exec.call[i].attempt
          BY <1>1, <4>1, <4>2, <4>3 DEF AttemptsTold
        <4>5. exec.call[i].attempt <= most /\ exec.call[i].attempt \in Nat
          <5>1. i \in DOMAIN exec.call
            BY InParts DEF Settled
          <5>2. exec.call[i].attempt \in 1..Most
            BY <1>1, <5>1, CallParts DEF CallRecords
          <5>3. QED
            BY <2>10, <5>2
        <4>6. QED
          BY <2>10, <3>3, <4>1, <4>4, <4>5
      <3>4. ASSUME NEW n \in DOMAIN log', log'[n].attempt > 1
            PROVE  most > 1
        <4>1. n \in 1..Len(log) \/ n = Len(log) + 1
          BY <3>1, <3>4
        <4>2. QED
          BY <2>2, <3>1, <3>3, <3>4, <4>1
      <3>5. QED
        BY <3>2, <3>4
    <2>12. (run'.state = "completed_with_repair") = (most > 1)
      BY <2>8, <2>11
    <2>13. run'.draft # None => run'.draft = Merged'
      BY <2>5, <2>7, <2>8
    <2>14. /\ log' = exec'.told
           /\ log'[Len(log')].findings = IF run'.draft = None THEN 0 ELSE Count(run'.draft)
           /\ log'[Len(log')].attempt = most
      BY <2>1, <2>2, <2>3, <2>9
    <2>15. QED
      BY <2>6, <2>12, <2>13, <2>14 DEF LogIsTrue, Count
  <1>3. CASE Rests
    <2>1. exec' = exec /\ run' = run /\ log' = log
      BY <1>3 DEF Rests
    <2>2. Merged' = Merged /\ Settled' = Settled
      BY <1>1, <2>1, CallsRest
    <2>3. QED
      BY <1>1, <2>1, <2>2 DEF LogIsTrue, Completed, Count
  <1>4. CASE Moves \/ Fails \/ Holds \/ Settles \/ Stops \/ Begins \/ GivesUp \/ Loses
    <2>1. run'.state \in {"running", "failed"}
      BY <1>1, <1>4, StepParts DEF Phases
    <2>2. QED
      BY <2>1 DEF LogIsTrue, Completed
  <1>5. QED
    BY <1>2, <1>3, <1>4 DEF Steps

\* The first execution begins with nothing accepted and nothing told.
LEMMA Initial ==
    ASSUME Init
    PROVE  IInv
  <1>1. /\ run \in [workflow : Workflows, enforced : BOOLEAN, state : {"running"},
                    recoveries : {0}, draft : {None}, sealed : {FALSE}]
        /\ world \in Worlds /\ log = <<>> /\ exec = NewExec
    BY DEF Init
  <1> DEFINE call == [i \in CallsOf(run.workflow) |-> NewCall]
  <1>2. call \in [CallsOf(run.workflow) -> CallRecords] /\ \A i \in DOMAIN call : call[i] = NewCall
    BY NewCalls
  <1>3. exec = [phase |-> "calls", world |-> world, told |-> <<>>, kept |-> Empty, call |-> call]
    BY <1>1 DEF NewExec
  <1> HIDE DEF call
  <1>4. /\ exec.phase = "calls" /\ exec.world = world /\ exec.told = <<>> /\ exec.kept = Empty
        /\ exec.call = call
    BY <1>3
  <1>5. /\ run \in [workflow : Workflows, enforced : BOOLEAN,
                    state : {"running", "failed", "completed", "completed_with_repair"},
                    recoveries : Nat, draft : Drafts \cup {None}, sealed : BOOLEAN]
        /\ run.state = "running" /\ run.draft = None /\ ~run.sealed
    <2> DEFINE First == [workflow : Workflows, enforced : BOOLEAN, state : {"running"},
                         recoveries : {0}, draft : {None}, sealed : {FALSE}]
               Any == [workflow : Workflows, enforced : BOOLEAN,
                       state : {"running", "failed", "completed", "completed_with_repair"},
                       recoveries : Nat, draft : Drafts \cup {None}, sealed : BOOLEAN]
    <2>1. \A r \in First : r \in Any
      <3> TAKE r \in First
      <3>1. r = [workflow |-> r.workflow, enforced |-> r.enforced, state |-> r.state,
                 recoveries |-> r.recoveries, draft |-> r.draft, sealed |-> r.sealed]
        OBVIOUS
      <3>2. r.workflow \in Workflows /\ r.enforced \in BOOLEAN
        OBVIOUS
      <3>3. r.sealed \in {FALSE}
        OBVIOUS
      <3>4. r.state \in {"running"} /\ r.recoveries \in {0} /\ r.draft \in {None}
        OBVIOUS
      <3>5. r.sealed \in BOOLEAN
        BY <3>3
      <3> HIDE DEF First
      <3>6. QED
        BY <3>1, <3>2, <3>4, <3>5
    <2>2. \A r \in First : r.state = "running" /\ r.draft = None /\ r.sealed = FALSE
      OBVIOUS
    <2> HIDE DEF First, Any
    <2>3. run \in First
      BY <1>1 DEF First
    <2>4. run \in Any /\ run.state = "running" /\ run.draft = None /\ run.sealed = FALSE
      BY <2>1, <2>2, <2>3
    <2>5. QED
      BY <2>4 DEF Any
  <1>6. Empty \in Drafts /\ <<>> \in Seq(Events)
    BY EmptyDraft
  <1>7. TypeOK
    BY <1>1, <1>2, <1>3, <1>4, <1>5, <1>6 DEF TypeOK
  <1>8. NewCall.st = "todo" /\ NewCall.attempt = 1
    BY DEF NewCall
  <1>9. \A i \in DOMAIN exec.call : exec.call[i] = NewCall /\ exec.call[i].st = "todo"
    BY <1>2, <1>4, <1>8
  <1>10. Settled = {} /\ In({"asking"}) = {}
    BY <1>9 DEF Settled, In
  <1>11. Merged = Empty
    <2>1. DOMAIN Merged = {} /\ Merged \in Drafts
      BY <1>7, <1>10, NothingMerged, MergedDraft
    <2>2. Merged \in [{} -> Contents] /\ Empty \in [{} -> Contents]
      <3>1. DOMAIN Empty = {} /\ Empty \in Drafts
        BY EmptyDraft
      <3>2. QED
        BY <2>1, <3>1 DEF Drafts
    <2>3. QED
      BY <2>2
  <1>12. Phases
    BY <1>4, <1>5 DEF Phases
  <1>13. InOrder
    BY <1>9 DEF InOrder
  <1>14. Fresh
    BY <1>9, <1>8 DEF Fresh
  <1>15. ToldIsLogged /\ NotYetFinal /\ AttemptsTold
    BY <1>1, <1>4 DEF ToldIsLogged, NotYetFinal, AttemptsTold
  <1>16. RejectedHolds
    BY <1>10 DEF RejectedHolds
  <1>17. KeptHolds
    BY <1>4 DEF KeptHolds
  <1>18. AcceptedIsSound
    BY <1>10, <1>11 DEF AcceptedIsSound
  <1>19. LogIsTrue
    BY <1>5 DEF LogIsTrue, Completed
  <1>20. QED
    BY <1>7, <1>12, <1>13, <1>14, <1>15, <1>16, <1>17, <1>18, <1>19 DEF IInv

\* The invariant is inductive.
LEMMA Inductive ==
    ASSUME IInv, [Next]_vars
    PROVE  IInv'
  <1>1. Steps
    BY StepKinds
  <1>2. QED
    BY <1>1, TypeStep, PhasesStep, InOrderStep, FreshStep, ToldStep, NotYetFinalStep,
       AttemptsToldStep, RejectedHoldsStep, KeptHoldsStep, AcceptedStep, LogIsTrueStep DEF IInv

\* Every reachable state satisfies the invariant.
THEOREM Invariance == Spec => []IInv
  BY Initial, Inductive, PTL DEF Spec

\* Whatever agents answer, however calls are repaired and left out, and
\* however often another execution begins again: what an execution accepts
\* falls short only where coverage is advisory, and all of it together is a
\* valid draft of the graph the execution has read.
THEOREM AcceptedSound == Spec => []AcceptedIsSound
  <1>1. IInv => AcceptedIsSound
    BY DEF IInv
  <1>2. QED
    BY <1>1, Invariance, PTL

\* The log of a completed Run is, event by event, what the execution that
\* completed it has told, and its last event is true of the draft: an earlier
\* execution leaves no event that this one did not tell too.
THEOREM LogTrue == Spec => []LogIsTrue
  <1>1. IInv => LogIsTrue
    BY DEF IInv
  <1>2. QED
    BY <1>1, Invariance, PTL

\* A completed Run's draft is valid in the graph of that moment; the draft of
\* a failed one is not, and keeps the records that had been accepted.
THEOREM DraftAsSaid == Spec => DraftIsAsSaid
  <1>1. ASSUME IInv, [Next]_vars, run'.draft # run.draft
        PROVE  IF run'.sealed THEN Valid(world, run'.draft)
               ELSE /\ run'.state = "failed" /\ ~Valid(world, run'.draft)
                    /\ DOMAIN Merged \subseteq DOMAIN run'.draft
    <2>1. TypeOK /\ Phases /\ KeptHolds
      BY <1>1 DEF IInv
    <2>2. Steps
      BY <1>1, StepKinds
    <2>3. CASE Loses
      <3>1. PICK d \in Drafts \cup {None} :
               /\ run' = [run EXCEPT !.state = "failed", !.draft = d]
               /\ d # None => exec.phase = "retain" /\ d = exec.kept /\ ~Valid(world, d)
        BY <2>3 DEF Loses
      <3>2. run'.draft = d /\ run'.sealed = run.sealed /\ run'.state = "failed"
        BY <2>1, <3>1 DEF TypeOK
      <3>3. run.draft = None /\ ~run.sealed
        BY <2>1, <2>3 DEF Loses, Phases
      <3>4. exec.phase = "retain" /\ d = exec.kept /\ ~Valid(world, d)
        BY <1>1, <3>1, <3>2, <3>3
      <3>5. DOMAIN Merged \subseteq DOMAIN d
        BY <2>1, <3>4 DEF KeptHolds
      <3>6. QED
        BY <3>2, <3>3, <3>4, <3>5
    <2>4. CASE Completes
      <3>1. run.draft = None
        BY <2>1, <2>4 DEF Completes, Phases
      <3>2. CASE run' = Ended(Merged, TRUE) /\ Valid(world, Merged)
        <4>1. run'.draft = Merged /\ run'.sealed = TRUE
          BY <2>1, <3>2, EndedParts
        <4>2. QED
          BY <3>2, <4>1
      <3>3. CASE run' = Ended(None, FALSE)
        <4>1. run'.draft = None
          BY <2>1, <3>3, EndedParts
        <4>2. QED
          BY <1>1, <3>1, <4>1
      <3>4. QED
        BY <2>4, <3>2, <3>3 DEF Completes
    <2>5. CASE Moves \/ Fails \/ Settles \/ Holds \/ Stops \/ Begins \/ GivesUp \/ Rests
      <3>1. run'.draft = run.draft
        BY <2>2, <2>5, <1>1, StepParts
      <3>2. QED
        BY <1>1, <3>1
    <2>6. QED
      BY <2>2, <2>3, <2>4, <2>5 DEF Steps
  <1>2. ASSUME IInv, [Next]_vars
        PROVE  [run'.draft # run.draft =>
                  IF run'.sealed THEN Valid(world, run'.draft)
                  ELSE /\ run'.state = "failed" /\ ~Valid(world, run'.draft)
                       /\ DOMAIN Merged \subseteq DOMAIN run'.draft]_vars
    BY <1>1, <1>2
  <1>3. QED
    BY <1>2, Invariance, PTL DEF Spec, DraftIsAsSaid

=============================================================================
