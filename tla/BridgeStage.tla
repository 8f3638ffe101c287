---------------------------- MODULE BridgeStage ----------------------------
(***************************************************************************)
(* Staging from a workspace.  The local workbench (atlas-local.js) writes  *)
(* operation records: what the user accepted, for which server draft, and  *)
(* how far it came.  An Atlas Bridge reads the current record, reconciles  *)
(* the accepted datasets with the draft, marks the record as uncertain,    *)
(* writes to the server, and replaces the mark by a receipt.  Bridges of   *)
(* several windows share the files; they stop at any moment, and what they *)
(* have sent may arrive afterwards.  Both programs compare a record with   *)
(* what they read and then rename over it, without a lock.  An uncertain   *)
(* record is settled only by proof that the draft holds what was intended. *)
(*                                                                         *)
(* A dataset is a set of <<key, value>> records.  The begin and put calls  *)
(* of a large dataset touch no draft (see ChangeSet): its commit stands    *)
(* for all of them.                                                        *)
(***************************************************************************)
EXTENDS Naturals, Sequences, FiniteSets

CONSTANTS
    Datasets, Large,    \* all, and those that need a batch of their own
    Works,              \* what the local files hold, from dataset to records
    Foreign,            \* <<dataset, records>> that another session stages
    Bridges, Desks,     \* windows, and processes of the workbench
    MaxOperations, MaxRevision,     \* bounds
    None

\* A plan gives some datasets their records, the content of a draft all.
Records  == UNION ({f[2] : f \in Foreign} \cup UNION {{w[d] : d \in DOMAIN w} : w \in Works})
Plans    == UNION {[S -> SUBSET Records] : S \in SUBSET Datasets}
Contents == [Datasets -> SUBSET Records]

\* The draft an operation is bound to, the mark of a Bridge and the receipt of a
\* Stage in an operation record.
Statuses == {"active", "validated", "applied"}
Drafts   == [rev : Nat, status : Statuses, failed : BOOLEAN, digest : Works]
Marks    == [by : Bridges, plan : Plans]
Receipts == [rev : Nat, print : Contents]

ASSUME ConstantsAssumption ==
    /\ Works \subseteq Plans
    /\ \A f \in Foreign : f[1] \in Datasets
    /\ None \notin Drafts \cup Marks \cup Receipts

VARIABLES
    local,      \* the files of the local change set
    ops,        \* the operation records; session.json names the last
    desk,       \* the record each workbench command is about to rename into place
    lost,       \* history: operations whose mark or receipt was renamed over
    bridge,     \* what each Bridge is doing
    wire,       \* writes sent and not yet served
    draft       \* the server's draft, and its last validation answer

files == <<local, ops, desk, lost>>
vars == <<files, bridge, wire, draft>>

Current == ops[Len(ops)]
Uncertain(op) == op.unknown # None

-----------------------------------------------------------------------------
(* The workbench.  Its commands read the current record, compute the next  *)
(* one and compare the file with what they read; the rename comes later.   *)

Edit ==
    /\ local' \in Works \ {local}
    /\ UNCHANGED <<ops, desk, lost, bridge, wire, draft>>

Compared(w, n, seen, next) ==
    /\ desk[w] = None
    /\ desk' = [desk EXCEPT ![w] = [n |-> n, seen |-> seen, next |-> next]]
    /\ UNCHANGED <<local, ops, lost, bridge, wire, draft>>

Record(w, op) == Compared(w, Len(ops), Current, op)

\* The rename of a new operation is that of session.json, which names it.
Replace(w) ==
    /\ desk[w] # None
    /\ desk' = [desk EXCEPT ![w] = None]
    /\ LET n == desk[w].n IN
       IF n = 0
       THEN /\ Len(ops) < MaxOperations
            /\ ops' = Append(ops, desk[w].next)
            /\ UNCHANGED lost
       ELSE /\ ops' = [ops EXCEPT ![n] = desk[w].next]
            /\ lost' = IF ops[n] # desk[w].seen /\ (Uncertain(ops[n]) \/ ops[n].stage # None)
                        THEN lost \cup {n} ELSE lost
    /\ UNCHANGED <<local, bridge, wire, draft>>

\* A failed command, or the end of its process.
Abandon(w) ==
    /\ desk[w] # None
    /\ desk' = [desk EXCEPT ![w] = None]
    /\ UNCHANGED <<local, ops, lost, bridge, wire, draft>>

\* A draft response of the server bound to an operation; a failed draft keeps
\* the digest it failed with.
Resolved(previous, accepted) ==
    LET failed == previous # None /\ previous.failed
    IN [rev |-> draft.rev, status |-> draft.status, failed |-> failed,
        digest |-> IF failed THEN previous.digest ELSE accepted]

\* What an earlier operation leaves to the next one.
Inherited ==
    IF ops = <<>> \/ Current.checkpoint = "applied" THEN None ELSE Current.draft

Kept == IF Inherited # None /\ (Inherited.failed \/ Current.accepted = local)
        THEN Inherited ELSE None

\* The operation before is settled: not uncertain, and its Stage, if it had
\* one, is applied or was found invalid.
Superseded ==
    ops # <<>> =>
        /\ ~Uncertain(Current)
        /\ Current.stage # None => Current.checkpoint = "applied" \/ Current.draft.failed

Accept(w) ==
    /\ Superseded /\ Len(ops) < MaxOperations
    /\ \E d \in {Kept} \cup (IF draft.status = "applied" THEN {} ELSE {Resolved(Inherited, local)}) :
          Compared(w, 0, None,
                   [accepted |-> local, draft |-> d, request |-> None,
                    unknown |-> None, stage |-> None, checkpoint |-> "none"])

CacheDraft(w) ==
    /\ ops # <<>> /\ draft.status # "applied"
    /\ LET d == Resolved(Current.draft, Current.accepted) IN
       /\ d # Current.draft
       /\ Record(w, [Current EXCEPT !.draft = d])

Prepare(w) ==
    /\ ops # <<>>
    /\ local = Current.accepted
    /\ ~Uncertain(Current)
    /\ Current.draft # None /\ Current.draft.status = "active"
    /\ Record(w, [Current EXCEPT !.request =
                 [start |-> Current.draft.rev,
                  retry |-> Current.draft.failed /\ Current.draft.digest # Current.accepted]])
\* A result is recorded for the revision the draft was staged at.
Bound(op) ==
    /\ op.draft # None /\ op.stage # None
    /\ op.stage.rev = op.draft.rev
    /\ ~Uncertain(op)

RecordReview(w) ==
    /\ ops # <<>> /\ Bound(Current) /\ Current.checkpoint # "applied"
    /\ draft.review # None /\ draft.review.rev = Current.draft.rev
    /\ Record(w, [Current EXCEPT
                 !.checkpoint = IF draft.review.valid THEN "valid" ELSE "failed",
                 !.draft.status = IF draft.review.valid THEN "validated" ELSE "active",
                 !.draft.failed = ~draft.review.valid])

Approve(w) ==
    /\ ops # <<>> /\ Bound(Current) /\ Current.checkpoint = "valid"
    /\ local = Current.accepted
    /\ Record(w, [Current EXCEPT !.checkpoint = "approved"])

RecordApply(w) ==
    /\ ops # <<>> /\ Bound(Current) /\ Current.checkpoint = "approved"
    /\ draft.status = "applied" /\ draft.rev = Current.draft.rev
    /\ Record(w, [Current EXCEPT !.checkpoint = "applied"])

-----------------------------------------------------------------------------
(* A Bridge. *)

Resting == [pc |-> "idle", n |-> 0, seen |-> None, next |-> None, plan |-> None,
            left |-> {}, rev |-> 0]

\* What readRequest demands of the current operation.
Approved(op) ==
    /\ op.request # None /\ local = op.accepted
    /\ op.draft # None /\ op.draft.rev = op.request.start /\ op.draft.status = "active"
    /\ IF op.request.retry THEN op.draft.failed /\ op.draft.digest # op.accepted
                           ELSE op.stage = None /\ op.draft.digest = op.accepted

Begin(b, recovery) ==
    /\ bridge[b].pc = "idle" /\ ops # <<>>
    /\ Approved(Current) /\ Uncertain(Current) = recovery
    /\ bridge' = [bridge EXCEPT ![b] =
                     [Resting EXCEPT !.pc = IF recovery THEN "recovering" ELSE "reading",
                                     !.n = Len(ops), !.seen = Current]]
    /\ UNCHANGED <<files, wire, draft>>

\* No record of one key with two values, and no silent clearing.
Reconcilable(mine, theirs) ==
    /\ mine = {} => theirs = {}
    /\ \A r \in mine, s \in theirs : r[1] = s[1] => r = s

LocalOnly(op) == op.accepted   \* mutant
Plan(op) ==
    [d \in DOMAIN op.accepted |->
        IF op.request.retry THEN op.accepted[d] ELSE op.accepted[d] \cup draft.content[d]]

Unmarked(op, b, plan) == op   \* mutant
Marked(op, b, plan) == [op EXCEPT !.unknown = [by |-> b, plan |-> plan]]

\* The draft is read at the revision the request starts from.
Fetch(b) ==
    LET op == bridge[b].seen IN
    /\ bridge[b].pc = "reading"
    /\ draft.rev = op.request.start /\ draft.status = "active"
    /\ ~op.request.retry =>
          \A d \in DOMAIN op.accepted : Reconcilable(op.accepted[d], draft.content[d])
    /\ bridge' = [bridge EXCEPT ![b].pc = "marking", ![b].plan = Plan(op),
                                ![b].next = Marked(op, b, Plan(op)),
                                ![b].left = DOMAIN op.accepted, ![b].rev = draft.rev]
    /\ UNCHANGED <<files, wire, draft>>

\* saveOperation compares the file with what was read and then renames over
\* it.  Before a mark or a recovered receipt the operation is still current.
Check(b) ==
    /\ bridge[b].pc \in {"marking", "proven", "staged"}
    /\ ops[bridge[b].n] = bridge[b].seen
    /\ bridge[b].pc # "staged" => bridge[b].n = Len(ops)
    /\ bridge' = [bridge EXCEPT ![b].pc =
                     IF @ = "marking" THEN "renaming mark" ELSE "renaming receipt"]
    /\ UNCHANGED <<files, wire, draft>>

Rename(b) ==
    /\ bridge[b].pc \in {"renaming mark", "renaming receipt"}
    /\ ops' = [ops EXCEPT ![bridge[b].n] = bridge[b].next]
    /\ bridge' = [bridge EXCEPT ![b] =
                     IF @.pc = "renaming mark"
                     THEN [@ EXCEPT !.pc = "writing", !.seen = bridge[b].next, !.next = None]
                     ELSE Resting]
    /\ UNCHANGED <<local, desk, lost, wire, draft>>

\* All that fits goes in one direct call, each other dataset in a batch.
NextPart(b) ==
    LET left == bridge[b].left
        direct == {d \in left : d \notin Large \/ bridge[b].plan[d] = {}}
    IN IF direct # {} THEN direct ELSE {CHOOSE d \in left : TRUE}

Write(b) ==
    [by |-> b, n |-> bridge[b].n, rev |-> bridge[b].rev,
     retry |-> bridge[b].seen.request.retry,
     records |-> [d \in NextPart(b) |-> bridge[b].plan[d]]]

Send(b) ==
    /\ bridge[b].pc = "writing" /\ bridge[b].left # {}
    /\ wire' = wire \cup {Write(b)}
    /\ bridge' = [bridge EXCEPT ![b].pc = "waiting"]
    /\ UNCHANGED <<files, draft>>

Receipt(op, print) ==
    [op EXCEPT !.draft = [rev |-> draft.rev, status |-> "active", failed |-> FALSE,
                          digest |-> op.accepted],
               !.stage = [rev |-> draft.rev, print |-> print], !.unknown = None]

\* The fingerprint of the draft, as all writes were answered.
Fingerprint(b) ==
    /\ bridge[b].pc = "writing" /\ bridge[b].left = {}
    /\ draft.rev = bridge[b].rev /\ draft.status = "active"
    /\ bridge' = [bridge EXCEPT ![b].pc = "staged",
                                ![b].next = Receipt(bridge[b].seen, draft.content)]
    /\ UNCHANGED <<files, wire, draft>>

CountsMatch(intended) ==   \* mutant
    \A d \in DOMAIN intended : Cardinality(draft.content[d]) = Cardinality(intended[d])
HashesMatch(intended) == \A d \in DOMAIN intended : draft.content[d] = intended[d]

\* Recovery writes nothing: the draft has moved on and holds what was intended.
Prove(b) ==
    LET op == bridge[b].seen IN
    /\ bridge[b].pc = "recovering"
    /\ draft.rev > op.request.start /\ draft.status = "active"
    /\ HashesMatch(op.unknown.plan)
    /\ bridge' = [bridge EXCEPT ![b].pc = "proven", ![b].next = Receipt(op, draft.content)]
    /\ UNCHANGED <<files, wire, draft>>

\* A refusal, a conflict, a lost answer, a cancellation or the end of the window.
GiveUp(b) ==
    /\ bridge[b].pc # "idle"
    /\ bridge' = [bridge EXCEPT ![b] = Resting]
    /\ UNCHANGED <<files, wire, draft>>

-----------------------------------------------------------------------------
(* The server. *)

Takes(m) == draft.rev = m.rev /\ draft.status # "applied" /\ draft.rev < MaxRevision

Waits(m) == bridge[m.by].pc = "waiting" /\ Write(m.by) = m

Replaced(records) ==
    [d \in Datasets |-> IF d \in DOMAIN records THEN records[d] ELSE draft.content[d]]

\* The answer tells the new revision and what is left to write.
Answered(row, m) ==
    [row EXCEPT !.pc = "writing", !.rev = @ + 1, !.left = @ \ DOMAIN m.records]

\* A write is served, however late, or refused for whatever reason.
Serve(m) ==
    /\ wire' = wire \ {m}
    /\ \/ /\ Takes(m)
          /\ draft' = [draft EXCEPT !.rev = @ + 1, !.status = "active",
                                    !.content = Replaced(m.records)]
          /\ bridge' = [bridge EXCEPT ![m.by] =
                           IF Waits(m) THEN Answered(@, m) ELSE @]
       \/ /\ bridge' = [bridge EXCEPT ![m.by] = IF Waits(m) THEN Resting ELSE @]
          /\ UNCHANGED draft
    /\ UNCHANGED files

\* Another session of the same user stages to the draft.
Elsewhere ==
    /\ draft.status # "applied" /\ draft.rev < MaxRevision
    /\ \E f \in Foreign :
          /\ draft.content[f[1]] # f[2]
          /\ draft' = [draft EXCEPT !.rev = @ + 1, !.status = "active",
                                    !.content[f[1]] = f[2]]
    /\ UNCHANGED <<files, bridge, wire>>

Validate ==
    /\ draft.status # "applied"
    /\ \E valid \in BOOLEAN :
          draft' = [draft EXCEPT !.status = IF valid THEN "validated" ELSE "active",
                                 !.review = [rev |-> draft.rev, valid |-> valid]]
    /\ UNCHANGED <<files, bridge, wire>>

Apply ==
    /\ draft.status = "validated"
    /\ draft' = [draft EXCEPT !.status = "applied"]
    /\ UNCHANGED <<files, bridge, wire>>

-----------------------------------------------------------------------------
Init ==
    /\ local \in Works
    /\ ops = <<>>
    /\ desk = [w \in Desks |-> None]
    /\ lost = {}
    /\ bridge = [b \in Bridges |-> Resting]
    /\ wire = {}
    /\ draft = [rev |-> 1, status |-> "active", review |-> None,
                content |-> [d \in Datasets |-> {}]]

Next ==
    \/ Edit
    \/ \E w \in Desks :
          \/ Accept(w) \/ CacheDraft(w) \/ Prepare(w)
          \/ RecordReview(w) \/ Approve(w) \/ RecordApply(w)
          \/ Replace(w) \/ Abandon(w)
    \/ \E b \in Bridges :
          \/ \E recovery \in BOOLEAN : Begin(b, recovery)
          \/ Fetch(b) \/ Check(b) \/ Rename(b) \/ Send(b)
          \/ Fingerprint(b) \/ Prove(b) \/ GiveUp(b)
    \/ \E m \in wire : Serve(m)
    \/ Elsewhere \/ Validate \/ Apply

Spec == Init /\ [][Next]_vars

-----------------------------------------------------------------------------
(* Properties. *)

\* A receipt, whether of a Stage that was answered or of one that was proved
\* afterwards, tells the truth: the draft it fingerprints holds the accepted
\* records (a failed draft that is staged again, nothing else), and is still
\* the server's draft while that stands at the receipt's revision.
ReceiptIsTrue(op) ==
    op.stage # None =>
        /\ \A d \in DOMAIN op.accepted :
              /\ op.accepted[d] \subseteq op.stage.print[d]
              /\ op.request.retry => op.stage.print[d] = op.accepted[d]
        /\ draft.rev = op.stage.rev => draft.content = op.stage.print

\* The evidence of an operation is true: its receipt, and when it is recorded
\* as applied, what the server applied is what was accepted and staged.
EvidenceIsTrue ==
    \A n \in DOMAIN ops :
        /\ ReceiptIsTrue(ops[n])
        /\ ops[n].checkpoint = "applied" =>
              draft.status = "applied" /\ draft.content = ops[n].stage.print

Served == wire \ wire'

\* A write that changes the draft, however late it arrives, belongs to an
\* operation whose record says uncertain and has no receipt yet: a Bridge that
\* stops never leaves a change that its record does not admit, and no
\* operation is staged again over its receipt.  One order breaks this: a
\* workbench command that had compared the record earlier renames it over the
\* mark or the receipt.  No rename of a Bridge does.
WritesAreMarked ==
    [][Served # {} /\ draft'.content # draft.content =>
          \A m \in Served : \/ Uncertain(ops[m.n]) /\ ops[m.n].stage = None
                            \/ m.n \in lost]_vars

\* Staging adds to what other sessions have put into the draft; only the
\* retry of a failed draft replaces it.
NothingOverwritten ==
    [][Served # {} =>
          \A m \in Served : m.retry
             \/ \A d \in Datasets : draft.content[d] \subseteq draft'.content[d]]_vars
=============================================================================
