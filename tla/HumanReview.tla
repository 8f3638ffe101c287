---------------------------- MODULE HumanReview ----------------------------
(***************************************************************************)
(* Human commands on the saved records of one Project                      *)
(* (features/project_change_sets/service.py, and the dialogs of            *)
(* frontend/src/features/project_record_review).                           *)
(*                                                                         *)
(* A dialog shows what a command will do, the user confirms exactly that,  *)
(* and the server plans it again in one transaction under the Project row  *)
(* and the Tenant Lock.  The answer may be lost: the dialog sends the same *)
(* request with the same key until an answer is definite.  Runs, other     *)
(* users, imports and the lock move between any two statements.            *)
(***************************************************************************)
EXTENDS Naturals, Sequences, FiniteSets

CONSTANTS
    Dialogs,            \* the dialogs opened, by tab and user
    Owner(_),           \* the Principal a dialog belongs to
    Kind(_),            \* review, delete or edit
    Principals,
    Catalogs,           \* states of the metadata the records refer to
    Valid(_),           \* those the command of a dialog is valid in
    MaxRevision,        \* bound on project_revision
    MaxSends,           \* bound on the requests of one key
    MaxKeys,            \* bound on the saves of one editor
    None

ASSUME CatalogsAssumption == \E c \in Catalogs : Valid(c)

VARIABLES
    project,    \* project.project: its revision, the metadata, the Run running
    lock,       \* security.tenant_lock
    dialog,     \* the dialogs, as the browser knows them
    wire,       \* requests on their way to the server
    tx,         \* the transaction that holds the Project row
    receipts    \* applied change sets with their applied event

vars == <<project, lock, dialog, wire, tx, receipts>>

-----------------------------------------------------------------------------
(* The dialogs. *)

\* What is reviewed and compared by digest.  A command that edits (a record, a
\* Subject Area, a context, the input scope) is checked by revision alone.
Plan(kind) == [revision |-> project.revision,
               catalog  |-> IF kind = "edit" THEN None ELSE project.catalog]

Closed == [st |-> "closed", expected |-> 0, plan |-> None, key |-> 0, sent |-> 0,
           effect |-> TRUE, told |-> None]

Request(d) == [dialog |-> d, key |-> dialog[d].key, n |-> dialog[d].sent + 1,
               expected |-> dialog[d].expected, plan |-> dialog[d].plan,
               effect |-> dialog[d].effect]

LockHeld(p) == lock # None /\ lock.live /\ lock.holder = p

\* The page shows the records of a revision.
Open(d) ==
    /\ dialog[d].st = "closed" /\ dialog[d].key < MaxKeys
    /\ dialog' = [dialog EXCEPT ![d] = [Closed EXCEPT !.st = "open", !.key = dialog[d].key + 1,
                                                      !.expected = project.revision]]
    /\ UNCHANGED <<project, lock, wire, tx, receipts>>

\* preview_record_review, delete_records without a key, edit_record not saving.
\* An edit may turn out to change nothing; the others are not offered then.
Show(d) ==
    /\ dialog[d].st = "open" /\ tx = None
    /\ LockHeld(Owner(d)) /\ project.revision = dialog[d].expected /\ project.run = "none"
    /\ Kind(d) = "review" => Valid(project.catalog)
    /\ \E effect \in IF Kind(d) = "edit" THEN BOOLEAN ELSE {TRUE} :
          dialog' = [dialog EXCEPT ![d].st = "shown", ![d].plan = Plan(Kind(d)),
                                   ![d].effect = effect]
    /\ UNCHANGED <<project, lock, wire, tx, receipts>>

Send(d) ==
    /\ dialog[d].st \in {"shown", "unsure"} /\ dialog[d].sent < MaxSends
    /\ wire' = wire \cup {Request(d)}
    /\ dialog' = [dialog EXCEPT ![d].st = "waiting", ![d].sent = @ + 1]
    /\ UNCHANGED <<project, lock, tx, receipts>>

\* A network failure, 408 or 5xx: the dialog cannot be closed, only retried.
NotConfirmed(d) ==
    /\ dialog[d].st = "waiting"
    /\ dialog' = [dialog EXCEPT ![d].st = "unsure"]
    /\ UNCHANGED <<project, lock, wire, tx, receipts>>

\* After a refusal an editor may save again, under a new key and from the
\* revision it was opened with; a review is closed.
Again(d) ==
    /\ dialog[d].st = "told" /\ dialog[d].told.verdict # "applied"
    /\ Kind(d) = "edit" /\ dialog[d].key < MaxKeys
    /\ dialog' = [dialog EXCEPT ![d].st = "shown", ![d].key = @ + 1, ![d].sent = 0,
                                ![d].told = None]
    /\ UNCHANGED <<project, lock, wire, tx, receipts>>

Close(d) ==
    /\ dialog[d].st \in {"open", "shown", "told"}
    /\ dialog' = [dialog EXCEPT ![d] = [Closed EXCEPT !.key = dialog[d].key]]
    /\ UNCHANGED <<project, lock, wire, tx, receipts>>

-----------------------------------------------------------------------------
(* The server. *)

\* The answer reaches the dialog if it still waits for this request.
Told(r, verdict, revision) ==
    \/ LET d == r.dialog IN
       /\ dialog[d].st = "waiting" /\ dialog[d].key = r.key /\ dialog[d].sent = r.n
       /\ dialog' = [dialog EXCEPT ![d].st = "told",
                        ![d].told = [verdict |-> verdict, revision |-> revision]]
    \/ UNCHANGED dialog

ReceiptsOf(d, key) == {n \in DOMAIN receipts : receipts[n].dialog = d /\ receipts[n].key = key}

\* authorize_project_record_review: the Project row, then the lock row if there
\* is one, FOR UPDATE.
Enter ==
    /\ tx = None
    /\ \E r \in wire :
          /\ wire' = wire \ {r}
          /\ tx' = [request |-> r, step |-> "entered", plan |-> None,
                  row |-> IF lock = None THEN "free" ELSE "exclusive"]
    /\ UNCHANGED <<project, lock, dialog, receipts>>

\* replay_review: the applied change set of this Project, Principal and key.
ReplayNever(r) == {}        \* mutant
Replay(r) == ReceiptsOf(r.dialog, r.key)

MatchesAny(r, plan) == TRUE         \* mutant: the plan shown is not compared
Matches(r, plan) == Kind(r.dialog) = "edit" \/ r.plan = plan

RunAllowed == TRUE          \* mutant
NoRun == project.run = "none"

Conflict(r) ==
    \/ r.expected # project.revision
    \/ ~NoRun
    \/ ~Matches(r, Plan(Kind(r.dialog)))
    \/ Kind(r.dialog) # "delete" /\ ~Valid(project.catalog)

VerdictByRevision(r) ==     \* mutant: the replay is looked for last
    IF ~LockHeld(Owner(r.dialog)) THEN "denied"
    ELSE IF Conflict(r) THEN "conflict"
    ELSE IF Replay(r) # {} THEN "applied"
    ELSE "planned"
Verdict(r) ==
    IF ~LockHeld(Owner(r.dialog)) THEN "denied"
    ELSE IF Replay(r) # {} THEN "applied"
    ELSE IF Conflict(r) THEN "conflict"
    ELSE "planned"

\* The authorization function locks the row of the lock it finds.
LockedBy(mode) == IF mode = "free" THEN "share" ELSE mode

\* Up to the plan: authority, replay, revision, Runs, then the planned command
\* against the one confirmed.
Check ==
    /\ tx # None /\ tx.step = "entered"
    /\ LET r == tx.request
           v == Verdict(r)
       IN IF v = "planned"
          THEN /\ tx' = [tx EXCEPT !.step = "planned", !.plan = Plan(Kind(r.dialog)),
                                   !.row = LockedBy(@)]
               /\ UNCHANGED dialog
          ELSE /\ tx' = None
               /\ Told(r, v, IF v = "applied"
                             THEN receipts[CHOOSE n \in Replay(r) : TRUE].revision
                             ELSE 0)
    /\ UNCHANGED <<project, lock, wire, receipts>>

\* Authority again, as a lease may have ended meanwhile; then the change set,
\* the records, the revision and the events, in the same transaction.
Finish ==
    /\ tx # None /\ tx.step = "planned"
    /\ LET r == tx.request
           revision == project.revision + IF r.effect THEN 1 ELSE 0
       IN IF LockHeld(Owner(r.dialog))
          THEN /\ Kind(r.dialog) = "delete" => project.run = "none"
               /\ revision <= MaxRevision
               /\ receipts' = Append(receipts,
                     [dialog |-> r.dialog, key |-> r.key, plan |-> tx.plan,
                      from |-> project.revision, revision |-> revision])
               /\ project' = [project EXCEPT !.revision = revision]
               /\ Told(r, "applied", revision)
          ELSE /\ Told(r, "denied", 0)
               /\ UNCHANGED <<project, receipts>>
    /\ tx' = None
    /\ UNCHANGED <<lock, wire>>

\* A timeout, a lost connection, a failing statement: all is rolled back.
Abort ==
    /\ tx # None /\ tx' = None
    /\ UNCHANGED <<project, lock, dialog, wire, receipts>>

-----------------------------------------------------------------------------
(* What else happens. *)

RowHeld(modes) == tx # None /\ tx.row \in modes

\* start_workflow_run of this Project, or of another one of the Tenant.
StartRun ==
    /\ project.run = "none" /\ lock # None /\ lock.live
    /\ \/ tx = None /\ project' = [project EXCEPT !.run = "own"]
       \/ /\ ~RowHeld({"exclusive"})
          /\ project' = [project EXCEPT !.run = "other"]
    /\ UNCHANGED <<lock, dialog, wire, tx, receipts>>

EndRun ==
    /\ project.run # "none"
    /\ project' = [project EXCEPT !.run = "none"]
    /\ UNCHANGED <<lock, dialog, wire, tx, receipts>>

\* Another change set is applied.
ApplyElsewhere ==
    /\ tx = None /\ lock # None /\ lock.live /\ project.revision < MaxRevision
    /\ project' = [project EXCEPT !.revision = @ + 1]
    /\ UNCHANGED <<lock, dialog, wire, tx, receipts>>

\* Metadata of a source Tenant changes.
Drift ==
    /\ \E c \in Catalogs \ {project.catalog} : project' = [project EXCEPT !.catalog = c]
    /\ UNCHANGED <<lock, dialog, wire, tx, receipts>>

Lapse ==
    /\ lock # None /\ lock.live
    /\ lock' = [lock EXCEPT !.live = FALSE]
    /\ UNCHANGED <<project, dialog, wire, tx, receipts>>

\* Acquired, released, overridden or swept, once nobody holds the row.
ChangeLock ==
    /\ ~RowHeld({"share", "exclusive"})
    /\ lock' \in {None} \cup [holder : Principals, live : {TRUE}]
    /\ lock' # lock
    /\ UNCHANGED <<project, dialog, wire, tx, receipts>>
-----------------------------------------------------------------------------
Init ==
    /\ project = [revision |-> 1, catalog |-> CHOOSE c \in Catalogs : Valid(c), run |-> "none"]
    /\ lock \in {None} \cup [holder : Principals, live : {TRUE}]
    /\ dialog = [d \in Dialogs |-> Closed]
    /\ wire = {} /\ tx = None /\ receipts = <<>>

Next ==
    \/ \E d \in Dialogs :
          Open(d) \/ Show(d) \/ Send(d) \/ NotConfirmed(d) \/ Again(d) \/ Close(d)
    \/ Enter \/ Check \/ Finish \/ Abort
    \/ StartRun \/ EndRun \/ ApplyElsewhere \/ Drift \/ Lapse \/ ChangeLock

Spec == Init /\ [][Next]_vars

-----------------------------------------------------------------------------
(* Properties. *)

\* However often a request is sent, lost or delayed, its key changes the
\* Project at most once, and one revision is changed by one key.
AppliedOnce ==
    \A m, n \in DOMAIN receipts :
        m # n => /\ receipts[m].dialog # receipts[n].dialog \/ receipts[m].key # receipts[n].key
                 /\ receipts[m].from = receipts[n].from =>
                       receipts[m].revision = receipts[m].from \/ receipts[n].revision = receipts[n].from

\* A dialog that is told "applied" is told the revision of its own change, and
\* one that is told of a conflict, after whatever lost answers, has changed
\* nothing.
AnswersAreTrue ==
    [][\A d \in Dialogs :
          dialog'[d].told \notin {None, dialog[d].told} =>
             LET own == {n \in DOMAIN receipts' : receipts'[n].dialog = d /\ receipts'[n].key = dialog[d].key}
             IN /\ dialog'[d].told.verdict = "conflict" => own = {}
                /\ dialog'[d].told.verdict = "applied" =>
                      \E n \in own : receipts'[n].revision = dialog'[d].told.revision]_vars

\* What is applied is the command that was shown and confirmed, on the records
\* it was shown of, however late its request arrives.
AppliedAsConfirmed ==
    [][receipts' # receipts =>
          LET r == tx.request   last == receipts'[Len(receipts')]
          IN last.from = r.expected /\ last.plan = r.plan]_vars

\* No human command changes a Project under its running Run, whose context and
\* revision are frozen.
ReviewExcludesRun ==
    [][receipts' # receipts => project.run # "own"]_vars
=============================================================================
