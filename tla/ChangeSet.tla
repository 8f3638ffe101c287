----------------------------- MODULE ChangeSet -----------------------------
(***************************************************************************)
(* The Project Change Set tools of the MCP server                          *)
(* (atlas_mcp/tools/change_sets/project.py): an agent creates or resumes a *)
(* draft, replaces whole datasets of it (directly or by a batch of chunks),*)
(* validates it, and applies or archives it.                               *)
(*                                                                         *)
(* Every tool is one write transaction that locks the Change Set row before*)
(* it reads it, so a tool is one step here.  A session is one client; its  *)
(* view is what it was answered, and an answer may be lost (got = FALSE).  *)
(* A refusal rolls back and changes nothing, except that a draft or batch  *)
(* found past its time is expired first and that is kept.  Lifetimes are   *)
(* timers counting down: left = 0 is expires_time <= clock_timestamp().    *)
(***************************************************************************)
EXTENDS Naturals, Sequences, FiniteSets

CONSTANTS
    ChangeSets, Batches,    \* ids, taken in any order
    Sessions, Principals,
    OwnerOf,                \* the Principal of each session
    Datasets,
    Pieces,                 \* what one chunk can hold
    Contents,               \* record lists of a dataset, as sequences of chunks
    Life,                   \* 4 hours, in ticks
    MaxDraft,               \* bound on draft revisions
    MaxRevision,            \* bound on Project revisions
    None, NoOne, NoPiece

ASSUME ConstantsAssumption ==
    /\ OwnerOf \in [Sessions -> Principals]
    /\ <<>> \in Contents /\ Contents \subseteq Seq(Pieces)
    /\ Life \in Nat \ {0}
    /\ None \notin ChangeSets \cup Batches \cup Datasets \cup [Datasets -> Contents]
    /\ NoOne \notin Principals

VARIABLES
    cs,         \* mcp.project_change_set
    batch,      \* mcp.project_stage_batch with its chunks
    project,    \* project.project: revision, is_locked
    holder,     \* the Principal whose live Tenant Lock permits writes
    audit,      \* mcp.project_change_set_event: number of puts, last event
    view,       \* what each session knows of the draft
    upload      \* the batch each session is sending

vars == <<cs, batch, project, holder, audit, view, upload>>

-----------------------------------------------------------------------------
(* Types. *)

Drafts  == [Datasets -> Contents]
Blank   == [d \in Datasets |-> <<>>]
Ongoing == {"active", "validated"}
Ended   == {"applied", "expired", "discarded"}

ChangeSetRow ==
    [status : {"absent"} \cup Ongoing \cup Ended, owner : Principals \cup {NoOne},
     base : Nat, draft : Drafts, revision : Nat, digest : Drafts \cup {None},
     left : 0..Life]

\* plan is the manifest: the number of chunks and, by batch_sha256, each one.
BatchRow ==
    [status : {"absent", "active", "committed", "expired"}, cs : ChangeSets \cup {None},
     dataset : Datasets \cup {None}, expected : Nat, plan : Contents,
     chunks : Seq(Pieces \cup {NoPiece}), committed : Nat, left : 0..Life]

Kinds == {"none", "created", "section_put", "validated", "validation_failed",
          "applied", "expired", "discarded"}

Partial == UNION {[D -> Contents] : D \in SUBSET Datasets}
View    == [cs : ChangeSets \cup {None}, revision : Nat, known : Partial,
            digest : Drafts \cup {None}]
Upload  == [batch : Batches \cup {None}, plan : Contents, known : Partial]

-----------------------------------------------------------------------------
(* Helpers. *)

NoView   == [cs |-> None, revision |-> 0, known |-> <<>>, digest |-> None]
NoUpload == [batch |-> None, plan |-> <<>>, known |-> <<>>]

\* f overridden by g: omitted datasets keep their pending records.
Over(g, f) == [d \in DOMAIN f \cup DOMAIN g |-> IF d \in DOMAIN g THEN g[d] ELSE f[d]]

\* POLICY tenant_project_write; READ_POLICY needs neither.
MayWrite(s) == holder = OwnerOf[s] /\ ~project.locked

Owned(s)  == view[s].cs # None /\ cs[view[s].cs].owner = OwnerOf[s]
Due(c)    == cs[c].status \in Ongoing /\ cs[c].left = 0
Mutable(c) == cs[c].status \in Ongoing /\ cs[c].left > 0
Current(s) == view[s].revision = cs[view[s].cs].revision

Expired(row)     == [row EXCEPT !.status = "expired"]
WithEvent(c, kind) == [audit EXCEPT ![c].last = kind,
                                    ![c].puts = @ + (IF kind = "section_put" THEN 1 ELSE 0)]

\* The row a stage writes: the seal is broken, the revision moves on.
StagedExtending(row, changes) ==    \* mutant
    [row EXCEPT !.draft = Over(changes, @), !.status = "active",
                !.revision = @ + 1, !.digest = None, !.left = @ + Life]
StagedKeepingSeal(row, changes) ==      \* mutant
    [row EXCEPT !.draft = Over(changes, @), !.revision = @ + 1, !.left = Life]
Staged(row, changes) ==
    [row EXCEPT !.draft = Over(changes, @), !.status = "active",
                !.revision = @ + 1, !.digest = None, !.left = Life]

\* A draft found past its time is expired with its active batches; kept even
\* though the tool then fails.
ExpireBatches(c) ==
    [b \in Batches |-> IF batch[b].cs = c /\ batch[b].status = "active"
                       THEN Expired(batch[b]) ELSE batch[b]]
ExpireDraft(c) ==
    /\ Due(c)
    /\ cs' = [cs EXCEPT ![c] = Expired(@)]
    /\ batch' = ExpireBatches(c)
    /\ audit' = WithEvent(c, "expired")
    /\ UNCHANGED <<project, holder, view, upload>>

-----------------------------------------------------------------------------
(* The draft. *)

Expiring(p) == {c \in ChangeSets : cs[c].owner = p /\ Due(c)}
FoundUnsealed(p) ==     \* mutant
    {c \in ChangeSets : cs[c].owner = p /\ Mutable(c) /\ cs[c].status = "active"}
Found(p)    == {c \in ChangeSets : cs[c].owner = p /\ Mutable(c)}

NewRow(p) == [status |-> "active", owner |-> p, base |-> project.revision,
              draft |-> Blank, revision |-> 1, digest |-> None, left |-> Life]

Create(s, got) ==
    /\ MayWrite(s)
    /\ LET p == OwnerOf[s]
           swept == [c \in ChangeSets |-> IF c \in Expiring(p) THEN Expired(cs[c]) ELSE cs[c]]
           noted == [c \in ChangeSets |->
                        IF c \in Expiring(p) THEN [audit[c] EXCEPT !.last = "expired"]
                                             ELSE audit[c]]
           sweptBatches == [b \in Batches |->
                        IF batch[b].status = "active" /\ batch[b].cs \in Expiring(p)
                        THEN Expired(batch[b]) ELSE batch[b]]
           answer(c, row, known) ==
               IF got THEN [view EXCEPT ![s] = [cs |-> c, revision |-> row.revision,
                                                known |-> known, digest |-> None]]
                      ELSE view
       IN /\ batch' = sweptBatches
          /\ \/ \E c \in Found(p) :
                  /\ cs' = swept /\ audit' = noted
                  /\ view' = answer(c, cs[c], <<>>)
             \/ /\ Found(p) = {}
                /\ \E c \in ChangeSets :
                     /\ cs[c].status = "absent"
                     /\ cs' = [swept EXCEPT ![c] = NewRow(p)]
                     /\ audit' = [noted EXCEPT ![c].last = "created"]
                     /\ view' = answer(c, NewRow(p), Blank)
    /\ UNCHANGED <<project, holder, upload>>

\* get_project_change_set and its fingerprint need no Tenant Lock.  Nothing
\* is expired while the Project is locked.
Read(s, got) ==
    /\ Owned(s)
    /\ LET c == view[s].cs
           due == Due(c) /\ ~project.locked
       IN /\ cs' = [cs EXCEPT ![c] = IF due THEN Expired(@) ELSE @]
          /\ batch' = IF due THEN ExpireBatches(c) ELSE batch
          /\ audit' = IF due THEN WithEvent(c, "expired") ELSE audit
          /\ view' = IF got THEN [view EXCEPT ![s].revision = cs[c].revision,
                                              ![s].known = cs[c].draft]
                            ELSE view
    /\ UNCHANGED <<project, holder, upload>>

Stage(s, changes, got) ==
    /\ Owned(s) /\ MayWrite(s)
    /\ LET c == view[s].cs IN
       \/ ExpireDraft(c)
       \/ /\ Mutable(c) /\ Current(s)
          /\ cs[c].revision < MaxDraft
          /\ cs' = [cs EXCEPT ![c] = Staged(@, changes)]
          /\ audit' = WithEvent(c, "section_put")
          /\ view' = IF got
                     THEN [view EXCEPT ![s].revision = cs[c].revision + 1,
                                       ![s].known = Over(changes, @),
                                       ![s].digest = None]
                     ELSE view
          /\ UNCHANGED <<batch, project, holder, upload>>

-----------------------------------------------------------------------------
(* A batch of chunks. *)

BatchDue(b) == batch[b].status = "active" /\ batch[b].left = 0
OpenBatches(c, d) == {b \in Batches : batch[b].cs = c /\ batch[b].dataset = d
                                      /\ batch[b].status = "active" /\ batch[b].left > 0}

NewBatch(c, d, plan) ==
    [status |-> "active", cs |-> c, dataset |-> d, expected |-> cs[c].revision,
     plan |-> plan, chunks |-> [i \in 1..Len(plan) |-> NoPiece], committed |-> 0,
     left |-> cs[c].left]

Resumable(b, revision, plan) == batch[b].expected = revision /\ batch[b].plan = plan

Begin(s, d, plan, got) ==
    /\ Owned(s) /\ MayWrite(s)
    /\ plan # <<>>
    /\ LET c == view[s].cs
           swept == [b \in Batches |->
                        IF BatchDue(b) /\ batch[b].cs = c /\ batch[b].dataset = d
                        THEN Expired(batch[b]) ELSE batch[b]]
           answer(b) == IF got THEN [upload EXCEPT ![s] = [batch |-> b, plan |-> plan,
                                                           known |-> view[s].known]]
                               ELSE upload
       IN \/ ExpireDraft(c)
          \/ /\ Mutable(c) /\ Current(s)
             /\ \/ \E b \in OpenBatches(c, d) :
                     /\ Resumable(b, cs[c].revision, plan)
                     /\ batch' = swept /\ upload' = answer(b)
                \/ /\ OpenBatches(c, d) = {}
                   /\ \E b \in Batches :
                        /\ batch[b].status = "absent"
                        /\ batch' = [swept EXCEPT ![b] = NewBatch(c, d, plan)]
                        /\ upload' = answer(b)
             /\ UNCHANGED <<cs, project, holder, audit, view>>

ExpireBatch(b) ==
    /\ BatchDue(b)
    /\ batch' = [batch EXCEPT ![b] = Expired(@)]
    /\ UNCHANGED <<cs, project, holder, audit, view, upload>>

InBatch(s) == upload[s].batch # None /\ cs[batch[upload[s].batch].cs].owner = OwnerOf[s]

\* The client reads its file again for every chunk, so a chunk may hold
\* anything.  A chunk already stored is answered as a duplicate if it is the
\* same and refused otherwise; neither changes anything.
Put(s, i, piece) ==
    /\ InBatch(s) /\ MayWrite(s)
    /\ LET b == upload[s].batch
           c == batch[b].cs
       IN \/ ExpireDraft(c)
          \/ Mutable(c) /\ ExpireBatch(b)
          \/ /\ Mutable(c) /\ batch[b].status = "active" /\ batch[b].left > 0
             /\ cs[c].revision = batch[b].expected
             /\ i \in DOMAIN batch[b].chunks
             /\ batch[b].chunks[i] = NoPiece
             /\ batch' = [batch EXCEPT ![b].chunks[i] = piece]
             /\ UNCHANGED <<cs, project, holder, audit, view, upload>>

\* Every chunk arrived and their digests are those of the manifest.
Complete(b) == batch[b].chunks = batch[b].plan
AnyExpected(b)   == TRUE   \* mutant
StillExpected(b) == cs[batch[b].cs].revision = batch[b].expected

\* What a session knows after its batch was committed as revision n.
AfterCommit(s, n) ==
    LET b == upload[s].batch IN
    [view EXCEPT ![s] = [cs |-> batch[b].cs, revision |-> n,
                         known |-> Over([d \in {batch[b].dataset} |-> upload[s].plan],
                                        upload[s].known),
                         digest |-> None]]

Commit(s, got) ==
    /\ InBatch(s) /\ MayWrite(s)
    /\ LET b == upload[s].batch
           c == batch[b].cs
       IN \/ ExpireDraft(c)
          \/ Mutable(c) /\ ExpireBatch(b)
          \/ /\ Mutable(c) /\ batch[b].status = "committed"      \* replayed
             /\ got /\ view' = AfterCommit(s, batch[b].committed)
             /\ UNCHANGED <<cs, batch, project, holder, audit, upload>>
          \/ /\ Mutable(c) /\ batch[b].status = "active" /\ batch[b].left > 0
             /\ StillExpected(b) /\ Complete(b)
             /\ cs[c].revision < MaxDraft
             /\ cs' = [cs EXCEPT ![c] = Staged(@, [d \in {batch[b].dataset} |-> batch[b].chunks])]
             /\ batch' = [batch EXCEPT ![b].status = "committed",
                                       ![b].committed = cs[c].revision + 1]
             /\ audit' = WithEvent(c, "section_put")
             /\ view' = IF got THEN AfterCommit(s, cs[c].revision + 1) ELSE view
             /\ UNCHANGED <<project, holder, upload>>

-----------------------------------------------------------------------------
(* Validation, Apply and Archive. *)

\* Whether the future graph is valid depends on the saved graph and on data
\* outside the Project revision, so it may differ from one check to the next;
\* the digest is of the staged records alone.
VerdictsAnyBase(c) == BOOLEAN   \* mutant
Verdicts(c) == IF cs[c].base = project.revision THEN BOOLEAN ELSE {FALSE}

Validate(s, valid, got) ==
    /\ Owned(s) /\ MayWrite(s)
    /\ LET c == view[s].cs
           digest == IF valid THEN cs[c].draft ELSE None
       IN \/ ExpireDraft(c)
          \/ /\ Mutable(c) /\ Current(s) /\ valid \in Verdicts(c)
             /\ cs' = [cs EXCEPT ![c].status = IF valid THEN "validated" ELSE "active",
                                 ![c].digest = digest, ![c].left = Life]
             /\ audit' = WithEvent(c, IF valid THEN "validated" ELSE "validation_failed")
             /\ view' = IF got THEN [view EXCEPT ![s].digest = digest] ELSE view
             /\ UNCHANGED <<batch, project, holder, upload>>

ApprovedAnyDigest(s, c) == Current(s)   \* mutant
Approved(s, c) == view[s].digest = cs[c].digest /\ Current(s)

Apply(s) ==
    /\ Owned(s) /\ MayWrite(s)
    /\ LET c == view[s].cs IN
       \/ ExpireDraft(c)
       \/ /\ Mutable(c) /\ cs[c].status = "validated"
          /\ Approved(s, c)
          /\ TRUE \in Verdicts(c) /\ cs[c].digest = cs[c].draft   \* validated again
          /\ LET moves == IF cs[c].draft = Blank THEN 0 ELSE 1 IN
             /\ project.revision + moves <= MaxRevision
             /\ project' = [project EXCEPT !.revision = @ + moves]
          /\ cs' = [cs EXCEPT ![c].status = "applied"]
          /\ audit' = WithEvent(c, "applied")
          /\ UNCHANGED <<batch, holder, view, upload>>

Archive(s) ==
    /\ Owned(s) /\ ~project.locked
    /\ LET c == view[s].cs IN
       \/ ExpireDraft(c)
       \/ /\ Mutable(c) /\ Current(s)
          /\ cs' = [cs EXCEPT ![c].status = "discarded"]
          /\ audit' = WithEvent(c, "discarded")
          /\ UNCHANGED <<batch, project, holder, view, upload>>

-----------------------------------------------------------------------------
(* The rest of the system. *)

\* A session that restarts forgets what it knew.
Forget(s) ==
    /\ view[s] # NoView
    /\ view' = [view EXCEPT ![s] = NoView]
    /\ upload' = [upload EXCEPT ![s] = NoUpload]
    /\ UNCHANGED <<cs, batch, project, holder, audit>>

\* The Tenant Lock changes hands, the Project is locked or opened.
Govern ==
    /\ \/ holder' \in Principals \cup {NoOne} /\ holder' # holder /\ UNCHANGED project
       \/ project' = [project EXCEPT !.locked = ~@] /\ UNCHANGED holder
    /\ UNCHANGED <<cs, batch, audit, view, upload>>

\* A Workflow Run's draft is applied to the same Project.
ApplyElsewhere ==
    /\ ~project.locked /\ project.revision < MaxRevision
    /\ project' = [project EXCEPT !.revision = @ + 1]
    /\ UNCHANGED <<cs, batch, holder, audit, view, upload>>

Tick ==
    /\ \E c \in ChangeSets : Mutable(c)
    /\ cs' = [c \in ChangeSets |->
                 IF Mutable(c) THEN [cs[c] EXCEPT !.left = @ - 1] ELSE cs[c]]
    /\ batch' = [b \in Batches |->
                 IF batch[b].status = "active" /\ batch[b].left > 0
                 THEN [batch[b] EXCEPT !.left = @ - 1] ELSE batch[b]]
    /\ UNCHANGED <<project, holder, audit, view, upload>>

-----------------------------------------------------------------------------
Init ==
    /\ cs = [c \in ChangeSets |->
                [status |-> "absent", owner |-> NoOne, base |-> 0, draft |-> Blank,
                 revision |-> 0, digest |-> None, left |-> 0]]
    /\ batch = [b \in Batches |->
                [status |-> "absent", cs |-> None, dataset |-> None, expected |-> 0,
                 plan |-> <<>>, chunks |-> <<>>, committed |-> 0, left |-> 0]]
    /\ project = [revision |-> 1, locked |-> FALSE]
    /\ holder = NoOne
    /\ audit = [c \in ChangeSets |-> [puts |-> 0, last |-> "none"]]
    /\ view = [s \in Sessions |-> NoView]
    /\ upload = [s \in Sessions |-> NoUpload]

Next ==
    \/ \E s \in Sessions, got \in BOOLEAN :
          \/ Create(s, got) \/ Read(s, got) \/ Commit(s, got)
          \/ \E changes \in Partial \ {<<>>} : Stage(s, changes, got)
          \/ \E d \in Datasets, plan \in Contents : Begin(s, d, plan, got)
          \/ \E valid \in BOOLEAN : Validate(s, valid, got)
    \/ \E s \in Sessions :
          \/ \E b \in Batches, piece \in Pieces :
                \E i \in DOMAIN batch[b].chunks : Put(s, i, piece)
          \/ Apply(s) \/ Archive(s) \/ Forget(s)
    \/ Govern \/ ApplyElsewhere \/ Tick

Spec == Init /\ [][Next]_vars

-----------------------------------------------------------------------------
(* Properties. *)

TypeOK ==
    /\ cs \in [ChangeSets -> ChangeSetRow]
    /\ batch \in [Batches -> BatchRow]
    /\ project \in [revision : Nat \ {0}, locked : BOOLEAN]
    /\ holder \in Principals \cup {NoOne}
    /\ audit \in [ChangeSets -> [puts : Nat, last : Kinds]]
    /\ view \in [Sessions -> View]
    /\ upload \in [Sessions -> Upload]

\* A draft revision identifies its content: a session that is answered the
\* revision of its stage, of its batch (even replayed after a lost answer) or
\* of its read knows, for as long as that revision is current, exactly what
\* the draft holds in every dataset it sent or read.  So no session ever
\* replaces records put by another session since it looked.
ViewsAreTrue ==
    \A s \in Sessions :
        (view[s].cs # None /\ view[s].revision = cs[view[s].cs].revision)
            => \A d \in DOMAIN view[s].known : cs[view[s].cs].draft[d] = view[s].known[d]

\* A draft that is validated or applied carries the digest of the records it
\* holds now, not of records it held before a later stage.
SealMatchesDraft ==
    \A c \in ChangeSets :
        cs[c].status \in {"validated", "applied"} => cs[c].digest = cs[c].draft

\* create_project_change_set resumes: a Principal never has two ongoing
\* drafts of the Project.
OneOngoing ==
    \A p \in Principals : Cardinality(Found(p)) <= 1

\* The event log replays to the row: one section_put per revision after the
\* first, and the last event tells the status.
AuditTellsDraft ==
    \A c \in ChangeSets :
        cs[c].status # "absent" =>
            /\ cs[c].revision = audit[c].puts + 1
            /\ CASE cs[c].status = "active" ->
                       audit[c].last \in {"created", "section_put", "validation_failed"}
                 [] OTHER -> audit[c].last = cs[c].status

\* What is applied is what somebody was told is valid: in the step that
\* applies a draft a session of its owner holds its digest.
AppliedAsApproved ==
    [][\A c \in ChangeSets :
          (cs'[c].status = "applied" /\ cs[c].status # "applied") =>
              \E s \in Sessions : /\ OwnerOf[s] = cs[c].owner /\ view[s].cs = c
                                  /\ view[s].digest = cs'[c].draft]_vars

EndOf(c) == CASE cs[c].status = "applied" -> "applied"
              [] cs[c].status \in {"expired", "discarded"} -> "closed"
              [] OTHER -> "open"

\* The tools implement the promise of ProjectDraft.
Promise == INSTANCE ProjectDraft WITH
    NoDraft <- None,
    draft <- [c \in ChangeSets |-> cs[c].draft],
    number <- [c \in ChangeSets |-> cs[c].revision],
    seal <- [c \in ChangeSets |-> cs[c].digest],
    base <- [c \in ChangeSets |-> cs[c].base],
    end <- [c \in ChangeSets |-> EndOf(c)],
    revision <- project.revision

ImplementsProjectDraft == Promise!Spec
=============================================================================
