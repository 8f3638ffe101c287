--------------------------- MODULE ChangeSetProofs ---------------------------
(***************************************************************************)
(* For any drafts, batches, clients, Principals, datasets and lifetimes:   *)
(* the types, what a revision and a seal say of a draft, and the           *)
(* implementation of ProjectDraft.                                         *)
(***************************************************************************)
EXTENDS ChangeSet, FiniteSetTheorems, TLAPS

-----------------------------------------------------------------------------
(* The inductive invariant. *)

\* Two partial drafts hold the same in what the second knows.
Agrees(draft, known) == \A d \in DOMAIN known : draft[d] = known[d]

\* A row that was never created is blank; the others have a first revision
\* and an owner.
RowsMade ==
    \A c \in ChangeSets :
        IF cs[c].status = "absent"
        THEN /\ cs[c].draft = Blank /\ cs[c].revision = 0 /\ cs[c].digest = None
             /\ cs[c].base = 0 /\ audit[c].puts = 0
        ELSE cs[c].revision >= 1 /\ cs[c].owner \in Principals

\* A Principal has no two ongoing drafts.
AtMostOne == \A p \in Principals : \A c, d \in Found(p) : c = d

\* No client knows a revision that the draft has not reached.
Behind ==
    \A s \in Sessions : view[s].cs # None =>
        1 <= view[s].revision /\ view[s].revision <= cs[view[s].cs].revision

\* A batch belongs to a draft that was made, and was begun at a revision of
\* it; the one it was committed as is the next.
BatchesLinked ==
    \A b \in Batches : batch[b].status # "absent" =>
        /\ batch[b].cs \in ChangeSets /\ batch[b].dataset \in Datasets
        /\ 1 <= batch[b].expected /\ batch[b].expected <= cs[batch[b].cs].revision
        /\ batch[b].status = "committed" =>
              /\ batch[b].committed = batch[b].expected + 1
              /\ batch[b].committed <= cs[batch[b].cs].revision

\* A client that sends a batch sends the one of its manifest; what it knew at
\* the start is true of the draft until the revision moves on, and what it
\* will know after the commit is true from the commit on.
UploadsAreTrue ==
    \A s \in Sessions : upload[s].batch # None =>
        LET b == upload[s].batch
            row == cs[batch[b].cs]
            sent == [d \in {batch[b].dataset} |-> upload[s].plan]
        IN /\ batch[b].status # "absent" /\ batch[b].plan = upload[s].plan
           /\ row.revision = batch[b].expected => Agrees(row.draft, upload[s].known)
           /\ (batch[b].status = "committed" /\ row.revision = batch[b].committed)
                 => Agrees(row.draft, Over(sent, upload[s].known))

IInv == /\ TypeOK /\ RowsMade /\ AtMostOne /\ SealMatchesDraft /\ AuditTellsDraft
        /\ Behind /\ ViewsAreTrue /\ BatchesLinked /\ UploadsAreTrue

-----------------------------------------------------------------------------
(* Datasets that are replaced. *)

\* A partial draft holds contents for some of the datasets.
LEMMA PartialDef ==
    ASSUME NEW f \in Partial
    PROVE  f \in [DOMAIN f -> Contents] /\ DOMAIN f \subseteq Datasets
  BY DEF Partial

\* Replacing datasets of a partial draft gives a partial draft, in which the
\* replaced ones hold what was sent and the others what they held.
LEMMA OverPartial ==
    ASSUME NEW f \in Partial, NEW g \in Partial
    PROVE  /\ Over(g, f) \in Partial
           /\ DOMAIN Over(g, f) = DOMAIN f \cup DOMAIN g
           /\ \A d \in DOMAIN g : Over(g, f)[d] = g[d]
           /\ \A d \in DOMAIN f \ DOMAIN g : Over(g, f)[d] = f[d]
  <1>1. /\ f \in [DOMAIN f -> Contents] /\ DOMAIN f \subseteq Datasets
        /\ g \in [DOMAIN g -> Contents] /\ DOMAIN g \subseteq Datasets
    BY PartialDef
  <1>2. Over(g, f) \in [DOMAIN f \cup DOMAIN g -> Contents]
    BY <1>1 DEF Over
  <1>3. DOMAIN f \cup DOMAIN g \in SUBSET Datasets
    BY <1>1
  <1>4. Over(g, f) \in Partial
    BY <1>2, <1>3 DEF Partial
  <1>5. QED
    BY <1>4 DEF Over

\* A draft is partial too, and stays a whole draft when datasets of it are
\* replaced.
LEMMA OverDraft ==
    ASSUME NEW f \in Drafts, NEW g \in Partial
    PROVE  f \in Partial /\ Over(g, f) \in Drafts
  <1>1. f \in Partial
    BY DEF Drafts, Partial
  <1>2. DOMAIN f = Datasets /\ DOMAIN g \subseteq Datasets
    BY PartialDef DEF Drafts
  <1>3. Over(g, f) \in Partial /\ DOMAIN Over(g, f) = Datasets
    BY <1>1, <1>2, OverPartial
  <1>4. QED
    BY <1>1, <1>3, PartialDef DEF Drafts

\* A whole draft is a partial one.
LEMMA DraftPartial == Drafts \subseteq Partial
  BY DEF Drafts, Partial

\* One dataset alone is a partial draft, and so is the draft that knows nothing.
LEMMA OnePartial ==
    ASSUME NEW d \in Datasets, NEW records \in Contents
    PROVE  [e \in {d} |-> records] \in Partial
  <1>1. {d} \in SUBSET Datasets /\ [e \in {d} |-> records] \in [{d} -> Contents]
    OBVIOUS
  <1>2. QED
    BY <1>1 DEF Partial

\* A client that knows nothing of a draft has a partial draft.
LEMMA NonePartial == <<>> \in Partial
  <1>1. <<>> \in [{} -> Contents]
    OBVIOUS
  <1>2. QED
    BY <1>1 DEF Partial

\* A new draft is blank, and blank is a draft.
LEMMA BlankDraft == Blank \in Drafts /\ Blank \in Partial
  BY ConstantsAssumption DEF Blank, Drafts, Partial

-----------------------------------------------------------------------------
(* Types. *)

\* What a tool writes into a Change Set row is a Change Set row.
LEMMA RowTypes ==
    ASSUME NEW row \in ChangeSetRow
    PROVE  /\ Expired(row) \in ChangeSetRow
           /\ \A changes \in Partial : Staged(row, changes) \in ChangeSetRow
           /\ \A digest \in Drafts \cup {None}, status \in Ongoing :
                 [row EXCEPT !.status = status, !.digest = digest, !.left = Life] \in ChangeSetRow
           /\ \A status \in Ended : [row EXCEPT !.status = status] \in ChangeSetRow
           /\ row.left > 0 => [row EXCEPT !.left = @ - 1] \in ChangeSetRow
  <1>0. Life \in 0..Life
    BY ConstantsAssumption
  <1>1. Expired(row) \in ChangeSetRow
    BY DEF Expired, ChangeSetRow, Ended
  <1>2. ASSUME NEW changes \in Partial PROVE Staged(row, changes) \in ChangeSetRow
    <2>1. Over(changes, row.draft) \in Drafts
      BY OverDraft DEF ChangeSetRow
    <2>2. row.revision \in Nat /\ row.revision + 1 \in Nat
      BY DEF ChangeSetRow
    <2>3. QED
      BY <1>0, <2>1, <2>2 DEF Staged, ChangeSetRow, Ongoing
  <1>3. ASSUME NEW digest \in Drafts \cup {None}, NEW status \in Ongoing
        PROVE  [row EXCEPT !.status = status, !.digest = digest, !.left = Life] \in ChangeSetRow
    BY <1>0 DEF ChangeSetRow
  <1>4. ASSUME NEW status \in Ended PROVE [row EXCEPT !.status = status] \in ChangeSetRow
    BY DEF ChangeSetRow
  <1>5. row.left > 0 => [row EXCEPT !.left = @ - 1] \in ChangeSetRow
    <2>1. row.left \in 0..Life /\ Life \in Nat
      BY ConstantsAssumption DEF ChangeSetRow
    <2>2. row.left > 0 => row.left - 1 \in 0..Life
      BY <2>1
    <2>3. QED
      BY <2>2 DEF ChangeSetRow
  <1>6. QED
    BY <1>1, <1>2, <1>3, <1>4, <1>5

\* A new draft is a Change Set row.
LEMMA NewRowType ==
    ASSUME TypeOK, NEW p \in Principals
    PROVE  NewRow(p) \in ChangeSetRow
  BY ConstantsAssumption, BlankDraft DEF TypeOK, NewRow, ChangeSetRow, Ongoing

\* A batch row that is expired is a batch row.
LEMMA ExpiredRowType ==
    ASSUME NEW row \in BatchRow
    PROVE  Expired(row) \in BatchRow
  BY DEF Expired, BatchRow

\* A batch that is expired, as all the batches of a draft that is, is a batch.
LEMMA ExpiredBatchTypes ==
    ASSUME TypeOK
    PROVE  /\ \A b \in Batches : Expired(batch[b]) \in BatchRow
           /\ \A c \in ChangeSets : ExpireBatches(c) \in [Batches -> BatchRow]
  <1>1. batch \in [Batches -> BatchRow]
    BY DEF TypeOK
  <1>2. ASSUME NEW b \in Batches PROVE Expired(batch[b]) \in BatchRow
    BY <1>1, ExpiredRowType
  <1>3. QED
    BY <1>1, <1>2 DEF ExpireBatches

\* A batch just begun, without chunks yet.
LEMMA NewBatchType ==
    ASSUME TypeOK, NEW c \in ChangeSets, NEW d \in Datasets, NEW plan \in Contents
    PROVE  NewBatch(c, d, plan) \in BatchRow
  <1>1. Len(plan) \in Nat
    BY ConstantsAssumption
  <1>2. [i \in 1..Len(plan) |-> NoPiece] \in Seq(Pieces \cup {NoPiece})
    BY <1>1
  <1>3. cs[c].revision \in Nat /\ cs[c].left \in 0..Life
    BY DEF TypeOK, ChangeSetRow
  <1>4. QED
    BY <1>2, <1>3 DEF NewBatch, BatchRow

\* The event log of a draft with one more event.
LEMMA EventTypes ==
    ASSUME TypeOK, NEW c \in ChangeSets, NEW kind \in Kinds
    PROVE  /\ WithEvent(c, kind) \in [ChangeSets -> [puts : Nat, last : Kinds]]
           /\ WithEvent(c, kind)[c].last = kind
           /\ WithEvent(c, kind)[c].puts =
                 IF kind = "section_put" THEN audit[c].puts + 1 ELSE audit[c].puts
           /\ \A e \in ChangeSets \ {c} : WithEvent(c, kind)[e] = audit[e]
  <1> DEFINE more == IF kind = "section_put" THEN 1 ELSE 0
  <1> DEFINE row  == [audit[c] EXCEPT !.last = kind, !.puts = @ + more]
  <1>1. audit[c] \in [puts : Nat, last : Kinds]
    BY DEF TypeOK
  <1>2. more \in Nat
    OBVIOUS
  <1>3. row \in [puts : Nat, last : Kinds] /\ row.last = kind /\ row.puts = audit[c].puts + more
    <2>1. audit[c].puts + more \in Nat
      BY <1>1, <1>2
    <2>2. QED
      BY <1>1, <2>1
  <1>4. WithEvent(c, kind) = [audit EXCEPT ![c] = row]
    BY DEF WithEvent, TypeOK
  <1>5. QED
    BY <1>1, <1>3, <1>4 DEF TypeOK

\* A session that owns the draft it looks at.
LEMMA OwnedDraft ==
    ASSUME TypeOK, NEW s \in Sessions, Owned(s)
    PROVE  view[s].cs \in ChangeSets
  BY DEF Owned, TypeOK, View

\* Expiring a draft, whatever tool meets it, keeps the types.
LEMMA ExpireDraftTypes ==
    ASSUME TypeOK, NEW c \in ChangeSets, ExpireDraft(c)
    PROVE  TypeOK'
  <1>1. cs' \in [ChangeSets -> ChangeSetRow]
    BY RowTypes DEF ExpireDraft, TypeOK
  <1>2. batch' \in [Batches -> BatchRow]
    BY ExpiredBatchTypes DEF ExpireDraft
  <1>3. audit' \in [ChangeSets -> [puts : Nat, last : Kinds]]
    BY EventTypes DEF ExpireDraft, Kinds
  <1>4. QED
    BY <1>1, <1>2, <1>3 DEF TypeOK, ExpireDraft

\* What a session is told, and what it sends, keep their types.
LEMMA ViewTypes ==
    ASSUME TypeOK, NEW s \in Sessions
    PROVE  /\ \A v \in View : [view EXCEPT ![s] = v] \in [Sessions -> View]
           /\ \A u \in Upload : [upload EXCEPT ![s] = u] \in [Sessions -> Upload]
           /\ \A n \in Nat, known \in Partial :
                 [view EXCEPT ![s].revision = n, ![s].known = known] \in [Sessions -> View]
           /\ \A n \in Nat, known \in Partial :
                 [view EXCEPT ![s].revision = n, ![s].known = known, ![s].digest = None]
                    \in [Sessions -> View]
           /\ \A digest \in Drafts \cup {None} :
                 [view EXCEPT ![s].digest = digest] \in [Sessions -> View]
  <1>1. /\ view \in [Sessions -> View] /\ view[s] \in View
        /\ upload \in [Sessions -> Upload]
    BY DEF TypeOK
  <1>2. \A v \in View : [view EXCEPT ![s] = v] \in [Sessions -> View]
    BY <1>1
  <1>3. \A u \in Upload : [upload EXCEPT ![s] = u] \in [Sessions -> Upload]
    BY <1>1
  <1>4. ASSUME NEW n \in Nat, NEW known \in Partial
        PROVE  [view[s] EXCEPT !.revision = n, !.known = known] \in View
    BY <1>1 DEF View
  <1>5. ASSUME NEW n \in Nat, NEW known \in Partial
        PROVE  [view[s] EXCEPT !.revision = n, !.known = known, !.digest = None] \in View
    BY <1>1 DEF View
  <1>6. ASSUME NEW digest \in Drafts \cup {None}
        PROVE  [view[s] EXCEPT !.digest = digest] \in View
    BY <1>1 DEF View
  <1>7. ASSUME NEW n \in Nat, NEW known \in Partial
        PROVE  [view EXCEPT ![s].revision = n, ![s].known = known] \in [Sessions -> View]
    <2>1. [view EXCEPT ![s].revision = n, ![s].known = known]
             = [view EXCEPT ![s] = [view[s] EXCEPT !.revision = n, !.known = known]]
      BY <1>1
    <2>2. QED
      BY <1>2, <1>4, <2>1
  <1>8. ASSUME NEW n \in Nat, NEW known \in Partial
        PROVE  [view EXCEPT ![s].revision = n, ![s].known = known, ![s].digest = None]
                  \in [Sessions -> View]
    <2>1. [view EXCEPT ![s].revision = n, ![s].known = known, ![s].digest = None]
             = [view EXCEPT ![s] = [view[s] EXCEPT !.revision = n, !.known = known,
                                                   !.digest = None]]
      BY <1>1
    <2>2. QED
      BY <1>2, <1>5, <2>1
  <1>9. ASSUME NEW digest \in Drafts \cup {None}
        PROVE  [view EXCEPT ![s].digest = digest] \in [Sessions -> View]
    BY <1>1, <1>2, <1>6
  <1>10. QED
    BY <1>2, <1>3, <1>7, <1>8, <1>9

\* create_project_change_set keeps the types.
LEMMA CreateTypes ==
    ASSUME TypeOK, NEW s \in Sessions, NEW got \in BOOLEAN, Create(s, got)
    PROVE  TypeOK'
  <1> DEFINE p == OwnerOf[s]
             swept == [c \in ChangeSets |-> IF c \in Expiring(p) THEN Expired(cs[c]) ELSE cs[c]]
             noted == [c \in ChangeSets |->
                        IF c \in Expiring(p) THEN [audit[c] EXCEPT !.last = "expired"]
                                             ELSE audit[c]]
  <1>1. p \in Principals
    BY ConstantsAssumption
  <1>2. swept \in [ChangeSets -> ChangeSetRow]
    BY RowTypes DEF TypeOK
  <1>3. noted \in [ChangeSets -> [puts : Nat, last : Kinds]]
    BY DEF TypeOK, Kinds
  <1>4. batch' \in [Batches -> BatchRow]
    BY ExpiredBatchTypes DEF Create, TypeOK
  <1>5. cs' \in [ChangeSets -> ChangeSetRow] /\ audit' \in [ChangeSets -> [puts : Nat, last : Kinds]]
    <2>1. CASE cs' = swept /\ audit' = noted
      BY <2>1, <1>2, <1>3
    <2>2. CASE \E c \in ChangeSets : /\ cs' = [swept EXCEPT ![c] = NewRow(p)]
                                     /\ audit' = [noted EXCEPT ![c].last = "created"]
      <3>1. NewRow(p) \in ChangeSetRow
        BY <1>1, NewRowType
      <3> HIDE DEF swept, noted, p
      <3>2. QED
        BY <2>2, <1>2, <1>3, <3>1 DEF Kinds
    <2>3. QED
      BY <2>1, <2>2 DEF Create
  <1>6. view' \in [Sessions -> View]
    <2>1. ASSUME NEW c \in ChangeSets, NEW row \in ChangeSetRow, NEW known \in Partial
          PROVE  [cs |-> c, revision |-> row.revision, known |-> known, digest |-> None] \in View
      BY DEF View, ChangeSetRow
    <2>2. ASSUME NEW c \in Found(p),
                 view' = IF got THEN [view EXCEPT ![s] = [cs |-> c, revision |-> cs[c].revision,
                                                          known |-> <<>>, digest |-> None]]
                                ELSE view
          PROVE  view' \in [Sessions -> View]
      <3>1. c \in ChangeSets /\ cs[c] \in ChangeSetRow
        BY DEF Found, TypeOK
      <3>2. [cs |-> c, revision |-> cs[c].revision, known |-> <<>>, digest |-> None] \in View
        BY <2>1, <3>1, NonePartial
      <3>3. QED
        BY <2>2, <3>2, ViewTypes DEF TypeOK
    <2>3. ASSUME NEW c \in ChangeSets,
                 view' = IF got THEN [view EXCEPT ![s] = [cs |-> c, revision |-> NewRow(p).revision,
                                                          known |-> Blank, digest |-> None]]
                                ELSE view
          PROVE  view' \in [Sessions -> View]
      <3>1. NewRow(p) \in ChangeSetRow
        BY <1>1, NewRowType
      <3>2. [cs |-> c, revision |-> NewRow(p).revision, known |-> Blank, digest |-> None] \in View
        BY <2>1, <3>1, BlankDraft
      <3>3. QED
        BY <2>3, <3>2, ViewTypes DEF TypeOK
    <2>4. QED
      BY <2>2, <2>3 DEF Create
  <1>7. QED
    BY <1>4, <1>5, <1>6 DEF TypeOK, Create

\* The reads keep the types.
LEMMA ReadTypes ==
    ASSUME TypeOK, NEW s \in Sessions, NEW got \in BOOLEAN, Read(s, got)
    PROVE  TypeOK'
  <1> DEFINE c == view[s].cs
  <1>1. c \in ChangeSets
    BY OwnedDraft DEF Read
  <1>2. cs' \in [ChangeSets -> ChangeSetRow]
    BY <1>1, RowTypes DEF Read, TypeOK
  <1>3. batch' \in [Batches -> BatchRow]
    BY <1>1, ExpiredBatchTypes DEF Read, TypeOK
  <1>4. audit' \in [ChangeSets -> [puts : Nat, last : Kinds]]
    BY <1>1, EventTypes DEF Read, TypeOK, Kinds
  <1>5. view' \in [Sessions -> View]
    <2>1. cs[c].revision \in Nat /\ cs[c].draft \in Drafts
      BY <1>1 DEF TypeOK, ChangeSetRow
    <2>2. QED
      BY <2>1, DraftPartial, ViewTypes DEF Read, TypeOK
  <1>6. QED
    BY <1>2, <1>3, <1>4, <1>5 DEF TypeOK, Read

\* stage_project_change_set keeps the types.
LEMMA StageTypes ==
    ASSUME TypeOK, NEW s \in Sessions, NEW got \in BOOLEAN, NEW changes \in Partial,
           Stage(s, changes, got)
    PROVE  TypeOK'
  <1> DEFINE c == view[s].cs
  <1>1. c \in ChangeSets
    BY OwnedDraft DEF Stage
  <1>2. CASE ExpireDraft(c)
    BY <1>1, <1>2, ExpireDraftTypes
  <1>3. CASE ~ExpireDraft(c)
    <2>1. cs' \in [ChangeSets -> ChangeSetRow]
      <3>1. cs' = [cs EXCEPT ![c] = Staged(cs[c], changes)]
        BY <1>1, <1>3 DEF Stage, TypeOK
      <3>2. cs[c] \in ChangeSetRow
        BY <1>1 DEF TypeOK
      <3>3. QED
        BY <1>1, <3>1, <3>2, RowTypes DEF TypeOK
    <2>2. audit' \in [ChangeSets -> [puts : Nat, last : Kinds]]
      BY <1>1, <1>3, EventTypes DEF Stage, Kinds
    <2>3. view' \in [Sessions -> View]
      <3>1. cs[c].revision + 1 \in Nat
        BY <1>1 DEF TypeOK, ChangeSetRow
      <3>2. Over(changes, view[s].known) \in Partial
        BY OverPartial DEF TypeOK, View
      <3>3. view' = IF got THEN [view EXCEPT ![s].revision = cs[c].revision + 1,
                                             ![s].known = Over(changes, view[s].known),
                                             ![s].digest = None]
                           ELSE view
        BY <1>3 DEF Stage, TypeOK
      <3>4. QED
        BY <3>1, <3>2, <3>3, ViewTypes DEF TypeOK
    <2>4. QED
      BY <1>3, <2>1, <2>2, <2>3 DEF TypeOK, Stage
  <1>4. QED
    BY <1>2, <1>3

\* begin_project_stage_batch keeps the types.
LEMMA BeginTypes ==
    ASSUME TypeOK, NEW s \in Sessions, NEW got \in BOOLEAN, NEW d \in Datasets,
           NEW plan \in Contents, Begin(s, d, plan, got)
    PROVE  TypeOK'
  <1> DEFINE c == view[s].cs
             swept == [b \in Batches |->
                        IF BatchDue(b) /\ batch[b].cs = c /\ batch[b].dataset = d
                        THEN Expired(batch[b]) ELSE batch[b]]
  <1>1. c \in ChangeSets
    BY OwnedDraft DEF Begin
  <1>2. CASE ExpireDraft(c)
    BY <1>1, <1>2, ExpireDraftTypes
  <1>3. CASE ~ExpireDraft(c)
    <2>1. swept \in [Batches -> BatchRow]
      BY ExpiredBatchTypes DEF TypeOK
    <2>2. NewBatch(c, d, plan) \in BatchRow
      BY <1>1, NewBatchType
    <2>3. PICK b \in Batches :
             /\ batch' \in {swept, [swept EXCEPT ![b] = NewBatch(c, d, plan)]}
             /\ upload' = IF got THEN [upload EXCEPT ![s] = [batch |-> b, plan |-> plan,
                                                             known |-> view[s].known]]
                                 ELSE upload
             /\ UNCHANGED <<cs, project, holder, audit, view>>
      BY <1>3 DEF Begin, OpenBatches
    <2>4. batch' \in [Batches -> BatchRow]
      <3> HIDE DEF swept, c
      <3>1. QED
        BY <2>1, <2>2, <2>3
    <2>5. upload' \in [Sessions -> Upload]
      <3>1. [batch |-> b, plan |-> plan, known |-> view[s].known] \in Upload
        BY DEF TypeOK, View, Upload
      <3>2. QED
        BY <2>3, <3>1, ViewTypes DEF TypeOK
    <2>6. QED
      BY <2>3, <2>4, <2>5 DEF TypeOK
  <1>4. QED
    BY <1>2, <1>3

\* The batch that a client sends, and its draft, exist.
LEMMA SentBatch ==
    ASSUME IInv, NEW s \in Sessions, InBatch(s)
    PROVE  /\ upload[s].batch \in Batches
           /\ batch[upload[s].batch].status # "absent"
           /\ batch[upload[s].batch].cs \in ChangeSets
           /\ batch[upload[s].batch].dataset \in Datasets
  <1>1. upload[s].batch \in Batches
    BY DEF IInv, TypeOK, InBatch, Upload
  <1>2. batch[upload[s].batch].status # "absent"
    BY DEF IInv, InBatch, UploadsAreTrue
  <1>3. QED
    BY <1>1, <1>2 DEF IInv, BatchesLinked

\* A batch found past its time is expired, and that keeps the types.
LEMMA ExpireBatchTypes ==
    ASSUME TypeOK, NEW b \in Batches, ExpireBatch(b)
    PROVE  TypeOK'
  <1>1. batch' \in [Batches -> BatchRow]
    BY ExpiredBatchTypes DEF ExpireBatch, TypeOK
  <1>2. QED
    BY <1>1 DEF ExpireBatch, TypeOK

\* put_project_stage_chunk keeps the types.
LEMMA PutTypes ==
    ASSUME IInv, NEW s \in Sessions, NEW i, NEW piece \in Pieces, Put(s, i, piece)
    PROVE  TypeOK'
  <1> DEFINE b == upload[s].batch
             c == batch[b].cs
  <1>1. b \in Batches /\ c \in ChangeSets /\ TypeOK
    BY SentBatch DEF Put, IInv
  <1>2. CASE ExpireDraft(c)
    BY <1>1, <1>2, ExpireDraftTypes
  <1>3. CASE ExpireBatch(b)
    BY <1>1, <1>3, ExpireBatchTypes
  <1>4. CASE ~ExpireDraft(c) /\ ~ExpireBatch(b)
    <2>1. /\ i \in DOMAIN batch[b].chunks
          /\ batch' = [batch EXCEPT ![b].chunks[i] = piece]
          /\ UNCHANGED <<cs, project, holder, audit, view, upload>>
      BY <1>4 DEF Put
    <2>2. batch[b] \in BatchRow /\ batch[b].chunks \in Seq(Pieces \cup {NoPiece})
      BY <1>1 DEF TypeOK, BatchRow
    <2>3. [batch[b].chunks EXCEPT ![i] = piece] \in Seq(Pieces \cup {NoPiece})
      BY <2>1, <2>2
    <2>4. [batch[b] EXCEPT !.chunks = [batch[b].chunks EXCEPT ![i] = piece]] \in BatchRow
      BY <2>2, <2>3 DEF BatchRow
    <2>5. batch' = [batch EXCEPT ![b] =
                       [batch[b] EXCEPT !.chunks = [batch[b].chunks EXCEPT ![i] = piece]]]
      BY <1>1, <2>1 DEF TypeOK
    <2>6. batch' \in [Batches -> BatchRow]
      BY <1>1, <2>4, <2>5 DEF TypeOK
    <2>7. QED
      BY <1>1, <2>1, <2>6 DEF TypeOK
  <1>5. QED
    BY <1>2, <1>3, <1>4

\* What a client is told by a commit is a view of the draft.
LEMMA AfterCommitType ==
    ASSUME IInv, NEW s \in Sessions, InBatch(s), NEW n \in Nat
    PROVE  AfterCommit(s, n) \in [Sessions -> View]
  <1> DEFINE b == upload[s].batch
             sent == [d \in {batch[b].dataset} |-> upload[s].plan]
  <1>1. b \in Batches /\ batch[b].cs \in ChangeSets /\ batch[b].dataset \in Datasets /\ TypeOK
    BY SentBatch DEF IInv
  <1>2. upload[s].plan \in Contents /\ upload[s].known \in Partial
    BY <1>1 DEF TypeOK, Upload
  <1>3. sent \in Partial
    BY <1>1, <1>2, OnePartial
  <1>4. Over(sent, upload[s].known) \in Partial
    BY <1>2, <1>3, OverPartial
  <1>5. [cs |-> batch[b].cs, revision |-> n, known |-> Over(sent, upload[s].known),
         digest |-> None] \in View
    BY <1>1, <1>4 DEF View
  <1>6. QED
    BY <1>1, <1>5, ViewTypes DEF AfterCommit

\* commit_project_stage_batch keeps the types.
LEMMA CommitTypes ==
    ASSUME IInv, NEW s \in Sessions, NEW got \in BOOLEAN, Commit(s, got)
    PROVE  TypeOK'
  <1> DEFINE b == upload[s].batch
             c == batch[b].cs
             one == [d \in {batch[b].dataset} |-> batch[b].chunks]
  <1>1. b \in Batches /\ c \in ChangeSets /\ batch[b].dataset \in Datasets /\ TypeOK
    BY SentBatch DEF Commit, IInv
  <1>2. InBatch(s)
    BY DEF Commit
  <1>3. CASE ExpireDraft(c)
    BY <1>1, <1>3, ExpireDraftTypes
  <1>4. CASE ExpireBatch(b)
    BY <1>1, <1>4, ExpireBatchTypes
  <1>5. CASE view' = AfterCommit(s, batch[b].committed)
             /\ UNCHANGED <<cs, batch, project, holder, audit, upload>>
    <2>1. batch[b].committed \in Nat
      BY <1>1 DEF TypeOK, BatchRow
    <2>2. view' \in [Sessions -> View]
      BY <1>2, <1>5, <2>1, AfterCommitType
    <2>3. QED
      BY <1>1, <1>5, <2>2 DEF TypeOK
  <1>6. CASE /\ Complete(b)
             /\ cs' = [cs EXCEPT ![c] = Staged(cs[c], one)]
             /\ batch' = [batch EXCEPT ![b].status = "committed",
                                       ![b].committed = cs[c].revision + 1]
             /\ audit' = WithEvent(c, "section_put")
             /\ view' = IF got THEN AfterCommit(s, cs[c].revision + 1) ELSE view
             /\ UNCHANGED <<project, holder, upload>>
    <2>1. cs[c] \in ChangeSetRow /\ batch[b] \in BatchRow
      BY <1>1 DEF TypeOK
    <2>2. one \in Partial
      <3>1. batch[b].chunks \in Contents
        BY <1>6, <2>1 DEF Complete, BatchRow
      <3>2. QED
        BY <1>1, <3>1, OnePartial
    <2>3. cs[c].revision + 1 \in Nat
      BY <2>1 DEF ChangeSetRow
    <2>4. cs' \in [ChangeSets -> ChangeSetRow]
      <3>1. Staged(cs[c], one) \in ChangeSetRow
        BY <2>1, <2>2, RowTypes
      <3>2. QED
        BY <1>1, <1>6, <3>1 DEF TypeOK
    <2>5. batch' \in [Batches -> BatchRow]
      <3>1. [batch[b] EXCEPT !.status = "committed", !.committed = cs[c].revision + 1]
               \in BatchRow
        BY <2>1, <2>3 DEF BatchRow
      <3>2. batch' = [batch EXCEPT ![b] = [batch[b] EXCEPT !.status = "committed",
                                              !.committed = cs[c].revision + 1]]
        BY <1>1, <1>6 DEF TypeOK
      <3>3. QED
        BY <1>1, <3>1, <3>2 DEF TypeOK
    <2>6. audit' \in [ChangeSets -> [puts : Nat, last : Kinds]]
      BY <1>1, <1>6, EventTypes DEF Kinds
    <2>7. view' \in [Sessions -> View]
      BY <1>1, <1>2, <1>6, <2>3, AfterCommitType DEF TypeOK
    <2>8. QED
      BY <1>1, <1>6, <2>4, <2>5, <2>6, <2>7 DEF TypeOK
  <1>7. QED
    BY <1>1, <1>3, <1>4, <1>5, <1>6 DEF Commit

\* validate_project_change_set keeps the types.
LEMMA ValidateTypes ==
    ASSUME TypeOK, NEW s \in Sessions, NEW valid \in BOOLEAN, NEW got \in BOOLEAN,
           Validate(s, valid, got)
    PROVE  TypeOK'
  <1> DEFINE c == view[s].cs
             digest == IF valid THEN cs[c].draft ELSE None
             status == IF valid THEN "validated" ELSE "active"
  <1>1. c \in ChangeSets /\ cs[c] \in ChangeSetRow
    BY OwnedDraft DEF Validate, TypeOK
  <1>2. CASE ExpireDraft(c)
    BY <1>1, <1>2, ExpireDraftTypes
  <1>3. CASE ~ExpireDraft(c)
    <2>1. /\ cs' = [cs EXCEPT ![c].status = status, ![c].digest = digest, ![c].left = Life]
          /\ audit' = WithEvent(c, IF valid THEN "validated" ELSE "validation_failed")
          /\ view' = IF got THEN [view EXCEPT ![s].digest = digest] ELSE view
          /\ UNCHANGED <<batch, project, holder, upload>>
      BY <1>3 DEF Validate
    <2>2. digest \in Drafts \cup {None} /\ status \in Ongoing
      BY <1>1 DEF ChangeSetRow, Ongoing
    <2>3. cs' = [cs EXCEPT ![c] = [cs[c] EXCEPT !.status = status, !.digest = digest,
                                                !.left = Life]]
      BY <1>1, <2>1 DEF TypeOK
    <2>4. [cs[c] EXCEPT !.status = status, !.digest = digest, !.left = Life] \in ChangeSetRow
      <3> HIDE DEF status, digest, c
      <3>1. QED
        BY <1>1, <2>2, RowTypes
    <2>5. cs' \in [ChangeSets -> ChangeSetRow]
      BY <1>1, <2>3, <2>4 DEF TypeOK
    <2>6. audit' \in [ChangeSets -> [puts : Nat, last : Kinds]]
      BY <1>1, <2>1, EventTypes DEF Kinds
    <2>7. view' \in [Sessions -> View]
      BY <2>1, <2>2, ViewTypes DEF TypeOK
    <2>8. QED
      BY <2>1, <2>5, <2>6, <2>7 DEF TypeOK
  <1>4. QED
    BY <1>2, <1>3

\* Ending a draft keeps the type of its row.
LEMMA EndTypes ==
    ASSUME TypeOK, NEW c \in ChangeSets, NEW status \in Ended
    PROVE  [cs EXCEPT ![c].status = status] \in [ChangeSets -> ChangeSetRow]
  <1>1. cs[c] \in ChangeSetRow /\ [cs[c] EXCEPT !.status = status] \in ChangeSetRow
    BY RowTypes DEF TypeOK
  <1>2. QED
    BY <1>1 DEF TypeOK

\* apply_project_change_set keeps the types.
LEMMA ApplyTypes ==
    ASSUME TypeOK, NEW s \in Sessions, Apply(s)
    PROVE  TypeOK'
  <1> DEFINE c == view[s].cs
             moves == IF cs[c].draft = Blank THEN 0 ELSE 1
  <1>1. c \in ChangeSets
    BY OwnedDraft DEF Apply
  <1>2. CASE ExpireDraft(c)
    BY <1>1, <1>2, ExpireDraftTypes
  <1>3. CASE ~ExpireDraft(c)
    <2>1. /\ cs' = [cs EXCEPT ![c].status = "applied"]
          /\ project' = [project EXCEPT !.revision = @ + moves]
          /\ audit' = WithEvent(c, "applied")
          /\ UNCHANGED <<batch, holder, view, upload>>
      BY <1>3 DEF Apply
    <2>2. cs' \in [ChangeSets -> ChangeSetRow]
      BY <1>1, <2>1, EndTypes DEF Ended
    <2>3. audit' \in [ChangeSets -> [puts : Nat, last : Kinds]]
      BY <1>1, <2>1, EventTypes DEF Kinds
    <2>4. project' \in [revision : Nat \ {0}, locked : BOOLEAN]
      <3>1. project.revision + moves \in Nat \ {0}
        BY DEF TypeOK
      <3>2. QED
        BY <2>1, <3>1 DEF TypeOK
    <2>5. QED
      BY <2>1, <2>2, <2>3, <2>4 DEF TypeOK
  <1>4. QED
    BY <1>2, <1>3

\* archive_project_change_set keeps the types.
LEMMA ArchiveTypes ==
    ASSUME TypeOK, NEW s \in Sessions, Archive(s)
    PROVE  TypeOK'
  <1> DEFINE c == view[s].cs
  <1>1. c \in ChangeSets
    BY OwnedDraft DEF Archive
  <1>2. CASE ExpireDraft(c)
    BY <1>1, <1>2, ExpireDraftTypes
  <1>3. CASE ~ExpireDraft(c)
    <2>1. /\ cs' = [cs EXCEPT ![c].status = "discarded"]
          /\ audit' = WithEvent(c, "discarded")
          /\ UNCHANGED <<batch, project, holder, view, upload>>
      BY <1>3 DEF Archive
    <2>2. cs' \in [ChangeSets -> ChangeSetRow]
      BY <1>1, <2>1, EndTypes DEF Ended
    <2>3. audit' \in [ChangeSets -> [puts : Nat, last : Kinds]]
      BY <1>1, <2>1, EventTypes DEF Kinds
    <2>4. QED
      BY <2>1, <2>2, <2>3 DEF TypeOK
  <1>4. QED
    BY <1>2, <1>3

\* A client that restarts, the governance of the Project, an application by a
\* Workflow Run and the clock keep the types.
LEMMA RestTypes ==
    ASSUME TypeOK, (\E s \in Sessions : Forget(s)) \/ Govern \/ ApplyElsewhere \/ Tick
    PROVE  TypeOK'
  <1>1. ASSUME NEW s \in Sessions, Forget(s) PROVE TypeOK'
    <2>1. NoView \in View /\ NoUpload \in Upload
      BY NonePartial, ConstantsAssumption DEF NoView, NoUpload, View, Upload
    <2>2. view' \in [Sessions -> View] /\ upload' \in [Sessions -> Upload]
      BY <1>1, <2>1, ViewTypes DEF Forget
    <2>3. QED
      BY <1>1, <2>2 DEF Forget, TypeOK
  <1>2. ASSUME Govern PROVE TypeOK'
    BY <1>2 DEF Govern, TypeOK
  <1>3. ASSUME ApplyElsewhere PROVE TypeOK'
    <2>1. project.revision + 1 \in Nat \ {0}
      BY DEF TypeOK
    <2>2. QED
      BY <1>3, <2>1 DEF ApplyElsewhere, TypeOK
  <1>4. ASSUME Tick PROVE TypeOK'
    <2>1. ASSUME NEW c \in ChangeSets, Mutable(c)
          PROVE  [cs[c] EXCEPT !.left = @ - 1] \in ChangeSetRow
      BY <2>1, RowTypes DEF TypeOK, Mutable
    <2>2. cs' \in [ChangeSets -> ChangeSetRow]
      BY <1>4, <2>1 DEF Tick, TypeOK
    <2>3. ASSUME NEW b \in Batches, batch[b].left > 0
          PROVE  [batch[b] EXCEPT !.left = @ - 1] \in BatchRow
      <3>1. batch[b] \in BatchRow /\ batch[b].left \in 0..Life /\ Life \in Nat
        BY ConstantsAssumption DEF TypeOK, BatchRow
      <3>2. batch[b].left - 1 \in 0..Life
        BY <2>3, <3>1
      <3>3. QED
        BY <3>1, <3>2 DEF BatchRow
    <2>4. batch' \in [Batches -> BatchRow]
      BY <1>4, <2>3 DEF Tick, TypeOK
    <2>5. QED
      BY <1>4, <2>2, <2>4 DEF Tick, TypeOK
  <1>5. QED
    BY <1>1, <1>2, <1>3, <1>4

\* Every step keeps the types.
LEMMA TypesKept ==
    ASSUME IInv, [Next]_vars
    PROVE  TypeOK'
  <1>1. TypeOK
    BY DEF IInv
  <1>2. CASE UNCHANGED vars
    BY <1>1, <1>2 DEF vars, TypeOK
  <1>3. ASSUME NEW s \in Sessions, NEW got \in BOOLEAN,
               Create(s, got) \/ Read(s, got) \/ Commit(s, got)
        PROVE  TypeOK'
    BY <1>1, <1>3, CreateTypes, ReadTypes, CommitTypes
  <1>4. ASSUME NEW s \in Sessions, NEW got \in BOOLEAN, NEW changes \in Partial \ {<<>>},
               Stage(s, changes, got)
        PROVE  TypeOK'
    BY <1>1, <1>4, StageTypes
  <1>5. ASSUME NEW s \in Sessions, NEW got \in BOOLEAN, NEW d \in Datasets,
               NEW plan \in Contents, Begin(s, d, plan, got)
        PROVE  TypeOK'
    BY <1>1, <1>5, BeginTypes
  <1>6. ASSUME NEW s \in Sessions, NEW got \in BOOLEAN, NEW valid \in BOOLEAN,
               Validate(s, valid, got)
        PROVE  TypeOK'
    BY <1>1, <1>6, ValidateTypes
  <1>7. ASSUME NEW s \in Sessions, NEW b \in Batches, NEW piece \in Pieces,
               NEW i \in DOMAIN batch[b].chunks, Put(s, i, piece)
        PROVE  TypeOK'
    BY <1>7, PutTypes
  <1>8. ASSUME NEW s \in Sessions, Apply(s) \/ Archive(s)
        PROVE  TypeOK'
    BY <1>1, <1>8, ApplyTypes, ArchiveTypes
  <1>9. QED
    BY <1>1, <1>2, <1>3, <1>4, <1>5, <1>6, <1>7, <1>8, RestTypes DEF Next

-----------------------------------------------------------------------------
(* What a step does to a row. *)

\* The row is left alone, or with one event expired, made, staged, judged,
\* applied or discarded, or it is one tick older.
Kept(c)  == cs'[c] = cs[c] /\ audit'[c] = audit[c]
Lapsed(c) ==
    /\ Due(c) /\ cs'[c] = Expired(cs[c])
    /\ audit'[c].last = "expired" /\ audit'[c].puts = audit[c].puts
Made(c) ==
    /\ cs[c].status = "absent"
    /\ \E p \in Principals : Found(p) = {} /\ cs'[c] = NewRow(p)
    /\ \A e \in ChangeSets \ {c} : cs[e].status = "absent" => cs'[e].status = "absent"
    /\ audit'[c].last = "created" /\ audit'[c].puts = audit[c].puts
Replaced(c) ==
    /\ Mutable(c) /\ \E changes \in Partial : cs'[c] = Staged(cs[c], changes)
    /\ audit'[c].last = "section_put" /\ audit'[c].puts = audit[c].puts + 1
Judged(c) ==
    /\ Mutable(c)
    /\ \E valid \in BOOLEAN :
          /\ valid \in Verdicts(c)
          /\ cs'[c] = [cs[c] EXCEPT !.status = IF valid THEN "validated" ELSE "active",
                                    !.digest = IF valid THEN cs[c].draft ELSE None,
                                    !.left = Life]
          /\ audit'[c].last = IF valid THEN "validated" ELSE "validation_failed"
    /\ audit'[c].puts = audit[c].puts
Taken(c) ==
    /\ Mutable(c) /\ cs[c].status = "validated" /\ cs[c].digest = cs[c].draft
    /\ cs'[c] = [cs[c] EXCEPT !.status = "applied"]
    /\ \E s \in Sessions : Owned(s) /\ view[s].cs = c /\ Approved(s, c)
    /\ audit'[c].last = "applied" /\ audit'[c].puts = audit[c].puts
Dropped(c) ==
    /\ Mutable(c) /\ cs'[c] = [cs[c] EXCEPT !.status = "discarded"]
    /\ audit'[c].last = "discarded" /\ audit'[c].puts = audit[c].puts
Aged(c) ==
    /\ Mutable(c) /\ cs'[c] = [cs[c] EXCEPT !.left = @ - 1] /\ audit'[c] = audit[c]

RowStep(c) ==
    \/ Kept(c) \/ Lapsed(c) \/ Made(c) \/ Replaced(c) \/ Judged(c)
    \/ Taken(c) \/ Dropped(c) \/ Aged(c)

\* Expiring a draft leaves the other rows alone.
LEMMA ExpireRow ==
    ASSUME TypeOK, NEW c \in ChangeSets, ExpireDraft(c), NEW e \in ChangeSets
    PROVE  RowStep(e)
  <1>1. CASE e = c
    <2>1. Lapsed(c)
      BY EventTypes DEF ExpireDraft, Lapsed, TypeOK, Kinds
    <2>2. QED
      BY <1>1, <2>1 DEF RowStep
  <1>2. CASE e # c
    <2>1. Kept(e)
      BY <1>2, EventTypes DEF ExpireDraft, Kept, TypeOK, Kinds
    <2>2. QED
      BY <2>1 DEF RowStep
  <1>3. QED
    BY <1>1, <1>2

\* Creating a draft expires those of its owner that are due and makes one row.
LEMMA CreateRow ==
    ASSUME TypeOK, NEW s \in Sessions, NEW got \in BOOLEAN, Create(s, got), NEW e \in ChangeSets
    PROVE  RowStep(e)
  <1> DEFINE p == OwnerOf[s]
             swept == [c \in ChangeSets |-> IF c \in Expiring(p) THEN Expired(cs[c]) ELSE cs[c]]
             noted == [c \in ChangeSets |->
                        IF c \in Expiring(p) THEN [audit[c] EXCEPT !.last = "expired"]
                                             ELSE audit[c]]
  <1>1. p \in Principals /\ audit[e] \in [puts : Nat, last : Kinds]
    BY ConstantsAssumption DEF TypeOK
  <1>2. CASE cs'[e] = swept[e] /\ audit'[e] = noted[e]
    <2>1. CASE e \in Expiring(p)
      <3>1. Lapsed(e)
        BY <1>1, <1>2, <2>1 DEF Lapsed, Expiring
      <3>2. QED
        BY <3>1 DEF RowStep
    <2>2. CASE e \notin Expiring(p)
      <3>1. Kept(e)
        BY <1>2, <2>2 DEF Kept
      <3>2. QED
        BY <3>1 DEF RowStep
    <2>3. QED
      BY <2>1, <2>2
  <1>3. ASSUME NEW c \in ChangeSets, Found(p) = {}, cs[c].status = "absent",
               cs' = [swept EXCEPT ![c] = NewRow(p)],
               audit' = [noted EXCEPT ![c].last = "created"]
        PROVE  RowStep(e)
    <2>1. CASE e # c
      BY <1>2, <1>3, <2>1
    <2>2. CASE e = c
      <3>1. c \notin Expiring(p)
        BY <1>3 DEF Expiring, Due, Ongoing
      <3>2. cs'[c] = NewRow(p) /\ audit'[c] = [audit[c] EXCEPT !.last = "created"]
        BY <1>3, <3>1
      <3>3. ASSUME NEW d \in ChangeSets \ {c}, cs[d].status = "absent"
            PROVE  cs'[d].status = "absent"
        BY <1>3, <3>3 DEF Expiring, Due, Ongoing
      <3>4. Made(c)
        <4> HIDE DEF swept, noted, p
        <4>1. QED
          BY <1>1, <1>3, <2>2, <3>2, <3>3 DEF Made
      <3>5. QED
        BY <2>2, <3>4 DEF RowStep
    <2>3. QED
      BY <2>1, <2>2
  <1>4. QED
    BY <1>2, <1>3 DEF Create

\* A read expires the draft it finds due, or changes no row.
LEMMA ReadRow ==
    ASSUME TypeOK, NEW s \in Sessions, NEW got \in BOOLEAN, Read(s, got), NEW e \in ChangeSets
    PROVE  RowStep(e)
  <1> DEFINE c == view[s].cs
  <1>1. c \in ChangeSets
    BY OwnedDraft DEF Read
  <1>2. CASE Due(c) /\ ~project.locked
    <2>1. cs' = [cs EXCEPT ![c] = Expired(cs[c])] /\ audit' = WithEvent(c, "expired")
      BY <1>2 DEF Read, TypeOK
    <2>2. CASE e = c
      <3>1. Lapsed(c)
        BY <1>1, <1>2, <2>1, EventTypes DEF Lapsed, TypeOK, Kinds
      <3>2. QED
        BY <2>2, <3>1 DEF RowStep
    <2>3. CASE e # c
      <3>1. Kept(e)
        BY <1>1, <2>1, <2>3, EventTypes DEF Kept, TypeOK, Kinds
      <3>2. QED
        BY <3>1 DEF RowStep
    <2>4. QED
      BY <2>2, <2>3
  <1>3. CASE ~(Due(c) /\ ~project.locked)
    <2>1. Kept(e)
      BY <1>3 DEF Read, TypeOK, Kept
    <2>2. QED
      BY <2>1 DEF RowStep
  <1>4. QED
    BY <1>2, <1>3

\* Replacing records, directly or by a batch, stages the one row.
LEMMA ReplaceRow ==
    ASSUME TypeOK, NEW c \in ChangeSets, NEW changes \in Partial, Mutable(c),
           cs' = [cs EXCEPT ![c] = Staged(cs[c], changes)],
           audit' = WithEvent(c, "section_put"), NEW e \in ChangeSets
    PROVE  RowStep(e)
  <1>1. CASE e = c
    <2>1. cs'[c] = Staged(cs[c], changes)
      BY DEF TypeOK
    <2>2. audit'[c].last = "section_put" /\ audit'[c].puts = audit[c].puts + 1
      BY EventTypes DEF Kinds
    <2>3. Replaced(c)
      BY <2>1, <2>2 DEF Replaced
    <2>4. QED
      BY <1>1, <2>3 DEF RowStep
  <1>2. CASE e # c
    <2>1. Kept(e)
      BY <1>2, EventTypes DEF Kept, TypeOK, Kinds
    <2>2. QED
      BY <2>1 DEF RowStep
  <1>3. QED
    BY <1>1, <1>2

\* Staging changes a row as staging may.
LEMMA StageRow ==
    ASSUME TypeOK, NEW s \in Sessions, NEW got \in BOOLEAN, NEW changes \in Partial,
           Stage(s, changes, got), NEW e \in ChangeSets
    PROVE  RowStep(e)
  <1> DEFINE c == view[s].cs
  <1>1. c \in ChangeSets
    BY OwnedDraft DEF Stage
  <1>2. CASE ExpireDraft(c)
    BY <1>1, <1>2, ExpireRow
  <1>3. CASE ~ExpireDraft(c)
    <2>1. /\ Mutable(c) /\ cs' = [cs EXCEPT ![c] = Staged(cs[c], changes)]
          /\ audit' = WithEvent(c, "section_put")
      BY <1>1, <1>3 DEF Stage, TypeOK
    <2>2. QED
      BY <1>1, <2>1, ReplaceRow
  <1>4. QED
    BY <1>2, <1>3

\* Committing a batch replaces the draft of one row, or expires it.
LEMMA CommitRow ==
    ASSUME IInv, NEW s \in Sessions, NEW got \in BOOLEAN, Commit(s, got), NEW e \in ChangeSets
    PROVE  RowStep(e)
  <1> DEFINE b == upload[s].batch
             c == batch[b].cs
             one == [d \in {batch[b].dataset} |-> batch[b].chunks]
  <1>1. b \in Batches /\ c \in ChangeSets /\ batch[b].dataset \in Datasets /\ TypeOK
    BY SentBatch DEF Commit, IInv
  <1>2. CASE ExpireDraft(c)
    BY <1>1, <1>2, ExpireRow
  <1>3. CASE UNCHANGED <<cs, audit>>
    BY <1>3 DEF RowStep, Kept
  <1>4. CASE /\ Mutable(c) /\ Complete(b)
             /\ cs' = [cs EXCEPT ![c] = Staged(cs[c], one)]
             /\ audit' = WithEvent(c, "section_put")
    <2>1. batch[b].chunks \in Contents
      BY <1>1, <1>4 DEF Complete, TypeOK, BatchRow
    <2>2. one \in Partial
      BY <1>1, <2>1, OnePartial
    <2>3. QED
      BY <1>1, <1>4, <2>2, ReplaceRow
  <1>5. QED
    BY <1>1, <1>2, <1>3, <1>4 DEF Commit, ExpireBatch

\* Validating judges the one row.
LEMMA ValidateRow ==
    ASSUME TypeOK, NEW s \in Sessions, NEW valid \in BOOLEAN, NEW got \in BOOLEAN,
           Validate(s, valid, got), NEW e \in ChangeSets
    PROVE  RowStep(e)
  <1> DEFINE c == view[s].cs
             digest == IF valid THEN cs[c].draft ELSE None
             status == IF valid THEN "validated" ELSE "active"
             kind   == IF valid THEN "validated" ELSE "validation_failed"
  <1>1. c \in ChangeSets /\ cs[c] \in ChangeSetRow /\ kind \in Kinds
    BY OwnedDraft DEF Validate, TypeOK, Kinds
  <1>2. CASE ExpireDraft(c)
    BY <1>1, <1>2, ExpireRow
  <1>3. CASE ~ExpireDraft(c)
    <2>1. /\ Mutable(c) /\ valid \in Verdicts(c)
          /\ cs' = [cs EXCEPT ![c].status = status, ![c].digest = digest, ![c].left = Life]
          /\ audit' = WithEvent(c, kind)
      BY <1>3 DEF Validate
    <2>2. cs' = [cs EXCEPT ![c] = [cs[c] EXCEPT !.status = status, !.digest = digest,
                                                !.left = Life]]
      BY <1>1, <2>1 DEF TypeOK
    <2>3. audit'[c].last = kind /\ audit'[c].puts = audit[c].puts
      BY <1>1, <2>1, EventTypes
    <2>4. CASE e = c
      <3>1. cs'[c] = [cs[c] EXCEPT !.status = status, !.digest = digest, !.left = Life]
        BY <1>1, <2>2 DEF TypeOK
      <3>2. Judged(c)
        BY <2>1, <2>3, <3>1 DEF Judged
      <3>3. QED
        BY <2>4, <3>2 DEF RowStep
    <2>5. CASE e # c
      <3>1. cs'[e] = cs[e]
        BY <2>2, <2>5 DEF TypeOK
      <3>2. audit'[e] = audit[e]
        BY <1>1, <2>1, <2>5, EventTypes
      <3>3. QED
        BY <3>1, <3>2 DEF RowStep, Kept
    <2>6. QED
      BY <2>4, <2>5
  <1>4. QED
    BY <1>2, <1>3

\* Applying takes the one row, sealed as it stands and approved.
LEMMA ApplyRow ==
    ASSUME TypeOK, NEW s \in Sessions, Apply(s), NEW e \in ChangeSets
    PROVE  RowStep(e)
  <1> DEFINE c == view[s].cs
  <1>1. c \in ChangeSets
    BY OwnedDraft DEF Apply
  <1>2. CASE ExpireDraft(c)
    BY <1>1, <1>2, ExpireRow
  <1>3. CASE ~ExpireDraft(c)
    <2>1. /\ Owned(s) /\ Mutable(c) /\ cs[c].status = "validated" /\ Approved(s, c)
          /\ cs[c].digest = cs[c].draft
          /\ cs' = [cs EXCEPT ![c].status = "applied"]
          /\ audit' = WithEvent(c, "applied")
      BY <1>3 DEF Apply
    <2>2. audit'[c].last = "applied" /\ audit'[c].puts = audit[c].puts
      BY <1>1, <2>1, EventTypes DEF Kinds
    <2>3. CASE e = c
      <3>1. cs'[c] = [cs[c] EXCEPT !.status = "applied"]
        BY <1>1, <2>1 DEF TypeOK
      <3>2. Taken(c)
        BY <2>1, <2>2, <3>1 DEF Taken
      <3>3. QED
        BY <2>3, <3>2 DEF RowStep
    <2>4. CASE e # c
      <3>1. Kept(e)
        BY <1>1, <2>1, <2>4, EventTypes DEF Kept, TypeOK, Kinds
      <3>2. QED
        BY <3>1 DEF RowStep
    <2>5. QED
      BY <2>3, <2>4
  <1>4. QED
    BY <1>2, <1>3

\* Archiving drops the one row.
LEMMA ArchiveRow ==
    ASSUME TypeOK, NEW s \in Sessions, Archive(s), NEW e \in ChangeSets
    PROVE  RowStep(e)
  <1> DEFINE c == view[s].cs
  <1>1. c \in ChangeSets
    BY OwnedDraft DEF Archive
  <1>2. CASE ExpireDraft(c)
    BY <1>1, <1>2, ExpireRow
  <1>3. CASE ~ExpireDraft(c)
    <2>1. /\ Mutable(c) /\ cs' = [cs EXCEPT ![c].status = "discarded"]
          /\ audit' = WithEvent(c, "discarded")
      BY <1>3 DEF Archive
    <2>2. audit'[c].last = "discarded" /\ audit'[c].puts = audit[c].puts
      BY <1>1, <2>1, EventTypes DEF Kinds
    <2>3. CASE e = c
      <3>1. cs'[c] = [cs[c] EXCEPT !.status = "discarded"]
        BY <1>1, <2>1 DEF TypeOK
      <3>2. Dropped(c)
        BY <2>1, <2>2, <3>1 DEF Dropped
      <3>3. QED
        BY <2>3, <3>2 DEF RowStep
    <2>4. CASE e # c
      <3>1. Kept(e)
        BY <1>1, <2>1, <2>4, EventTypes DEF Kept, TypeOK, Kinds
      <3>2. QED
        BY <3>1 DEF RowStep
    <2>5. QED
      BY <2>3, <2>4
  <1>4. QED
    BY <1>2, <1>3

\* Batches and the rest of the system leave the rows alone or let them age.
LEMMA BeginRow ==
    ASSUME TypeOK, NEW s \in Sessions, NEW got \in BOOLEAN, NEW d, NEW plan,
           Begin(s, d, plan, got), NEW e \in ChangeSets
    PROVE  RowStep(e)
  <1>1. view[s].cs \in ChangeSets
    BY OwnedDraft DEF Begin
  <1>2. CASE ExpireDraft(view[s].cs)
    BY <1>1, <1>2, ExpireRow
  <1>3. CASE ~ExpireDraft(view[s].cs)
    BY <1>3 DEF Begin, RowStep, Kept
  <1>4. QED
    BY <1>2, <1>3

\* A chunk, or the expiry that its arrival finds, leaves the drafts alone.
LEMMA PutRow ==
    ASSUME IInv, NEW s \in Sessions, NEW i, NEW piece, Put(s, i, piece), NEW e \in ChangeSets
    PROVE  RowStep(e)
  <1> DEFINE c == batch[upload[s].batch].cs
  <1>1. c \in ChangeSets /\ TypeOK
    BY SentBatch DEF Put, IInv
  <1>2. CASE ExpireDraft(c)
    BY <1>1, <1>2, ExpireRow
  <1>3. CASE ~ExpireDraft(c)
    BY <1>3 DEF Put, ExpireBatch, RowStep, Kept
  <1>4. QED
    BY <1>2, <1>3

\* Forgetting, governance, other Applies and time change no draft.
LEMMA RestRow ==
    ASSUME TypeOK, NEW e \in ChangeSets,
           (\E s \in Sessions : Forget(s)) \/ Govern \/ ApplyElsewhere \/ Tick
    PROVE  RowStep(e)
  <1>1. CASE UNCHANGED <<cs, audit>>
    BY <1>1 DEF RowStep, Kept
  <1>2. CASE Tick
    BY <1>2 DEF Tick, RowStep, Kept, Aged
  <1>3. QED
    BY <1>1, <1>2 DEF Forget, Govern, ApplyElsewhere

\* Every step of the system is a step of each row.
LEMMA RowSteps ==
    ASSUME IInv, [Next]_vars, NEW e \in ChangeSets
    PROVE  RowStep(e)
  <1>1. TypeOK
    BY DEF IInv
  <1>2. CASE UNCHANGED vars
    BY <1>2 DEF vars, RowStep, Kept
  <1>3. ASSUME NEW s \in Sessions, NEW got \in BOOLEAN,
               Create(s, got) \/ Read(s, got) \/ Commit(s, got)
        PROVE  RowStep(e)
    BY <1>1, <1>3, CreateRow, ReadRow, CommitRow
  <1>4. ASSUME NEW s \in Sessions, NEW got \in BOOLEAN, NEW changes \in Partial \ {<<>>},
               Stage(s, changes, got)
        PROVE  RowStep(e)
    BY <1>1, <1>4, StageRow
  <1>5. ASSUME NEW s \in Sessions, NEW got \in BOOLEAN, NEW d \in Datasets,
               NEW plan \in Contents, Begin(s, d, plan, got)
        PROVE  RowStep(e)
    BY <1>1, <1>5, BeginRow
  <1>6. ASSUME NEW s \in Sessions, NEW got \in BOOLEAN, NEW valid \in BOOLEAN,
               Validate(s, valid, got)
        PROVE  RowStep(e)
    BY <1>1, <1>6, ValidateRow
  <1>7. ASSUME NEW s \in Sessions, NEW b \in Batches, NEW piece \in Pieces,
               NEW i \in DOMAIN batch[b].chunks, Put(s, i, piece)
        PROVE  RowStep(e)
    BY <1>7, PutRow
  <1>8. ASSUME NEW s \in Sessions, Apply(s) \/ Archive(s)
        PROVE  RowStep(e)
    BY <1>1, <1>8, ApplyRow, ArchiveRow
  <1>9. QED
    BY <1>1, <1>2, <1>3, <1>4, <1>5, <1>6, <1>7, <1>8, RestRow DEF Next

-----------------------------------------------------------------------------
(* What follows for the rows. *)

\* A draft revision never goes back, and while it stays the records stay.
Grows(c) ==
    /\ cs'[c].revision >= cs[c].revision
    /\ cs'[c].revision = cs[c].revision => cs'[c].draft = cs[c].draft

\* A step never takes a revision back, and a revision keeps its draft.
LEMMA RowsGrow ==
    ASSUME IInv, TypeOK', NEW c \in ChangeSets, RowStep(c)
    PROVE  Grows(c)
  <1>1. /\ cs[c] \in ChangeSetRow /\ cs[c].revision \in Nat
        /\ cs[c].status = "absent" => cs[c].revision = 0
    BY DEF IInv, TypeOK, ChangeSetRow, RowsMade
  <1>2. CASE Replaced(c)
    <2>1. cs'[c].revision = cs[c].revision + 1
      BY <1>1, <1>2 DEF Replaced, Staged, ChangeSetRow
    <2>2. QED
      BY <1>1, <2>1 DEF Grows
  <1>3. CASE Made(c)
    <2>1. cs'[c].revision = 1
      BY <1>3 DEF Made, NewRow
    <2>2. cs[c].revision = 0
      BY <1>1, <1>3 DEF Made
    <2>3. QED
      BY <2>1, <2>2 DEF Grows
  <1>4. CASE Kept(c) \/ Lapsed(c) \/ Judged(c) \/ Taken(c) \/ Dropped(c) \/ Aged(c)
    <2>1. cs'[c].revision = cs[c].revision /\ cs'[c].draft = cs[c].draft
      BY <1>1, <1>4 DEF Kept, Lapsed, Judged, Taken, Dropped, Aged, Expired, ChangeSetRow
    <2>2. QED
      BY <1>1, <2>1 DEF Grows
  <1>5. QED
    BY <1>2, <1>3, <1>4 DEF RowStep

\* A row that was made stays made, and its owner is its owner.
LEMMA RowsMadeKept ==
    ASSUME IInv, TypeOK', \A c \in ChangeSets : RowStep(c)
    PROVE  RowsMade'
  <1> SUFFICES ASSUME NEW c \in ChangeSets
               PROVE  IF cs'[c].status = "absent"
                      THEN /\ cs'[c].draft = Blank /\ cs'[c].revision = 0 /\ cs'[c].digest = None
                           /\ cs'[c].base = 0 /\ audit'[c].puts = 0
                      ELSE cs'[c].revision >= 1 /\ cs'[c].owner \in Principals
    BY DEF RowsMade
  <1>1. /\ cs[c] \in ChangeSetRow /\ cs[c].revision \in Nat /\ audit[c] \in [puts : Nat, last : Kinds]
        /\ cs[c].status = "absent" => /\ cs[c].draft = Blank /\ cs[c].revision = 0
                                      /\ cs[c].digest = None
                                      /\ cs[c].base = 0 /\ audit[c].puts = 0
        /\ cs[c].status # "absent" => cs[c].revision >= 1 /\ cs[c].owner \in Principals
    BY DEF IInv, TypeOK, ChangeSetRow, RowsMade
  <1>2. CASE Kept(c)
    BY <1>1, <1>2 DEF Kept
  <1>3. CASE Made(c)
    <2>1. cs'[c].revision = 1 /\ cs'[c].owner \in Principals /\ cs'[c].status = "active"
      BY <1>3 DEF Made, NewRow
    <2>2. QED
      BY <2>1
  <1>4. CASE Replaced(c)
    <2>1. /\ cs'[c].revision = cs[c].revision + 1 /\ cs'[c].owner = cs[c].owner
          /\ cs'[c].status = "active" /\ cs[c].status # "absent"
      BY <1>1, <1>4 DEF Replaced, Staged, ChangeSetRow, Mutable, Ongoing
    <2>2. cs'[c].revision >= 1
      BY <1>1, <2>1
    <2>3. QED
      BY <1>1, <2>1, <2>2
  <1>5. CASE Lapsed(c) \/ Judged(c) \/ Taken(c) \/ Dropped(c) \/ Aged(c)
    <2>1. cs[c].status # "absent"
      BY <1>5 DEF Lapsed, Judged, Taken, Dropped, Aged, Due, Mutable, Ongoing
    <2>2. cs'[c].revision = cs[c].revision /\ cs'[c].owner = cs[c].owner
      BY <1>1, <1>5 DEF Lapsed, Judged, Taken, Dropped, Aged, Expired, ChangeSetRow
    <2>3. cs'[c].status # "absent"
      BY <1>1, <1>5, <2>1 DEF Lapsed, Judged, Taken, Dropped, Aged, Expired, ChangeSetRow
    <2>4. QED
      BY <1>1, <2>1, <2>2, <2>3
  <1>6. RowStep(c)
    OBVIOUS
  <1>7. QED
    BY <1>2, <1>3, <1>4, <1>5, <1>6 DEF RowStep

\* A seal is of the records under it: staging breaks it, and nothing else
\* changes records.
LEMMA SealsKept ==
    ASSUME IInv, TypeOK', \A c \in ChangeSets : RowStep(c)
    PROVE  SealMatchesDraft'
  <1> SUFFICES ASSUME NEW c \in ChangeSets, cs'[c].status \in {"validated", "applied"}
               PROVE  cs'[c].digest = cs'[c].draft
    BY DEF SealMatchesDraft
  <1>1. /\ cs[c] \in ChangeSetRow
        /\ cs[c].status \in {"validated", "applied"} => cs[c].digest = cs[c].draft
    BY DEF IInv, TypeOK, SealMatchesDraft
  <1>2. RowStep(c)
    OBVIOUS
  <1>3. CASE Kept(c)
    BY <1>1, <1>3 DEF Kept
  <1>4. CASE Made(c) \/ Replaced(c)
    <2>1. CASE Made(c)
      BY <2>1 DEF Made, NewRow
    <2>2. CASE Replaced(c)
      <3>1. cs'[c].status = "active"
        BY <1>1, <2>2 DEF Replaced, Staged, ChangeSetRow
      <3>2. QED
        BY <3>1
    <2>3. QED
      BY <1>4, <2>1, <2>2
  <1>5. CASE Judged(c)
    BY <1>1, <1>5 DEF Judged, ChangeSetRow
  <1>6. CASE Taken(c)
    BY <1>1, <1>6 DEF Taken, ChangeSetRow
  <1>7. CASE Lapsed(c) \/ Dropped(c)
    BY <1>1, <1>7 DEF Lapsed, Expired, Dropped, ChangeSetRow
  <1>8. CASE Aged(c)
    BY <1>1, <1>8 DEF Aged, ChangeSetRow
  <1>9. QED
    BY <1>2, <1>3, <1>4, <1>5, <1>6, <1>7, <1>8 DEF RowStep

\* Every change of a row is in its events, and no event is without one.
LEMMA AuditKept ==
    ASSUME IInv, TypeOK', \A c \in ChangeSets : RowStep(c)
    PROVE  AuditTellsDraft'
  <1> SUFFICES ASSUME NEW c \in ChangeSets, cs'[c].status # "absent"
               PROVE  /\ cs'[c].revision = audit'[c].puts + 1
                      /\ IF cs'[c].status = "active"
                         THEN audit'[c].last \in {"created", "section_put", "validation_failed"}
                         ELSE audit'[c].last = cs'[c].status
    BY DEF AuditTellsDraft
  <1>1. /\ cs[c] \in ChangeSetRow /\ cs[c].revision \in Nat /\ audit[c].puts \in Nat
        /\ cs[c].status = "absent" => audit[c].puts = 0
        /\ cs[c].status # "absent" => cs[c].revision = audit[c].puts + 1
        /\ cs[c].status = "active" =>
              audit[c].last \in {"created", "section_put", "validation_failed"}
        /\ cs[c].status \notin {"absent", "active"} => audit[c].last = cs[c].status
    BY DEF IInv, TypeOK, AuditTellsDraft, RowsMade, ChangeSetRow
  <1>2. RowStep(c)
    OBVIOUS
  <1>3. CASE Kept(c)
    BY <1>1, <1>3 DEF Kept
  <1>4. CASE Made(c)
    <2>1. /\ cs'[c].revision = 1 /\ cs'[c].status = "active"
          /\ audit'[c].last = "created" /\ audit'[c].puts = 0
      BY <1>1, <1>4 DEF Made, NewRow
    <2>2. QED
      BY <2>1
  <1>5. CASE Replaced(c)
    <2>1. /\ cs'[c].revision = cs[c].revision + 1 /\ cs'[c].status = "active"
          /\ audit'[c].last = "section_put" /\ audit'[c].puts = audit[c].puts + 1
          /\ cs[c].status # "absent"
      BY <1>1, <1>5 DEF Replaced, Staged, ChangeSetRow, Mutable, Ongoing
    <2>2. QED
      BY <1>1, <2>1
  <1>6. CASE Lapsed(c) \/ Judged(c) \/ Taken(c) \/ Dropped(c) \/ Aged(c)
    <2>1. /\ cs[c].status # "absent" /\ cs'[c].revision = cs[c].revision
          /\ audit'[c].puts = audit[c].puts
      BY <1>1, <1>6
         DEF Lapsed, Judged, Taken, Dropped, Aged, Expired, Due, Mutable, Ongoing, ChangeSetRow
    <2>2. CASE Lapsed(c) \/ Taken(c) \/ Dropped(c)
      <3>1. cs'[c].status = audit'[c].last /\ cs'[c].status # "active"
        BY <1>1, <2>2 DEF Lapsed, Taken, Dropped, Expired, ChangeSetRow
      <3>2. QED
        BY <1>1, <2>1, <3>1
    <2>3. CASE Judged(c)
      <3>1. /\ cs'[c].status \in {"validated", "active"}
            /\ cs'[c].status = "validated" => audit'[c].last = "validated"
            /\ cs'[c].status = "active" => audit'[c].last = "validation_failed"
        BY <1>1, <2>3 DEF Judged, ChangeSetRow
      <3>2. QED
        BY <1>1, <2>1, <3>1
    <2>4. CASE Aged(c)
      <3>1. cs'[c].status = cs[c].status /\ audit'[c] = audit[c]
        BY <1>1, <2>4 DEF Aged, ChangeSetRow
      <3>2. QED
        BY <1>1, <2>1, <3>1
    <2>5. QED
      BY <1>6, <2>2, <2>3, <2>4
  <1>7. QED
    BY <1>2, <1>3, <1>4, <1>5, <1>6 DEF RowStep

\* A draft that is ongoing after a step was so before, with the same owner,
\* unless it was made by the step.
LEMMA OngoingBefore ==
    ASSUME IInv, TypeOK', NEW c \in ChangeSets, RowStep(c), NEW p \in Principals, c \in Found(p)'
    PROVE  c \in Found(p) \/ (Made(c) /\ Found(p) = {})
  <1>1. cs[c] \in ChangeSetRow /\ cs'[c].owner = p /\ cs'[c].status \in Ongoing /\ cs'[c].left > 0
    BY DEF IInv, TypeOK, Found, Mutable
  <1>2. CASE Kept(c)
    BY <1>1, <1>2 DEF Kept, Found, Mutable
  <1>3. CASE Made(c)
    BY <1>1, <1>3 DEF Made, NewRow
  <1>4. CASE Lapsed(c) \/ Taken(c) \/ Dropped(c)
    BY <1>1, <1>4 DEF Lapsed, Taken, Dropped, Expired, Ongoing, ChangeSetRow
  <1>5. CASE Replaced(c) \/ Judged(c) \/ Aged(c)
    <2>1. Mutable(c) /\ cs'[c].owner = cs[c].owner
      BY <1>1, <1>5 DEF Replaced, Staged, Judged, Aged, ChangeSetRow
    <2>2. QED
      BY <1>1, <2>1 DEF Found
  <1>6. QED
    BY <1>2, <1>3, <1>4, <1>5 DEF RowStep

\* Rows that step as rows may leave each Principal one draft to find.
LEMMA AtMostOneKept ==
    ASSUME IInv, TypeOK', \A c \in ChangeSets : RowStep(c)
    PROVE  AtMostOne'
  <1> SUFFICES ASSUME NEW p \in Principals, NEW c \in Found(p)', NEW d \in Found(p)'
               PROVE  c = d
    BY DEF AtMostOne
  <1>1. c \in ChangeSets /\ d \in ChangeSets
    BY DEF Found
  <1>2. /\ c \in Found(p) \/ (Made(c) /\ Found(p) = {})
        /\ d \in Found(p) \/ (Made(d) /\ Found(p) = {})
    BY <1>1, OngoingBefore
  <1>3. CASE c \in Found(p) /\ d \in Found(p)
    BY <1>3 DEF IInv, AtMostOne
  <1>4. CASE Made(c) /\ Made(d)
    BY <1>1, <1>4 DEF Made, NewRow
  <1>5. QED
    BY <1>2, <1>3, <1>4

-----------------------------------------------------------------------------
(* What the clients know of the drafts. *)

\* What is true of a draft stays true of it, with what was sent, when that is
\* put over it.
LEMMA AgreesOver ==
    ASSUME NEW draft \in Drafts, NEW known \in Partial, NEW sent \in Partial,
           Agrees(draft, known)
    PROVE  Agrees(Over(sent, draft), Over(sent, known))
  <1>1. DOMAIN known \subseteq Datasets /\ DOMAIN draft = Datasets /\ draft \in Partial
    BY PartialDef, DraftPartial DEF Drafts
  <1>2. /\ DOMAIN Over(sent, known) = DOMAIN known \cup DOMAIN sent
        /\ \A d \in DOMAIN sent : Over(sent, known)[d] = sent[d]
        /\ \A d \in DOMAIN known \ DOMAIN sent : Over(sent, known)[d] = known[d]
    BY OverPartial
  <1>3. /\ \A d \in DOMAIN sent : Over(sent, draft)[d] = sent[d]
        /\ \A d \in DOMAIN draft \ DOMAIN sent : Over(sent, draft)[d] = draft[d]
    BY <1>1, OverPartial
  <1>4. QED
    BY <1>1, <1>2, <1>3 DEF Agrees

\* What a session knows is no later than the draft, and true of it while its
\* revision is the current one.
Truthful(v) ==
    v.cs # None =>
        /\ 1 <= v.revision /\ v.revision <= cs[v.cs].revision
        /\ v.revision = cs[v.cs].revision => Agrees(cs[v.cs].draft, v.known)

\* The two properties of views, said of one view at a time.
LEMMA ViewsTruthful ==
    Behind /\ ViewsAreTrue <=> \A s \in Sessions : Truthful(view[s])
  BY DEF Behind, ViewsAreTrue, Truthful, Agrees

\* What was true of a draft before a step is no longer current or still true.
LEMMA StaysTruthful ==
    ASSUME IInv, TypeOK', NEW v \in View, Truthful(v), \A c \in ChangeSets : RowStep(c)
    PROVE  Truthful(v)'
  <1> SUFFICES ASSUME v.cs # None
               PROVE  /\ 1 <= v.revision /\ v.revision <= cs'[v.cs].revision
                      /\ v.revision = cs'[v.cs].revision => Agrees(cs'[v.cs].draft, v.known)
    BY DEF Truthful
  <1>1. v.cs \in ChangeSets /\ v.revision \in Nat
    BY DEF View
  <1>2. cs[v.cs].revision \in Nat /\ cs'[v.cs].revision \in Nat
    BY <1>1 DEF IInv, TypeOK, ChangeSetRow
  <1>3. Grows(v.cs)
    BY <1>1, RowsGrow
  <1>4. QED
    BY <1>1, <1>2, <1>3 DEF Truthful, Grows

\* A session that was told nothing new of the draft.
LEMMA SameView ==
    ASSUME IInv, TypeOK', \A c \in ChangeSets : RowStep(c), NEW s \in Sessions,
           view'[s].cs = view[s].cs, view'[s].revision = view[s].revision,
           view'[s].known = view[s].known
    PROVE  Truthful(view[s])'
  <1>1. view[s] \in View /\ Truthful(view[s])
    BY ViewsTruthful DEF IInv, TypeOK
  <1>2. view'[s].cs # None =>
           /\ 1 <= view[s].revision /\ view[s].revision <= cs'[view[s].cs].revision
           /\ view[s].revision = cs'[view[s].cs].revision
                 => Agrees(cs'[view[s].cs].draft, view[s].known)
    <2>1. ASSUME NEW v \in View, v = view[s] PROVE Truthful(v)'
      BY <1>1, <2>1, StaysTruthful
    <2>2. ASSUME NEW v \in View, v = view[s], view'[s].cs # None
          PROVE  /\ 1 <= v.revision /\ v.revision <= cs'[v.cs].revision
                 /\ v.revision = cs'[v.cs].revision => Agrees(cs'[v.cs].draft, v.known)
      BY <2>1, <2>2 DEF Truthful
    <2>3. QED
      BY <1>1, <2>2
  <1>3. QED
    BY <1>2 DEF Truthful

\* The other sessions are told nothing.
LEMMA OthersTruthful ==
    ASSUME IInv, TypeOK', \A c \in ChangeSets : RowStep(c), NEW s \in Sessions,
           \A t \in Sessions \ {s} : view'[t] = view[t],
           Truthful(view[s])'
    PROVE  \A t \in Sessions : Truthful(view[t])'
  <1> SUFFICES ASSUME NEW t \in Sessions PROVE Truthful(view[t])'
    OBVIOUS
  <1>1. CASE t = s
    BY <1>1
  <1>2. CASE t # s
    BY <1>2, SameView
  <1>3. QED
    BY <1>1, <1>2

\* A step that changes no view leaves them truthful.
LEMMA AllSame ==
    ASSUME IInv, TypeOK', \A c \in ChangeSets : RowStep(c), UNCHANGED view
    PROVE  \A t \in Sessions : Truthful(view[t])'
  BY SameView

\* A session told of its draft: found with nothing known of it, or new and blank.
LEMMA CreateTruthful ==
    ASSUME IInv, TypeOK', \A c \in ChangeSets : RowStep(c), NEW s \in Sessions,
           NEW got \in BOOLEAN, Create(s, got)
    PROVE  \A t \in Sessions : Truthful(view[t])'
  <1> DEFINE p == OwnerOf[s]
             swept == [c \in ChangeSets |-> IF c \in Expiring(p) THEN Expired(cs[c]) ELSE cs[c]]
  <1>1. CASE UNCHANGED view
    BY <1>1, AllSame
  <1>2. ASSUME NEW c \in Found(p), cs' = swept,
               view' = [view EXCEPT ![s] = [cs |-> c, revision |-> cs[c].revision,
                                            known |-> <<>>, digest |-> None]]
        PROVE  \A t \in Sessions : Truthful(view[t])'
    <2>1. c \in ChangeSets /\ c \notin Expiring(p) /\ cs[c].status # "absent"
      BY <1>2 DEF Found, Expiring, Mutable, Due, Ongoing
    <2>2. cs'[c] = cs[c] /\ cs[c].revision >= 1 /\ cs[c].revision \in Nat
      BY <1>2, <2>1 DEF IInv, RowsMade, TypeOK, ChangeSetRow
    <2>3. /\ view'[s].cs = c /\ view'[s].revision = cs[c].revision /\ view'[s].known = <<>>
          /\ \A t \in Sessions \ {s} : view'[t] = view[t]
      BY <1>2 DEF IInv, TypeOK
    <2>4. Truthful(view[s])'
      BY <2>2, <2>3 DEF Truthful, Agrees
    <2>5. QED
      BY <2>3, <2>4, OthersTruthful
  <1>3. ASSUME NEW c \in ChangeSets, cs' = [swept EXCEPT ![c] = NewRow(p)],
               view' = [view EXCEPT ![s] = [cs |-> c, revision |-> NewRow(p).revision,
                                            known |-> Blank, digest |-> None]]
        PROVE  \A t \in Sessions : Truthful(view[t])'
    <2>1. cs'[c].revision = 1 /\ cs'[c].draft = Blank /\ NewRow(p).revision = 1
      BY <1>3 DEF NewRow
    <2>2. /\ view'[s].cs = c /\ view'[s].revision = 1 /\ view'[s].known = Blank
          /\ \A t \in Sessions \ {s} : view'[t] = view[t]
      BY <1>3, <2>1 DEF IInv, TypeOK
    <2>3. Truthful(view[s])'
      BY <2>1, <2>2 DEF Truthful, Agrees
    <2>4. QED
      BY <2>2, <2>3, OthersTruthful
  <1>4. QED
    BY <1>1, <1>2, <1>3 DEF Create, Found

\* A read tells the whole draft.
LEMMA ReadTruthful ==
    ASSUME IInv, TypeOK', \A c \in ChangeSets : RowStep(c), NEW s \in Sessions,
           NEW got \in BOOLEAN, Read(s, got)
    PROVE  \A t \in Sessions : Truthful(view[t])'
  <1> DEFINE c == view[s].cs
  <1>1. CASE UNCHANGED view
    BY <1>1, AllSame
  <1>2. CASE view' = [view EXCEPT ![s].revision = cs[c].revision, ![s].known = cs[c].draft]
    <2>1. c \in ChangeSets /\ view[s] \in View /\ Truthful(view[s]) /\ c # None
      BY OwnedDraft, ViewsTruthful DEF Read, IInv, TypeOK, Owned
    <2>2. /\ view'[s].cs = c /\ view'[s].revision = cs[c].revision
          /\ view'[s].known = cs[c].draft
          /\ \A t \in Sessions \ {s} : view'[t] = view[t]
      BY <1>2, <2>1 DEF IInv, TypeOK, View
    <2>3. cs[c] \in ChangeSetRow /\ cs'[c] \in {cs[c], Expired(cs[c])}
      BY <2>1 DEF Read, IInv, TypeOK
    <2>4. cs'[c].revision = cs[c].revision /\ cs'[c].draft = cs[c].draft
      BY <2>3 DEF Expired, ChangeSetRow
    <2>5. 1 <= cs[c].revision /\ cs[c].revision \in Nat
      BY <2>1, <2>3 DEF Truthful, View, ChangeSetRow
    <2>6. Truthful(view[s])'
      BY <2>2, <2>4, <2>5 DEF Truthful, Agrees
    <2>7. QED
      BY <2>2, <2>6, OthersTruthful
  <1>3. QED
    BY <1>1, <1>2 DEF Read

\* A stage tells the next revision: the session knew what it was, so it knows
\* what it is with the changes put over it.
LEMMA StageTruthful ==
    ASSUME IInv, TypeOK', \A c \in ChangeSets : RowStep(c), NEW s \in Sessions,
           NEW got \in BOOLEAN, NEW changes \in Partial, Stage(s, changes, got)
    PROVE  \A t \in Sessions : Truthful(view[t])'
  <1> DEFINE c == view[s].cs
  <1>1. CASE UNCHANGED view
    BY <1>1, AllSame
  <1>2. CASE /\ Current(s)
             /\ cs' = [cs EXCEPT ![c] = Staged(cs[c], changes)]
             /\ view' = [view EXCEPT ![s].revision = cs[c].revision + 1,
                                     ![s].known = Over(changes, view[s].known),
                                     ![s].digest = None]
    <2>1. /\ c \in ChangeSets /\ view[s] \in View /\ Truthful(view[s]) /\ c # None
          /\ cs[c] \in ChangeSetRow
      BY OwnedDraft, ViewsTruthful DEF Stage, IInv, TypeOK, Owned
    <2>2. /\ view'[s].cs = c /\ view'[s].revision = cs[c].revision + 1
          /\ view'[s].known = Over(changes, view[s].known)
          /\ \A t \in Sessions \ {s} : view'[t] = view[t]
      BY <1>2, <2>1 DEF IInv, TypeOK, View
    <2>3. cs'[c].revision = cs[c].revision + 1 /\ cs'[c].draft = Over(changes, cs[c].draft)
      <3>1. cs'[c] = Staged(cs[c], changes)
        BY <1>2, <2>1 DEF IInv, TypeOK
      <3>2. QED
        BY <2>1, <3>1 DEF Staged, ChangeSetRow
    <2>4. Agrees(cs[c].draft, view[s].known)
      BY <1>2, <2>1 DEF Truthful, Current
    <2>5. Agrees(Over(changes, cs[c].draft), Over(changes, view[s].known))
      <3>1. cs[c].draft \in Drafts /\ view[s].known \in Partial
        BY <2>1 DEF ChangeSetRow, View
      <3>2. QED
        BY <2>4, <3>1, AgreesOver
    <2>6. cs[c].revision \in Nat /\ 1 <= cs[c].revision + 1
      BY <2>1 DEF ChangeSetRow
    <2>7. Truthful(view[s])'
      BY <2>2, <2>3, <2>5, <2>6 DEF Truthful
    <2>8. QED
      BY <2>2, <2>7, OthersTruthful
  <1>3. QED
    BY <1>1, <1>2 DEF Stage, ExpireDraft, IInv, TypeOK

\* A validation tells of the seal alone.
LEMMA ValidateTruthful ==
    ASSUME IInv, TypeOK', \A c \in ChangeSets : RowStep(c), NEW s \in Sessions,
           NEW valid \in BOOLEAN, NEW got \in BOOLEAN, Validate(s, valid, got)
    PROVE  \A t \in Sessions : Truthful(view[t])'
  <1>1. CASE UNCHANGED view
    BY <1>1, AllSame
  <1>2. ASSUME NEW digest, view' = [view EXCEPT ![s].digest = digest]
        PROVE  \A t \in Sessions : Truthful(view[t])'
    <2>1. ASSUME NEW t \in Sessions
          PROVE  /\ view'[t].cs = view[t].cs /\ view'[t].revision = view[t].revision
                 /\ view'[t].known = view[t].known
      BY <1>2, <2>1 DEF IInv, TypeOK, View
    <2>2. QED
      BY <2>1, SameView
  <1>3. QED
    BY <1>1, <1>2 DEF Validate, ExpireDraft

\* A session that restarts knows of no draft.
LEMMA ForgetTruthful ==
    ASSUME IInv, TypeOK', \A c \in ChangeSets : RowStep(c), NEW s \in Sessions, Forget(s)
    PROVE  \A t \in Sessions : Truthful(view[t])'
  <1>1. view'[s].cs = None /\ \A t \in Sessions \ {s} : view'[t] = view[t]
    BY DEF Forget, NoView, IInv, TypeOK
  <1>2. Truthful(view[s])'
    BY <1>1 DEF Truthful
  <1>3. QED
    BY <1>1, <1>2, OthersTruthful

\* What a session is told by a commit, now or again, is what its batch made
\* of what it knew when it began.
LEMMA CommitTruthful ==
    ASSUME IInv, TypeOK', \A c \in ChangeSets : RowStep(c), NEW s \in Sessions,
           NEW got \in BOOLEAN, Commit(s, got)
    PROVE  \A t \in Sessions : Truthful(view[t])'
  <1> DEFINE b == upload[s].batch
             c == batch[b].cs
             one == [d \in {batch[b].dataset} |-> batch[b].chunks]
             sent == [d \in {batch[b].dataset} |-> upload[s].plan]
  <1>1. /\ b \in Batches /\ c \in ChangeSets /\ batch[b].dataset \in Datasets /\ b # None
        /\ cs[c] \in ChangeSetRow /\ batch[b] \in BatchRow /\ upload[s] \in Upload
    BY SentBatch DEF Commit, IInv, TypeOK, InBatch
  <1>2. /\ 1 <= batch[b].expected /\ batch[b].expected <= cs[c].revision
        /\ batch[b].status = "committed" => /\ batch[b].committed = batch[b].expected + 1
                                            /\ batch[b].committed <= cs[c].revision
    BY <1>1, SentBatch DEF Commit, IInv, BatchesLinked
  <1>3. /\ batch[b].plan = upload[s].plan
        /\ cs[c].revision = batch[b].expected => Agrees(cs[c].draft, upload[s].known)
        /\ (batch[b].status = "committed" /\ cs[c].revision = batch[b].committed)
                 => Agrees(cs[c].draft, Over(sent, upload[s].known))
    BY <1>1 DEF IInv, UploadsAreTrue
  <1>4. /\ sent \in Partial /\ upload[s].known \in Partial /\ cs[c].draft \in Drafts
        /\ cs[c].revision \in Nat /\ batch[b].expected \in Nat
    BY <1>1, OnePartial DEF Upload, ChangeSetRow, BatchRow
  <1>5. CASE UNCHANGED view
    BY <1>5, AllSame
  <1>6. ASSUME NEW n \in Nat, view' = AfterCommit(s, n)
        PROVE  /\ view'[s].cs = c /\ view'[s].revision = n
               /\ view'[s].known = Over(sent, upload[s].known)
               /\ \A t \in Sessions \ {s} : view'[t] = view[t]
    BY <1>6 DEF AfterCommit, IInv, TypeOK
  <1>7. CASE /\ batch[b].status = "committed" /\ UNCHANGED cs
             /\ view' = AfterCommit(s, batch[b].committed)
    <2>1. batch[b].committed \in Nat /\ 1 <= batch[b].committed
      BY <1>2, <1>4, <1>7
    <2>2. Truthful(view[s])'
      BY <1>2, <1>3, <1>6, <1>7, <2>1 DEF Truthful
    <2>3. QED
      BY <1>6, <1>7, <2>1, <2>2, OthersTruthful
  <1>8. CASE /\ StillExpected(b) /\ Complete(b)
             /\ cs' = [cs EXCEPT ![c] = Staged(cs[c], one)]
             /\ view' = AfterCommit(s, cs[c].revision + 1)
    <2>1. one = sent
      BY <1>3, <1>8 DEF Complete
    <2>2. cs'[c].revision = cs[c].revision + 1 /\ cs'[c].draft = Over(sent, cs[c].draft)
      <3>1. cs'[c] = Staged(cs[c], sent)
        BY <1>1, <1>8, <2>1 DEF IInv, TypeOK
      <3>2. QED
        BY <1>1, <3>1 DEF Staged, ChangeSetRow
    <2>3. Agrees(Over(sent, cs[c].draft), Over(sent, upload[s].known))
      BY <1>3, <1>4, <1>8, AgreesOver DEF StillExpected
    <2>4. cs[c].revision + 1 \in Nat /\ 1 <= cs[c].revision + 1
      BY <1>4
    <2>5. /\ view'[s].cs = c /\ view'[s].revision = cs[c].revision + 1
          /\ view'[s].known = Over(sent, upload[s].known)
          /\ \A t \in Sessions \ {s} : view'[t] = view[t]
      BY <1>6, <1>8, <2>4
    <2>6. Truthful(view[s])'
      <3> HIDE DEF b, c, sent, one
      <3>1. QED
        BY <2>2, <2>3, <2>4, <2>5 DEF Truthful
    <2>7. QED
      BY <2>5, <2>6, OthersTruthful
  <1>9. QED
    BY <1>1, <1>5, <1>7, <1>8 DEF Commit, ExpireDraft, ExpireBatch, IInv, TypeOK

\* No step tells a session what is not so.
LEMMA ViewsKept ==
    ASSUME IInv, [Next]_vars, TypeOK', \A c \in ChangeSets : RowStep(c)
    PROVE  Behind' /\ ViewsAreTrue'
  <1>1. \A t \in Sessions : Truthful(view[t])'
    <2>1. CASE UNCHANGED view
      BY <2>1, AllSame
    <2>2. ASSUME NEW s \in Sessions, NEW got \in BOOLEAN,
                 Create(s, got) \/ Read(s, got) \/ Commit(s, got)
          PROVE  \A t \in Sessions : Truthful(view[t])'
      BY <2>2, CreateTruthful, ReadTruthful, CommitTruthful
    <2>3. ASSUME NEW s \in Sessions, NEW got \in BOOLEAN, NEW changes \in Partial \ {<<>>},
                 Stage(s, changes, got)
          PROVE  \A t \in Sessions : Truthful(view[t])'
      BY <2>3, StageTruthful
    <2>4. ASSUME NEW s \in Sessions, NEW got \in BOOLEAN, NEW valid \in BOOLEAN,
                 Validate(s, valid, got)
          PROVE  \A t \in Sessions : Truthful(view[t])'
      BY <2>4, ValidateTruthful
    <2>5. ASSUME NEW s \in Sessions, Forget(s)
          PROVE  \A t \in Sessions : Truthful(view[t])'
      BY <2>5, ForgetTruthful
    <2>6. ASSUME NEW s \in Sessions, NEW got \in BOOLEAN, NEW d \in Datasets,
                 NEW plan \in Contents, Begin(s, d, plan, got)
          PROVE  UNCHANGED view
      BY <2>6 DEF Begin, ExpireDraft
    <2>7. ASSUME NEW s \in Sessions, NEW b \in Batches, NEW piece \in Pieces,
                 NEW i \in DOMAIN batch[b].chunks, Put(s, i, piece)
          PROVE  UNCHANGED view
      BY <2>7 DEF Put, ExpireBatch, ExpireDraft
    <2>8. ASSUME NEW s \in Sessions, Apply(s) \/ Archive(s)
          PROVE  UNCHANGED view
      BY <2>8 DEF Apply, Archive, ExpireDraft
    <2>9. (UNCHANGED vars \/ Govern \/ ApplyElsewhere \/ Tick) => UNCHANGED view
      BY DEF vars, Govern, ApplyElsewhere, Tick
    <2>10. QED
      BY <2>1, <2>2, <2>3, <2>4, <2>5, <2>6, <2>7, <2>8, <2>9 DEF Next
  <1>2. QED
    BY <1>1 DEF Truthful, Behind, ViewsAreTrue, Agrees

-----------------------------------------------------------------------------
(* What a step does to a batch, and to what the clients send. *)

\* The batch keeps its draft and its plan, whatever else; or it is begun, for
\* an ongoing draft at its revision; or it is committed over that revision.
Steady(b) ==
    /\ batch'[b].status = "absent" <=> batch[b].status = "absent"
    /\ batch'[b].status = "committed" <=> batch[b].status = "committed"
    /\ batch'[b].cs = batch[b].cs /\ batch'[b].dataset = batch[b].dataset
    /\ batch'[b].expected = batch[b].expected /\ batch'[b].plan = batch[b].plan
    /\ batch'[b].committed = batch[b].committed
Begun(b) ==
    /\ batch[b].status = "absent" /\ UNCHANGED cs
    /\ \E c \in ChangeSets, d \in Datasets, plan \in Contents :
          Mutable(c) /\ batch'[b] = NewBatch(c, d, plan)
Committed(b) ==
    /\ batch[b].status = "active" /\ StillExpected(b)
    /\ batch'[b] = [batch[b] EXCEPT !.status = "committed",
                                    !.committed = cs[batch[b].cs].revision + 1]
    /\ cs' = [cs EXCEPT ![batch[b].cs] =
                 Staged(cs[batch[b].cs], [d \in {batch[b].dataset} |-> batch[b].plan])]

BatchStep(b) == Steady(b) \/ Begun(b) \/ Committed(b)

\* A batch that is left alone or found past its time.
LEMMA SteadyBatch ==
    ASSUME TypeOK, NEW b \in Batches,
           batch'[b] = batch[b] \/ (batch[b].status = "active" /\ batch'[b] = Expired(batch[b]))
    PROVE  Steady(b)
  <1>1. batch[b] \in BatchRow
    BY DEF TypeOK
  <1>2. QED
    BY <1>1 DEF Steady, Expired, BatchRow

\* Expiring a draft expires batches of it.
LEMMA ExpireDraftBatch ==
    ASSUME TypeOK, NEW c, ExpireDraft(c), NEW b \in Batches
    PROVE  Steady(b)
  <1>1. batch'[b] = batch[b] \/ (batch[b].status = "active" /\ batch'[b] = Expired(batch[b]))
    BY DEF ExpireDraft, ExpireBatches
  <1>2. QED
    BY <1>1, SteadyBatch

\* A batch whose time is over is expired, and no other is touched.
LEMMA ExpireBatchBatch ==
    ASSUME TypeOK, NEW e \in Batches, ExpireBatch(e), NEW b \in Batches
    PROVE  Steady(b)
  <1>1. batch'[b] = batch[b] \/ (batch[b].status = "active" /\ batch'[b] = Expired(batch[b]))
    BY DEF ExpireBatch, BatchDue, TypeOK
  <1>2. QED
    BY <1>1, SteadyBatch

\* Beginning makes one batch and expires others of the dataset.
LEMMA BeginBatch ==
    ASSUME TypeOK, NEW s \in Sessions, NEW got \in BOOLEAN, NEW d \in Datasets,
           NEW plan \in Contents, Begin(s, d, plan, got), NEW e \in Batches
    PROVE  BatchStep(e)
  <1> DEFINE c == view[s].cs
             swept == [b \in Batches |->
                        IF BatchDue(b) /\ batch[b].cs = c /\ batch[b].dataset = d
                        THEN Expired(batch[b]) ELSE batch[b]]
  <1>1. c \in ChangeSets
    BY OwnedDraft DEF Begin
  <1>2. CASE ExpireDraft(c)
    BY <1>2, ExpireDraftBatch DEF BatchStep
  <1>3. CASE batch'[e] = swept[e]
    <2>1. Steady(e)
      BY <1>3, SteadyBatch DEF BatchDue
    <2>2. QED
      BY <2>1 DEF BatchStep
  <1>4. ASSUME NEW b \in Batches, batch[b].status = "absent", Mutable(c), UNCHANGED cs,
               batch' = [swept EXCEPT ![b] = NewBatch(c, d, plan)]
        PROVE  BatchStep(e)
    <2>1. CASE e # b
      BY <1>3, <1>4, <2>1
    <2>2. CASE e = b
      <3>1. batch'[b] = NewBatch(c, d, plan)
        BY <1>4
      <3>2. Begun(b)
        <4> HIDE DEF c, swept
        <4>1. QED
          BY <1>1, <1>4, <3>1 DEF Begun
      <3>3. QED
        BY <2>2, <3>2 DEF BatchStep
    <2>3. QED
      BY <2>1, <2>2
  <1>5. QED
    BY <1>2, <1>3, <1>4 DEF Begin, OpenBatches

\* A chunk changes the chunks alone.
LEMMA PutBatch ==
    ASSUME IInv, NEW s \in Sessions, NEW i, NEW piece, Put(s, i, piece), NEW e \in Batches
    PROVE  Steady(e)
  <1> DEFINE b == upload[s].batch
  <1>1. b \in Batches /\ TypeOK
    BY SentBatch DEF Put, IInv
  <1>2. CASE ExpireDraft(batch[b].cs) \/ ExpireBatch(b)
    BY <1>1, <1>2, ExpireDraftBatch, ExpireBatchBatch
  <1>3. CASE batch' = [batch EXCEPT ![b].chunks[i] = piece]
    <2>1. batch[e] \in BatchRow /\ batch[b] \in BatchRow
      BY <1>1 DEF TypeOK
    <2>2. batch' = [batch EXCEPT ![b] =
                       [batch[b] EXCEPT !.chunks = [batch[b].chunks EXCEPT ![i] = piece]]]
      BY <1>1, <1>3 DEF TypeOK
    <2>3. \/ batch'[e] = batch[e]
          \/ batch'[e] = [batch[e] EXCEPT !.chunks = [batch[e].chunks EXCEPT ![i] = piece]]
      BY <1>1, <2>2 DEF TypeOK
    <2>4. QED
      BY <2>1, <2>3 DEF Steady, BatchRow
  <1>4. QED
    BY <1>2, <1>3 DEF Put

\* A commit stages the plan of the one batch: its chunks are those of the plan.
LEMMA CommitBatch ==
    ASSUME IInv, NEW s \in Sessions, NEW got \in BOOLEAN, Commit(s, got), NEW e \in Batches
    PROVE  BatchStep(e)
  <1> DEFINE b == upload[s].batch
             c == batch[b].cs
             one == [d \in {batch[b].dataset} |-> batch[b].chunks]
  <1>1. b \in Batches /\ TypeOK /\ batch[b] \in BatchRow
    BY SentBatch DEF Commit, IInv, TypeOK
  <1>2. CASE ExpireDraft(c) \/ ExpireBatch(b)
    BY <1>1, <1>2, ExpireDraftBatch, ExpireBatchBatch DEF BatchStep
  <1>3. CASE UNCHANGED batch
    BY <1>1, <1>3, SteadyBatch DEF BatchStep
  <1>4. CASE /\ batch[b].status = "active" /\ StillExpected(b) /\ Complete(b)
             /\ cs' = [cs EXCEPT ![c] = Staged(cs[c], one)]
             /\ batch' = [batch EXCEPT ![b].status = "committed",
                                       ![b].committed = cs[c].revision + 1]
    <2>1. CASE e # b
      BY <1>1, <1>4, <2>1, SteadyBatch DEF TypeOK, BatchStep
    <2>2. CASE e = b
      <3>1. batch'[b] = [batch[b] EXCEPT !.status = "committed",
                                         !.committed = cs[c].revision + 1]
        BY <1>1, <1>4 DEF TypeOK
      <3>2. one = [d \in {batch[b].dataset} |-> batch[b].plan]
        BY <1>4 DEF Complete
      <3>3. Committed(b)
        BY <1>4, <3>1, <3>2 DEF Committed
      <3>4. QED
        BY <2>2, <3>3 DEF BatchStep
    <2>3. QED
      BY <2>1, <2>2
  <1>5. QED
    BY <1>1, <1>2, <1>3, <1>4 DEF Commit, IInv, TypeOK

\* The clock ages a batch.
LEMMA TickBatch ==
    ASSUME TypeOK, Tick, NEW e \in Batches
    PROVE  Steady(e)
  <1>1. batch[e] \in BatchRow
    BY DEF TypeOK
  <1>2. batch'[e] = batch[e] \/ batch'[e] = [batch[e] EXCEPT !.left = @ - 1]
    BY DEF Tick
  <1>3. QED
    BY <1>1, <1>2 DEF Steady, BatchRow

\* Every step of the system is a step of each batch.
LEMMA BatchSteps ==
    ASSUME IInv, [Next]_vars, NEW e \in Batches
    PROVE  BatchStep(e)
  <1>1. TypeOK
    BY DEF IInv
  <1>2. CASE UNCHANGED batch
    BY <1>1, <1>2, SteadyBatch DEF BatchStep
  <1>3. ASSUME NEW c, ExpireDraft(c) PROVE BatchStep(e)
    BY <1>1, <1>3, ExpireDraftBatch DEF BatchStep
  <1>4. ASSUME NEW s \in Sessions, NEW got \in BOOLEAN, Create(s, got) PROVE BatchStep(e)
    <2>1. batch'[e] = batch[e] \/ (batch[e].status = "active" /\ batch'[e] = Expired(batch[e]))
      BY <1>4 DEF Create
    <2>2. QED
      BY <1>1, <2>1, SteadyBatch DEF BatchStep
  <1>5. ASSUME NEW s \in Sessions, NEW got \in BOOLEAN, Read(s, got) PROVE BatchStep(e)
    <2>1. batch'[e] = batch[e] \/ (batch[e].status = "active" /\ batch'[e] = Expired(batch[e]))
      BY <1>5 DEF Read, ExpireBatches
    <2>2. QED
      BY <1>1, <2>1, SteadyBatch DEF BatchStep
  <1>6. ASSUME NEW s \in Sessions, NEW got \in BOOLEAN, Commit(s, got) PROVE BatchStep(e)
    BY <1>6, CommitBatch
  <1>7. ASSUME NEW s \in Sessions, NEW got \in BOOLEAN, NEW changes \in Partial \ {<<>>},
               Stage(s, changes, got)
        PROVE  BatchStep(e)
    BY <1>2, <1>3, <1>7 DEF Stage
  <1>8. ASSUME NEW s \in Sessions, NEW got \in BOOLEAN, NEW d \in Datasets,
               NEW plan \in Contents, Begin(s, d, plan, got)
        PROVE  BatchStep(e)
    BY <1>1, <1>8, BeginBatch
  <1>9. ASSUME NEW s \in Sessions, NEW got \in BOOLEAN, NEW valid \in BOOLEAN,
               Validate(s, valid, got)
        PROVE  BatchStep(e)
    BY <1>2, <1>3, <1>9 DEF Validate
  <1>10. ASSUME NEW s \in Sessions, NEW b \in Batches, NEW piece \in Pieces,
                NEW i \in DOMAIN batch[b].chunks, Put(s, i, piece)
         PROVE  BatchStep(e)
    BY <1>10, PutBatch DEF BatchStep
  <1>11. ASSUME NEW s \in Sessions, Apply(s) \/ Archive(s)
         PROVE  BatchStep(e)
    BY <1>2, <1>3, <1>11 DEF Apply, Archive
  <1>12. (UNCHANGED vars \/ Govern \/ ApplyElsewhere \/ \E s \in Sessions : Forget(s))
            => UNCHANGED batch
    BY DEF vars, Govern, ApplyElsewhere, Forget
  <1>13. QED
    BY <1>1, <1>2, <1>4, <1>5, <1>6, <1>7, <1>8, <1>9, <1>10, <1>11, <1>12, TickBatch
       DEF Next, BatchStep

\* A batch stays linked to its draft.
LEMMA BatchesKept ==
    ASSUME IInv, TypeOK', \A c \in ChangeSets : RowStep(c), \A b \in Batches : BatchStep(b)
    PROVE  BatchesLinked'
  <1> SUFFICES ASSUME NEW b \in Batches, batch'[b].status # "absent"
               PROVE  /\ batch'[b].cs \in ChangeSets /\ batch'[b].dataset \in Datasets
                      /\ 1 <= batch'[b].expected
                      /\ batch'[b].expected <= cs'[batch'[b].cs].revision
                      /\ batch'[b].status = "committed" =>
                            /\ batch'[b].committed = batch'[b].expected + 1
                            /\ batch'[b].committed <= cs'[batch'[b].cs].revision
    BY DEF BatchesLinked
  <1> DEFINE c == batch[b].cs
  <1>1. /\ batch[b] \in BatchRow /\ batch[b].expected \in Nat /\ batch[b].committed \in Nat
        /\ \A e \in ChangeSets : cs[e] \in ChangeSetRow /\ cs[e].revision \in Nat
                                 /\ cs'[e].revision \in Nat
    BY DEF IInv, TypeOK, BatchRow, ChangeSetRow
  <1>2. batch[b].status # "absent" =>
           /\ c \in ChangeSets /\ batch[b].dataset \in Datasets
           /\ 1 <= batch[b].expected /\ batch[b].expected <= cs[c].revision
           /\ batch[b].status = "committed" => /\ batch[b].committed = batch[b].expected + 1
                                               /\ batch[b].committed <= cs[c].revision
           /\ cs[c].revision <= cs'[c].revision
    BY RowsGrow DEF IInv, BatchesLinked, Grows
  <1>3. CASE Steady(b)
    <2>1. /\ batch[b].status # "absent" /\ batch'[b].cs = c
          /\ batch'[b].dataset = batch[b].dataset /\ batch'[b].expected = batch[b].expected
          /\ batch'[b].committed = batch[b].committed
          /\ batch'[b].status = "committed" => batch[b].status = "committed"
      BY <1>3 DEF Steady
    <2> HIDE DEF c
    <2>2. c \in ChangeSets /\ cs[c].revision \in Nat /\ cs'[c].revision \in Nat
      BY <1>1, <1>2, <2>1
    <2>3. QED
      BY <1>1, <1>2, <2>1, <2>2
  <1>4. CASE Begun(b)
    <2>1. PICK e \in ChangeSets, d \in Datasets, plan \in Contents :
             Mutable(e) /\ batch'[b] = NewBatch(e, d, plan)
      BY <1>4 DEF Begun
    <2>2. cs[e].revision >= 1 /\ cs' = cs
      BY <1>4, <2>1 DEF IInv, RowsMade, Mutable, Ongoing, Begun
    <2>3. /\ batch'[b].cs = e /\ batch'[b].dataset = d
          /\ batch'[b].expected = cs[e].revision /\ batch'[b].status = "active"
      BY <2>1 DEF NewBatch
    <2>4. QED
      BY <1>1, <2>2, <2>3
  <1>5. CASE Committed(b)
    <2>1. /\ batch[b].status = "active" /\ cs[c].revision = batch[b].expected
          /\ batch'[b].cs = c /\ batch'[b].dataset = batch[b].dataset
          /\ batch'[b].expected = batch[b].expected
          /\ batch'[b].committed = cs[c].revision + 1
      BY <1>1, <1>5 DEF Committed, StillExpected, BatchRow
    <2>2. c \in ChangeSets
      BY <1>2, <2>1
    <2>3. cs'[c].revision = cs[c].revision + 1
      <3>1. cs'[c] = Staged(cs[c], [d \in {batch[b].dataset} |-> batch[b].plan])
        BY <1>5, <2>2 DEF Committed, IInv, TypeOK
      <3>2. QED
        BY <1>1, <2>2, <3>1 DEF Staged, ChangeSetRow
    <2> HIDE DEF c
    <2>4. QED
      BY <1>1, <1>2, <2>1, <2>2, <2>3
  <1>6. BatchStep(b)
    OBVIOUS
  <1>7. QED
    BY <1>3, <1>4, <1>5, <1>6 DEF BatchStep

\* What is known of a batch that a client sends: u is its upload.
Sending(u) ==
    u.batch # None =>
        LET b == u.batch
            row == cs[batch[b].cs]
            sent == [d \in {batch[b].dataset} |-> u.plan]
        IN /\ batch[b].status # "absent" /\ batch[b].plan = u.plan
           /\ row.revision = batch[b].expected => Agrees(row.draft, u.known)
           /\ (batch[b].status = "committed" /\ row.revision = batch[b].committed)
                 => Agrees(row.draft, Over(sent, u.known))

\* A step leaves true what a client that goes on sending knows.
LEMMA StaysSending ==
    ASSUME IInv, TypeOK', \A c \in ChangeSets : RowStep(c), \A b \in Batches : BatchStep(b),
           NEW u \in Upload, Sending(u)
    PROVE  Sending(u)'
  <1> DEFINE b == u.batch
             c == batch[b].cs
             sent == [d \in {batch[b].dataset} |-> u.plan]
  <1>1. CASE b = None
    BY <1>1 DEF Sending
  <1>2. CASE b # None
    <2>1. b \in Batches /\ u.known \in Partial /\ u.plan \in Contents
      BY <1>2 DEF Upload
    <2>2. /\ batch[b].status # "absent" /\ batch[b].plan = u.plan
          /\ cs[c].revision = batch[b].expected => Agrees(cs[c].draft, u.known)
          /\ (batch[b].status = "committed" /\ cs[c].revision = batch[b].committed)
                 => Agrees(cs[c].draft, Over(sent, u.known))
      BY <1>2 DEF Sending
    <2>3. /\ batch[b] \in BatchRow /\ c \in ChangeSets /\ batch[b].dataset \in Datasets
          /\ batch[b].expected <= cs[c].revision
          /\ batch[b].status = "committed" => batch[b].committed <= cs[c].revision
      BY <2>1, <2>2 DEF IInv, TypeOK, BatchesLinked
    <2>4. /\ cs[c] \in ChangeSetRow /\ cs[c].revision \in Nat /\ cs'[c].revision \in Nat
          /\ batch[b].expected \in Nat /\ batch[b].committed \in Nat /\ cs[c].draft \in Drafts
      BY <2>3 DEF IInv, TypeOK, ChangeSetRow, BatchRow
    <2>5. Grows(c)
      BY <2>3, RowsGrow
    <2>6. CASE Steady(b)
      <3>1. /\ batch'[b].status # "absent" /\ batch'[b].plan = u.plan /\ batch'[b].cs = c
            /\ batch'[b].dataset = batch[b].dataset /\ batch'[b].expected = batch[b].expected
            /\ batch'[b].committed = batch[b].committed
            /\ batch'[b].status = "committed" => batch[b].status = "committed"
        BY <2>2, <2>6 DEF Steady
      <3>2. cs'[c].revision = batch[b].expected => Agrees(cs'[c].draft, u.known)
        <4> HIDE DEF c, sent
        <4>1. QED
          BY <2>2, <2>3, <2>4, <2>5 DEF Grows
      <3>3. (batch'[b].status = "committed" /\ cs'[c].revision = batch[b].committed)
               => Agrees(cs'[c].draft, Over(sent, u.known))
        <4> HIDE DEF c, sent
        <4>1. QED
          BY <2>2, <2>3, <2>4, <2>5, <3>1 DEF Grows
      <3>4. QED
        BY <3>1, <3>2, <3>3 DEF Sending
    <2>7. CASE Begun(b)
      BY <2>2, <2>7 DEF Begun
    <2>8. CASE Committed(b)
      <3>1. /\ cs[c].revision = batch[b].expected
            /\ batch'[b].status = "committed" /\ batch'[b].plan = u.plan /\ batch'[b].cs = c
            /\ batch'[b].dataset = batch[b].dataset /\ batch'[b].expected = batch[b].expected
            /\ batch'[b].committed = cs[c].revision + 1
        BY <2>2, <2>3, <2>8 DEF Committed, StillExpected, BatchRow
      <3>2. cs'[c] = Staged(cs[c], sent)
        BY <2>2, <2>3, <2>8 DEF Committed, IInv, TypeOK
      <3>3. cs'[c].revision = cs[c].revision + 1 /\ cs'[c].draft = Over(sent, cs[c].draft)
        BY <2>4, <3>2 DEF Staged, ChangeSetRow
      <3>4. cs'[c].revision # batch[b].expected
        <4> HIDE DEF c
        <4>1. QED
          BY <2>4, <3>1, <3>3
      <3>5. sent \in Partial
        BY <2>1, <2>3, OnePartial
      <3>6. Agrees(Over(sent, cs[c].draft), Over(sent, u.known))
        BY <2>1, <2>2, <2>4, <3>1, <3>5, AgreesOver
      <3>7. QED
        BY <3>1, <3>3, <3>4, <3>6 DEF Sending
    <2>9. BatchStep(b)
      BY <2>1
    <2>10. QED
      BY <2>6, <2>7, <2>8, <2>9 DEF BatchStep
  <1>3. QED
    BY <1>1, <1>2

\* A client that begins knows what its view of the current revision says.
LEMMA BeginSending ==
    ASSUME IInv, TypeOK', NEW s \in Sessions, NEW got \in BOOLEAN, NEW d \in Datasets,
           NEW plan \in Contents, Begin(s, d, plan, got), upload' # upload
    PROVE  /\ Sending(upload[s])'
           /\ \A t \in Sessions \ {s} : upload'[t] = upload[t]
  <1> DEFINE c == view[s].cs
             swept == [b \in Batches |->
                        IF BatchDue(b) /\ batch[b].cs = c /\ batch[b].dataset = d
                        THEN Expired(batch[b]) ELSE batch[b]]
  <1>1. c \in ChangeSets /\ Truthful(view[s]) /\ c # None /\ TypeOK
    BY OwnedDraft, ViewsTruthful DEF Begin, IInv, Owned
  <1>2. Mutable(c) /\ Current(s) /\ UNCHANGED cs
    BY DEF Begin, ExpireDraft
  <1>3. Agrees(cs[c].draft, view[s].known)
    BY <1>1, <1>2 DEF Truthful, Current
  <1>4. PICK b \in Batches :
           /\ upload' = [upload EXCEPT ![s] = [batch |-> b, plan |-> plan,
                                               known |-> view[s].known]]
           /\ \/ b \in OpenBatches(c, d) /\ Resumable(b, cs[c].revision, plan) /\ batch' = swept
              \/ batch' = [swept EXCEPT ![b] = NewBatch(c, d, plan)]
    BY DEF Begin, ExpireDraft, OpenBatches
  <1>5. /\ batch'[b].status = "active" /\ batch'[b].plan = plan /\ batch'[b].cs = c
    <2>1. CASE b \in OpenBatches(c, d) /\ Resumable(b, cs[c].revision, plan) /\ batch' = swept
      <3>1. batch'[b] = batch[b] \/ batch'[b] = Expired(batch[b])
        BY <2>1
      <3>2. ~BatchDue(b)
        BY <2>1 DEF BatchDue, OpenBatches
      <3>3. batch'[b] = batch[b]
        BY <2>1, <3>2
      <3>4. QED
        BY <2>1, <3>3 DEF OpenBatches, Resumable
    <2>2. CASE batch' = [swept EXCEPT ![b] = NewBatch(c, d, plan)]
      <3>1. batch'[b] = NewBatch(c, d, plan)
        BY <2>2
      <3>2. QED
        BY <3>1 DEF NewBatch
    <2>3. QED
      BY <1>4, <2>1, <2>2
  <1>6. upload'[s] = [batch |-> b, plan |-> plan, known |-> view[s].known]
        /\ \A t \in Sessions \ {s} : upload'[t] = upload[t]
    BY <1>1, <1>4 DEF TypeOK
  <1>7. Sending(upload[s])'
    <2> HIDE DEF swept
    <2>1. QED
      BY <1>2, <1>3, <1>5, <1>6 DEF Sending
  <1>8. QED
    BY <1>6, <1>7

\* No step makes a client send what it does not know.
LEMMA UploadsKept ==
    ASSUME IInv, [Next]_vars, TypeOK', \A c \in ChangeSets : RowStep(c),
           \A b \in Batches : BatchStep(b)
    PROVE  UploadsAreTrue'
  <1> SUFFICES ASSUME NEW t \in Sessions PROVE Sending(upload[t])'
    BY DEF UploadsAreTrue, Sending
  <1>1. CASE upload'[t] = upload[t]
    <2>1. upload[t] \in Upload /\ Sending(upload[t])
      BY DEF IInv, TypeOK, UploadsAreTrue, Sending
    <2>2. ASSUME NEW u \in Upload, u = upload[t] PROVE Sending(u)'
      BY <2>1, <2>2, StaysSending
    <2>3. ASSUME NEW u \in Upload, u = upload[t] PROVE Sending(upload[t])'
      <3>1. u = upload'[t]
        BY <1>1, <2>3
      <3>2. Sending(u)'
        BY <2>2, <2>3
      <3>3. QED
        BY <3>1, <3>2 DEF Sending
    <2>4. QED
      BY <2>1, <2>3
  <1>2. CASE UNCHANGED upload
    BY <1>1, <1>2
  <1>3. ASSUME NEW s \in Sessions, NEW got \in BOOLEAN, NEW d \in Datasets,
               NEW plan \in Contents, Begin(s, d, plan, got)
        PROVE  Sending(upload[t])'
    BY <1>1, <1>2, <1>3, BeginSending
  <1>4. ASSUME NEW s \in Sessions, Forget(s)
        PROVE  Sending(upload[t])'
    <2>1. upload'[t] = upload[t] \/ upload'[t] = NoUpload
      BY <1>4 DEF Forget, IInv, TypeOK
    <2>2. upload'[t] = NoUpload => Sending(upload[t])'
      BY DEF Sending, NoUpload
    <2>3. QED
      BY <1>1, <2>1, <2>2
  <1>5. ASSUME NEW s \in Sessions, NEW got \in BOOLEAN,
               Create(s, got) \/ Read(s, got) \/ Commit(s, got)
        PROVE  UNCHANGED upload
    BY <1>5 DEF Create, Read, Commit, ExpireDraft, ExpireBatch
  <1>6. ASSUME NEW s \in Sessions, NEW got \in BOOLEAN,
               \/ \E changes \in Partial \ {<<>>} : Stage(s, changes, got)
               \/ \E valid \in BOOLEAN : Validate(s, valid, got)
        PROVE  UNCHANGED upload
    BY <1>6 DEF Stage, Validate, ExpireDraft
  <1>7. ASSUME NEW s \in Sessions, NEW b \in Batches, NEW piece \in Pieces,
               NEW i \in DOMAIN batch[b].chunks, Put(s, i, piece)
        PROVE  UNCHANGED upload
    BY <1>7 DEF Put, ExpireDraft, ExpireBatch
  <1>8. ASSUME NEW s \in Sessions, Apply(s) \/ Archive(s)
        PROVE  UNCHANGED upload
    BY <1>8 DEF Apply, Archive, ExpireDraft
  <1>9. (UNCHANGED vars \/ Govern \/ ApplyElsewhere \/ Tick) => UNCHANGED upload
    BY DEF vars, Govern, ApplyElsewhere, Tick
  <1>10. QED
    BY <1>2, <1>3, <1>4, <1>5, <1>6, <1>7, <1>8, <1>9 DEF Next

-----------------------------------------------------------------------------
(* The theorems. *)

\* The system starts in the invariant.
LEMMA InitIInv ==
    ASSUME Init
    PROVE  IInv
  <1>1. /\ cs = [c \in ChangeSets |->
                   [status |-> "absent", owner |-> NoOne, base |-> 0, draft |-> Blank,
                    revision |-> 0, digest |-> None, left |-> 0]]
        /\ batch = [b \in Batches |->
                   [status |-> "absent", cs |-> None, dataset |-> None, expected |-> 0,
                    plan |-> <<>>, chunks |-> <<>>, committed |-> 0, left |-> 0]]
        /\ project = [revision |-> 1, locked |-> FALSE] /\ holder = NoOne
        /\ audit = [c \in ChangeSets |-> [puts |-> 0, last |-> "none"]]
        /\ view = [s \in Sessions |-> NoView] /\ upload = [s \in Sessions |-> NoUpload]
    BY DEF Init
  <1>2. TypeOK
    <2>1. 0 \in 0..Life /\ <<>> \in Contents
      BY ConstantsAssumption
    <2>2. cs \in [ChangeSets -> ChangeSetRow]
      BY <1>1, <2>1, BlankDraft DEF ChangeSetRow
    <2>3. batch \in [Batches -> BatchRow]
      <3>1. <<>> \in Seq(Pieces \cup {NoPiece})
        OBVIOUS
      <3>2. QED
        BY <1>1, <2>1, <3>1 DEF BatchRow
    <2>4. view \in [Sessions -> View] /\ upload \in [Sessions -> Upload]
      BY <1>1, <2>1, NonePartial DEF NoView, View, NoUpload, Upload
    <2>5. QED
      BY <1>1, <2>2, <2>3, <2>4 DEF TypeOK, Kinds
  <1>3. RowsMade /\ SealMatchesDraft /\ AuditTellsDraft
    BY <1>1 DEF RowsMade, SealMatchesDraft, AuditTellsDraft
  <1>4. AtMostOne
    BY <1>1 DEF AtMostOne, Found, Mutable, Ongoing
  <1>5. Behind /\ ViewsAreTrue /\ UploadsAreTrue
    BY <1>1 DEF Behind, ViewsAreTrue, UploadsAreTrue, NoView, NoUpload
  <1>6. BatchesLinked
    BY <1>1 DEF BatchesLinked
  <1>7. QED
    BY <1>2, <1>3, <1>4, <1>5, <1>6 DEF IInv

\* Every step keeps it.
LEMMA NextIInv ==
    ASSUME IInv, [Next]_vars
    PROVE  IInv'
  <1>1. TypeOK'
    BY TypesKept
  <1>2. /\ \A c \in ChangeSets : RowStep(c)
        /\ \A b \in Batches : BatchStep(b)
    BY RowSteps, BatchSteps
  <1>3. RowsMade' /\ SealMatchesDraft' /\ AuditTellsDraft' /\ AtMostOne'
    BY <1>1, <1>2, RowsMadeKept, SealsKept, AuditKept, AtMostOneKept
  <1>4. Behind' /\ ViewsAreTrue'
    BY <1>1, <1>2, ViewsKept
  <1>5. BatchesLinked' /\ UploadsAreTrue'
    BY <1>1, <1>2, BatchesKept, UploadsKept
  <1>6. QED
    BY <1>1, <1>3, <1>4, <1>5 DEF IInv

\* The invariant holds in every reachable state.
THEOREM Invariance == Spec => []IInv
  <1>1. Init => IInv
    BY InitIInv
  <1>2. IInv /\ [Next]_vars => IInv'
    BY NextIInv
  <1>3. QED
    BY <1>1, <1>2, PTL DEF Spec

\* The rows, batches, events and views keep their types.
THEOREM TypeCorrect == Spec => []TypeOK
  <1>1. IInv => TypeOK
    BY DEF IInv
  <1>2. QED
    BY <1>1, Invariance, PTL

\* A draft revision identifies its content: what a client was told with a
\* revision is what the draft holds while that revision is current.
THEOREM ViewsTrue == Spec => []ViewsAreTrue
  <1>1. IInv => ViewsAreTrue
    BY DEF IInv
  <1>2. QED
    BY <1>1, Invariance, PTL

\* A validated or applied draft carries the digest of the records it holds.
THEOREM SealsMatch == Spec => []SealMatchesDraft
  <1>1. IInv => SealMatchesDraft
    BY DEF IInv
  <1>2. QED
    BY <1>1, Invariance, PTL

\* A Principal has at most one ongoing draft of the Project.
THEOREM OneDraftEach == Spec => []OneOngoing
  <1>1. ASSUME IInv PROVE OneOngoing
    <2> SUFFICES ASSUME NEW p \in Principals PROVE Cardinality(Found(p)) <= 1
      BY DEF OneOngoing
    <2>1. CASE Found(p) = {}
      BY <2>1, FS_EmptySet
    <2>2. ASSUME NEW c \in Found(p) PROVE Cardinality(Found(p)) <= 1
      <3>1. Found(p) = {c}
        BY <1>1, <2>2 DEF IInv, AtMostOne
      <3>2. QED
        BY <3>1, FS_Singleton
    <2>3. QED
      BY <2>1, <2>2
  <1>2. QED
    BY <1>1, Invariance, PTL

\* The event log replays to the row.
THEOREM AuditTells == Spec => []AuditTellsDraft
  <1>1. IInv => AuditTellsDraft
    BY DEF IInv
  <1>2. QED
    BY <1>1, Invariance, PTL

\* The step that applies a draft is taken by a session of its owner that holds
\* the digest of what is applied.
THEOREM AppliedApproved == Spec => AppliedAsApproved
  <1>1. ASSUME IInv, [Next]_vars, NEW c \in ChangeSets,
               cs'[c].status = "applied", cs[c].status # "applied"
        PROVE  \E s \in Sessions : /\ OwnerOf[s] = cs[c].owner /\ view[s].cs = c
                                   /\ view[s].digest = cs'[c].draft
    <2>1. RowStep(c) /\ cs[c] \in ChangeSetRow
      BY <1>1, RowSteps DEF IInv, TypeOK
    <2>2. CASE Taken(c)
      BY <2>1, <2>2 DEF Taken, Owned, Approved, ChangeSetRow
    <2>3. CASE Kept(c)
      BY <1>1, <2>3 DEF Kept
    <2>4. CASE Lapsed(c) \/ Dropped(c) \/ Replaced(c)
      BY <1>1, <2>1, <2>4 DEF Lapsed, Dropped, Replaced, Expired, Staged, ChangeSetRow
    <2>5. CASE Made(c)
      BY <1>1, <2>5 DEF Made, NewRow
    <2>6. CASE Judged(c)
      BY <1>1, <2>1, <2>6 DEF Judged, ChangeSetRow
    <2>7. CASE Aged(c)
      BY <1>1, <2>1, <2>7 DEF Aged, ChangeSetRow
    <2>8. QED
      BY <2>1, <2>2, <2>3, <2>4, <2>5, <2>6, <2>7 DEF RowStep
  <1>2. IInv /\ [Next]_vars =>
           [\A c \in ChangeSets :
              (cs'[c].status = "applied" /\ cs[c].status # "applied") =>
                \E s \in Sessions : /\ OwnerOf[s] = cs[c].owner /\ view[s].cs = c
                                    /\ view[s].digest = cs'[c].draft]_vars
    BY <1>1
  <1>3. QED
    BY <1>2, Invariance, PTL DEF Spec, AppliedAsApproved

-----------------------------------------------------------------------------
(* The tools implement ProjectDraft. *)

\* What the promise sees of the rows, one function per variable of it.
PDraft  == [c \in ChangeSets |-> cs[c].draft]
PNumber == [c \in ChangeSets |-> cs[c].revision]
PSeal   == [c \in ChangeSets |-> cs[c].digest]
PBase   == [c \in ChangeSets |-> cs[c].base]
PEnd    == [c \in ChangeSets |-> EndOf(c)]

\* When one row moves, each of them moves there alone.
LEMMA OneRowMoves ==
    ASSUME NEW c \in ChangeSets, \A e \in ChangeSets \ {c} : cs'[e] = cs[e]
    PROVE  /\ PDraft' = [PDraft EXCEPT ![c] = cs'[c].draft]
           /\ PNumber' = [PNumber EXCEPT ![c] = cs'[c].revision]
           /\ PSeal' = [PSeal EXCEPT ![c] = cs'[c].digest]
           /\ PBase' = [PBase EXCEPT ![c] = cs'[c].base]
           /\ PEnd' = [PEnd EXCEPT ![c] = EndOf(c)']
  <1>1. \A e \in ChangeSets \ {c} : EndOf(e)' = EndOf(e)
    BY DEF EndOf
  <1>2. QED
    BY <1>1 DEF PDraft, PNumber, PSeal, PBase, PEnd

\* What a stage, a judgement and an end leave of a row.
LEMMA StagedFields ==
    ASSUME NEW row \in ChangeSetRow, NEW changes
    PROVE  /\ Staged(row, changes).draft = Over(changes, row.draft)
           /\ Staged(row, changes).status = "active"
           /\ Staged(row, changes).revision = row.revision + 1
           /\ Staged(row, changes).digest = None
           /\ Staged(row, changes).base = row.base
  <1> DEFINE records == Over(changes, row.draft)
             n == row.revision + 1
  <1>1. Staged(row, changes) = [row EXCEPT !.draft = records, !.status = "active",
                                           !.revision = n, !.digest = None, !.left = Life]
    BY DEF Staged
  <1> HIDE DEF records, n
  <1>2. /\ Staged(row, changes).draft = records /\ Staged(row, changes).status = "active"
        /\ Staged(row, changes).revision = n /\ Staged(row, changes).digest = None
        /\ Staged(row, changes).base = row.base
    BY <1>1 DEF ChangeSetRow
  <1>3. QED
    BY <1>2 DEF records, n

\* A judgement writes the status, the digest and the time of a row only.
LEMMA JudgedFields ==
    ASSUME NEW row \in ChangeSetRow, NEW status, NEW digest, NEW left
    PROVE  LET judged == [row EXCEPT !.status = status, !.digest = digest, !.left = left]
           IN  /\ judged.draft = row.draft /\ judged.revision = row.revision
               /\ judged.base = row.base /\ judged.status = status /\ judged.digest = digest
  BY DEF ChangeSetRow

\* An ongoing row is a draft that is live.
LEMMA OngoingLive ==
    ASSUME IInv, NEW c \in ChangeSets, cs[c].status \in Ongoing
    PROVE  Promise!Live(c) /\ EndOf(c) = "open" /\ cs[c] \in ChangeSetRow
  <1>1. cs[c] \in ChangeSetRow /\ cs[c].revision >= 1 /\ cs[c].revision \in Nat
    BY DEF IInv, RowsMade, Ongoing, TypeOK, ChangeSetRow
  <1>2. EndOf(c) = "open"
    BY DEF EndOf, Ongoing
  <1>3. QED
    BY <1>1, <1>2 DEF Promise!Live

\* A step that leaves alone what the promise sees of every row, and the
\* Project revision, is a stuttering step of it.
LEMMA PromiseStutters ==
    ASSUME \A c \in ChangeSets : /\ cs'[c].draft = cs[c].draft
                                 /\ cs'[c].revision = cs[c].revision
                                 /\ cs'[c].digest = cs[c].digest
                                 /\ cs'[c].base = cs[c].base
                                 /\ cs'[c].status = cs[c].status,
           project'.revision = project.revision
    PROVE  UNCHANGED Promise!vars
  <1>1. \A c \in ChangeSets : EndOf(c)' = EndOf(c)
    BY DEF EndOf
  <1>2. QED
    BY <1>1 DEF Promise!vars

\* Expiring drafts closes them.
LEMMA ExpireCloses ==
    ASSUME IInv, NEW gone \in SUBSET ChangeSets, gone # {}, \A c \in gone : Due(c),
           cs' = [c \in ChangeSets |-> IF c \in gone THEN Expired(cs[c]) ELSE cs[c]],
           project'.revision = project.revision
    PROVE  Promise!Next
  <1>1. \A c \in gone : Promise!Live(c) /\ cs[c] \in ChangeSetRow
    BY OngoingLive DEF Due
  <1>2. ASSUME NEW c \in ChangeSets
        PROVE  /\ cs'[c].draft = cs[c].draft /\ cs'[c].revision = cs[c].revision
               /\ cs'[c].digest = cs[c].digest /\ cs'[c].base = cs[c].base
               /\ cs'[c].status = IF c \in gone THEN "expired" ELSE cs[c].status
    BY <1>1 DEF Expired, ChangeSetRow
  <1>3. \A c \in ChangeSets : EndOf(c)' = IF c \in gone THEN "closed" ELSE EndOf(c)
    BY <1>2 DEF EndOf
  <1>4. Promise!Close(gone)
    BY <1>1, <1>2, <1>3 DEF Promise!Close
  <1>5. QED
    BY <1>4 DEF Promise!Next

\* Expiring the one draft that a tool met.
LEMMA ExpireOneCloses ==
    ASSUME IInv, NEW c \in ChangeSets, ExpireDraft(c)
    PROVE  Promise!Next
  <1>1. cs' = [e \in ChangeSets |-> IF e \in {c} THEN Expired(cs[e]) ELSE cs[e]]
    BY DEF ExpireDraft, IInv, TypeOK
  <1>2. Due(c) /\ project'.revision = project.revision
    BY DEF ExpireDraft
  <1>3. {c} \in SUBSET ChangeSets /\ {c} # {} /\ \A e \in {c} : Due(e)
    BY <1>2
  <1>4. QED
    BY <1>1, <1>2, <1>3, ExpireCloses

\* Staging replaces the records and breaks the seal.
LEMMA StageReplaces ==
    ASSUME IInv, NEW c \in ChangeSets, NEW changes \in Partial, Mutable(c),
           cs'[c] = Staged(cs[c], changes), \A e \in ChangeSets \ {c} : cs'[e] = cs[e],
           project'.revision = project.revision
    PROVE  Promise!Next
  <1>1. Promise!Live(c) /\ EndOf(c) = "open" /\ cs[c] \in ChangeSetRow
    BY OngoingLive DEF Mutable
  <1>2. /\ cs'[c].draft = Over(changes, cs[c].draft) /\ cs'[c].status = "active"
        /\ cs'[c].revision = cs[c].revision + 1 /\ cs'[c].digest = None
        /\ cs'[c].base = cs[c].base
    BY <1>1, StagedFields
  <1>3. Over(changes, cs[c].draft) \in Drafts
    BY <1>1, OverDraft DEF ChangeSetRow
  <1>4. EndOf(c)' = EndOf(c)
    BY <1>1, <1>2 DEF EndOf
  <1>5. Promise!Replace(c)
    <2>1. PDraft' = [PDraft EXCEPT ![c] = Over(changes, cs[c].draft)]
      BY <1>2, OneRowMoves
    <2>2. PNumber' = [PNumber EXCEPT ![c] = PNumber[c] + 1]
      <3>1. PNumber[c] = cs[c].revision
        BY DEF PNumber
      <3>2. QED
        BY <1>2, <3>1, OneRowMoves
    <2>3. PSeal' = [PSeal EXCEPT ![c] = None]
      BY <1>2, OneRowMoves
    <2>4. UNCHANGED PBase
      <3>1. PBase' = [PBase EXCEPT ![c] = cs[c].base]
        BY <1>2, OneRowMoves
      <3>2. QED
        BY <3>1 DEF PBase
    <2>5. UNCHANGED PEnd
      <3>1. PEnd' = [PEnd EXCEPT ![c] = EndOf(c)]
        BY <1>4, OneRowMoves
      <3>2. QED
        BY <3>1 DEF PEnd
    <2>6. QED
      BY <1>1, <1>3, <2>1, <2>2, <2>3, <2>4, <2>5
         DEF Promise!Replace, PDraft, PNumber, PSeal, PBase, PEnd
  <1>6. QED
    BY <1>5 DEF Promise!Next

\* Validating judges the draft as it stands.
LEMMA ValidateJudges ==
    ASSUME IInv, NEW c \in ChangeSets, NEW status \in Ongoing, NEW digest, Mutable(c),
           digest = None \/ (digest = cs[c].draft /\ cs[c].base = project.revision),
           cs'[c] = [cs[c] EXCEPT !.status = status, !.digest = digest, !.left = Life],
           \A e \in ChangeSets \ {c} : cs'[e] = cs[e],
           project'.revision = project.revision
    PROVE  Promise!Next
  <1>1. Promise!Live(c) /\ EndOf(c) = "open" /\ cs[c] \in ChangeSetRow
    BY OngoingLive DEF Mutable
  <1>2. /\ cs'[c].draft = cs[c].draft /\ cs'[c].revision = cs[c].revision
        /\ cs'[c].base = cs[c].base /\ cs'[c].status = status /\ cs'[c].digest = digest
    BY <1>1, JudgedFields
  <1>3. EndOf(c)' = EndOf(c)
    BY <1>1, <1>2 DEF EndOf, Ongoing
  <1>4. Promise!Judge(c)
    <2>1. PSeal' = [PSeal EXCEPT ![c] = digest]
      BY <1>2, OneRowMoves
    <2>2. /\ PDraft' = [PDraft EXCEPT ![c] = cs[c].draft]
          /\ PNumber' = [PNumber EXCEPT ![c] = cs[c].revision]
          /\ PBase' = [PBase EXCEPT ![c] = cs[c].base]
          /\ PEnd' = [PEnd EXCEPT ![c] = EndOf(c)]
      BY <1>2, <1>3, OneRowMoves
    <2>3. UNCHANGED <<PDraft, PNumber, PBase, PEnd>>
      BY <2>2 DEF PDraft, PNumber, PBase, PEnd
    <2>4. PBase[c] = cs[c].base /\ PDraft[c] = cs[c].draft
      BY DEF PBase, PDraft
    <2>5. \/ PBase[c] = project.revision /\ PSeal' = [PSeal EXCEPT ![c] = PDraft[c]]
          \/ PSeal' = [PSeal EXCEPT ![c] = None]
      BY <2>1, <2>4
    <2>6. QED
      BY <1>1, <2>3, <2>5 DEF Promise!Judge, PDraft, PNumber, PSeal, PBase, PEnd
  <1>5. QED
    BY <1>4 DEF Promise!Next

\* Applying takes the sealed records into the Project, unless they are none.
LEMMA ApplyApplies ==
    ASSUME IInv, NEW s \in Sessions, Apply(s), ~ExpireDraft(view[s].cs)
    PROVE  Promise!Next
  <1> DEFINE c == view[s].cs
  <1>1. c \in ChangeSets
    BY OwnedDraft DEF Apply, IInv
  <1>2. /\ Mutable(c) /\ TRUE \in Verdicts(c) /\ cs[c].digest = cs[c].draft
        /\ cs' = [cs EXCEPT ![c].status = "applied"]
        /\ project' = [project EXCEPT !.revision = @ + (IF cs[c].draft = Blank THEN 0 ELSE 1)]
    BY DEF Apply
  <1>3. Promise!Live(c) /\ EndOf(c) = "open" /\ cs[c] \in ChangeSetRow
    BY <1>1, <1>2, OngoingLive DEF Mutable
  <1>4. cs'[c] = [cs[c] EXCEPT !.status = "applied"] /\ \A e \in ChangeSets \ {c} : cs'[e] = cs[e]
    BY <1>1, <1>2 DEF IInv, TypeOK
  <1>5. /\ cs'[c].draft = cs[c].draft /\ cs'[c].revision = cs[c].revision
        /\ cs'[c].base = cs[c].base /\ cs'[c].digest = cs[c].digest
        /\ cs'[c].status = "applied"
    BY <1>3, <1>4 DEF ChangeSetRow
  <1>6. \A e \in ChangeSets : EndOf(e)' = IF e = c THEN "applied" ELSE EndOf(e)
    BY <1>3, <1>4, <1>5 DEF EndOf
  <1>7. cs[c].base = project.revision
    BY <1>2 DEF Verdicts
  <1>8. project'.revision = project.revision + (IF cs[c].draft = Blank THEN 0 ELSE 1)
    BY <1>2 DEF IInv, TypeOK
  <1>9. Promise!Apply(c)
    <2>1. PEnd' = [PEnd EXCEPT ![c] = "applied"]
      BY <1>1, <1>6 DEF PEnd
    <2>2. UNCHANGED <<PDraft, PNumber, PSeal, PBase>>
      BY <1>4, <1>5 DEF PDraft, PNumber, PSeal, PBase
    <2>3. PSeal[c] = PDraft[c] /\ PBase[c] = project.revision /\ PDraft[c] = cs[c].draft
      BY <1>1, <1>2, <1>7 DEF PSeal, PDraft, PBase
    <2>4. project'.revision = project.revision + (IF PDraft[c] = Blank THEN 0 ELSE 1)
      BY <1>8, <2>3
    <2> HIDE DEF c
    <2>5. QED
      BY <1>3, <2>1, <2>2, <2>3, <2>4
         DEF Promise!Apply, PDraft, PNumber, PSeal, PBase, PEnd
  <1>10. QED
    BY <1>1, <1>9 DEF Promise!Next

\* Archiving closes the draft.
LEMMA ArchiveCloses ==
    ASSUME IInv, NEW s \in Sessions, Archive(s), ~ExpireDraft(view[s].cs)
    PROVE  Promise!Next
  <1> DEFINE c == view[s].cs
  <1>1. c \in ChangeSets
    BY OwnedDraft DEF Archive, IInv
  <1>2. Mutable(c) /\ cs' = [cs EXCEPT ![c].status = "discarded"] /\ project' = project
    BY DEF Archive
  <1>3. Promise!Live(c) /\ EndOf(c) = "open" /\ cs[c] \in ChangeSetRow
    BY <1>1, <1>2, OngoingLive DEF Mutable
  <1>4. cs'[c] = [cs[c] EXCEPT !.status = "discarded"] /\ \A e \in ChangeSets \ {c} : cs'[e] = cs[e]
    BY <1>1, <1>2 DEF IInv, TypeOK
  <1>5. /\ cs'[c].draft = cs[c].draft /\ cs'[c].revision = cs[c].revision
        /\ cs'[c].base = cs[c].base /\ cs'[c].digest = cs[c].digest
        /\ cs'[c].status = "discarded"
    BY <1>3, <1>4 DEF ChangeSetRow
  <1>6. \A e \in ChangeSets : EndOf(e)' = IF e \in {c} THEN "closed" ELSE EndOf(e)
    BY <1>4, <1>5 DEF EndOf
  <1>7. Promise!Close({c})
    BY <1>2, <1>3, <1>4, <1>5, <1>6 DEF Promise!Close
  <1>8. QED
    BY <1>1, <1>7 DEF Promise!Next

\* Creating closes the drafts of the owner that are past their time, and
\* opens a new one when it found none; if neither, nothing happens.
LEMMA CreateOpens ==
    ASSUME IInv, NEW s \in Sessions, NEW got \in BOOLEAN, Create(s, got)
    PROVE  Promise!Next \/ UNCHANGED Promise!vars
  <1> DEFINE p == OwnerOf[s]
             gone == Expiring(p)
             swept == [c \in ChangeSets |-> IF c \in Expiring(p) THEN Expired(cs[c]) ELSE cs[c]]
  <1>1. gone \in SUBSET ChangeSets /\ (\A c \in gone : Due(c)) /\ project' = project
    BY DEF Expiring, Create
  <1>2. CASE cs' = swept
    <2>1. CASE gone = {}
      <3>1. \A c \in ChangeSets : cs'[c] = cs[c]
        BY <1>2, <2>1
      <3>2. QED
        BY <1>1, <3>1, PromiseStutters
    <2>2. CASE gone # {}
      BY <1>1, <1>2, <2>2, ExpireCloses
    <2>3. QED
      BY <2>1, <2>2
  <1>3. ASSUME NEW c \in ChangeSets, cs[c].status = "absent",
               cs' = [swept EXCEPT ![c] = NewRow(p)]
        PROVE  Promise!Next
    <2>1. /\ cs[c].draft = Blank /\ cs[c].revision = 0 /\ cs[c].digest = None
          /\ c \notin gone /\ EndOf(c) = "open"
      BY <1>3 DEF IInv, RowsMade, Expiring, Due, Ongoing, EndOf
    <2>2. \A e \in gone : Promise!Live(e) /\ cs[e] \in ChangeSetRow
      BY <1>1, OngoingLive DEF Due
    <2>3. ASSUME NEW e \in ChangeSets \ {c}
          PROVE  /\ cs'[e].draft = cs[e].draft /\ cs'[e].revision = cs[e].revision
                 /\ cs'[e].digest = cs[e].digest /\ cs'[e].base = cs[e].base
                 /\ cs'[e].status = IF e \in gone THEN "expired" ELSE cs[e].status
      <3>1. cs'[e] = IF e \in gone THEN Expired(cs[e]) ELSE cs[e]
        BY <1>3
      <3>2. QED
        BY <2>2, <3>1 DEF Expired, ChangeSetRow
    <2>4. /\ cs'[c].draft = Blank /\ cs'[c].revision = 1 /\ cs'[c].digest = None
          /\ cs'[c].base = project.revision /\ cs'[c].status = "active"
      <3>1. cs'[c] = NewRow(p)
        BY <1>3
      <3>2. QED
        BY <3>1 DEF NewRow
    <2>5. \A e \in ChangeSets : EndOf(e)' = IF e \in gone THEN "closed" ELSE EndOf(e)
      <3> HIDE DEF gone
      <3>1. QED
        BY <2>1, <2>3, <2>4 DEF EndOf
    <2> HIDE DEF gone, swept, p
    <2>6. UNCHANGED <<PDraft, PSeal>>
      BY <2>1, <2>3, <2>4 DEF PDraft, PSeal
    <2>7. /\ PNumber[c] = 0 /\ PNumber' = [PNumber EXCEPT ![c] = 1]
           /\ PBase' = [PBase EXCEPT ![c] = project.revision]
      BY <2>1, <2>3, <2>4 DEF PNumber, PBase
    <2>8. CASE gone = {}
      <3>1. UNCHANGED PEnd
        BY <2>5, <2>8 DEF PEnd
      <3>2. Promise!Open(c)
        BY <1>1, <2>6, <2>7, <3>1
           DEF Promise!Open, PDraft, PNumber, PSeal, PBase, PEnd
      <3>3. QED
        BY <3>2 DEF Promise!Next
    <2>9. CASE gone # {}
      <3>1. PEnd' = [e \in ChangeSets |-> IF e \in gone THEN "closed" ELSE PEnd[e]]
        BY <2>5 DEF PEnd
      <3>2. Promise!CloseAndOpen(gone, c)
        BY <1>1, <2>2, <2>9, <2>6, <2>7, <3>1
           DEF Promise!CloseAndOpen, PDraft, PNumber, PSeal, PBase, PEnd
      <3>3. QED
        BY <1>1, <3>2 DEF Promise!Next
    <2>10. QED
      BY <2>8, <2>9
  <1>4. QED
    BY <1>2, <1>3 DEF Create

\* A read closes the draft it finds past its time, or does nothing.
LEMMA ReadPromise ==
    ASSUME IInv, NEW s \in Sessions, NEW got \in BOOLEAN, Read(s, got)
    PROVE  Promise!Next \/ UNCHANGED Promise!vars
  <1> DEFINE c == view[s].cs
  <1>1. c \in ChangeSets /\ project' = project
    BY OwnedDraft DEF Read, IInv
  <1>2. CASE Due(c) /\ ~project.locked
    <2>1. cs' = [e \in ChangeSets |-> IF e \in {c} THEN Expired(cs[e]) ELSE cs[e]]
      BY <1>1, <1>2 DEF Read, IInv, TypeOK
    <2>2. {c} \in SUBSET ChangeSets /\ {c} # {} /\ \A e \in {c} : Due(e)
      BY <1>1, <1>2
    <2>3. project'.revision = project.revision
      BY <1>1
    <2> HIDE DEF c
    <2>4. QED
      BY <2>1, <2>2, <2>3, ExpireCloses
  <1>3. CASE ~(Due(c) /\ ~project.locked)
    <2>1. \A e \in ChangeSets : cs'[e] = cs[e]
      BY <1>3 DEF Read, IInv, TypeOK
    <2>2. QED
      BY <1>1, <2>1, PromiseStutters
  <1>4. QED
    BY <1>2, <1>3

\* A commit replaces the records of one dataset; replayed, it does nothing.
LEMMA CommitPromise ==
    ASSUME IInv, NEW s \in Sessions, NEW got \in BOOLEAN, Commit(s, got)
    PROVE  Promise!Next \/ UNCHANGED Promise!vars
  <1> DEFINE b == upload[s].batch
             c == batch[b].cs
             one == [d \in {batch[b].dataset} |-> batch[b].chunks]
  <1>1. b \in Batches /\ c \in ChangeSets /\ batch[b].dataset \in Datasets /\ TypeOK
    BY SentBatch DEF Commit, IInv
  <1>2. CASE ExpireDraft(c)
    BY <1>1, <1>2, ExpireOneCloses
  <1>3. CASE UNCHANGED <<cs, project>>
    BY <1>3, PromiseStutters
  <1>4. CASE /\ Mutable(c) /\ Complete(b)
             /\ cs' = [cs EXCEPT ![c] = Staged(cs[c], one)]
             /\ UNCHANGED project
    <2>1. batch[b].chunks \in Contents
      BY <1>1, <1>4 DEF Complete, TypeOK, BatchRow
    <2>2. one \in Partial
      BY <1>1, <2>1, OnePartial
    <2>3. /\ cs'[c] = Staged(cs[c], one) /\ project'.revision = project.revision
          /\ \A e \in ChangeSets \ {c} : cs'[e] = cs[e]
      BY <1>1, <1>4 DEF TypeOK
    <2> HIDE DEF one, b, c
    <2>4. QED
      BY <1>1, <1>4, <2>2, <2>3, StageReplaces
  <1>5. QED
    BY <1>1, <1>2, <1>3, <1>4 DEF Commit, ExpireBatch, TypeOK

\* Staging is an edit that ProjectDraft promises.
LEMMA StagePromise ==
    ASSUME IInv, NEW s \in Sessions, NEW got \in BOOLEAN, NEW changes \in Partial,
           Stage(s, changes, got)
    PROVE  Promise!Next
  <1> DEFINE c == view[s].cs
  <1>1. c \in ChangeSets
    BY OwnedDraft DEF Stage, IInv
  <1>2. CASE ExpireDraft(c)
    BY <1>1, <1>2, ExpireOneCloses
  <1>3. CASE ~ExpireDraft(c)
    <2>1. /\ Mutable(c) /\ cs'[c] = Staged(cs[c], changes) /\ project'.revision = project.revision
          /\ \A e \in ChangeSets \ {c} : cs'[e] = cs[e]
      BY <1>1, <1>3 DEF Stage, IInv, TypeOK
    <2>2. QED
      BY <1>1, <2>1, StageReplaces
  <1>4. QED
    BY <1>2, <1>3

\* A validation is a judgement that ProjectDraft promises, true of the draft.
LEMMA ValidatePromise ==
    ASSUME IInv, NEW s \in Sessions, NEW valid \in BOOLEAN, NEW got \in BOOLEAN,
           Validate(s, valid, got)
    PROVE  Promise!Next
  <1> DEFINE c == view[s].cs
             digest == IF valid THEN cs[c].draft ELSE None
             status == IF valid THEN "validated" ELSE "active"
  <1>1. c \in ChangeSets /\ cs[c] \in ChangeSetRow
    BY OwnedDraft DEF Validate, IInv, TypeOK
  <1>2. CASE ExpireDraft(c)
    BY <1>1, <1>2, ExpireOneCloses
  <1>3. CASE ~ExpireDraft(c)
    <2>1. /\ Mutable(c) /\ valid \in Verdicts(c) /\ project' = project
          /\ cs' = [cs EXCEPT ![c].status = status, ![c].digest = digest, ![c].left = Life]
      BY <1>3 DEF Validate
    <2>2. /\ cs'[c] = [cs[c] EXCEPT !.status = status, !.digest = digest, !.left = Life]
          /\ \A e \in ChangeSets \ {c} : cs'[e] = cs[e]
      BY <1>1, <2>1 DEF IInv, TypeOK
    <2>3. /\ status \in Ongoing /\ project'.revision = project.revision
          /\ digest = None \/ (digest = cs[c].draft /\ cs[c].base = project.revision)
      BY <2>1 DEF Verdicts, Ongoing
    <2> HIDE DEF status, digest, c
    <2>4. QED
      BY <1>1, <2>1, <2>2, <2>3, ValidateJudges
  <1>4. QED
    BY <1>2, <1>3

\* What changes no row, or only its time, is nothing to the promise; another
\* draft of the Project moves its revision.
LEMMA RestPromise ==
    ASSUME IInv, (\E s \in Sessions : Forget(s)) \/ Govern \/ ApplyElsewhere \/ Tick
    PROVE  Promise!Next \/ UNCHANGED Promise!vars
  <1>1. CASE \E s \in Sessions : Forget(s)
    BY <1>1, PromiseStutters DEF Forget
  <1>2. CASE Govern
    <2>1. cs' = cs /\ project'.revision = project.revision
      BY <1>2 DEF Govern, IInv, TypeOK
    <2>2. QED
      BY <2>1, PromiseStutters
  <1>3. CASE ApplyElsewhere
    <2>1. cs' = cs /\ project'.revision = project.revision + 1
      BY <1>3 DEF ApplyElsewhere, IInv, TypeOK
    <2>2. \A c \in ChangeSets : EndOf(c)' = EndOf(c)
      BY <2>1 DEF EndOf
    <2>3. Promise!Elsewhere
      BY <2>1, <2>2 DEF Promise!Elsewhere
    <2>4. QED
      BY <2>3 DEF Promise!Next
  <1>4. CASE Tick
    <2>1. ASSUME NEW c \in ChangeSets
          PROVE  /\ cs'[c].draft = cs[c].draft /\ cs'[c].revision = cs[c].revision
                 /\ cs'[c].digest = cs[c].digest /\ cs'[c].base = cs[c].base
                 /\ cs'[c].status = cs[c].status
      BY <1>4 DEF Tick, IInv, TypeOK, ChangeSetRow
    <2>2. QED
      BY <1>4, <2>1, PromiseStutters DEF Tick
  <1>5. QED
    BY <1>1, <1>2, <1>3, <1>4

\* Every step of the tools is a step of the promise or nothing to it.
LEMMA NextPromise ==
    ASSUME IInv, [Next]_vars
    PROVE  Promise!Next \/ UNCHANGED Promise!vars
  <1>1. CASE UNCHANGED <<cs, project>>
    BY <1>1, PromiseStutters
  <1>2. ASSUME NEW s \in Sessions, NEW got \in BOOLEAN,
               Create(s, got) \/ Read(s, got) \/ Commit(s, got)
        PROVE  Promise!Next \/ UNCHANGED Promise!vars
    BY <1>2, CreateOpens, ReadPromise, CommitPromise
  <1>3. ASSUME NEW s \in Sessions, NEW got \in BOOLEAN, NEW changes \in Partial \ {<<>>},
               Stage(s, changes, got)
        PROVE  Promise!Next
    BY <1>3, StagePromise
  <1>4. ASSUME NEW s \in Sessions, NEW got \in BOOLEAN, NEW d \in Datasets,
               NEW plan \in Contents, Begin(s, d, plan, got)
        PROVE  Promise!Next \/ UNCHANGED Promise!vars
    <2>1. view[s].cs \in ChangeSets
      BY <1>4, OwnedDraft DEF Begin, IInv
    <2>2. ExpireDraft(view[s].cs) \/ UNCHANGED <<cs, project>>
      BY <1>4 DEF Begin
    <2>3. QED
      BY <1>1, <2>1, <2>2, ExpireOneCloses
  <1>5. ASSUME NEW s \in Sessions, NEW got \in BOOLEAN, NEW valid \in BOOLEAN,
               Validate(s, valid, got)
        PROVE  Promise!Next
    BY <1>5, ValidatePromise
  <1>6. ASSUME NEW s \in Sessions, NEW b \in Batches, NEW piece \in Pieces,
               NEW i \in DOMAIN batch[b].chunks, Put(s, i, piece)
        PROVE  Promise!Next \/ UNCHANGED Promise!vars
    <2>1. batch[upload[s].batch].cs \in ChangeSets
      BY <1>6, SentBatch DEF Put
    <2>2. ExpireDraft(batch[upload[s].batch].cs) \/ UNCHANGED <<cs, project>>
      BY <1>6 DEF Put, ExpireBatch
    <2>3. QED
      BY <1>1, <2>1, <2>2, ExpireOneCloses
  <1>7. ASSUME NEW s \in Sessions, Apply(s) \/ Archive(s)
        PROVE  Promise!Next
    <2>1. view[s].cs \in ChangeSets
      BY <1>7, OwnedDraft DEF Apply, Archive, IInv
    <2>2. QED
      BY <1>7, <2>1, ExpireOneCloses, ApplyApplies, ArchiveCloses
  <1>8. UNCHANGED vars => UNCHANGED <<cs, project>>
    BY DEF vars
  <1>9. QED
    BY <1>1, <1>2, <1>3, <1>4, <1>5, <1>6, <1>7, <1>8, RestPromise DEF Next

\* No draft is made at first, and none is promised.
LEMMA InitPromise ==
    ASSUME Init
    PROVE  Promise!Init
  <1>1. \A c \in ChangeSets : EndOf(c) = "open"
    BY DEF Init, EndOf
  <1>2. QED
    BY <1>1 DEF Init, Promise!Init

\* The tools, with clients, batches, time, locks and lost answers, implement
\* ProjectDraft: a draft changes only by what it promises.
THEOREM KeepsPromise == Spec => ImplementsProjectDraft
  <1>1. Init => Promise!Init
    BY InitPromise
  <1>2. IInv /\ [Next]_vars => [Promise!Next]_(Promise!vars)
    BY NextPromise
  <1>3. QED
    BY <1>1, <1>2, Invariance, PTL DEF Spec, ImplementsProjectDraft, Promise!Spec

=============================================================================
