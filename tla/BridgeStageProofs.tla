------------------------- MODULE BridgeStageProofs -------------------------
(***************************************************************************)
(* For any datasets, local work, other sessions and number of Bridges and  *)
(* of workbench processes: receipts are true, writes are admitted by the   *)
(* record of their operation unless a workbench command renamed over its   *)
(* mark, and what others staged is not lost.                               *)
(***************************************************************************)
EXTENDS BridgeStage, TLAPS

-----------------------------------------------------------------------------
(* Types. *)

Requests == [start : Nat, retry : BOOLEAN]
Operations == [accepted : Works, draft : Drafts \cup {None}, request : Requests \cup {None},
               unknown : Marks \cup {None}, stage : Receipts \cup {None},
               checkpoint : {"none", "valid", "failed", "approved", "applied"}]

Writers  == {"marking", "renaming mark", "writing", "waiting"}
Stagers  == {"proven", "staged", "renaming receipt"}
Rows     == [pc : Writers \cup Stagers \cup {"idle", "reading", "recovering"}, n : Nat,
             seen : Operations \cup {None}, next : Operations \cup {None},
             plan : Plans \cup {None}, left : SUBSET Datasets, rev : Nat]
DeskRows == [n : Nat, seen : Operations \cup {None}, next : Operations]
Messages == [by : Bridges, n : Nat, rev : Nat, retry : BOOLEAN, records : Plans]
Reviews  == [rev : Nat, valid : BOOLEAN]

TypeOK ==
    /\ local \in Works
    /\ ops \in Seq(Operations)
    /\ desk \in [Desks -> DeskRows \cup {None}]
    /\ bridge \in [Bridges -> Rows]
    /\ wire \subseteq Messages
    /\ draft \in [rev : Nat, status : Statuses, review : Reviews \cup {None}, content : Contents]

-----------------------------------------------------------------------------
(* The inductive invariant.  Whether an operation stages a failed draft    *)
(* again is settled when it is accepted: t[n] tells it of operation n.     *)

Retrying(op) == op.draft # None /\ op.draft.failed /\ op.draft.digest # op.accepted

\* A plan holds what was accepted; that of a retry holds nothing else.
GoodPlan(plan, accepted, retry) ==
    /\ DOMAIN plan = DOMAIN accepted
    /\ \A d \in DOMAIN accepted : /\ accepted[d] \subseteq plan[d]
                                  /\ retry => plan[d] = accepted[d]

\* A receipt is true of a draft.
TrueReceipt(op, dr) ==
    op.stage # None =>
        /\ \A d \in DOMAIN op.accepted :
              /\ op.accepted[d] \subseteq op.stage.print[d]
              /\ op.request.retry => op.stage.print[d] = op.accepted[d]
        /\ dr.rev = op.stage.rev => dr.content = op.stage.print

\* A record of an operation, in its file or as a program has read it or is about
\* to write it.
OpSound(op, accepted, retry, dr) ==
    /\ op.accepted = accepted
    /\ op.draft # None => /\ op.draft.rev <= dr.rev
                          /\ ~op.draft.failed => op.draft.digest = accepted
    /\ op.request # None => op.request.start <= dr.rev
    /\ op.stage = None => Retrying(op) = retry /\ op.checkpoint = "none"
    /\ op.stage # None => op.draft.digest = accepted /\ op.stage.rev <= dr.rev
    /\ Uncertain(op) => /\ op.stage = None
                        /\ op.request # None /\ op.request.retry = retry
                        /\ GoodPlan(op.unknown.plan, accepted, retry)
    /\ TrueReceipt(op, dr)

OpsSound(t) == \A n \in DOMAIN ops : OpSound(ops[n], ops[n].accepted, t[n], draft)

AppliedSound(op, dr) ==
    op.checkpoint = "applied" => dr.status = "applied" /\ dr.content = op.stage.print

AppliedIsDraft ==
    /\ \A n \in DOMAIN ops : AppliedSound(ops[n], draft)
    /\ \A w \in Desks : desk[w] # None => AppliedSound(desk[w].next, draft)

\* Neither marked nor staged yet; and the operations of which that is so because
\* no mark or receipt was renamed over.
Fresh(op) == ~Uncertain(op) /\ op.stage = None
Untouched == {n \in DOMAIN ops : Fresh(ops[n]) /\ n \notin lost}

\* What a workbench command is about to rename: a new operation, or a record as
\* far marked and staged as the one it has read.
NewSound(op, dr) ==
    Fresh(op) /\ op.checkpoint = "none" /\ OpSound(op, op.accepted, Retrying(op), dr)

DeskSound(row, t, os, fresh, dr) ==
    IF row.n = 0
    THEN NewSound(row.next, dr)
    ELSE /\ row.n \in DOMAIN os /\ OpSound(row.next, os[row.n].accepted, t[row.n], dr)
         /\ row.n \in fresh => Fresh(row.next)
         /\ row.next.stage = row.seen.stage /\ row.next.unknown = row.seen.unknown

DesksSound(t) == \A w \in Desks : desk[w] # None => DeskSound(desk[w], t, ops, Untouched, draft)

\* A write at the draft's revision adds the accepted records to what the draft
\* holds, or, in a retry, replaces it by them.
Merges(plan, d, accepted, retry, dr) ==
    plan[d] = IF retry THEN accepted[d] ELSE accepted[d] \cup dr.content[d]

\* What a Bridge has read and knows of the operation it works for.
ReaderSound(row, accepted, retry, fresh, dr) ==
    /\ row.seen \in Operations /\ OpSound(row.seen, accepted, retry, dr)
    /\ row.seen.stage = None /\ row.seen.request # None /\ row.seen.request.retry = retry
    /\ row.pc \in Stagers \cup {"writing", "waiting", "recovering"} => ~fresh
    /\ row.pc = "recovering" => Uncertain(row.seen)

\* What it is about to write to the draft, and has written.
WriterSound(row, b, accepted, retry, dr) ==
    row.pc \in Writers =>
        /\ row.pc \in {"marking", "renaming mark"} => row.next = Marked(row.seen, b, row.plan)
        /\ row.plan \in Plans /\ GoodPlan(row.plan, accepted, retry)
        /\ row.left \subseteq DOMAIN row.plan /\ row.rev <= dr.rev
        /\ row.rev = dr.rev =>
              \A d \in DOMAIN row.plan :
                 IF d \in row.left THEN Merges(row.plan, d, accepted, retry, dr)
                                   ELSE dr.content[d] = row.plan[d]

\* The receipt it is about to record.
StagerSound(row, accepted, retry, dr) ==
    row.pc \in Stagers => /\ row.next \in Operations /\ row.next.stage # None
                          /\ row.next.checkpoint = "none"
                          /\ OpSound(row.next, accepted, retry, dr)

RowSound(row, b, t, os, fresh, dr) ==
    row.pc # "idle" =>
        /\ row.n \in DOMAIN os
        /\ ReaderSound(row, os[row.n].accepted, t[row.n], row.n \in fresh, dr)
        /\ WriterSound(row, b, os[row.n].accepted, t[row.n], dr)
        /\ StagerSound(row, os[row.n].accepted, t[row.n], dr)

BridgesSound(t) == \A b \in Bridges : RowSound(bridge[b], b, t, ops, Untouched, draft)

MessageSound(m, t, os, fresh, dr) ==
    /\ m.n \in DOMAIN os /\ m.n \notin fresh /\ m.rev <= dr.rev /\ m.retry = t[m.n]
    /\ DOMAIN m.records \subseteq DOMAIN os[m.n].accepted
    /\ m.rev = dr.rev =>
          \A d \in DOMAIN m.records : Merges(m.records, d, os[m.n].accepted, t[m.n], dr)

MessagesSound(t) == \A m \in wire : MessageSound(m, t, ops, Untouched, draft)

\* Once an operation has a receipt, or is about to get one, nothing that still
\* writes for it at the draft's revision can change the draft: as long as no mark
\* or receipt of it was renamed over.
Receipted(n) == ops[n].stage # None \/ \E b \in Bridges : bridge[b].pc \in Stagers /\ bridge[b].n = n

\* A Bridge that writes at a revision, or will when it has read the draft.
WritesAt(row, n, rev) ==
    /\ row.n = n
    /\ \/ row.pc = "reading" /\ row.seen.request.start = rev
       \/ row.pc \in Writers /\ row.rev = rev

WritesNow(n) ==
    \/ \E b \in Bridges : WritesAt(bridge[b], n, draft.rev)
    \/ \E m \in wire : m.n = n /\ m.rev = draft.rev

Holds(accepted, retry, dr) ==
    \A d \in DOMAIN accepted : /\ accepted[d] \subseteq dr.content[d]
                               /\ retry => dr.content[d] = accepted[d]

Settled(t) ==
    \A n \in DOMAIN ops \ lost :
        Receipted(n) /\ WritesNow(n) => Holds(ops[n].accepted, t[n], draft)

Sound(t) == OpsSound(t) /\ DesksSound(t) /\ BridgesSound(t) /\ MessagesSound(t) /\ Settled(t)

IInv == TypeOK /\ AppliedIsDraft /\ \E t \in [Nat -> BOOLEAN] : Sound(t)

\* The invariant for one choice of t.
Inv(t) == TypeOK /\ AppliedIsDraft /\ Sound(t)

-----------------------------------------------------------------------------
(* Types. *)

\* The fields of what the variables hold.
LEMMA OpsType ==
    ASSUME TypeOK
    PROVE  /\ DOMAIN ops = 1 .. Len(ops) /\ Len(ops) \in Nat
           /\ \A n \in DOMAIN ops : ops[n] \in Operations /\ ops[n].accepted \in Works
           /\ ops # <<>> => Len(ops) \in DOMAIN ops
  <1>1. ops \in Seq(Operations)
    BY DEF TypeOK
  <1>2. \A op \in Operations : op.accepted \in Works
    BY DEF Operations
  <1>3. QED
    BY <1>1, <1>2

\* The draft's content is a function of all datasets.
LEMMA DraftType ==
    ASSUME TypeOK
    PROVE  /\ draft.rev \in Nat /\ draft.rev + 1 \in Nat
           /\ draft.status \in Statuses /\ draft.content \in Contents
           /\ draft.content = [d \in Datasets |-> draft.content[d]]
  <1>1. /\ draft.rev \in Nat /\ draft.status \in Statuses /\ draft.content \in Contents
    BY DEF TypeOK
  <1>2. draft.rev + 1 \in Nat
    BY <1>1
  <1>3. QED
    BY <1>1, <1>2 DEF Contents

\* What is accepted names datasets.
LEMMA WorkType ==
    ASSUME NEW w \in Works
    PROVE  w \in Plans /\ DOMAIN w \subseteq Datasets /\ \A d \in DOMAIN w : w[d] \subseteq Records
  <1>1. w \in Plans
    BY ConstantsAssumption
  <1>2. PICK S \in SUBSET Datasets : w \in [S -> SUBSET Records]
    BY <1>1 DEF Plans
  <1>3. QED
    BY <1>1, <1>2

\* A function on datasets to records is a plan.
LEMMA IsPlan ==
    ASSUME NEW S \in SUBSET Datasets, NEW p \in [S -> SUBSET Records]
    PROVE  p \in Plans
  BY DEF Plans

\* And the other way round.
LEMMA PlanType ==
    ASSUME NEW p \in Plans
    PROVE  DOMAIN p \subseteq Datasets /\ \A d \in DOMAIN p : p[d] \subseteq Records
  <1>1. PICK S \in SUBSET Datasets : p \in [S -> SUBSET Records]
    BY DEF Plans
  <1>2. QED
    BY <1>1

-----------------------------------------------------------------------------
(* What stays true when the draft moves on and the records are kept. *)

\* Every change of the content comes with a revision.
Advances(old, new) ==
    /\ old.rev \in Nat /\ new.rev \in Nat /\ old.rev <= new.rev
    /\ new.rev = old.rev => new.content = old.content

\* A record may change, but not what it accepted, nor does it become fresh again.
Keeps(old, new, fresh, still) ==
    /\ DOMAIN old \subseteq DOMAIN new
    /\ \A n \in DOMAIN old : /\ new[n].accepted = old[n].accepted
                             /\ n \in still => n \in fresh

\* A record that is sound stays so.
LEMMA OpKept ==
    ASSUME NEW old, NEW new, Advances(old, new), NEW op \in Operations,
           NEW accepted, NEW retry, OpSound(op, accepted, retry, old)
    PROVE  OpSound(op, accepted, retry, new)
  <1>1. old.rev \in Nat /\ new.rev \in Nat
    BY DEF Advances
  <1>2. op.stage # None => op.stage.rev \in Nat
    BY DEF Operations, Receipts
  <1>3. op.request # None => op.request.start \in Nat
    BY DEF Operations, Requests
  <1>4. op.draft # None => op.draft.rev \in Nat
    BY DEF Operations, Drafts
  <1>5. TrueReceipt(op, new)
    <2>1. op.stage # None /\ new.rev = op.stage.rev => new.content = op.stage.print
      BY <1>1, <1>2 DEF OpSound, TrueReceipt, Advances
    <2>2. QED
      BY <2>1 DEF OpSound, TrueReceipt
  <1>6. /\ op.draft # None => op.draft.rev <= new.rev
        /\ op.request # None => op.request.start <= new.rev
        /\ op.stage # None => op.stage.rev <= new.rev
    BY <1>1, <1>2, <1>3, <1>4 DEF OpSound, Advances
  <1>7. QED
    BY <1>5, <1>6 DEF OpSound

\* A Bridge that does not move stays sound.
LEMMA RowKept ==
    ASSUME NEW old, NEW new, Advances(old, new), NEW os, NEW ns,
           NEW fresh, NEW still, Keeps(os, ns, fresh, still),
           NEW t, NEW u, \A n \in DOMAIN os : u[n] = t[n],
           NEW b, NEW row \in Rows, RowSound(row, b, t, os, fresh, old)
    PROVE  RowSound(row, b, u, ns, still, new)
  <1> SUFFICES ASSUME row.pc # "idle"
               PROVE  RowSound(row, b, u, ns, still, new)
    BY DEF RowSound
  <1> DEFINE accepted == os[row.n].accepted
             retry == t[row.n]
  <1>1. /\ row.n \in DOMAIN os
        /\ ReaderSound(row, accepted, retry, row.n \in fresh, old)
        /\ WriterSound(row, b, accepted, retry, old)
        /\ StagerSound(row, accepted, retry, old)
    BY DEF RowSound
  <1>2. /\ row.n \in DOMAIN ns /\ ns[row.n].accepted = accepted /\ u[row.n] = retry
        /\ row.n \in still => row.n \in fresh
    BY <1>1 DEF Keeps
  <1> HIDE DEF accepted, retry
  <1>3. ReaderSound(row, accepted, retry, row.n \in still, new)
    BY <1>1, <1>2, OpKept DEF ReaderSound
  <1>4. WriterSound(row, b, accepted, retry, new)
    <2>1. row.rev \in Nat /\ old.rev \in Nat /\ new.rev \in Nat
      BY DEF Rows, Advances
    <2>2. row.rev <= old.rev => /\ row.rev <= new.rev
                                /\ row.rev = new.rev => row.rev = old.rev /\ new.content = old.content
      BY <2>1 DEF Advances
    <2>3. QED
      BY <1>1, <2>2 DEF WriterSound, Merges
  <1>5. StagerSound(row, accepted, retry, new)
    BY <1>1, OpKept DEF StagerSound
  <1>6. QED
    BY <1>2, <1>3, <1>4, <1>5 DEF RowSound

\* A workbench command that does not move stays sound.
LEMMA DeskKept ==
    ASSUME NEW old, NEW new, Advances(old, new), NEW os, NEW ns,
           NEW fresh, NEW still, Keeps(os, ns, fresh, still),
           NEW t, NEW u, \A n \in DOMAIN os : u[n] = t[n],
           NEW row \in DeskRows, DeskSound(row, t, os, fresh, old)
    PROVE  DeskSound(row, u, ns, still, new)
  <1>1. row.next \in Operations
    BY DEF DeskRows
  <1>2. CASE row.n = 0
    <2>1. NewSound(row.next, old)
      BY <1>2 DEF DeskSound
    <2>2. OpSound(row.next, row.next.accepted, Retrying(row.next), new)
      BY <1>1, <2>1, OpKept DEF NewSound
    <2>3. QED
      BY <1>2, <2>1, <2>2 DEF DeskSound, NewSound
  <1>3. CASE row.n # 0
    <2>1. /\ row.n \in DOMAIN os /\ OpSound(row.next, os[row.n].accepted, t[row.n], old)
          /\ row.n \in fresh => Fresh(row.next)
          /\ row.next.stage = row.seen.stage /\ row.next.unknown = row.seen.unknown
      BY <1>3 DEF DeskSound
    <2>2. /\ row.n \in DOMAIN ns /\ ns[row.n].accepted = os[row.n].accepted
          /\ u[row.n] = t[row.n] /\ (row.n \in still => row.n \in fresh)
      BY <2>1 DEF Keeps
    <2>3. OpSound(row.next, os[row.n].accepted, t[row.n], new)
      BY <1>1, <2>1, OpKept
    <2>4. QED
      BY <1>3, <2>1, <2>2, <2>3 DEF DeskSound
  <1>4. QED
    BY <1>2, <1>3

\* Nor does a write on its way change.
LEMMA MessageKept ==
    ASSUME NEW old, NEW new, Advances(old, new), NEW os, NEW ns,
           NEW fresh, NEW still, Keeps(os, ns, fresh, still),
           NEW t, NEW u, \A n \in DOMAIN os : u[n] = t[n],
           NEW m \in Messages, MessageSound(m, t, os, fresh, old)
    PROVE  MessageSound(m, u, ns, still, new)
  <1>1. m.rev \in Nat /\ old.rev \in Nat /\ new.rev \in Nat
    BY DEF Messages, Advances
  <1>2. m.rev <= new.rev /\ (m.rev = new.rev => m.rev = old.rev /\ new.content = old.content)
    BY <1>1 DEF Advances, MessageSound
  <1>3. /\ m.n \in DOMAIN os /\ m.n \in DOMAIN ns /\ ns[m.n].accepted = os[m.n].accepted
        /\ u[m.n] = t[m.n] /\ m.n \notin still
    BY DEF Keeps, MessageSound
  <1>4. QED
    BY <1>2, <1>3 DEF MessageSound, Merges

-----------------------------------------------------------------------------
(* The workbench. *)

\* A draft that stays is an advance to itself.
LEMMA DraftStays ==
    ASSUME TypeOK, draft' = draft
    PROVE  Advances(draft, draft')
  BY DraftType DEF Advances

\* What follows of files that are left alone.
LEMMA FilesStay ==
    ASSUME UNCHANGED files
    PROVE  UNCHANGED <<local, ops, desk, lost>> /\ Untouched' = Untouched
  BY DEF files, Untouched

\* A workbench command compares, or ends, and changes nothing yet.
LEMMA DeskMoves ==
    ASSUME NEW t, Inv(t), NEW w \in Desks, NEW row \in DeskRows \cup {None},
           desk' = [desk EXCEPT ![w] = row], UNCHANGED <<local, ops, lost, bridge, wire, draft>>,
           row # None => DeskSound(row, t, ops, Untouched, draft) /\ AppliedSound(row.next, draft)
    PROVE  Inv(t)'
  <1>1. /\ TypeOK /\ AppliedIsDraft /\ OpsSound(t) /\ DesksSound(t) /\ BridgesSound(t)
        /\ MessagesSound(t) /\ Settled(t)
    BY DEF Inv, Sound
  <1>2. /\ desk' \in [Desks -> DeskRows \cup {None}] /\ desk'[w] = row
        /\ \A v \in Desks \ {w} : desk'[v] = desk[v]
    BY <1>1 DEF TypeOK
  <1>3. Untouched' = Untouched
    BY DEF Untouched
  <1>4. TypeOK' /\ OpsSound(t)' /\ BridgesSound(t)' /\ MessagesSound(t)'
    BY <1>1, <1>2, <1>3 DEF TypeOK, OpsSound, BridgesSound, MessagesSound
  <1>5. AppliedIsDraft' /\ DesksSound(t)'
    BY <1>1, <1>2, <1>3 DEF AppliedIsDraft, DesksSound
  <1>6. Settled(t)'
    BY <1>1 DEF Settled, Receipted, WritesNow, WritesAt
  <1>7. QED
    BY <1>4, <1>5, <1>6 DEF Inv, Sound

\* The workbench is about to replace the current record by one of the same
\* operation, as far marked and staged as it is.
LEMMA RecordKeeps ==
    ASSUME NEW t, Inv(t), ops # <<>>, NEW w \in Desks, NEW op \in Operations, Record(w, op),
           OpSound(op, Current.accepted, t[Len(ops)], draft),
           op.stage = Current.stage, op.unknown = Current.unknown, AppliedSound(op, draft)
    PROVE  Inv(t)'
  <1>1. PICK row \in DeskRows :
           /\ desk' = [desk EXCEPT ![w] = row]
           /\ row.n = Len(ops) /\ row.seen = Current /\ row.next = op
    <2> DEFINE new == [n |-> Len(ops), seen |-> Current, next |-> op]
    <2>1. Len(ops) \in Nat /\ Current \in Operations
      BY OpsType DEF Inv, Current
    <2>2. new \in DeskRows
      BY <2>1 DEF DeskRows
    <2>3. QED
      BY <2>2 DEF Record, Compared
  <1>2. UNCHANGED <<local, ops, lost, bridge, wire, draft>>
    BY DEF Record, Compared
  <1>3. DeskSound(row, t, ops, Untouched, draft)
    <2>1. Len(ops) \in DOMAIN ops /\ Len(ops) # 0 /\ ops[Len(ops)] = Current
      BY OpsType DEF Inv, Current
    <2>2. Len(ops) \in Untouched => Fresh(op)
      BY <2>1 DEF Untouched, Fresh, Uncertain
    <2>3. QED
      BY <1>1, <2>1, <2>2 DEF DeskSound
  <1>4. QED
    BY <1>1, <1>2, <1>3, DeskMoves

\* A command that ends renames nothing.
LEMMA AbandonKeeps ==
    ASSUME NEW t, Inv(t), NEW w \in Desks, Abandon(w)
    PROVE  Inv(t)'
  <1> DEFINE row == None
  <1>1. desk' = [desk EXCEPT ![w] = row] /\ UNCHANGED <<local, ops, lost, bridge, wire, draft>>
    BY DEF Abandon
  <1>2. row \in DeskRows \cup {None} /\ row = None
    OBVIOUS
  <1> HIDE DEF row
  <1>3. QED
    BY <1>1, <1>2, DeskMoves

\* The record that is current.
LEMMA CurrentSound ==
    ASSUME NEW t, Inv(t), ops # <<>>
    PROVE  /\ TypeOK /\ Len(ops) \in DOMAIN ops /\ Current \in Operations
           /\ OpSound(Current, Current.accepted, t[Len(ops)], draft)
           /\ AppliedSound(Current, draft)
  BY OpsType DEF Inv, Sound, OpsSound, AppliedIsDraft, Current

\* A draft response of the server, taken for an operation.
LEMMA ResolvedType ==
    ASSUME TypeOK, NEW previous \in Drafts \cup {None}, NEW accepted \in Works
    PROVE  /\ Resolved(previous, accepted) \in Drafts
           /\ Resolved(previous, accepted).rev = draft.rev
           /\ Resolved(previous, accepted).failed = (previous # None /\ previous.failed)
           /\ Resolved(previous, accepted).digest =
                 IF previous # None /\ previous.failed THEN previous.digest ELSE accepted
  <1>1. draft.rev \in Nat /\ draft.status \in Statuses
    BY DraftType
  <1>2. CASE previous # None /\ previous.failed
    <2>1. previous.digest \in Works
      BY <1>2 DEF Drafts
    <2>2. QED
      BY <1>1, <1>2, <2>1 DEF Resolved, Drafts
  <1>3. CASE ~(previous # None /\ previous.failed)
    BY <1>1, <1>3 DEF Resolved, Drafts
  <1>4. QED
    BY <1>2, <1>3

\* cacheServerDraft: whether the operation is a retry stays as it was.
LEMMA CacheDraftKeeps ==
    ASSUME NEW t, Inv(t), NEW w \in Desks, CacheDraft(w)
    PROVE  Inv(t)'
  <1> DEFINE new == Resolved(Current.draft, Current.accepted)
             op == [Current EXCEPT !.draft = new]
  <1>1. ops # <<>> /\ Record(w, op)
    BY DEF CacheDraft
  <1>2. /\ TypeOK /\ Current \in Operations /\ OpSound(Current, Current.accepted, t[Len(ops)], draft)
        /\ AppliedSound(Current, draft)
    BY <1>1, CurrentSound
  <1>3. Current.draft \in Drafts \cup {None} /\ Current.accepted \in Works
    BY <1>2 DEF Operations
  <1>4. /\ new \in Drafts /\ new.rev = draft.rev
        /\ new.failed = (Current.draft # None /\ Current.draft.failed)
        /\ new.digest = IF Current.draft # None /\ Current.draft.failed
                        THEN Current.draft.digest ELSE Current.accepted
    BY <1>2, <1>3, ResolvedType
  <1> HIDE DEF new
  <1>5. /\ op \in Operations /\ op.draft = new /\ op.accepted = Current.accepted
        /\ op.request = Current.request /\ op.unknown = Current.unknown
        /\ op.stage = Current.stage /\ op.checkpoint = Current.checkpoint
    BY <1>2, <1>4 DEF Operations
  <1> HIDE DEF op
  <1>6. OpSound(op, Current.accepted, t[Len(ops)], draft)
    <2>1. draft.rev \in Nat
      BY <1>2, DraftType
    <2>2. op.stage = None => Retrying(op) = t[Len(ops)] /\ op.checkpoint = "none"
      <3>1. Retrying(op) = Retrying(Current)
        BY <1>4, <1>5, ConstantsAssumption DEF Retrying
      <3>2. QED
        BY <1>2, <1>5, <3>1 DEF OpSound
    <2>3. op.stage # None => op.draft.digest = Current.accepted
      BY <1>2, <1>4, <1>5 DEF OpSound
    <2>4. TrueReceipt(op, draft)
      BY <1>2, <1>5 DEF OpSound, TrueReceipt
    <2>5. op.draft # None => /\ op.draft.rev <= draft.rev
                             /\ ~op.draft.failed => op.draft.digest = Current.accepted
      <3>1. ~new.failed => new.digest = Current.accepted
        BY <1>4
      <3>2. new.rev <= draft.rev
        BY <1>4, <2>1
      <3>3. QED
        BY <1>5, <3>1, <3>2
    <2>6. QED
      BY <1>2, <1>5, <2>2, <2>3, <2>4, <2>5 DEF OpSound, Uncertain
  <1>7. AppliedSound(op, draft)
    BY <1>2, <1>5 DEF AppliedSound
  <1>8. QED
    BY <1>1, <1>5, <1>6, <1>7, RecordKeeps

\* prepare: the request says of an unstaged operation whether it is a retry, and
\* never again of a staged one that it is.
LEMMA PrepareKeeps ==
    ASSUME NEW t, Inv(t), NEW w \in Desks, Prepare(w)
    PROVE  Inv(t)'
  <1> DEFINE retry == Current.draft.failed /\ Current.draft.digest # Current.accepted
             request == [start |-> Current.draft.rev, retry |-> retry]
             op == [Current EXCEPT !.request = request]
  <1>1. ops # <<>> /\ Record(w, op) /\ ~Uncertain(Current) /\ Current.draft # None
    BY DEF Prepare
  <1>2. /\ TypeOK /\ Current \in Operations /\ OpSound(Current, Current.accepted, t[Len(ops)], draft)
        /\ AppliedSound(Current, draft)
    BY <1>1, CurrentSound
  <1>3. Current.draft \in Drafts
    BY <1>1, <1>2 DEF Operations
  <1>4. /\ request \in Requests /\ request.start = Current.draft.rev
        /\ request.retry => Current.draft.digest # Current.accepted
    BY <1>3 DEF Requests, Drafts
  <1> HIDE DEF request
  <1>5. /\ op \in Operations /\ op.request = request /\ op.accepted = Current.accepted
        /\ op.draft = Current.draft /\ op.unknown = Current.unknown
        /\ op.stage = Current.stage /\ op.checkpoint = Current.checkpoint
    BY <1>2, <1>4 DEF Operations, Requests
  <1> HIDE DEF op
  <1>6. OpSound(op, Current.accepted, t[Len(ops)], draft)
    <2>1. op.request.start <= draft.rev
      BY <1>1, <1>2, <1>4, <1>5 DEF OpSound
    <2>2. TrueReceipt(op, draft)
      BY <1>2, <1>4, <1>5 DEF OpSound, TrueReceipt
    <2>3. Retrying(op) = Retrying(Current)
      BY <1>5 DEF Retrying
    <2>4. QED
      BY <1>1, <1>2, <1>5, <2>1, <2>2, <2>3 DEF OpSound, Uncertain
  <1>7. AppliedSound(op, draft)
    BY <1>2, <1>5 DEF AppliedSound
  <1>8. QED
    BY <1>1, <1>5, <1>6, <1>7, RecordKeeps

\* A result is recorded only for a Stage, and an applied one is the draft that
\* the receipt fingerprints.
LEMMA ResultKeeps ==
    ASSUME NEW t, Inv(t), NEW w \in Desks, RecordReview(w) \/ Approve(w) \/ RecordApply(w)
    PROVE  Inv(t)'
  <1>1. ops # <<>> /\ Bound(Current)
    BY DEF RecordReview, Approve, RecordApply
  <1>2. /\ TypeOK /\ Current \in Operations /\ OpSound(Current, Current.accepted, t[Len(ops)], draft)
        /\ AppliedSound(Current, draft)
    BY <1>1, CurrentSound
  <1>3. /\ Current.draft # None /\ Current.draft \in Drafts /\ Current.stage # None
        /\ Current.stage.rev = Current.draft.rev /\ ~Uncertain(Current)
        /\ Current.draft.digest = Current.accepted
    BY <1>1, <1>2 DEF Bound, Operations, OpSound
  <1>4. \E d \in Drafts, checkpoint \in {"valid", "failed", "approved", "applied"} :
           /\ d.rev = Current.draft.rev /\ d.digest = Current.draft.digest
           /\ Record(w, [Current EXCEPT !.draft = d, !.checkpoint = checkpoint])
           /\ checkpoint = "applied" =>
                 draft.status = "applied" /\ draft.content = Current.stage.print
    <2>1. CASE RecordReview(w)
      <3> DEFINE status == IF draft.review.valid THEN "validated" ELSE "active"
                 d == [Current.draft EXCEPT !.status = status, !.failed = ~draft.review.valid]
                 checkpoint == IF draft.review.valid THEN "valid" ELSE "failed"
                 op == [Current EXCEPT !.draft = d, !.checkpoint = checkpoint]
      <3>1. Record(w, [Current EXCEPT !.checkpoint = checkpoint, !.draft.status = status,
                                      !.draft.failed = ~draft.review.valid])
        BY <2>1 DEF RecordReview
      <3>2. [Current EXCEPT !.checkpoint = checkpoint, !.draft.status = status,
                            !.draft.failed = ~draft.review.valid] = op
        BY <1>2, <1>3 DEF Operations, Drafts
      <3>3. d \in Drafts /\ d.rev = Current.draft.rev /\ d.digest = Current.draft.digest
        BY <1>3 DEF Drafts, Statuses
      <3>4. checkpoint \in {"valid", "failed"}
        OBVIOUS
      <3> HIDE DEF d, checkpoint
      <3>5. QED
        BY <3>1, <3>2, <3>3, <3>4
    <2>2. CASE Approve(w) \/ RecordApply(w)
      <3>1. PICK c \in {"approved", "applied"} :
               /\ Record(w, [Current EXCEPT !.checkpoint = c])
               /\ c = "applied" => draft.status = "applied" /\ draft.rev = Current.draft.rev
        BY <2>2 DEF Approve, RecordApply
      <3>2. [Current EXCEPT !.checkpoint = c] = [Current EXCEPT !.draft = Current.draft, !.checkpoint = c]
        BY <1>2 DEF Operations
      <3>3. c = "applied" => draft.status = "applied" /\ draft.content = Current.stage.print
        BY <1>2, <1>3, <3>1 DEF OpSound, TrueReceipt
      <3>4. QED
        BY <1>3, <3>1, <3>2, <3>3
    <2>3. QED
      BY <2>1, <2>2
  <1>5. PICK d \in Drafts, checkpoint \in {"valid", "failed", "approved", "applied"} :
           /\ d.rev = Current.draft.rev /\ d.digest = Current.draft.digest
           /\ Record(w, [Current EXCEPT !.draft = d, !.checkpoint = checkpoint])
           /\ checkpoint = "applied" =>
                 draft.status = "applied" /\ draft.content = Current.stage.print
    BY <1>4
  <1> DEFINE op == [Current EXCEPT !.draft = d, !.checkpoint = checkpoint]
  <1>6. /\ op \in Operations /\ op.draft = d /\ op.accepted = Current.accepted
        /\ op.request = Current.request /\ op.unknown = Current.unknown
        /\ op.stage = Current.stage /\ op.checkpoint = checkpoint
    BY <1>2 DEF Operations
  <1>7. Record(w, op) /\ AppliedSound(op, draft)
    BY <1>5, <1>6 DEF AppliedSound
  <1> HIDE DEF op
  <1>8. OpSound(op, Current.accepted, t[Len(ops)], draft)
    <2>1. TrueReceipt(op, draft)
      BY <1>2, <1>6 DEF OpSound, TrueReceipt
    <2>2. QED
      BY <1>2, <1>3, <1>5, <1>6, <2>1 DEF OpSound, Uncertain
  <1>9. QED
    BY <1>1, <1>6, <1>7, <1>8, RecordKeeps

\* Only the local files change.
LEMMA EditKeeps ==
    ASSUME NEW t, Inv(t), Edit
    PROVE  Inv(t)'
  <1>1. local' \in Works /\ UNCHANGED <<ops, desk, lost, bridge, wire, draft>>
    BY DEF Edit
  <1>2. Untouched' = Untouched
    BY <1>1 DEF Untouched
  <1>3. TypeOK' /\ AppliedIsDraft'
    BY <1>1 DEF Inv, TypeOK, AppliedIsDraft
  <1>4. OpsSound(t)' /\ DesksSound(t)' /\ BridgesSound(t)' /\ MessagesSound(t)'
    BY <1>1, <1>2 DEF Inv, Sound, OpsSound, DesksSound, BridgesSound, MessagesSound
  <1>5. Settled(t)'
    BY <1>1 DEF Inv, Sound, Settled, Receipted, WritesNow, WritesAt
  <1>6. QED
    BY <1>3, <1>4, <1>5 DEF Inv, Sound

\* The draft an accepted operation starts from: it failed, or holds what this
\* operation accepts.
LEMMA AcceptedDraft ==
    ASSUME NEW t, Inv(t),
           NEW d \in {Kept} \cup (IF draft.status = "applied" THEN {} ELSE {Resolved(Inherited, local)})
    PROVE  /\ d \in Drafts \cup {None}
           /\ d # None => d.rev <= draft.rev /\ (~d.failed => d.digest = local)
  <1>1. TypeOK /\ local \in Works /\ draft.rev \in Nat
    BY DraftType DEF Inv, TypeOK
  <1>2. /\ Inherited \in Drafts \cup {None}
        /\ Inherited # None => /\ ops # <<>> /\ Inherited = Current.draft
                               /\ OpSound(Current, Current.accepted, t[Len(ops)], draft)
    BY CurrentSound DEF Inherited, Operations
  <1>3. CASE d = Kept
    BY <1>2, <1>3 DEF Kept, OpSound
  <1>4. CASE d = Resolved(Inherited, local)
    <2>1. /\ d \in Drafts /\ d.rev = draft.rev
          /\ d.failed = (Inherited # None /\ Inherited.failed)
          /\ d.digest = IF Inherited # None /\ Inherited.failed THEN Inherited.digest ELSE local
      BY <1>1, <1>2, <1>4, ResolvedType
    <2>2. ~d.failed => d.digest = local
      BY <2>1
    <2>3. d.rev <= draft.rev
      BY <1>1, <2>1
    <2>4. QED
      BY <2>1, <2>2, <2>3
  <1>5. QED
    BY <1>3, <1>4

\* accept: a new operation, to be renamed into place.
LEMMA AcceptKeeps ==
    ASSUME NEW t, Inv(t), NEW w \in Desks, Accept(w)
    PROVE  Inv(t)'
  <1>1. TypeOK /\ local \in Works
    BY DEF Inv, TypeOK
  <1>2. PICK d \in {Kept} \cup (IF draft.status = "applied" THEN {} ELSE {Resolved(Inherited, local)}) :
           Compared(w, 0, None, [accepted |-> local, draft |-> d, request |-> None,
                                 unknown |-> None, stage |-> None, checkpoint |-> "none"])
    BY DEF Accept
  <1>3. /\ d \in Drafts \cup {None}
        /\ d # None => d.rev <= draft.rev /\ (~d.failed => d.digest = local)
    BY AcceptedDraft
  <1> DEFINE op == [accepted |-> local, draft |-> d, request |-> None,
                    unknown |-> None, stage |-> None, checkpoint |-> "none"]
             row == [n |-> 0, seen |-> None, next |-> op]
  <1>4. /\ op \in Operations /\ op.accepted = local /\ op.draft = d /\ op.request = None
        /\ op.unknown = None /\ op.stage = None /\ op.checkpoint = "none"
    BY <1>1, <1>3 DEF Operations
  <1>5. desk' = [desk EXCEPT ![w] = row] /\ UNCHANGED <<local, ops, lost, bridge, wire, draft>>
    BY <1>2 DEF Compared
  <1> HIDE DEF op
  <1>6. row \in DeskRows /\ row.n = 0 /\ row.next = op
    BY <1>4 DEF DeskRows
  <1> HIDE DEF row
  <1>7. NewSound(op, draft)
    BY <1>3, <1>4 DEF NewSound, OpSound, Fresh, Uncertain, TrueReceipt
  <1>8. DeskSound(row, t, ops, Untouched, draft) /\ AppliedSound(row.next, draft)
    BY <1>4, <1>6, <1>7 DEF DeskSound, AppliedSound
  <1>9. QED
    BY <1>5, <1>6, <1>8, DeskMoves

\* What a command is about to rename.
LEMMA AtDesk ==
    ASSUME NEW t, Inv(t), NEW w \in Desks, Replace(w)
    PROVE  /\ TypeOK /\ desk[w] \in DeskRows /\ desk[w].next \in Operations
           /\ DeskSound(desk[w], t, ops, Untouched, draft) /\ AppliedSound(desk[w].next, draft)
           /\ desk' \in [Desks -> DeskRows \cup {None}] /\ desk'[w] = None
           /\ \A v \in Desks \ {w} : desk'[v] = desk[v]
           /\ UNCHANGED <<local, bridge, wire, draft>>
  <1>1. TypeOK /\ AppliedIsDraft /\ DesksSound(t)
    BY DEF Inv, Sound
  <1>2. /\ desk[w] # None /\ desk' = [desk EXCEPT ![w] = None]
        /\ UNCHANGED <<local, bridge, wire, draft>>
    BY DEF Replace
  <1>3. desk[w] \in DeskRows
    BY <1>1, <1>2 DEF TypeOK
  <1>4. QED
    BY <1>1, <1>2, <1>3 DEF TypeOK, AppliedIsDraft, DesksSound, DeskRows

\* The files have changed under those who do not move.
LEMMA OthersKeep ==
    ASSUME NEW t, Inv(t), NEW w \in Desks, Replace(w), NEW u, \A n \in DOMAIN ops : u[n] = t[n],
           Keeps(ops, ops', Untouched, Untouched')
    PROVE  DesksSound(u)' /\ BridgesSound(u)' /\ MessagesSound(u)'
  <1>1. TypeOK /\ DesksSound(t) /\ BridgesSound(t) /\ MessagesSound(t)
    BY DEF Inv, Sound
  <1>2. /\ UNCHANGED <<bridge, wire, draft>> /\ Advances(draft, draft')
        /\ desk'[w] = None /\ \A v \in Desks \ {w} : desk'[v] = desk[v]
    BY <1>1, AtDesk, DraftStays
  <1>3. DesksSound(u)'
    <2>1. \A v \in Desks : desk[v] # None =>
             desk[v] \in DeskRows /\ DeskSound(desk[v], t, ops, Untouched, draft)
      BY <1>1 DEF DesksSound, TypeOK
    <2>2. \A v \in Desks : desk[v] # None => DeskSound(desk[v], u, ops', Untouched', draft')
      BY <1>2, <2>1, DeskKept
    <2>3. QED
      BY <1>2, <2>2 DEF DesksSound
  <1>4. BridgesSound(u)'
    <2>1. \A b \in Bridges : bridge[b] \in Rows /\ RowSound(bridge[b], b, t, ops, Untouched, draft)
      BY <1>1 DEF BridgesSound, TypeOK
    <2>2. \A b \in Bridges : RowSound(bridge[b], b, u, ops', Untouched', draft')
      BY <1>2, <2>1, RowKept
    <2>3. QED
      BY <1>2, <2>2 DEF BridgesSound
  <1>5. MessagesSound(u)'
    <2>1. \A m \in wire : m \in Messages /\ MessageSound(m, t, ops, Untouched, draft)
      BY <1>1 DEF MessagesSound, TypeOK
    <2>2. \A m \in wire : MessageSound(m, u, ops', Untouched', draft')
      BY <1>2, <2>1, MessageKept
    <2>3. QED
      BY <1>2, <2>2 DEF MessagesSound
  <1>6. QED
    BY <1>3, <1>4, <1>5

\* A sequence with one element replaced.
LEMMA SequenceUpdated ==
    ASSUME NEW S, NEW s \in Seq(S), NEW n \in DOMAIN s, NEW e \in S
    PROVE  LET u == [s EXCEPT ![n] = e]
           IN  /\ u \in Seq(S) /\ DOMAIN u = DOMAIN s /\ u[n] = e
               /\ \A i \in DOMAIN s : i # n => u[i] = s[i]
  OBVIOUS

\* The record is what the command has read, or was fresh and is so again, or the
\* loss of its mark or receipt is noted.
LEMMA ReplaceKeeps ==
    ASSUME NEW t, Inv(t), NEW w \in Desks, Replace(w), desk[w].n # 0
    PROVE  Inv(t)'
  <1> DEFINE k == desk[w].n
             op == desk[w].next
  <1>1. /\ TypeOK /\ AppliedIsDraft /\ OpsSound(t) /\ Settled(t)
        /\ ops \in Seq(Operations)
    BY DEF Inv, Sound, TypeOK
  <1>2. /\ desk[w] \in DeskRows /\ op \in Operations /\ AppliedSound(op, draft)
        /\ DeskSound(desk[w], t, ops, Untouched, draft)
        /\ desk' \in [Desks -> DeskRows \cup {None}] /\ desk'[w] = None
        /\ \A v \in Desks \ {w} : desk'[v] = desk[v]
        /\ UNCHANGED <<local, bridge, wire, draft>>
    BY AtDesk
  <1>3. /\ k \in DOMAIN ops /\ OpSound(op, ops[k].accepted, t[k], draft)
        /\ k \in Untouched => Fresh(op)
        /\ op.stage = desk[w].seen.stage /\ op.unknown = desk[w].seen.unknown
    BY <1>2 DEF DeskSound
  <1>4. /\ ops' = [ops EXCEPT ![k] = op]
        /\ lost' = IF ops[k] # desk[w].seen /\ (Uncertain(ops[k]) \/ ops[k].stage # None)
                   THEN lost \cup {k} ELSE lost
    BY DEF Replace
  <1> HIDE DEF k, op
  <1>5. /\ DOMAIN ops' = DOMAIN ops /\ ops'[k] = op /\ ops' \in Seq(Operations)
        /\ \A n \in DOMAIN ops : n # k => ops'[n] = ops[n]
    BY <1>1, <1>2, <1>3, <1>4, SequenceUpdated
  <1>6. op.accepted = ops[k].accepted
    BY <1>3 DEF OpSound
  <1>7. k \notin lost' => op.stage = ops[k].stage /\ (Fresh(op) <=> Fresh(ops[k]))
    <2> SUFFICES ASSUME k \notin lost'
                 PROVE  op.stage = ops[k].stage /\ (Fresh(op) <=> Fresh(ops[k]))
      OBVIOUS
    <2>1. k \notin lost /\ (ops[k] = desk[w].seen \/ Fresh(ops[k]))
      BY <1>4 DEF Fresh
    <2>2. CASE ops[k] = desk[w].seen
      BY <1>3, <2>2 DEF Fresh, Uncertain
    <2>3. CASE Fresh(ops[k])
      BY <1>3, <2>1, <2>3 DEF Untouched, Fresh
    <2>4. QED
      BY <2>1, <2>2, <2>3
  <1>8. lost \subseteq lost'
    BY <1>4
  <1>9. \A n \in DOMAIN ops : /\ ops'[n].accepted = ops[n].accepted
                              /\ n \notin lost' => /\ ops'[n].stage = ops[n].stage
                                                   /\ Fresh(ops'[n]) <=> Fresh(ops[n])
    BY <1>5, <1>6, <1>7
  <1>10. Keeps(ops, ops', Untouched, Untouched')
    BY <1>5, <1>8, <1>9 DEF Keeps, Untouched
  <1>11. TypeOK'
    BY <1>1, <1>2, <1>5 DEF TypeOK
  <1>12. AppliedIsDraft' /\ OpsSound(t)'
    BY <1>1, <1>2, <1>3, <1>5, <1>6 DEF AppliedIsDraft, OpsSound
  <1>13. DesksSound(t)' /\ BridgesSound(t)' /\ MessagesSound(t)'
    BY <1>10, OthersKeep
  <1>14. Settled(t)'
    <2>1. \A n \in DOMAIN ops \ lost' : Receipted(n)' = Receipted(n) /\ WritesNow(n)' = WritesNow(n)
      BY <1>2, <1>9 DEF Receipted, WritesNow, WritesAt
    <2>2. QED
      BY <1>1, <1>2, <1>5, <1>8, <1>9, <2>1 DEF Settled, Holds
  <1>15. QED
    BY <1>11, <1>12, <1>13, <1>14 DEF Inv, Sound

\* A new operation, for which nobody works yet.
LEMMA AppendKeeps ==
    ASSUME NEW t \in [Nat -> BOOLEAN], Inv(t), NEW w \in Desks, Replace(w), desk[w].n = 0
    PROVE  \E u \in [Nat -> BOOLEAN] : Inv(u)'
  <1> DEFINE op == desk[w].next
  <1>1. TypeOK /\ AppliedIsDraft /\ OpsSound(t) /\ BridgesSound(t) /\ Settled(t)
    BY DEF Inv, Sound
  <1>2. /\ desk[w] \in DeskRows /\ op \in Operations /\ AppliedSound(op, draft)
        /\ DeskSound(desk[w], t, ops, Untouched, draft)
        /\ desk' \in [Desks -> DeskRows \cup {None}] /\ desk'[w] = None
        /\ \A v \in Desks \ {w} : desk'[v] = desk[v]
        /\ UNCHANGED <<local, bridge, wire, draft>>
    BY AtDesk
  <1>3. op.stage = None /\ OpSound(op, op.accepted, Retrying(op), draft)
    BY <1>2 DEF DeskSound, NewSound, Fresh
  <1>4. ops' = Append(ops, op) /\ lost' = lost
    BY DEF Replace
  <1>5. PICK last \in Nat :
           /\ DOMAIN ops \subseteq Nat
           /\ ops' \in Seq(Operations) /\ DOMAIN ops' = DOMAIN ops \cup {last}
           /\ last \notin DOMAIN ops /\ ops'[last] = op
           /\ \A n \in DOMAIN ops : ops'[n] = ops[n]
    <2>1. ops \in Seq(Operations)
      BY <1>1 DEF TypeOK
    <2>2. Len(ops) + 1 \in Nat
      BY <2>1
    <2> HIDE DEF op
    <2>3. QED
      BY <1>2, <1>4, <2>1, <2>2
  <1> HIDE DEF op
  <1>6. PICK u \in [Nat -> BOOLEAN] :
           u[last] = Retrying(op) /\ \A n \in DOMAIN ops : u[n] = t[n]
    <2> DEFINE v == [t EXCEPT ![last] = Retrying(op)]
    <2>1. v \in [Nat -> BOOLEAN]
      BY DEF Retrying
    <2>2. v[last] = Retrying(op) /\ \A n \in DOMAIN ops : v[n] = t[n]
      BY <1>5
    <2>3. QED
      BY <2>1, <2>2
  <1>7. TypeOK'
    BY <1>1, <1>2, <1>5 DEF TypeOK
  <1>8. AppliedIsDraft' /\ OpsSound(u)'
    BY <1>1, <1>2, <1>3, <1>5, <1>6 DEF AppliedIsDraft, OpsSound
  <1>9. Keeps(ops, ops', Untouched, Untouched')
    BY <1>4, <1>5 DEF Keeps, Untouched
  <1>10. DesksSound(u)' /\ BridgesSound(u)' /\ MessagesSound(u)'
    BY <1>6, <1>9, OthersKeep
  <1>11. Settled(u)'
    <2>1. \A n \in DOMAIN ops : Receipted(n)' = Receipted(n) /\ WritesNow(n)' = WritesNow(n)
      BY <1>2, <1>5 DEF Receipted, WritesNow, WritesAt
    <2>2. ~Receipted(last)'
      <3>1. \A b \in Bridges : bridge[b].pc \in Stagers => bridge[b].n \in DOMAIN ops
        BY <1>1 DEF BridgesSound, RowSound, Stagers
      <3>2. QED
        BY <1>2, <1>3, <1>5, <3>1 DEF Receipted
    <2>3. QED
      BY <1>1, <1>2, <1>4, <1>5, <1>6, <2>1, <2>2 DEF Settled, Holds
  <1>12. QED
    BY <1>7, <1>8, <1>10, <1>11 DEF Inv, Sound

-----------------------------------------------------------------------------
(* A Bridge moves. *)

\* A Bridge moves to a sound row of its own.  A receipt is begun only when the
\* draft holds what was accepted, and a write only while there is no receipt.
LEMMA BridgeMoves ==
    ASSUME NEW t, Inv(t), NEW b \in Bridges, NEW row \in Rows,
           bridge' = [bridge EXCEPT ![b] = row], UNCHANGED <<files, wire, draft>>,
           RowSound(row, b, t, ops, Untouched, draft),
           row.pc \in Stagers => Receipted(row.n) \/ Holds(ops[row.n].accepted, t[row.n], draft),
           WritesAt(row, row.n, draft.rev) /\ Receipted(row.n) => WritesNow(row.n) \/ row.n \in lost
    PROVE  Inv(t)'
  <1>1. TypeOK /\ AppliedIsDraft /\ OpsSound(t) /\ DesksSound(t) /\ BridgesSound(t) /\ MessagesSound(t) /\ Settled(t)
    BY DEF Inv, Sound
  <1>2. /\ bridge' \in [Bridges -> Rows] /\ bridge'[b] = row
        /\ \A c \in Bridges \ {b} : bridge'[c] = bridge[c]
    BY <1>1 DEF TypeOK
  <1>3. UNCHANGED <<local, ops, desk, lost>> /\ Untouched' = Untouched
    BY FilesStay
  <1>4. TypeOK' /\ AppliedIsDraft' /\ OpsSound(t)' /\ DesksSound(t)' /\ BridgesSound(t)' /\ MessagesSound(t)'
    BY <1>1, <1>2, <1>3 DEF TypeOK, AppliedIsDraft, OpsSound, DesksSound, BridgesSound, MessagesSound
  <1>5. Settled(t)'
    <2> SUFFICES ASSUME NEW n \in DOMAIN ops \ lost, Receipted(n)', WritesNow(n)'
                 PROVE  Holds(ops[n].accepted, t[n], draft)
      BY <1>3 DEF Settled
    <2>1. Receipted(n) \/ (row.pc \in Stagers /\ row.n = n)
      BY <1>2, <1>3 DEF Receipted
    <2>2. WritesNow(n) \/ WritesAt(row, n, draft.rev)
      BY <1>2 DEF WritesNow
    <2>3. WritesAt(row, n, draft.rev) => row.n = n
      BY DEF WritesAt
    <2>4. QED
      BY <1>1, <2>1, <2>2, <2>3 DEF Settled
  <1>6. QED
    BY <1>4, <1>5 DEF Inv, Sound

\* What holds for a Bridge at work.
LEMMA AtWork ==
    ASSUME NEW t, Inv(t), NEW b \in Bridges, bridge[b].pc # "idle"
    PROVE  /\ TypeOK /\ bridge[b] \in Rows /\ bridge[b].n \in DOMAIN ops
           /\ ops[bridge[b].n].accepted \in Works
           /\ ReaderSound(bridge[b], ops[bridge[b].n].accepted, t[bridge[b].n],
                          bridge[b].n \in Untouched, draft)
           /\ WriterSound(bridge[b], b, ops[bridge[b].n].accepted, t[bridge[b].n], draft)
           /\ StagerSound(bridge[b], ops[bridge[b].n].accepted, t[bridge[b].n], draft)
           /\ bridge[b].seen \in Operations /\ bridge[b].seen.accepted = ops[bridge[b].n].accepted
  <1>1. TypeOK /\ bridge[b] \in Rows /\ RowSound(bridge[b], b, t, ops, Untouched, draft)
    BY DEF Inv, Sound, BridgesSound, TypeOK
  <1>2. /\ bridge[b].n \in DOMAIN ops
        /\ ReaderSound(bridge[b], ops[bridge[b].n].accepted, t[bridge[b].n],
                       bridge[b].n \in Untouched, draft)
        /\ WriterSound(bridge[b], b, ops[bridge[b].n].accepted, t[bridge[b].n], draft)
        /\ StagerSound(bridge[b], ops[bridge[b].n].accepted, t[bridge[b].n], draft)
    BY <1>1 DEF RowSound
  <1>3. bridge[b].seen \in Operations /\ bridge[b].seen.accepted = ops[bridge[b].n].accepted
    BY <1>2 DEF ReaderSound, OpSound
  <1>4. ops[bridge[b].n].accepted \in Works
    BY <1>1, <1>2, OpsType
  <1>5. QED
    BY <1>1, <1>2, <1>3, <1>4

\* A Bridge that rests knows nothing.
LEMMA RestingRow ==
    /\ Resting \in Rows /\ Resting.pc = "idle"
    /\ \A b, t, os, fresh, dr : RowSound(Resting, b, t, os, fresh, dr)
    /\ \A n, rev : ~WritesAt(Resting, n, rev)
  <1>1. Resting \in Rows /\ Resting.pc = "idle"
    BY DEF Resting, Rows
  <1>2. QED
    BY <1>1 DEF RowSound, WritesAt, Writers

\* GiveUp leaves no trace.
LEMMA GiveUpKeeps ==
    ASSUME NEW t, Inv(t), NEW b \in Bridges, GiveUp(b)
    PROVE  Inv(t)'
  <1>1. bridge' = [bridge EXCEPT ![b] = Resting] /\ UNCHANGED <<files, wire, draft>>
    BY DEF GiveUp
  <1>2. Resting.pc \notin Stagers
    BY RestingRow DEF Stagers
  <1> DEFINE row == Resting
  <1>3. row \in Rows /\ RowSound(row, b, t, ops, Untouched, draft) /\ ~WritesAt(row, row.n, draft.rev)
    BY RestingRow
  <1>4. bridge' = [bridge EXCEPT ![b] = row] /\ row.pc \notin Stagers
    BY <1>1, <1>2
  <1> HIDE DEF row
  <1>5. QED
    BY <1>1, <1>3, <1>4, BridgeMoves

\* readRequest: an operation that is approved for staging has no receipt, and
\* its request says what it is.
LEMMA ApprovedOp ==
    ASSUME NEW t, Inv(t), ops # <<>>, Approved(Current)
    PROVE  /\ Current.stage = None /\ Current.request # None
           /\ Current.request.retry = t[Len(ops)]
  <1>1. Current \in Operations /\ OpSound(Current, Current.accepted, t[Len(ops)], draft)
    BY CurrentSound
  <1>2. /\ Current.request # None /\ Current.draft # None
        /\ Current.request.retry \in BOOLEAN
    BY <1>1 DEF Approved, Operations, Requests
  <1>3. CASE Current.request.retry
    <2>1. Current.draft.failed /\ Current.draft.digest # Current.accepted
      BY <1>3 DEF Approved
    <2>2. Current.stage = None
      BY <1>1, <2>1 DEF OpSound
    <2>3. Retrying(Current) = TRUE /\ t[Len(ops)] = Retrying(Current)
      BY <1>1, <1>2, <2>1, <2>2 DEF OpSound, Retrying
    <2>4. QED
      BY <1>2, <1>3, <2>2, <2>3
  <1>4. CASE ~Current.request.retry
    <2>1. Current.stage = None /\ Current.draft.digest = Current.accepted
      BY <1>4 DEF Approved
    <2>2. Retrying(Current) = FALSE /\ t[Len(ops)] = Retrying(Current)
      BY <1>1, <1>2, <2>1 DEF OpSound, Retrying
    <2>3. QED
      BY <1>2, <1>4, <2>1, <2>2
  <1>5. QED
    BY <1>2, <1>3, <1>4

\* Nobody begins to write for an operation that has a receipt, or will have.
LEMMA BeginKeeps ==
    ASSUME NEW t, Inv(t), NEW b \in Bridges, NEW recovery \in BOOLEAN, Begin(b, recovery)
    PROVE  Inv(t)'
  <1>1. /\ ops # <<>> /\ Approved(Current) /\ Uncertain(Current) = recovery
        /\ UNCHANGED <<files, wire, draft>>
    BY DEF Begin
  <1>2. /\ TypeOK /\ Len(ops) \in DOMAIN ops /\ Current \in Operations
        /\ OpSound(Current, Current.accepted, t[Len(ops)], draft)
        /\ Len(ops) \in Nat
    BY <1>1, CurrentSound, OpsType
  <1>3. /\ Current.stage = None /\ Current.request # None
        /\ Current.request.retry = t[Len(ops)]
    BY <1>1, ApprovedOp
  <1>4. PICK row \in Rows :
           /\ bridge' = [bridge EXCEPT ![b] = row]
           /\ row.pc = (IF recovery THEN "recovering" ELSE "reading")
           /\ row.n = Len(ops) /\ row.seen = Current
    <2> DEFINE pc == IF recovery THEN "recovering" ELSE "reading"
               new == [Resting EXCEPT !.pc = pc, !.n = Len(ops), !.seen = Current]
    <2>1. bridge' = [bridge EXCEPT ![b] = new]
      BY DEF Begin
    <2>2. pc \in {"recovering", "reading"}
      OBVIOUS
    <2> HIDE DEF pc
    <2>3. new \in Rows /\ new.pc = pc /\ new.n = Len(ops) /\ new.seen = Current
      BY <1>2, <2>2, RestingRow DEF Rows
    <2>4. QED
      BY <2>1, <2>3 DEF pc
  <1>5. ops[row.n] = Current
    BY <1>4 DEF Current
  <1>6. row.pc \notin Writers /\ row.pc \notin Stagers /\ row.pc \notin {"writing", "waiting"}
    BY <1>4 DEF Writers, Stagers
  <1>7. row.pc = "recovering" => Uncertain(Current) /\ row.n \notin Untouched
    BY <1>1, <1>4, <1>5 DEF Untouched, Fresh
  <1>8. RowSound(row, b, t, ops, Untouched, draft)
    BY <1>2, <1>3, <1>4, <1>5, <1>6, <1>7 DEF RowSound, ReaderSound, WriterSound, StagerSound
  <1>9. WritesAt(row, row.n, draft.rev) => ~Receipted(row.n) \/ row.n \in lost
    <2> SUFFICES ASSUME row.pc = "reading", row.n \notin lost
                 PROVE  ~Receipted(row.n)
      BY <1>6 DEF WritesAt
    <2>1. row.n \in Untouched
      BY <1>1, <1>2, <1>3, <1>4, <1>5 DEF Untouched, Fresh
    <2>2. ASSUME NEW c \in Bridges, bridge[c].pc \in Stagers
          PROVE  bridge[c].n \notin Untouched
      BY <2>2, AtWork DEF ReaderSound, Stagers
    <2>3. QED
      BY <1>3, <1>5, <2>1, <2>2 DEF Receipted
  <1>10. QED
    BY <1>1, <1>4, <1>6, <1>8, <1>9, BridgeMoves

\* The plan of a Bridge: what was accepted, with what the draft holds.
LEMMA PlanOf ==
    ASSUME TypeOK, NEW op \in Operations
    PROVE  /\ Plan(op) \in Plans /\ DOMAIN Plan(op) = DOMAIN op.accepted
           /\ DOMAIN op.accepted \subseteq Datasets
           /\ GoodPlan(Plan(op), op.accepted, op.request.retry)
           /\ \A d \in DOMAIN Plan(op) :
                 Merges(Plan(op), d, op.accepted, op.request.retry, draft)
  <1>1. op.accepted \in Works
    BY DEF Operations
  <1>2. DOMAIN op.accepted \subseteq Datasets /\ \A d \in DOMAIN op.accepted : op.accepted[d] \subseteq Records
    BY <1>1, WorkType
  <1>3. \A d \in Datasets : draft.content[d] \subseteq Records
    BY DraftType DEF Contents
  <1>4. \A d \in DOMAIN op.accepted :
           Plan(op)[d] = IF op.request.retry THEN op.accepted[d]
                                             ELSE op.accepted[d] \cup draft.content[d]
    BY DEF Plan
  <1>5. Plan(op) \in [DOMAIN op.accepted -> SUBSET Records]
    BY <1>2, <1>3 DEF Plan
  <1>6. QED
    BY <1>2, <1>4, <1>5, IsPlan DEF GoodPlan, Merges

\* Marked: the record of an operation whose outcome is not known.
LEMMA MarkedOp ==
    ASSUME NEW op \in Operations, NEW b \in Bridges, NEW plan \in Plans, NEW accepted, NEW retry,
           NEW dr, OpSound(op, accepted, retry, dr), op.stage = None, op.request # None,
           op.request.retry = retry, GoodPlan(plan, accepted, retry)
    PROVE  /\ Marked(op, b, plan) \in Operations /\ Uncertain(Marked(op, b, plan))
           /\ Marked(op, b, plan).stage = None /\ Marked(op, b, plan).request = op.request
           /\ Marked(op, b, plan).checkpoint = op.checkpoint
           /\ OpSound(Marked(op, b, plan), accepted, retry, dr)
  <1> DEFINE mark == [by |-> b, plan |-> plan]
             new == [op EXCEPT !.unknown = mark]
  <1>1. mark \in Marks /\ mark # None /\ mark.plan = plan
    BY ConstantsAssumption DEF Marks
  <1> HIDE DEF mark
  <1>2. /\ new \in Operations /\ new.unknown = mark /\ new.stage = op.stage
        /\ new.request = op.request /\ new.accepted = op.accepted /\ new.draft = op.draft
        /\ new.checkpoint = op.checkpoint
    BY <1>1 DEF Operations
  <1>3. Marked(op, b, plan) = new
    BY DEF Marked, mark
  <1> HIDE DEF new
  <1>4. OpSound(new, accepted, retry, dr)
    BY <1>1, <1>2 DEF OpSound, Retrying, Uncertain, TrueReceipt
  <1>5. QED
    BY <1>1, <1>2, <1>3, <1>4 DEF Uncertain

\* The draft is read at the revision the request starts from.
LEMMA FetchKeeps ==
    ASSUME NEW t, Inv(t), NEW b \in Bridges, Fetch(b)
    PROVE  Inv(t)'
  <1> DEFINE old == bridge[b]
             op == old.seen
             plan == Plan(op)
             next == Marked(op, b, plan)
             row == [old EXCEPT !.pc = "marking", !.plan = plan, !.next = next,
                                !.left = DOMAIN op.accepted, !.rev = draft.rev]
  <1>1. /\ old.pc = "reading" /\ draft.rev = op.request.start
        /\ UNCHANGED <<files, wire, draft>>
    BY DEF Fetch
  <1>2. /\ TypeOK /\ old \in Rows /\ old.n \in DOMAIN ops
        /\ ReaderSound(old, ops[old.n].accepted, t[old.n], old.n \in Untouched, draft)
        /\ op \in Operations /\ op.accepted = ops[old.n].accepted
    BY <1>1, AtWork
  <1>3. draft.rev \in Nat
    BY <1>2, DraftType
  <1>4. /\ plan \in Plans /\ DOMAIN plan = DOMAIN op.accepted
        /\ DOMAIN op.accepted \in SUBSET Datasets
        /\ GoodPlan(plan, op.accepted, op.request.retry)
        /\ \A d \in DOMAIN plan : Merges(plan, d, op.accepted, op.request.retry, draft)
    BY <1>2, PlanOf
  <1>5. /\ OpSound(op, op.accepted, op.request.retry, draft) /\ op.stage = None
        /\ op.request # None /\ op.request.retry = t[old.n]
    BY <1>2 DEF ReaderSound
  <1>6. next \in Operations
    BY <1>2, <1>4, <1>5, MarkedOp
  <1>7. bridge' = [bridge EXCEPT ![b] = row]
    BY <1>2 DEF Fetch, TypeOK
  <1> HIDE DEF plan, next
  <1>8. /\ row \in Rows /\ row.pc = "marking" /\ row.n = old.n /\ row.seen = op /\ row.next = next
        /\ row.plan = plan /\ row.left = DOMAIN plan /\ row.rev = draft.rev
    BY <1>2, <1>3, <1>4, <1>6 DEF Rows, Writers
  <1>9. next = Marked(op, b, plan)
    BY DEF next, plan
  <1> HIDE DEF row, op
  <1>10. "marking" \notin Stagers \cup {"writing", "waiting", "recovering"}
    BY DEF Stagers
  <1>11. RowSound(row, b, t, ops, Untouched, draft)
    <2>1. ReaderSound(row, ops[row.n].accepted, t[row.n], row.n \in Untouched, draft)
      BY <1>2, <1>8, <1>10 DEF ReaderSound, op
    <2>2. WriterSound(row, b, ops[row.n].accepted, t[row.n], draft)
      BY <1>2, <1>3, <1>4, <1>5, <1>8, <1>9 DEF WriterSound
    <2>3. StagerSound(row, ops[row.n].accepted, t[row.n], draft)
      BY <1>8, <1>10 DEF StagerSound
    <2>4. QED
      BY <1>2, <1>8, <2>1, <2>2, <2>3 DEF RowSound
  <1>12. WritesNow(row.n)
    BY <1>1, <1>8 DEF WritesNow, WritesAt, op
  <1>13. QED
    BY <1>1, <1>7, <1>8, <1>10, <1>11, <1>12, BridgeMoves

\* saveOperation has compared: nothing else changes.
LEMMA CheckKeeps ==
    ASSUME NEW t, Inv(t), NEW b \in Bridges, Check(b)
    PROVE  Inv(t)'
  <1> DEFINE old == bridge[b]
             pc == IF old.pc = "marking" THEN "renaming mark" ELSE "renaming receipt"
             row == [old EXCEPT !.pc = pc]
  <1>1. old.pc \in {"marking", "proven", "staged"} /\ UNCHANGED <<files, wire, draft>>
    BY DEF Check
  <1>2. /\ TypeOK /\ old \in Rows /\ old.n \in DOMAIN ops
        /\ ReaderSound(old, ops[old.n].accepted, t[old.n], old.n \in Untouched, draft)
        /\ WriterSound(old, b, ops[old.n].accepted, t[old.n], draft)
        /\ StagerSound(old, ops[old.n].accepted, t[old.n], draft)
    BY <1>1, AtWork
  <1>3. bridge' = [bridge EXCEPT ![b] = row]
    BY <1>2 DEF Check, TypeOK
  <1>4. /\ pc \in {"renaming mark", "renaming receipt"}
        /\ pc \in Writers <=> old.pc \in Writers
        /\ pc \in Stagers <=> old.pc \in Stagers
        /\ pc = "renaming mark" <=> old.pc = "marking"
    BY <1>1 DEF Writers, Stagers
  <1> HIDE DEF pc
  <1>5. /\ row \in Rows /\ row.pc = pc /\ row.n = old.n /\ row.seen = old.seen /\ row.next = old.next
        /\ row.plan = old.plan /\ row.left = old.left /\ row.rev = old.rev
    BY <1>2, <1>4 DEF Rows, Writers, Stagers
  <1> HIDE DEF row
  <1>6. RowSound(row, b, t, ops, Untouched, draft)
    <2>1. ReaderSound(row, ops[row.n].accepted, t[row.n], row.n \in Untouched, draft)
      <3>1. row.pc \notin {"writing", "waiting", "recovering"}
        BY <1>4, <1>5
      <3>2. row.pc \in Stagers => row.n \notin Untouched
        BY <1>2, <1>4, <1>5 DEF ReaderSound
      <3>3. QED
        BY <1>2, <1>5, <3>1, <3>2 DEF ReaderSound
    <2>2. WriterSound(row, b, ops[row.n].accepted, t[row.n], draft)
      BY <1>1, <1>2, <1>4, <1>5 DEF WriterSound
    <2>3. StagerSound(row, ops[row.n].accepted, t[row.n], draft)
      BY <1>2, <1>4, <1>5 DEF StagerSound
    <2>4. QED
      BY <1>2, <1>5, <2>1, <2>2, <2>3 DEF RowSound
  <1>7. row.pc \in Stagers => Receipted(row.n)
    BY <1>4, <1>5 DEF Receipted
  <1>8. WritesAt(row, row.n, draft.rev) => WritesNow(row.n)
    BY <1>4, <1>5 DEF WritesAt, WritesNow
  <1>9. QED
    BY <1>1, <1>3, <1>5, <1>6, <1>7, <1>8, BridgeMoves

\* A receipt of what the draft holds now is sound when that is what was
\* accepted.
LEMMA ReceiptOp ==
    ASSUME TypeOK, NEW op \in Operations, NEW retry, OpSound(op, op.accepted, retry, draft),
           op.stage = None, op.request.retry = retry, Holds(op.accepted, retry, draft)
    PROVE  LET new == Receipt(op, draft.content)
           IN  /\ new \in Operations /\ new.stage # None /\ new.checkpoint = "none"
               /\ OpSound(new, op.accepted, retry, draft)
  <1> DEFINE d == [rev |-> draft.rev, status |-> "active", failed |-> FALSE, digest |-> op.accepted]
             stage == [rev |-> draft.rev, print |-> draft.content]
             new == [op EXCEPT !.draft = d, !.stage = stage, !.unknown = None]
  <1>1. draft.rev \in Nat /\ draft.content \in Contents /\ op.accepted \in Works
    BY DraftType DEF Operations
  <1>2. stage \in Receipts /\ stage # None /\ stage.rev = draft.rev /\ stage.print = draft.content
    BY <1>1, ConstantsAssumption DEF Receipts
  <1>3. d \in Drafts /\ d.rev = draft.rev /\ d.digest = op.accepted
    BY <1>1 DEF Drafts, Statuses
  <1> HIDE DEF d, stage
  <1>4. /\ new \in Operations /\ new.draft = d /\ new.stage = stage /\ new.unknown = None
        /\ new.accepted = op.accepted /\ new.request = op.request /\ new.checkpoint = op.checkpoint
    BY <1>2, <1>3 DEF Operations
  <1>5. Receipt(op, draft.content) = new
    BY DEF Receipt, d, stage
  <1> HIDE DEF new
  <1>6. draft.rev <= draft.rev
    BY <1>1
  <1>7. TrueReceipt(new, draft)
    BY <1>2, <1>4 DEF TrueReceipt, Holds
  <1>8. OpSound(new, op.accepted, retry, draft)
    BY <1>2, <1>3, <1>4, <1>6, <1>7 DEF OpSound, Uncertain
  <1>9. op.checkpoint = "none"
    BY DEF OpSound
  <1>10. QED
    BY <1>2, <1>4, <1>5, <1>8, <1>9

\* A receipt is begun when all writes were answered at the draft's revision, or
\* when the draft is proved to hold what an uncertain operation intended.
LEMMA ReceiptKeeps ==
    ASSUME NEW t, Inv(t), NEW b \in Bridges, Fingerprint(b) \/ Prove(b)
    PROVE  Inv(t)'
  <1> DEFINE old == bridge[b]
             op == old.seen
             next == Receipt(op, draft.content)
  <1>1. /\ old.pc \in {"writing", "recovering"} /\ UNCHANGED <<files, wire, draft>>
    BY DEF Fingerprint, Prove
  <1>2. /\ TypeOK /\ old \in Rows /\ old.n \in DOMAIN ops
        /\ ReaderSound(old, ops[old.n].accepted, t[old.n], old.n \in Untouched, draft)
        /\ WriterSound(old, b, ops[old.n].accepted, t[old.n], draft)
        /\ op \in Operations /\ op.accepted = ops[old.n].accepted
    BY <1>1, AtWork
  <1>3. /\ OpSound(op, op.accepted, t[old.n], draft) /\ op.stage = None /\ op.request # None
        /\ op.request.retry = t[old.n] /\ old.n \notin Untouched
    BY <1>1, <1>2 DEF ReaderSound
  <1>4. Holds(op.accepted, t[old.n], draft)
    <2>1. CASE Fingerprint(b)
      <3>1. old.pc = "writing" /\ old.left = {} /\ draft.rev = old.rev
        BY <2>1 DEF Fingerprint
      <3>2. /\ GoodPlan(old.plan, op.accepted, t[old.n])
            /\ \A d \in DOMAIN old.plan : draft.content[d] = old.plan[d]
        BY <1>2, <3>1 DEF WriterSound, Writers
      <3>3. QED
        BY <3>2 DEF GoodPlan, Holds
    <2>2. CASE Prove(b)
      <3>1. old.pc = "recovering" /\ HashesMatch(op.unknown.plan)
        BY <2>2 DEF Prove
      <3>2. GoodPlan(op.unknown.plan, op.accepted, t[old.n])
        BY <1>2, <1>3, <3>1 DEF ReaderSound, OpSound
      <3>3. QED
        BY <3>1, <3>2 DEF GoodPlan, Holds, HashesMatch
    <2>3. QED
      BY <2>1, <2>2
  <1>5. /\ next \in Operations /\ next.stage # None /\ next.checkpoint = "none"
        /\ OpSound(next, op.accepted, t[old.n], draft)
    BY <1>2, <1>3, <1>4, ReceiptOp
  <1>6. PICK pc \in {"staged", "proven"} :
           bridge' = [bridge EXCEPT ![b] = [old EXCEPT !.pc = pc, !.next = next]]
    <2>1. CASE Fingerprint(b)
      BY <1>2, <2>1 DEF Fingerprint, TypeOK
    <2>2. CASE Prove(b)
      BY <1>2, <2>2 DEF Prove, TypeOK
    <2>3. QED
      BY <2>1, <2>2
  <1> HIDE DEF next
  <1> DEFINE row == [old EXCEPT !.pc = pc, !.next = next]
  <1>7. /\ row \in Rows /\ row.pc = pc /\ row.n = old.n /\ row.seen = op /\ row.next = next
    BY <1>2, <1>5 DEF Rows, Stagers
  <1>8. bridge' = [bridge EXCEPT ![b] = row]
    BY <1>6
  <1> HIDE DEF row, op
  <1>9. row.pc \in Stagers /\ row.pc \notin Writers /\ row.pc \notin {"reading", "recovering"}
    BY <1>7 DEF Writers, Stagers
  <1>10. RowSound(row, b, t, ops, Untouched, draft)
    <2>1. ReaderSound(row, ops[row.n].accepted, t[row.n], row.n \in Untouched, draft)
      BY <1>2, <1>3, <1>7, <1>9 DEF ReaderSound
    <2>2. WriterSound(row, b, ops[row.n].accepted, t[row.n], draft)
      BY <1>9 DEF WriterSound
    <2>3. StagerSound(row, ops[row.n].accepted, t[row.n], draft)
      BY <1>2, <1>5, <1>7 DEF StagerSound
    <2>4. QED
      BY <1>2, <1>7, <2>1, <2>2, <2>3 DEF RowSound
  <1>11. Holds(ops[row.n].accepted, t[row.n], draft) /\ ~WritesAt(row, row.n, draft.rev)
    BY <1>2, <1>4, <1>7, <1>9 DEF WritesAt
  <1>12. QED
    BY <1>1, <1>7, <1>8, <1>10, <1>11, BridgeMoves

\* A record that takes a mark, or that replaces its mark by a receipt.
Renamed(old, b) == IF old.pc = "renaming mark"
                   THEN [old EXCEPT !.pc = "writing", !.seen = old.next, !.next = None]
                   ELSE Resting

\* What is renamed over the record of an operation is sound, and no longer
\* fresh.
LEMMA RenamedRecord ==
    ASSUME NEW t, Inv(t), NEW b \in Bridges, Rename(b)
    PROVE  /\ bridge[b].next \in Operations
           /\ bridge[b].next.accepted = ops[bridge[b].n].accepted
           /\ OpSound(bridge[b].next, bridge[b].next.accepted, t[bridge[b].n], draft)
           /\ ~Fresh(bridge[b].next) /\ bridge[b].next.checkpoint = "none"
           /\ bridge[b].pc = "renaming mark" =>
                 /\ Uncertain(bridge[b].next) /\ bridge[b].next.stage = None
                 /\ bridge[b].next.request # None /\ bridge[b].next.request.retry = t[bridge[b].n]
  <1> DEFINE old == bridge[b]
  <1>1. old.pc \in {"renaming mark", "renaming receipt"}
    BY DEF Rename
  <1>2. /\ TypeOK /\ old \in Rows /\ old.n \in DOMAIN ops
        /\ ReaderSound(old, ops[old.n].accepted, t[old.n], old.n \in Untouched, draft)
        /\ WriterSound(old, b, ops[old.n].accepted, t[old.n], draft)
        /\ StagerSound(old, ops[old.n].accepted, t[old.n], draft)
    BY <1>1, AtWork
  <1>3. CASE old.pc = "renaming mark"
    <2>1. /\ old.seen \in Operations /\ OpSound(old.seen, ops[old.n].accepted, t[old.n], draft)
          /\ old.seen.stage = None /\ old.seen.request # None
          /\ old.seen.request.retry = t[old.n] /\ old.seen.checkpoint = "none"
      BY <1>2 DEF ReaderSound, OpSound
    <2>2. /\ old.next = Marked(old.seen, b, old.plan) /\ old.plan \in Plans
          /\ GoodPlan(old.plan, ops[old.n].accepted, t[old.n])
      BY <1>2, <1>3 DEF WriterSound, Writers
    <2>3. /\ old.next \in Operations /\ Uncertain(old.next) /\ old.next.stage = None
          /\ old.next.request = old.seen.request /\ old.next.checkpoint = "none"
          /\ OpSound(old.next, ops[old.n].accepted, t[old.n], draft)
      <3> DEFINE new == Marked(old.seen, b, old.plan)
      <3>1. /\ new \in Operations /\ Uncertain(new) /\ new.stage = None
            /\ new.request = old.seen.request /\ new.checkpoint = old.seen.checkpoint
            /\ OpSound(new, ops[old.n].accepted, t[old.n], draft)
        BY <2>1, <2>2, MarkedOp
      <3>2. old.next = new
        BY <2>2
      <3> HIDE DEF new, old
      <3>3. QED
        BY <2>1, <3>1, <3>2
    <2>4. old.next.accepted = ops[old.n].accepted
      BY <2>3 DEF OpSound
    <2>5. QED
      BY <2>1, <2>3, <2>4 DEF Fresh
  <1>4. CASE old.pc = "renaming receipt"
    <2>1. /\ old.next \in Operations /\ old.next.stage # None /\ old.next.checkpoint = "none"
          /\ OpSound(old.next, ops[old.n].accepted, t[old.n], draft)
      BY <1>2, <1>4 DEF StagerSound, Stagers
    <2>2. old.next.accepted = ops[old.n].accepted
      BY <2>1 DEF OpSound
    <2>3. QED
      BY <1>4, <2>1, <2>2 DEF Fresh
  <1>5. QED
    BY <1>1, <1>3, <1>4

\* The Bridge that renamed it goes on to write, or rests.
LEMMA RenamedRow ==
    ASSUME NEW t, Inv(t), NEW b \in Bridges, Rename(b),
           NEW os, DOMAIN os = DOMAIN ops, os[bridge[b].n] = bridge[b].next,
           NEW fresh, bridge[b].n \notin fresh
    PROVE  /\ Renamed(bridge[b], b) \in Rows
           /\ RowSound(Renamed(bridge[b], b), b, t, os, fresh, draft)
           /\ Renamed(bridge[b], b).pc \notin Stagers
           /\ \A n : WritesAt(Renamed(bridge[b], b), n, draft.rev) => WritesAt(bridge[b], n, draft.rev)
  <1> DEFINE old == bridge[b]
             row == [old EXCEPT !.pc = "writing", !.seen = old.next, !.next = None]
  <1>1. old.pc \in {"renaming mark", "renaming receipt"}
    BY DEF Rename
  <1>2. /\ old \in Rows /\ old.n \in DOMAIN ops
        /\ WriterSound(old, b, ops[old.n].accepted, t[old.n], draft)
    BY <1>1, AtWork
  <1>3. CASE old.pc = "renaming receipt"
    <2>1. Renamed(old, b) = Resting
      BY <1>3 DEF Renamed
    <2>2. Resting.pc \notin Stagers
      BY RestingRow DEF Stagers
    <2>3. QED
      BY <2>1, <2>2, RestingRow
  <1>4. CASE old.pc = "renaming mark"
    <2>1. /\ old.next \in Operations /\ old.next.accepted = ops[old.n].accepted
          /\ OpSound(old.next, old.next.accepted, t[old.n], draft) /\ ~Fresh(old.next)
          /\ old.next.stage = None /\ old.next.request # None
          /\ old.next.request.retry = t[old.n]
      BY <1>4, RenamedRecord
    <2>2. /\ row \in Rows /\ row.pc = "writing" /\ row.n = old.n /\ row.seen = old.next
          /\ row.plan = old.plan /\ row.left = old.left /\ row.rev = old.rev
      BY <1>2, <2>1 DEF Rows, Writers
    <2>3. Renamed(old, b) = row
      BY <1>4 DEF Renamed
    <2> HIDE DEF row
    <2>4. /\ row.pc \in Writers /\ row.pc \notin Stagers
          /\ row.pc \notin {"marking", "renaming mark", "recovering", "reading"}
          /\ old.pc \in Writers
      BY <1>4, <2>2 DEF Writers, Stagers
    <2>5. ReaderSound(row, os[row.n].accepted, t[row.n], row.n \in fresh, draft)
      BY <2>1, <2>2, <2>4 DEF ReaderSound
    <2>6. WriterSound(row, b, os[row.n].accepted, t[row.n], draft)
      BY <1>2, <2>1, <2>2, <2>4 DEF WriterSound
    <2>7. StagerSound(row, os[row.n].accepted, t[row.n], draft)
      BY <2>4 DEF StagerSound
    <2>8. RowSound(row, b, t, os, fresh, draft)
      BY <1>2, <2>2, <2>5, <2>6, <2>7 DEF RowSound
    <2>9. \A n : WritesAt(row, n, draft.rev) => WritesAt(old, n, draft.rev)
      BY <2>2, <2>4 DEF WritesAt
    <2>10. QED
      BY <2>2, <2>3, <2>4, <2>8, <2>9
  <1>5. QED
    BY <1>1, <1>3, <1>4

\* saveOperation renames over the record, whatever it has become meanwhile: a
\* receipt may give way to a mark, never to a fresh record.
LEMMA RenameKeeps ==
    ASSUME NEW t, Inv(t), NEW b \in Bridges, Rename(b)
    PROVE  Inv(t)'
  <1> DEFINE old == bridge[b]
  <1>1. TypeOK /\ AppliedIsDraft /\ OpsSound(t) /\ DesksSound(t) /\ BridgesSound(t) /\ MessagesSound(t) /\ Settled(t)
    BY DEF Inv, Sound
  <1>2. /\ old.pc \in {"renaming mark", "renaming receipt"}
        /\ ops' = [ops EXCEPT ![old.n] = old.next]
        /\ bridge' = [bridge EXCEPT ![b] = Renamed(old, b)]
        /\ UNCHANGED <<local, desk, lost, wire, draft>>
    BY DEF Rename, Renamed
  <1>3. old.n \in DOMAIN ops
    BY <1>2, AtWork
  <1>4. /\ old.next \in Operations /\ old.next.accepted = ops[old.n].accepted
        /\ OpSound(old.next, old.next.accepted, t[old.n], draft)
        /\ ~Fresh(old.next) /\ old.next.checkpoint = "none"
        /\ old.pc = "renaming mark" => old.next.stage = None
    BY RenamedRecord
  <1>5. /\ DOMAIN ops' = DOMAIN ops /\ ops'[old.n] = old.next /\ ops' \in Seq(Operations)
        /\ \A n \in DOMAIN ops : n # old.n => ops'[n] = ops[n]
    <2> HIDE DEF old
    <2>1. ops \in Seq(Operations)
      BY <1>1 DEF TypeOK
    <2>2. QED
      BY <1>2, <1>3, <1>4, <2>1, SequenceUpdated
  <1>6. old.n \notin Untouched'
    BY <1>4, <1>5 DEF Untouched
  <1>7. PICK row \in Rows :
           /\ row = Renamed(old, b)
           /\ RowSound(row, b, t, ops', Untouched', draft)
           /\ row.pc \notin Stagers
           /\ \A n : WritesAt(row, n, draft.rev) => WritesAt(old, n, draft.rev)
    BY <1>5, <1>6, RenamedRow
  <1>8. /\ bridge' \in [Bridges -> Rows] /\ bridge'[b] = row
        /\ \A c \in Bridges \ {b} : bridge'[c] = bridge[c]
    BY <1>1, <1>2, <1>7 DEF TypeOK
  <1>9. TypeOK'
    BY <1>1, <1>2, <1>5, <1>8 DEF TypeOK
  <1>10. AppliedIsDraft'
    BY <1>1, <1>2, <1>4, <1>5 DEF AppliedIsDraft, AppliedSound
  <1>11. OpsSound(t)'
    BY <1>1, <1>2, <1>4, <1>5 DEF OpsSound
  <1>12. Keeps(ops, ops', Untouched, Untouched') /\ Advances(draft, draft')
    <2>1. \A n \in DOMAIN ops : /\ ops'[n].accepted = ops[n].accepted
                                /\ n \in Untouched' => n \in Untouched
      BY <1>2, <1>4, <1>5 DEF Untouched
    <2>2. QED
      BY <1>1, <1>2, <1>5, <2>1, DraftStays DEF Keeps
  <1>13. DesksSound(t)'
    <2>1. \A w \in Desks : desk[w] # None =>
             desk[w] \in DeskRows /\ DeskSound(desk[w], t, ops, Untouched, draft)
      BY <1>1 DEF DesksSound, TypeOK
    <2>2. \A w \in Desks : desk[w] # None => DeskSound(desk[w], t, ops', Untouched', draft')
      BY <1>12, <2>1, DeskKept
    <2>3. QED
      BY <1>2, <2>2 DEF DesksSound
  <1>14. BridgesSound(t)'
    <2>1. \A c \in Bridges : bridge[c] \in Rows /\ RowSound(bridge[c], c, t, ops, Untouched, draft)
      BY <1>1 DEF BridgesSound, TypeOK
    <2>2. \A c \in Bridges : RowSound(bridge[c], c, t, ops', Untouched', draft')
      BY <1>12, <2>1, RowKept
    <2>3. QED
      BY <1>2, <1>7, <1>8, <2>2 DEF BridgesSound
  <1>15. MessagesSound(t)'
    <2>1. \A m \in wire : m \in Messages /\ MessageSound(m, t, ops, Untouched, draft)
      BY <1>1 DEF MessagesSound, TypeOK
    <2>2. \A m \in wire : MessageSound(m, t, ops', Untouched', draft')
      BY <1>12, <2>1, MessageKept
    <2>3. QED
      BY <1>2, <2>2 DEF MessagesSound
  <1>16. Settled(t)'
    <2> SUFFICES ASSUME NEW n \in DOMAIN ops \ lost, Receipted(n)', WritesNow(n)'
                 PROVE  Holds(ops[n].accepted, t[n], draft)
      BY <1>2, <1>5, <1>12 DEF Settled, Keeps
    <2>1. Receipted(n)
      <3>1. CASE \E c \in Bridges : bridge'[c].pc \in Stagers /\ bridge'[c].n = n
        BY <1>7, <1>8, <3>1 DEF Receipted
      <3>2. CASE ops'[n].stage # None
        <4>1. CASE n # old.n \/ old.pc = "renaming mark"
          BY <1>4, <1>5, <3>2, <4>1 DEF Receipted
        <4>2. CASE n = old.n /\ old.pc = "renaming receipt"
          BY <4>2 DEF Receipted, Stagers
        <4>3. QED
          BY <1>2, <4>1, <4>2
      <3>3. QED
        BY <3>1, <3>2 DEF Receipted
    <2>2. WritesNow(n)
      BY <1>2, <1>7, <1>8 DEF WritesNow
    <2>3. QED
      BY <1>1, <2>1, <2>2 DEF Settled
  <1>17. QED
    BY <1>9, <1>10, <1>11, <1>13, <1>14, <1>15, <1>16 DEF Inv, Sound

\* The part of the plan that is sent next.
LEMMA PartOfPlan ==
    ASSUME NEW b \in Bridges, bridge[b].left # {}
    PROVE  NextPart(b) \subseteq bridge[b].left
  BY DEF NextPart

\* A write is sent: it says what the Bridge says.
LEMMA SendKeeps ==
    ASSUME NEW t, Inv(t), NEW b \in Bridges, Send(b)
    PROVE  Inv(t)'
  <1> DEFINE old == bridge[b]
             row == [old EXCEPT !.pc = "waiting"]
  <1>1. TypeOK /\ AppliedIsDraft /\ OpsSound(t) /\ DesksSound(t) /\ BridgesSound(t) /\ MessagesSound(t) /\ Settled(t)
    BY DEF Inv, Sound
  <1>2. /\ old.pc = "writing" /\ old.left # {} /\ wire' = wire \cup {Write(b)}
        /\ UNCHANGED <<local, ops, desk, lost, draft>> /\ Untouched' = Untouched
    BY FilesStay DEF Send
  <1>3. /\ old \in Rows /\ old.n \in DOMAIN ops
        /\ ReaderSound(old, ops[old.n].accepted, t[old.n], old.n \in Untouched, draft)
        /\ WriterSound(old, b, ops[old.n].accepted, t[old.n], draft)
    BY <1>2, AtWork
  <1>4. /\ old.plan \in Plans /\ GoodPlan(old.plan, ops[old.n].accepted, t[old.n])
        /\ old.left \subseteq DOMAIN old.plan /\ old.rev <= draft.rev
        /\ old.rev = draft.rev =>
              \A d \in old.left : Merges(old.plan, d, ops[old.n].accepted, t[old.n], draft)
        /\ old.n \notin Untouched
    BY <1>2, <1>3 DEF WriterSound, ReaderSound, Writers
  <1>5. bridge' = [bridge EXCEPT ![b] = row]
    BY <1>1 DEF Send, TypeOK
  <1>6. /\ row \in Rows /\ row.pc = "waiting" /\ row.n = old.n /\ row.seen = old.seen
        /\ row.plan = old.plan /\ row.left = old.left /\ row.rev = old.rev
    BY <1>3 DEF Rows, Writers
  <1> HIDE DEF row
  <1>7. /\ bridge' \in [Bridges -> Rows] /\ bridge'[b] = row
        /\ \A c \in Bridges \ {b} : bridge'[c] = bridge[c]
    BY <1>1, <1>5, <1>6 DEF TypeOK
  <1>8. /\ row.pc \in Writers /\ row.pc \notin Stagers /\ old.pc \in Writers
        /\ row.pc \notin {"marking", "renaming mark", "recovering", "reading"}
    BY <1>2, <1>6 DEF Writers, Stagers
  <1>9. RowSound(row, b, t, ops, Untouched, draft)
    <2>1. ReaderSound(row, ops[row.n].accepted, t[row.n], row.n \in Untouched, draft)
      BY <1>3, <1>4, <1>6, <1>8 DEF ReaderSound
    <2>2. WriterSound(row, b, ops[row.n].accepted, t[row.n], draft)
      BY <1>3, <1>6, <1>8 DEF WriterSound
    <2>3. StagerSound(row, ops[row.n].accepted, t[row.n], draft)
      BY <1>8 DEF StagerSound
    <2>4. QED
      BY <1>3, <1>6, <2>1, <2>2, <2>3 DEF RowSound
  <1>10. /\ Write(b) \in Messages /\ Write(b).n = old.n /\ Write(b).rev = old.rev
         /\ MessageSound(Write(b), t, ops, Untouched, draft)
    <2> DEFINE records == [d \in NextPart(b) |-> old.plan[d]]
    <2>1. NextPart(b) \subseteq DOMAIN old.plan /\ NextPart(b) \subseteq old.left
      BY <1>2, <1>4, PartOfPlan
    <2>2. records \in Plans /\ DOMAIN records = NextPart(b)
      <3>1. /\ NextPart(b) \in SUBSET Datasets
            /\ \A d \in NextPart(b) : old.plan[d] \subseteq Records
        BY <1>4, <2>1, PlanType
      <3>2. QED
        BY <3>1, IsPlan
    <2>3. \A d \in DOMAIN records : records[d] = old.plan[d]
      OBVIOUS
    <2>4. Write(b) = [by |-> b, n |-> old.n, rev |-> old.rev, retry |-> old.seen.request.retry,
                         records |-> records]
      BY DEF Write
    <2> HIDE DEF records
    <2>5. old.seen.request.retry \in BOOLEAN /\ old.seen.request.retry = t[old.n]
      BY <1>3 DEF ReaderSound, Operations, Requests
    <2>6. /\ Write(b) \in Messages /\ Write(b).n = old.n /\ Write(b).rev = old.rev
          /\ Write(b).records = records /\ Write(b).retry = t[old.n]
      BY <1>3, <2>2, <2>4, <2>5 DEF Messages, Rows
    <2>7. MessageSound(Write(b), t, ops, Untouched, draft)
      BY <1>3, <1>4, <2>1, <2>2, <2>3, <2>6 DEF MessageSound, Merges, GoodPlan
    <2>8. QED
      BY <2>6, <2>7
  <1>11. TypeOK'
    BY <1>1, <1>2, <1>7, <1>10 DEF TypeOK
  <1>12. AppliedIsDraft' /\ OpsSound(t)' /\ DesksSound(t)'
    BY <1>1, <1>2 DEF AppliedIsDraft, OpsSound, DesksSound
  <1>13. BridgesSound(t)'
    BY <1>1, <1>2, <1>7, <1>9 DEF BridgesSound
  <1>14. MessagesSound(t)'
    BY <1>1, <1>2, <1>10 DEF MessagesSound
  <1>15. Settled(t)'
    <2> SUFFICES ASSUME NEW n \in DOMAIN ops \ lost, Receipted(n)', WritesNow(n)'
                 PROVE  Holds(ops[n].accepted, t[n], draft)
      BY <1>2 DEF Settled
    <2>1. Receipted(n)
      BY <1>2, <1>7, <1>8 DEF Receipted
    <2>2. WritesAt(bridge'[b], n, draft.rev) => WritesAt(old, n, draft.rev)
      BY <1>6, <1>7, <1>8 DEF WritesAt
    <2>3. \A m \in wire' : m.n = n /\ m.rev = draft.rev => m \in wire \/ WritesAt(old, n, draft.rev)
      BY <1>2, <1>8, <1>10 DEF WritesAt
    <2>4. WritesNow(n)
      BY <1>2, <1>7, <2>2, <2>3 DEF WritesNow
    <2>5. QED
      BY <1>1, <2>1, <2>4 DEF Settled
  <1>16. QED
    BY <1>11, <1>12, <1>13, <1>14, <1>15 DEF Inv, Sound

-----------------------------------------------------------------------------
(* The server. *)

\* Nothing is applied while the draft is not.
LEMMA NothingApplied ==
    ASSUME NEW t, Inv(t), draft.status # "applied"
    PROVE  /\ \A n \in DOMAIN ops : ops[n].checkpoint # "applied"
           /\ \A w \in Desks : desk[w] # None => desk[w].next.checkpoint # "applied"
  BY DEF Inv, AppliedIsDraft, AppliedSound

\* All that concerns one Bridge or one message survives an advance of the draft.
LEMMA AdvanceKeeps ==
    ASSUME NEW t, Inv(t), Advances(draft, draft'), UNCHANGED files
    PROVE  /\ OpsSound(t)' /\ DesksSound(t)'
           /\ \A b \in Bridges : RowSound(bridge[b], b, t, ops', Untouched', draft')
           /\ \A m \in wire : MessageSound(m, t, ops', Untouched', draft')
  <1>1. /\ TypeOK /\ OpsSound(t) /\ DesksSound(t) /\ BridgesSound(t) /\ MessagesSound(t)
        /\ UNCHANGED <<local, ops, desk, lost>> /\ Untouched' = Untouched
    BY FilesStay DEF Inv, Sound
  <1>2. Keeps(ops, ops', Untouched, Untouched')
    BY <1>1 DEF Keeps
  <1>3. \A n \in DOMAIN ops : ops[n] \in Operations
    BY <1>1, OpsType
  <1>4. \A n \in DOMAIN ops : OpSound(ops[n], ops[n].accepted, t[n], draft')
    BY <1>1, <1>3, OpKept DEF OpsSound
  <1>5. \A b \in Bridges : bridge[b] \in Rows /\ RowSound(bridge[b], b, t, ops, Untouched, draft)
    BY <1>1 DEF TypeOK, BridgesSound
  <1>6. \A b \in Bridges : RowSound(bridge[b], b, t, ops', Untouched', draft')
    BY <1>2, <1>5, RowKept
  <1>7. \A m \in wire : m \in Messages /\ MessageSound(m, t, ops, Untouched, draft)
    BY <1>1 DEF TypeOK, MessagesSound
  <1>8. \A m \in wire : MessageSound(m, t, ops', Untouched', draft')
    BY <1>2, <1>7, MessageKept
  <1>9. \A w \in Desks : desk[w] # None =>
           desk[w] \in DeskRows /\ DeskSound(desk[w], t, ops, Untouched, draft)
    BY <1>1 DEF TypeOK, DesksSound
  <1>10. \A w \in Desks : desk[w] # None => DeskSound(desk[w], t, ops', Untouched', draft')
    BY <1>2, <1>9, DeskKept
  <1>11. QED
    BY <1>1, <1>4, <1>6, <1>8, <1>10 DEF OpsSound, DesksSound

\* When the draft has moved on, whoever has not moved with it writes no more.
LEMMA LeftBehind ==
    ASSUME NEW t, Inv(t), draft'.rev = draft.rev + 1
    PROVE  /\ \A b \in Bridges, n \in DOMAIN ops : ~WritesAt(bridge[b], n, draft'.rev)
           /\ \A m \in wire : m.rev # draft'.rev
  <1>1. TypeOK /\ draft.rev \in Nat /\ BridgesSound(t) /\ MessagesSound(t)
    BY DraftType DEF Inv, Sound
  <1>2. ASSUME NEW b \in Bridges, bridge[b].pc \in Writers
        PROVE  bridge[b].rev \in Nat /\ bridge[b].rev <= draft.rev
    <2>1. bridge[b].pc # "idle"
      BY <1>2 DEF Writers
    <2>2. QED
      BY <1>2, <2>1, AtWork DEF WriterSound, Rows
  <1>3. ASSUME NEW b \in Bridges, bridge[b].pc = "reading"
        PROVE  /\ bridge[b].seen.request.start \in Nat
               /\ bridge[b].seen.request.start <= draft.rev
    <2>1. /\ bridge[b].seen \in Operations /\ bridge[b].seen.request # None
          /\ bridge[b].seen.request.start <= draft.rev
      BY <1>3, AtWork DEF ReaderSound, OpSound
    <2>2. bridge[b].seen.request \in Requests
      BY <2>1 DEF Operations
    <2>3. QED
      BY <2>1, <2>2 DEF Requests
  <1>4. \A m \in wire : m.rev \in Nat /\ m.rev <= draft.rev
    BY <1>1 DEF TypeOK, Messages, MessagesSound, MessageSound
  <1>5. \A b \in Bridges, n \in DOMAIN ops : ~WritesAt(bridge[b], n, draft'.rev)
    BY <1>1, <1>2, <1>3 DEF WritesAt
  <1>6. QED
    BY <1>1, <1>4, <1>5

\* The draft with other statuses, reviews or content.
LEMMA ServerTypes ==
    ASSUME TypeOK, Elsewhere \/ Validate \/ Apply
    PROVE  TypeOK' /\ Advances(draft, draft')
  <1>1. /\ draft.rev \in Nat /\ draft.rev + 1 \in Nat /\ draft.content \in Contents
        /\ draft \in [rev : Nat, status : Statuses, review : Reviews \cup {None}, content : Contents]
        /\ UNCHANGED <<local, ops, desk, bridge, wire>>
    BY DraftType, FilesStay DEF TypeOK, Elsewhere, Validate, Apply
  <1>2. CASE Elsewhere
    <2> DEFINE rev == draft.rev + 1
    <2>1. PICK f \in Foreign :
             draft' = [draft EXCEPT !.rev = rev, !.status = "active", !.content[f[1]] = f[2]]
      BY <1>2 DEF Elsewhere
    <2> DEFINE content == [draft.content EXCEPT ![f[1]] = f[2]]
    <2>2. content \in Contents
      <3>1. f[2] \subseteq Records
        BY DEF Records
      <3>2. QED
        BY <1>1, <3>1 DEF Contents
    <2>3. draft' = [draft EXCEPT !.rev = rev, !.status = "active", !.content = content]
      BY <1>1, <2>1
    <2>4. rev \in Nat /\ draft.rev <= rev /\ rev # draft.rev
      BY <1>1
    <2> HIDE DEF rev, content
    <2>5. /\ draft' \in [rev : Nat, status : Statuses, review : Reviews \cup {None}, content : Contents]
          /\ draft'.rev = rev
      BY <1>1, <2>2, <2>3, <2>4 DEF Statuses
    <2>6. QED
      BY <1>1, <2>4, <2>5 DEF TypeOK, Advances
  <1>3. CASE Validate
    <2>1. PICK valid \in BOOLEAN :
             draft' = [draft EXCEPT !.status = IF valid THEN "validated" ELSE "active",
                                    !.review = [rev |-> draft.rev, valid |-> valid]]
      BY <1>3 DEF Validate
    <2> DEFINE status == IF valid THEN "validated" ELSE "active"
               review == [rev |-> draft.rev, valid |-> valid]
    <2>2. status \in Statuses /\ review \in Reviews
      BY <1>1 DEF Statuses, Reviews
    <2>3. draft' = [draft EXCEPT !.status = status, !.review = review]
      BY <2>1
    <2> HIDE DEF status, review
    <2>4. /\ draft' \in [rev : Nat, status : Statuses, review : Reviews \cup {None}, content : Contents]
          /\ draft'.rev = draft.rev /\ draft'.content = draft.content
      BY <1>1, <2>2, <2>3
    <2>5. QED
      BY <1>1, <2>4 DEF TypeOK, Advances
  <1>4. CASE Apply
    <2>1. /\ draft' \in [rev : Nat, status : Statuses, review : Reviews \cup {None}, content : Contents]
          /\ draft'.rev = draft.rev /\ draft'.content = draft.content
      BY <1>1, <1>4 DEF Apply, Statuses
    <2>2. QED
      BY <1>1, <2>1 DEF TypeOK, Advances
  <1>5. QED
    BY <1>2, <1>3, <1>4

\* Other sessions and reviewers do not make a record or a receipt untrue.
LEMMA ServerKeeps ==
    ASSUME NEW t, Inv(t), Elsewhere \/ Validate \/ Apply
    PROVE  Inv(t)'
  <1>1. TypeOK /\ TypeOK' /\ Advances(draft, draft') /\ Settled(t) /\ draft.rev \in Nat
    BY ServerTypes, DraftType DEF Inv, Sound
  <1>2. /\ UNCHANGED <<files, local, ops, desk, lost, bridge, wire>> /\ Untouched' = Untouched
        /\ draft.status # "applied"
    BY FilesStay DEF Elsewhere, Validate, Apply
  <1>3. AppliedIsDraft'
    BY <1>2, NothingApplied DEF AppliedIsDraft, AppliedSound
  <1>4. OpsSound(t)' /\ DesksSound(t)' /\ BridgesSound(t)' /\ MessagesSound(t)'
    BY <1>1, <1>2, AdvanceKeeps DEF BridgesSound, MessagesSound
  <1>5. Settled(t)'
    <2>1. CASE draft'.rev = draft.rev + 1
      <3>1. \A n \in DOMAIN ops : ~WritesNow(n)'
        BY <1>2, <2>1, LeftBehind DEF WritesNow
      <3>2. QED
        BY <1>2, <3>1 DEF Settled
    <2>2. CASE draft'.rev = draft.rev
      <3>1. draft'.content = draft.content
        BY <1>1, <2>2 DEF Advances
      <3>2. QED
        BY <1>1, <1>2, <2>2, <3>1 DEF Settled, Receipted, WritesNow, Holds
    <2>3. draft'.rev \in {draft.rev, draft.rev + 1}
      <3>1. CASE Elsewhere
        BY <1>1, <3>1 DEF Elsewhere, TypeOK
      <3>2. CASE Validate \/ Apply
        BY <1>1, <3>2 DEF Validate, Apply, TypeOK
      <3>3. QED
        BY <3>1, <3>2
    <2>4. QED
      BY <2>1, <2>2, <2>3
  <1>6. QED
    BY <1>1, <1>3, <1>4, <1>5 DEF Inv, Sound

\* A write that is refused, or whose sender waits no more, changes no draft.
LEMMA RefuseKeeps ==
    ASSUME NEW t, Inv(t), NEW m \in wire, wire' = wire \ {m},
           bridge' = [bridge EXCEPT ![m.by] = IF Waits(m) THEN Resting ELSE @],
           UNCHANGED <<files, draft>>
    PROVE  Inv(t)'
  <1>1. TypeOK /\ AppliedIsDraft /\ OpsSound(t) /\ DesksSound(t) /\ BridgesSound(t) /\ MessagesSound(t) /\ Settled(t)
    BY DEF Inv, Sound
  <1>2. m.by \in Bridges /\ UNCHANGED <<local, ops, desk, lost>> /\ Untouched' = Untouched
    BY <1>1, FilesStay DEF TypeOK, Messages
  <1>3. /\ \A c \in Bridges : bridge'[c] = bridge[c] \/ bridge'[c] = Resting
        /\ bridge' \in [Bridges -> Rows]
    <2>1. Resting \in Rows
      BY RestingRow
    <2>2. QED
      BY <1>1, <1>2, <2>1 DEF TypeOK
  <1>4. TypeOK' /\ AppliedIsDraft' /\ OpsSound(t)' /\ DesksSound(t)' /\ MessagesSound(t)'
    BY <1>1, <1>2, <1>3 DEF TypeOK, AppliedIsDraft, OpsSound, DesksSound, MessagesSound
  <1>5. BridgesSound(t)'
    BY <1>1, <1>2, <1>3, RestingRow DEF BridgesSound
  <1>6. Settled(t)'
    <2>1. \A n \in DOMAIN ops : Receipted(n)' => Receipted(n)
      <3>1. Resting.pc \notin Stagers
        BY RestingRow DEF Stagers
      <3>2. QED
        BY <1>2, <1>3, <3>1 DEF Receipted
    <2>2. \A n \in DOMAIN ops : WritesNow(n)' => WritesNow(n)
      BY <1>3, RestingRow DEF WritesNow
    <2>3. QED
      BY <1>1, <1>2, <2>1, <2>2 DEF Settled
  <1>7. QED
    BY <1>4, <1>5, <1>6 DEF Inv, Sound

\* What a write leaves of the draft and what it replaces.
LEMMA ReplacedContent ==
    ASSUME TypeOK, NEW records \in Plans
    PROVE  /\ Replaced(records) \in Contents
           /\ \A d \in DOMAIN records : Replaced(records)[d] = records[d]
           /\ \A d \in Datasets \ DOMAIN records : Replaced(records)[d] = draft.content[d]
  <1>1. /\ DOMAIN records \subseteq Datasets
        /\ \A d \in DOMAIN records : records[d] \subseteq Records
    BY PlanType
  <1>2. \A d \in Datasets : draft.content[d] \subseteq Records
    BY DraftType DEF Contents
  <1>3. QED
    BY <1>1, <1>2 DEF Replaced, Contents

\* The Bridge that waits for the answer of its write: what it wrote is in the
\* draft, what is left still adds to it.
LEMMA AnsweredRow ==
    ASSUME NEW t, Inv(t), NEW m \in wire, Waits(m), draft.rev = m.rev,
           NEW dr, Advances(draft, dr), dr.rev = draft.rev + 1,
           dr.content = Replaced(m.records)
    PROVE  \E row \in Rows :
              /\ row = Answered(bridge[m.by], m)
              /\ row.pc = "writing" /\ row.n = m.n
              /\ RowSound(row, m.by, t, ops, Untouched, dr)
  <1> DEFINE old == bridge[m.by]
             rev == old.rev + 1
             left == old.left \ DOMAIN m.records
             row == [old EXCEPT !.pc = "writing", !.rev = rev, !.left = left]
  <1>1. /\ TypeOK /\ m \in Messages /\ m.by \in Bridges /\ m.records \in Plans
        /\ draft.rev \in Nat
    BY DraftType DEF Inv, TypeOK, Messages
  <1>2. /\ old.pc = "waiting" /\ old.n = m.n /\ old.rev = m.rev
        /\ m.records = [d \in NextPart(m.by) |-> old.plan[d]]
    BY DEF Waits, Write
  <1>3. /\ old \in Rows /\ old.n \in DOMAIN ops
        /\ ReaderSound(old, ops[old.n].accepted, t[old.n], old.n \in Untouched, draft)
        /\ WriterSound(old, m.by, ops[old.n].accepted, t[old.n], draft)
    BY <1>1, <1>2, AtWork
  <1>4. /\ old.plan \in Plans /\ GoodPlan(old.plan, ops[old.n].accepted, t[old.n])
        /\ old.left \subseteq DOMAIN old.plan /\ DOMAIN old.plan \subseteq Datasets
        /\ \A d \in DOMAIN old.plan :
              IF d \in old.left THEN Merges(old.plan, d, ops[old.n].accepted, t[old.n], draft)
                                ELSE draft.content[d] = old.plan[d]
        /\ old.n \notin Untouched
    BY <1>2, <1>3, PlanType DEF WriterSound, ReaderSound, Writers
  <1>5. rev \in Nat /\ rev = dr.rev /\ left \subseteq Datasets /\ left \subseteq DOMAIN old.plan
    BY <1>1, <1>2, <1>4
  <1> HIDE DEF rev, left
  <1>6. /\ row \in Rows /\ row.pc = "writing" /\ row.n = old.n /\ row.seen = old.seen
        /\ row.plan = old.plan /\ row.left = left /\ row.rev = rev
    BY <1>3, <1>5 DEF Rows, Writers
  <1> HIDE DEF row
  <1>7. /\ row.pc \in Writers /\ row.pc \notin Stagers /\ dr.rev \in Nat
        /\ row.pc \notin {"marking", "renaming mark", "recovering", "reading"}
    BY <1>5, <1>6 DEF Writers, Stagers
  <1>8. \A d \in DOMAIN old.plan :
           IF d \in left THEN Merges(old.plan, d, ops[old.n].accepted, t[old.n], dr)
                         ELSE dr.content[d] = old.plan[d]
    <2>1. /\ \A d \in DOMAIN m.records : dr.content[d] = old.plan[d]
          /\ \A d \in Datasets \ DOMAIN m.records : dr.content[d] = draft.content[d]
      BY <1>1, <1>2, ReplacedContent
    <2>2. QED
      BY <1>4, <2>1 DEF Merges, left
  <1>9. ReaderSound(row, ops[row.n].accepted, t[row.n], row.n \in Untouched, dr)
    BY <1>3, <1>4, <1>6, <1>7, OpKept DEF ReaderSound
  <1>10. WriterSound(row, m.by, ops[row.n].accepted, t[row.n], dr)
    BY <1>4, <1>5, <1>6, <1>7, <1>8 DEF WriterSound
  <1>11. RowSound(row, m.by, t, ops, Untouched, dr)
    BY <1>3, <1>6, <1>7, <1>9, <1>10 DEF RowSound, StagerSound
  <1>12. row = Answered(bridge[m.by], m)
    BY DEF row, rev, left, Answered
  <1>13. QED
    BY <1>2, <1>6, <1>11, <1>12

\* A write that would change what is receipted is not at the draft's revision.
LEMMA WriteOfReceipted ==
    ASSUME NEW t, Inv(t), NEW m \in wire, draft.rev = m.rev, Receipted(m.n), m.n \notin lost
    PROVE  Replaced(m.records) = draft.content
  <1>1. TypeOK /\ m.records \in Plans /\ MessageSound(m, t, ops, Untouched, draft) /\ Settled(t)
    BY DEF Inv, Sound, TypeOK, Messages, MessagesSound
  <1>2. Holds(ops[m.n].accepted, t[m.n], draft)
    BY <1>1 DEF Settled, WritesNow, MessageSound
  <1>3. \A d \in DOMAIN m.records :
           /\ d \in DOMAIN ops[m.n].accepted
           /\ Merges(m.records, d, ops[m.n].accepted, t[m.n], draft)
    BY <1>1 DEF MessageSound
  <1>4. \A d \in DOMAIN m.records : m.records[d] = draft.content[d]
    BY <1>2, <1>3 DEF Merges, Holds
  <1>5. QED
    BY <1>4, DraftType, <1>1 DEF Replaced

\* A write is taken: the draft moves on, and of all that writes for the
\* operation only the Bridge that waited for the answer moves with it.
LEMMA TakeKeeps ==
    ASSUME NEW t, Inv(t), NEW m \in wire, Takes(m), wire' = wire \ {m},
           draft' = [draft EXCEPT !.rev = @ + 1, !.status = "active",
                                  !.content = Replaced(m.records)],
           bridge' = [bridge EXCEPT ![m.by] =
                         IF Waits(m) THEN Answered(@, m) ELSE @],
           UNCHANGED files
    PROVE  Inv(t)'
  <1>1. TypeOK /\ Settled(t) /\ m \in Messages /\ m.by \in Bridges /\ m.records \in Plans
    BY DEF Inv, Sound, TypeOK, Messages
  <1>2. /\ draft.rev = m.rev /\ draft.status # "applied"
        /\ MessageSound(m, t, ops, Untouched, draft)
        /\ UNCHANGED <<local, ops, desk, lost>> /\ Untouched' = Untouched
    BY FilesStay DEF Takes, Inv, Sound, MessagesSound
  <1>3. /\ draft' \in [rev : Nat, status : Statuses, review : Reviews \cup {None}, content : Contents]
        /\ draft'.rev = draft.rev + 1 /\ draft'.content = Replaced(m.records)
        /\ Advances(draft, draft')
    <2> DEFINE rev == draft.rev + 1
               content == Replaced(m.records)
    <2>1. rev \in Nat /\ draft.rev \in Nat /\ draft.rev <= rev /\ rev # draft.rev
      BY <1>1, DraftType
    <2>2. content \in Contents
      BY <1>1, ReplacedContent
    <2>3. draft' = [draft EXCEPT !.rev = rev, !.status = "active", !.content = content]
      OBVIOUS
    <2> HIDE DEF rev, content
    <2>4. /\ draft' \in [rev : Nat, status : Statuses, review : Reviews \cup {None}, content : Contents]
          /\ draft'.rev = rev /\ draft'.content = content
      BY <1>1, <2>1, <2>2, <2>3 DEF TypeOK, Statuses
    <2>5. Advances(draft, draft')
      BY <2>1, <2>4 DEF Advances
    <2>6. QED
      BY <2>4, <2>5 DEF rev, content
  <1>4. PICK row \in Rows :
           /\ bridge' = [bridge EXCEPT ![m.by] = row]
           /\ RowSound(row, m.by, t, ops, Untouched, draft')
           /\ IF Waits(m) THEN row.pc = "writing" /\ row.n = m.n ELSE row = bridge[m.by]
    <2>1. CASE Waits(m)
      <3>1. PICK row \in Rows : /\ row = Answered(bridge[m.by], m)
                                /\ row.pc = "writing" /\ row.n = m.n
                                /\ RowSound(row, m.by, t, ops, Untouched, draft')
        BY <1>2, <1>3, <2>1, AnsweredRow
      <3>2. bridge' = [bridge EXCEPT ![m.by] = row]
        BY <2>1, <3>1
      <3>3. QED
        BY <2>1, <3>1, <3>2
    <2>2. CASE ~Waits(m)
      <3>1. bridge[m.by] \in Rows /\ bridge' = [bridge EXCEPT ![m.by] = bridge[m.by]]
        BY <1>1, <2>2 DEF TypeOK
      <3>2. RowSound(bridge[m.by], m.by, t, ops, Untouched, draft')
        BY <1>1, <1>2, <1>3, AdvanceKeeps
      <3>3. QED
        BY <2>2, <3>1, <3>2
    <2>3. QED
      BY <2>1, <2>2
  <1>5. /\ bridge' \in [Bridges -> Rows] /\ bridge'[m.by] = row
        /\ \A c \in Bridges \ {m.by} : bridge'[c] = bridge[c]
    BY <1>1, <1>4 DEF TypeOK
  <1>6. TypeOK'
    BY <1>1, <1>2, <1>3, <1>5 DEF TypeOK
  <1>7. AppliedIsDraft'
    BY <1>2, NothingApplied DEF AppliedIsDraft, AppliedSound
  <1>8. OpsSound(t)' /\ DesksSound(t)' /\ BridgesSound(t)' /\ MessagesSound(t)'
    BY <1>2, <1>3, <1>4, <1>5, AdvanceKeeps DEF BridgesSound, MessagesSound
  <1>9. Settled(t)'
    <2> SUFFICES ASSUME NEW n \in DOMAIN ops \ lost, Receipted(n)', WritesNow(n)'
                 PROVE  Holds(ops[n].accepted, t[n], draft')
      BY <1>2 DEF Settled
    <2>1. /\ \A b \in Bridges : ~WritesAt(bridge[b], n, draft'.rev)
          /\ \A w \in wire : w.rev # draft'.rev
      BY <1>3, LeftBehind
    <2>2. Waits(m) /\ n = m.n /\ row.pc = "writing"
      BY <1>1, <1>4, <1>5, <2>1 DEF WritesNow, WritesAt
    <2>3. row.pc \notin Stagers
      BY <2>2 DEF Stagers
    <2>4. Receipted(n)
      BY <1>2, <1>5, <2>3 DEF Receipted
    <2>5. Holds(ops[n].accepted, t[n], draft)
      BY <1>1, <1>2, <2>2, <2>4 DEF Settled, WritesNow
    <2>6. draft'.content = draft.content
      BY <1>2, <1>3, <2>2, <2>4, WriteOfReceipted
    <2>7. QED
      BY <2>5, <2>6 DEF Holds
  <1>10. QED
    BY <1>6, <1>7, <1>8, <1>9 DEF Inv, Sound

\* A write is served.
LEMMA ServeKeeps ==
    ASSUME NEW t, Inv(t), NEW m \in wire, Serve(m)
    PROVE  Inv(t)'
  BY TakeKeeps, RefuseKeeps DEF Serve

-----------------------------------------------------------------------------
(* The invariant. *)

\* Nothing is accepted and no Bridge works.
LEMMA InitKeeps ==
    ASSUME NEW t, Init
    PROVE  Inv(t)
  <1>1. /\ ops = <<>> /\ DOMAIN ops = {} /\ ops \in Seq(Operations)
        /\ wire = {} /\ bridge = [b \in Bridges |-> Resting] /\ local \in Works
        /\ desk = [w \in Desks |-> None]
    BY DEF Init
  <1>2. draft \in [rev : Nat, status : Statuses, review : Reviews \cup {None}, content : Contents]
    <2> DEFINE content == [d \in Datasets |-> {}]
    <2>1. content \in Contents
      BY DEF Contents
    <2>2. draft = [rev |-> 1, status |-> "active", review |-> None, content |-> content]
      BY DEF Init
    <2> HIDE DEF content
    <2>3. QED
      BY <2>1, <2>2 DEF Statuses
  <1>3. TypeOK
    BY <1>1, <1>2, RestingRow DEF TypeOK
  <1>4. AppliedIsDraft /\ OpsSound(t) /\ DesksSound(t) /\ Settled(t)
    BY <1>1 DEF AppliedIsDraft, OpsSound, DesksSound, Settled
  <1>5. BridgesSound(t) /\ MessagesSound(t)
    BY <1>1, RestingRow DEF BridgesSound, MessagesSound
  <1>6. QED
    BY <1>3, <1>4, <1>5 DEF Inv, Sound

\* No step makes it untrue.
LEMMA NextKeeps ==
    ASSUME NEW t \in [Nat -> BOOLEAN], Inv(t), [Next]_vars
    PROVE  \E u \in [Nat -> BOOLEAN] : Inv(u)'
  <1>1. ASSUME NEW w \in Desks, Replace(w)
        PROVE  \E u \in [Nat -> BOOLEAN] : Inv(u)'
    BY <1>1, ReplaceKeeps, AppendKeeps
  <1>2. ASSUME NEW w \in Desks,
               \/ Accept(w) \/ CacheDraft(w) \/ Prepare(w)
               \/ RecordReview(w) \/ Approve(w) \/ RecordApply(w) \/ Abandon(w)
        PROVE  Inv(t)'
    BY <1>2, AcceptKeeps, CacheDraftKeeps, PrepareKeeps, ResultKeeps, AbandonKeeps
  <1>3. ASSUME NEW b \in Bridges, NEW recovery \in BOOLEAN, Begin(b, recovery)
        PROVE  Inv(t)'
    BY <1>3, BeginKeeps
  <1>4. ASSUME NEW b \in Bridges,
               \/ Fetch(b) \/ Check(b) \/ Rename(b) \/ Send(b)
               \/ Fingerprint(b) \/ Prove(b) \/ GiveUp(b)
        PROVE  Inv(t)'
    BY <1>4, FetchKeeps, CheckKeeps, RenameKeeps, SendKeeps, ReceiptKeeps, GiveUpKeeps
  <1>5. ASSUME NEW m \in wire, Serve(m)
        PROVE  Inv(t)'
    BY <1>5, ServeKeeps
  <1>6. CASE Edit \/ Elsewhere \/ Validate \/ Apply
    <2>1. Inv(t)'
      BY <1>6, EditKeeps, ServerKeeps
    <2>2. QED
      BY <2>1
  <1>7. CASE UNCHANGED vars
    <2>1. UNCHANGED <<local, ops, desk, lost, bridge, wire, draft>> /\ Untouched' = Untouched
      BY <1>7, FilesStay DEF vars
    <2>2. TypeOK' /\ AppliedIsDraft' /\ OpsSound(t)' /\ DesksSound(t)' /\ BridgesSound(t)' /\ MessagesSound(t)'
      BY <2>1 DEF Inv, Sound, TypeOK, AppliedIsDraft, OpsSound, DesksSound, BridgesSound,
                    MessagesSound
    <2>3. Settled(t)'
      BY <2>1 DEF Inv, Sound, Settled, Receipted, WritesNow
    <2>4. Inv(t)'
      BY <2>2, <2>3 DEF Inv, Sound
    <2>5. QED
      BY <2>4
  <1>8. QED
    BY <1>1, <1>2, <1>3, <1>4, <1>5, <1>6, <1>7 DEF Next

\* The records, the Bridges and the writes on their way are sound in every
\* reachable state.
THEOREM Invariance == Spec => []IInv
  <1>1. Init => IInv
    <2> SUFFICES ASSUME Init PROVE IInv
      OBVIOUS
    <2> DEFINE t == [n \in Nat |-> FALSE]
    <2>1. t \in [Nat -> BOOLEAN] /\ Inv(t)
      BY InitKeeps
    <2> HIDE DEF t
    <2>2. QED
      BY <2>1 DEF Inv, IInv
  <1>2. IInv /\ [Next]_vars => IInv'
    <2> SUFFICES ASSUME IInv, [Next]_vars PROVE IInv'
      OBVIOUS
    <2>1. PICK t \in [Nat -> BOOLEAN] : Inv(t)
      BY DEF IInv, Inv
    <2>2. PICK u \in [Nat -> BOOLEAN] : Inv(u)'
      BY <2>1, NextKeeps
    <2>3. QED
      BY <2>2 DEF IInv, Inv
  <1>3. QED
    BY <1>1, <1>2, PTL DEF Spec

-----------------------------------------------------------------------------
(* The properties. *)

\* EvidenceIsTrue: whatever windows, sessions and late writes do, a receipt
\* tells what the draft held, and an operation recorded as applied was applied
\* as it was accepted and staged.
THEOREM EvidenceTrue == Spec => []EvidenceIsTrue
  <1>1. IInv => EvidenceIsTrue
    <2> SUFFICES ASSUME NEW t, Inv(t), NEW n \in DOMAIN ops
                 PROVE  /\ ReceiptIsTrue(ops[n])
                        /\ ops[n].checkpoint = "applied" =>
                              draft.status = "applied" /\ draft.content = ops[n].stage.print
      BY DEF IInv, Inv, EvidenceIsTrue
    <2>1. TrueReceipt(ops[n], draft)
      BY DEF Inv, Sound, OpsSound, OpSound
    <2>2. QED
      BY <2>1 DEF TrueReceipt, ReceiptIsTrue, Inv, AppliedIsDraft, AppliedSound
  <1>2. QED
    BY <1>1, Invariance, PTL

\* Only the server takes a message off the wire.
LEMMA OnlyServed ==
    ASSUME NEW t, Inv(t), Next, Served # {}
    PROVE  \E m \in wire : Serve(m) /\ Served = {m}
  <1>1. PICK m \in wire : Serve(m)
    <2>1. \A b \in Bridges : Send(b) => wire \subseteq wire'
      BY DEF Send
    <2>2. \A b \in Bridges, recovery \in BOOLEAN : Begin(b, recovery) => wire' = wire
      BY DEF Begin
    <2>3. \A b \in Bridges :
             Fetch(b) \/ Check(b) \/ Rename(b) \/ Fingerprint(b) \/ Prove(b) \/ GiveUp(b) => wire' = wire
      BY DEF Fetch, Check, Rename, Fingerprint, Prove, GiveUp
    <2>4. \A w \in Desks :
             (\/ Accept(w) \/ CacheDraft(w) \/ Prepare(w) \/ RecordReview(w) \/ Approve(w)
              \/ RecordApply(w) \/ Replace(w) \/ Abandon(w)) => wire' = wire
      BY DEF Accept, CacheDraft, Prepare, RecordReview, Approve, RecordApply, Replace, Abandon,
             Record, Compared
    <2>5. Edit \/ Elsewhere \/ Validate \/ Apply => wire' = wire
      BY DEF Edit, Elsewhere, Validate, Apply
    <2>6. QED
      BY <2>1, <2>2, <2>3, <2>4, <2>5 DEF Next, Served
  <1>2. Served = {m}
    BY <1>1 DEF Serve, Served
  <1>3. QED
    BY <1>1, <1>2

\* A write that is served: its operation is marked or has a receipt, and in the
\* latter case it changes nothing; or a mark or receipt was renamed over.
LEMMA ServedWrite ==
    ASSUME NEW t, Inv(t), NEW m \in wire, Serve(m), draft'.content # draft.content
    PROVE  /\ Takes(m) /\ draft'.content = Replaced(m.records) /\ m.retry = t[m.n]
           /\ m.n \in lost \/ (Uncertain(ops[m.n]) /\ ops[m.n].stage = None)
  <1>1. TypeOK /\ MessageSound(m, t, ops, Untouched, draft)
    BY DEF Inv, Sound, MessagesSound
  <1>2. Takes(m) /\ draft'.content = Replaced(m.records)
    BY <1>1 DEF Serve, TypeOK
  <1>3. draft.rev = m.rev
    BY <1>2 DEF Takes
  <1>4. m.n \in lost \/ ops[m.n].stage = None
    BY <1>2, <1>3, WriteOfReceipted DEF Receipted
  <1>5. m.n \in lost \/ Uncertain(ops[m.n])
    BY <1>1, <1>4 DEF MessageSound, Untouched, Fresh
  <1>6. QED
    BY <1>1, <1>2, <1>4, <1>5 DEF MessageSound

\* WritesAreMarked: a write that changes the draft, however late, is admitted
\* by the record of its operation, unless a workbench command that had read the
\* record earlier was renamed over its mark or receipt.
THEOREM WritesMarked == Spec => WritesAreMarked
  <1>1. ASSUME IInv, [Next]_vars, Served # {}, draft'.content # draft.content
        PROVE  \A m \in Served : \/ Uncertain(ops[m.n]) /\ ops[m.n].stage = None
                                 \/ m.n \in lost
    <2>1. PICK t \in [Nat -> BOOLEAN] : Inv(t)
      BY <1>1 DEF IInv, Inv
    <2>2. Next
      BY <1>1 DEF vars
    <2>3. PICK m \in wire : Serve(m) /\ Served = {m}
      BY <1>1, <2>1, <2>2, OnlyServed
    <2>4. QED
      BY <1>1, <2>1, <2>3, ServedWrite
  <1>2. IInv /\ [Next]_vars =>
           [Served # {} /\ draft'.content # draft.content =>
              \A m \in Served : \/ Uncertain(ops[m.n]) /\ ops[m.n].stage = None
                                \/ m.n \in lost]_vars
    BY <1>1
  <1>3. QED
    BY <1>2, Invariance, PTL DEF Spec, WritesAreMarked

\* NothingOverwritten: unless it is the retry of a failed draft, a Stage takes
\* nothing from the draft that another session has put there.
THEOREM OthersKept == Spec => NothingOverwritten
  <1>1. ASSUME IInv, [Next]_vars, Served # {}
        PROVE  \A m \in Served : m.retry
                  \/ \A d \in Datasets : draft.content[d] \subseteq draft'.content[d]
    <2>1. PICK t \in [Nat -> BOOLEAN] : Inv(t)
      BY <1>1 DEF IInv, Inv
    <2>2. Next
      BY <1>1 DEF vars, Served
    <2>3. PICK m \in wire : Serve(m) /\ Served = {m}
      BY <1>1, <2>1, <2>2, OnlyServed
    <2>4. CASE draft'.content = draft.content
      BY <2>4
    <2>5. CASE draft'.content # draft.content
      <3>1. Takes(m) /\ draft'.content = Replaced(m.records) /\ m.retry = t[m.n]
        BY <2>1, <2>3, <2>5, ServedWrite
      <3>2. /\ TypeOK /\ m.records \in Plans /\ m.rev = draft.rev
            /\ MessageSound(m, t, ops, Untouched, draft)
        BY <2>1, <3>1 DEF Inv, Sound, TypeOK, Messages, MessagesSound, Takes
      <3>3. \A d \in DOMAIN m.records :
               ~t[m.n] => draft.content[d] \subseteq m.records[d]
        BY <3>2 DEF MessageSound, Merges
      <3>4. ~t[m.n] => \A d \in Datasets : draft.content[d] \subseteq draft'.content[d]
        BY <3>1, <3>2, <3>3, ReplacedContent
      <3>5. QED
        BY <2>3, <3>1, <3>4
    <2>6. QED
      BY <2>4, <2>5
  <1>2. IInv /\ [Next]_vars =>
           [Served # {} => \A m \in Served : m.retry
              \/ \A d \in Datasets : draft.content[d] \subseteq draft'.content[d]]_vars
    BY <1>1
  <1>3. QED
    BY <1>2, Invariance, PTL DEF Spec, NothingOverwritten

=============================================================================
