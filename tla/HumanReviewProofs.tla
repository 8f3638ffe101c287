-------------------------- MODULE HumanReviewProofs --------------------------
(***************************************************************************)
(* For any dialogs, Principals and metadata, and any number of sends: what *)
(* a human command applies is what was confirmed, once, outside a Run, and *)
(* the answers are true.                                                   *)
(***************************************************************************)
EXTENDS HumanReview, TLAPS

-----------------------------------------------------------------------------
(* The inductive invariant. *)

Plans    == [revision : Nat, catalog : Catalogs \cup {None}]
Requests == [dialog : Dialogs, key : Nat, n : Nat, expected : Nat,
             plan : Plans \cup {None}, effect : BOOLEAN]
Answers  == [verdict : {"applied", "conflict", "denied"}, revision : Nat]
States   == {"closed", "open", "shown", "waiting", "unsure", "told"}
DialogRow == [st : States, expected : Nat, plan : Plans \cup {None}, key : Nat, sent : Nat,
              effect : BOOLEAN, told : Answers \cup {None}]
Tx       == [request : Requests, step : {"entered", "planned"}, plan : Plans \cup {None},
             row : {"free", "share", "exclusive"}]
Receipts == [dialog : Dialogs, key : Nat, plan : Plans \cup {None}, from : Nat, revision : Nat]

TypeOK ==
    /\ project \in [revision : Nat, catalog : Catalogs, run : {"none", "own", "other"}]
    /\ dialog \in [Dialogs -> DialogRow]
    /\ wire \subseteq Requests
    /\ tx \in {None} \cup Tx
    /\ receipts \in Seq(Receipts)

\* The plan of an edit is the revision it was opened at, and nothing more.
Planned(kind, expected, plan) ==
    kind = "edit" => plan = [revision |-> expected, catalog |-> None]

PlansConfirmed ==
    /\ \A d \in Dialogs : dialog[d].st \notin {"closed", "open"} =>
          Planned(Kind(d), dialog[d].expected, dialog[d].plan)
    /\ \A r \in wire : Planned(Kind(r.dialog), r.expected, r.plan)
    /\ tx # None => Planned(Kind(tx.request.dialog), tx.request.expected, tx.request.plan)

\* Between the plan and the end of its transaction the Project is as it was
\* confirmed: at its revision, without a Run, and the key was not used.
PlanStands ==
    (tx # None /\ tx.step = "planned") =>
        /\ tx.request.expected = project.revision /\ tx.plan = tx.request.plan
        /\ Replay(tx.request) = {}
        /\ project.run # "own"

\* Receipts follow each other by revision, up to the Project's.
ReceiptsOrdered ==
    /\ \A n \in DOMAIN receipts :
          receipts[n].from <= receipts[n].revision /\ receipts[n].revision <= project.revision
    /\ \A m, n \in DOMAIN receipts : m < n => receipts[m].revision <= receipts[n].from

\* No key has two receipts.
KeysOnce ==
    \A m, n \in DOMAIN receipts : m # n =>
        receipts[m].dialog # receipts[n].dialog \/ receipts[m].key # receipts[n].key

IInv == TypeOK /\ PlansConfirmed /\ PlanStands /\ ReceiptsOrdered /\ KeysOnce

-----------------------------------------------------------------------------
(* Types. *)

\* The plan of a command now, whatever its kind.
LEMMA PlanType ==
    ASSUME TypeOK, NEW kind
    PROVE  Plan(kind) \in Plans /\ Plan(kind).revision = project.revision
  <1>1. project.revision \in Nat /\ project.catalog \in Catalogs
    BY DEF TypeOK
  <1>2. CASE kind = "edit"
    BY <1>1, <1>2 DEF Plan, Plans
  <1>3. CASE kind # "edit"
    BY <1>1, <1>3 DEF Plan, Plans
  <1>4. QED
    BY <1>2, <1>3

\* What a dialog sends carries its confirmation as it stands.
LEMMA RequestType ==
    ASSUME TypeOK, NEW d \in Dialogs
    PROVE  /\ Request(d) \in Requests /\ Request(d).dialog = d
           /\ Request(d).expected = dialog[d].expected /\ Request(d).plan = dialog[d].plan
  <1>1. dialog[d] \in DialogRow
    BY DEF TypeOK
  <1>2. dialog[d].sent + 1 \in Nat
    BY <1>1 DEF DialogRow
  <1>3. QED
    BY <1>1, <1>2 DEF Request, Requests, DialogRow

\* The requests that the transaction serves and that have been answered.
LEMMA TxTypes ==
    ASSUME TypeOK, tx # None
    PROVE  /\ tx \in Tx /\ tx.request \in Requests /\ tx.request.dialog \in Dialogs
           /\ tx.request.key \in Nat /\ tx.request.effect \in BOOLEAN
  BY DEF TypeOK, Tx, Requests

\* An answer changes the state and the answer of the one dialog that waits.
Answered(d, answer) ==
    [dialog EXCEPT ![d] = [dialog[d] EXCEPT !.st = "told", !.told = answer]]

\* An answer reaches the dialog that waits for it with that key, or none.
LEMMA ToldRow ==
    ASSUME TypeOK, NEW r \in Requests, NEW verdict, NEW revision, Told(r, verdict, revision)
    PROVE  \/ /\ dialog[r.dialog].st = "waiting" /\ dialog[r.dialog].key = r.key
              /\ dialog' = Answered(r.dialog, [verdict |-> verdict, revision |-> revision])
           \/ UNCHANGED dialog
  <1>1. r.dialog \in Dialogs
    BY DEF Requests
  <1>2. QED
    BY <1>1 DEF Told, Answered, TypeOK

\* What a dialog asks is not changed by an answer.
LEMMA ToldKeeps ==
    ASSUME TypeOK, NEW r \in Requests, NEW verdict \in {"applied", "conflict", "denied"},
           NEW revision \in Nat, Told(r, verdict, revision)
    PROVE  /\ dialog' \in [Dialogs -> DialogRow]
           /\ \A d \in Dialogs : /\ dialog'[d].expected = dialog[d].expected
                                 /\ dialog'[d].plan = dialog[d].plan
                                 /\ dialog'[d].key = dialog[d].key
                                 /\ dialog'[d].st \notin {"closed", "open"} =>
                                       dialog[d].st \notin {"closed", "open"}
  <1> DEFINE answer == [verdict |-> verdict, revision |-> revision]
             row == [dialog[r.dialog] EXCEPT !.st = "told", !.told = answer]
  <1>1. CASE UNCHANGED dialog
    BY <1>1 DEF TypeOK
  <1>2. CASE dialog[r.dialog].st = "waiting" /\ dialog' = Answered(r.dialog, answer)
    <2>1. r.dialog \in Dialogs /\ dialog[r.dialog] \in DialogRow
      BY DEF TypeOK, Requests
    <2>2. answer \in Answers
      BY DEF Answers
    <2> HIDE DEF answer
    <2>3. /\ row \in DialogRow /\ row.expected = dialog[r.dialog].expected
          /\ row.plan = dialog[r.dialog].plan /\ row.key = dialog[r.dialog].key
      BY <2>1, <2>2 DEF DialogRow, States
    <2>4. dialog' = [dialog EXCEPT ![r.dialog] = row]
      BY <1>2 DEF Answered
    <2> HIDE DEF row
    <2>5. QED
      BY <1>2, <2>1, <2>3, <2>4 DEF TypeOK
  <1>3. QED
    BY <1>1, <1>2, ToldRow

\* The dialogs keep their types when one of them moves.
LEMMA DialogTypes ==
    ASSUME TypeOK, NEW d \in Dialogs, NEW row \in DialogRow,
           dialog' = [dialog EXCEPT ![d] = row]
    PROVE  /\ dialog' \in [Dialogs -> DialogRow] /\ dialog'[d] = row
           /\ \A e \in Dialogs \ {d} : dialog'[e] = dialog[e]
  BY DEF TypeOK

-----------------------------------------------------------------------------
(* The dialogs. *)

\* What holds for a dialog that moves.
Moved(d, row) ==
    /\ row \in DialogRow /\ dialog' = [dialog EXCEPT ![d] = row]
    /\ row.st \notin {"closed", "open"} => Planned(Kind(d), row.expected, row.plan)
    /\ row.told \in {None, dialog[d].told}

\* A dialog moves to a row of its own, with the plan it is shown or had.
LEMMA DialogMoves ==
    ASSUME IInv, NEW d \in Dialogs,
           Open(d) \/ Show(d) \/ Send(d) \/ NotConfirmed(d) \/ Again(d) \/ Close(d)
    PROVE  \E row \in DialogRow : Moved(d, row)
  <1>1. /\ TypeOK /\ dialog[d] \in DialogRow /\ project.revision \in Nat
        /\ dialog[d].st \notin {"closed", "open"} =>
              Planned(Kind(d), dialog[d].expected, dialog[d].plan)
    BY DEF IInv, TypeOK, PlansConfirmed
  <1>2. dialog[d].key + 1 \in Nat /\ dialog[d].sent + 1 \in Nat /\ 0 \in Nat /\ dialog[d].key \in Nat
    BY <1>1 DEF DialogRow
  <1>3. Closed \in DialogRow /\ Closed.told = None
    BY DEF Closed, DialogRow, States
  <1>4. CASE Open(d)
    <2> DEFINE n == dialog[d].key + 1
               row == [Closed EXCEPT !.st = "open", !.key = n, !.expected = project.revision]
    <2>1. row \in DialogRow /\ row.st = "open" /\ row.told = None
      <3>1. n \in Nat
        BY <1>2
      <3> HIDE DEF n
      <3>2. QED
        BY <1>1, <1>3, <3>1 DEF DialogRow, States
    <2>2. dialog' = [dialog EXCEPT ![d] = row]
      BY <1>4 DEF Open
    <2>3. QED
      BY <2>1, <2>2 DEF Moved
  <1>5. CASE Show(d)
    <2>1. PICK effect \in BOOLEAN :
             dialog' = [dialog EXCEPT ![d].st = "shown", ![d].plan = Plan(Kind(d)),
                                      ![d].effect = effect]
      BY <1>5 DEF Show
    <2> DEFINE row == [dialog[d] EXCEPT !.st = "shown", !.plan = Plan(Kind(d)),
                                        !.effect = effect]
    <2>2. dialog' = [dialog EXCEPT ![d] = row]
      BY <1>1, <2>1 DEF TypeOK
    <2>3. /\ row \in DialogRow /\ row.st = "shown" /\ row.plan = Plan(Kind(d))
          /\ row.expected = dialog[d].expected /\ row.told = dialog[d].told
      BY <1>1, PlanType DEF DialogRow, States
    <2>4. Planned(Kind(d), row.expected, row.plan)
      BY <1>5, <2>3 DEF Show, Planned, Plan
    <2>5. QED
      BY <2>2, <2>3, <2>4 DEF Moved
  <1>6. CASE Send(d) \/ NotConfirmed(d)
    <2> DEFINE n == dialog[d].sent + 1
    <2>1. PICK st \in {"waiting", "unsure"}, sent \in {dialog[d].sent, n} :
             dialog' = [dialog EXCEPT ![d] = [dialog[d] EXCEPT !.st = st, !.sent = sent]]
      <3>1. CASE Send(d)
        BY <1>1, <3>1 DEF Send, TypeOK
      <3>2. CASE NotConfirmed(d)
        <4>1. dialog' = [dialog EXCEPT ![d] = [dialog[d] EXCEPT !.st = "unsure"]]
          BY <1>1, <3>2 DEF NotConfirmed, TypeOK
        <4>2. [dialog[d] EXCEPT !.st = "unsure"]
                 = [dialog[d] EXCEPT !.st = "unsure", !.sent = dialog[d].sent]
          BY <1>1 DEF DialogRow
        <4>3. QED
          BY <4>1, <4>2
      <3>3. QED
        BY <1>6, <3>1, <3>2
    <2>2. n \in Nat
      BY <1>2
    <2> HIDE DEF n
    <2> DEFINE row == [dialog[d] EXCEPT !.st = st, !.sent = sent]
    <2>3. /\ row \in DialogRow /\ row.st = st /\ row.plan = dialog[d].plan
          /\ row.expected = dialog[d].expected /\ row.told = dialog[d].told
      BY <1>1, <2>2 DEF DialogRow, States
    <2>4. dialog[d].st \notin {"closed", "open"}
      BY <1>6 DEF Send, NotConfirmed
    <2>5. QED
      BY <1>1, <2>1, <2>3, <2>4 DEF Moved
  <1>7. CASE Again(d)
    <2> DEFINE n == dialog[d].key + 1
               row == [dialog[d] EXCEPT !.st = "shown", !.key = n, !.sent = 0, !.told = None]
    <2>1. dialog' = [dialog EXCEPT ![d] = row]
      BY <1>1, <1>7 DEF Again, TypeOK
    <2>2. n \in Nat
      BY <1>2
    <2>3. dialog[d].st \notin {"closed", "open"}
      BY <1>7 DEF Again
    <2>4. /\ row \in DialogRow /\ row.st = "shown" /\ row.plan = dialog[d].plan
          /\ row.expected = dialog[d].expected /\ row.told = None
      <3> HIDE DEF n
      <3>1. QED
        BY <1>1, <2>2 DEF DialogRow, States
    <2>5. QED
      BY <1>1, <2>1, <2>3, <2>4 DEF Moved
  <1>8. CASE Close(d)
    <2> DEFINE row == [Closed EXCEPT !.key = dialog[d].key]
    <2>1. row \in DialogRow /\ row.st = "closed" /\ row.told = None
      BY <1>2 DEF Closed, DialogRow, States
    <2>2. dialog' = [dialog EXCEPT ![d] = row]
      BY <1>8 DEF Close
    <2>3. QED
      BY <2>1, <2>2 DEF Moved
  <1>9. QED
    BY <1>4, <1>5, <1>6, <1>7, <1>8

-----------------------------------------------------------------------------
(* Each action keeps the invariant. *)

\* What a dialog does concerns no transaction and no receipt.
LEMMA DialogKeeps ==
    ASSUME IInv, NEW d \in Dialogs,
           Open(d) \/ Show(d) \/ Send(d) \/ NotConfirmed(d) \/ Again(d) \/ Close(d)
    PROVE  IInv'
  <1>1. PICK row \in DialogRow : Moved(d, row)
    BY DialogMoves
  <1>2. /\ UNCHANGED <<project, tx, receipts>>
        /\ wire' \in {wire, wire \cup {Request(d)}}
        /\ wire' # wire => dialog[d].st \notin {"closed", "open"}
    BY DEF Open, Show, Send, NotConfirmed, Again, Close
  <1>3. TypeOK
    BY DEF IInv
  <1>4. /\ dialog' \in [Dialogs -> DialogRow] /\ dialog'[d] = row
        /\ \A e \in Dialogs \ {d} : dialog'[e] = dialog[e]
    BY <1>1, <1>3, DialogTypes DEF Moved
  <1>5. TypeOK'
    <2>1. wire' \subseteq Requests
      BY <1>2, <1>3, RequestType DEF TypeOK
    <2>2. QED
      BY <1>2, <1>3, <1>4, <2>1 DEF TypeOK
  <1>6. PlansConfirmed'
    <2>1. \A e \in Dialogs : dialog'[e].st \notin {"closed", "open"} =>
             Planned(Kind(e), dialog'[e].expected, dialog'[e].plan)
      BY <1>1, <1>4 DEF Moved, IInv, PlansConfirmed
    <2>2. \A r \in wire' : Planned(Kind(r.dialog), r.expected, r.plan)
      BY <1>2, <1>3, RequestType DEF IInv, PlansConfirmed
    <2>3. QED
      BY <1>2, <2>1, <2>2 DEF IInv, PlansConfirmed
  <1>7. PlanStands' /\ ReceiptsOrdered' /\ KeysOnce'
    BY <1>2 DEF IInv, PlanStands, Replay, ReceiptsOf, ReceiptsOrdered, KeysOnce
  <1>8. QED
    BY <1>5, <1>6, <1>7 DEF IInv

\* The transaction takes a request as it was sent.
LEMMA EnterKeeps ==
    ASSUME IInv, Enter
    PROVE  IInv'
  <1>1. PICK r \in wire :
           /\ wire' = wire \ {r}
           /\ tx' = [request |-> r, step |-> "entered", plan |-> None,
                     row |-> IF lock = None THEN "free" ELSE "exclusive"]
           /\ UNCHANGED <<project, dialog, receipts>>
    BY DEF Enter
  <1>2. r \in Requests
    BY <1>1 DEF IInv, TypeOK
  <1>3. tx' \in Tx /\ tx'.request = r /\ tx'.step = "entered"
    BY <1>1, <1>2 DEF Tx
  <1>4. TypeOK'
    BY <1>1, <1>3 DEF IInv, TypeOK
  <1>5. PlansConfirmed'
    BY <1>1, <1>3 DEF IInv, PlansConfirmed
  <1>6. PlanStands'
    BY <1>3 DEF PlanStands
  <1>7. ReceiptsOrdered' /\ KeysOnce'
    BY <1>1 DEF IInv, ReceiptsOrdered, KeysOnce
  <1>8. QED
    BY <1>4, <1>5, <1>6, <1>7 DEF IInv

\* A transaction that ends without a change ends with nothing to keep.
LEMMA EndKeeps ==
    ASSUME IInv, tx' = None, UNCHANGED <<project, wire, receipts>>,
           dialog' \in [Dialogs -> DialogRow],
           \A d \in Dialogs : dialog'[d].st \notin {"closed", "open"} =>
              Planned(Kind(d), dialog'[d].expected, dialog'[d].plan)
    PROVE  IInv'
  BY DEF IInv, TypeOK, PlansConfirmed, PlanStands, ReceiptsOrdered, KeysOnce

\* An answer leaves every dialog with the plan it had.
LEMMA ToldPlans ==
    ASSUME IInv, NEW r \in Requests, NEW verdict \in {"applied", "conflict", "denied"},
           NEW revision \in Nat, Told(r, verdict, revision)
    PROVE  /\ dialog' \in [Dialogs -> DialogRow]
           /\ \A d \in Dialogs : dialog'[d].st \notin {"closed", "open"} =>
                 Planned(Kind(d), dialog'[d].expected, dialog'[d].plan)
  BY ToldKeeps DEF IInv, PlansConfirmed

\* The receipts of a key, and one of them.
LEMMA ReplayedReceipt ==
    ASSUME TypeOK, NEW r, Replay(r) # {}
    PROVE  LET n == CHOOSE m \in Replay(r) : TRUE
           IN  /\ n \in DOMAIN receipts /\ receipts[n] \in Receipts
               /\ receipts[n].dialog = r.dialog /\ receipts[n].key = r.key
               /\ receipts[n].revision \in Nat
  <1> DEFINE n == CHOOSE m \in Replay(r) : TRUE
  <1>1. n \in Replay(r)
    OBVIOUS
  <1>2. n \in DOMAIN receipts /\ receipts[n].dialog = r.dialog /\ receipts[n].key = r.key
    BY <1>1 DEF Replay, ReceiptsOf
  <1>3. receipts[n] \in Receipts
    BY <1>2 DEF TypeOK
  <1>4. QED
    BY <1>2, <1>3 DEF Receipts

\* The verdict decides: a plan that stands, or an answer.
LEMMA CheckKeeps ==
    ASSUME IInv, Check
    PROVE  IInv'
  <1> DEFINE r == tx.request
             v == Verdict(r)
             revision == IF v = "applied"
                         THEN receipts[CHOOSE n \in Replay(r) : TRUE].revision ELSE 0
  <1>1. /\ tx # None /\ tx.step = "entered" /\ TypeOK /\ r \in Requests /\ tx \in Tx
        /\ UNCHANGED <<project, wire, receipts>>
    BY TxTypes DEF Check, IInv
  <1>2. v \in {"denied", "applied", "conflict", "planned"}
    BY DEF Verdict
  <1>3. CASE v = "planned"
    <2>1. /\ tx' = [tx EXCEPT !.step = "planned", !.plan = Plan(Kind(r.dialog)),
                              !.row = LockedBy(@)]
          /\ UNCHANGED dialog
      BY <1>3 DEF Check
    <2>2. LockedBy(tx.row) \in {"free", "share", "exclusive"}
      BY <1>1 DEF LockedBy, Tx
    <2>3. /\ tx' \in Tx /\ tx'.request = r /\ tx'.plan = Plan(Kind(r.dialog))
      <3>1. tx' = [tx EXCEPT !.step = "planned", !.plan = Plan(Kind(r.dialog)),
                             !.row = LockedBy(tx.row)]
        BY <2>1
      <3>2. QED
        BY <1>1, <2>2, <3>1, PlanType DEF Tx
    <2>4. /\ Replay(r) = {} /\ ~Conflict(r)
      BY <1>3 DEF Verdict
    <2>5. TypeOK' /\ PlansConfirmed'
      BY <1>1, <2>1, <2>3 DEF IInv, TypeOK, PlansConfirmed
    <2>6. r.expected = project.revision /\ project.run # "own"
      BY <2>4 DEF Conflict, NoRun
    <2>7. Plan(Kind(r.dialog)) = r.plan
      <3>1. CASE Kind(r.dialog) = "edit"
        <4>1. r.plan = [revision |-> r.expected, catalog |-> None]
          BY <1>1, <3>1 DEF IInv, PlansConfirmed, Planned
        <4>2. QED
          BY <2>6, <3>1, <4>1 DEF Plan
      <3>2. CASE Kind(r.dialog) # "edit"
        BY <2>4, <3>2 DEF Conflict, Matches
      <3>3. QED
        BY <3>1, <3>2
    <2>8. PlanStands' /\ ReceiptsOrdered' /\ KeysOnce'
      <3>1. Replay(r)' = {}
        BY <1>1, <2>3, <2>4 DEF Replay, ReceiptsOf
      <3>2. Replay(tx.request)' = {}
        BY <2>3, <3>1 DEF Replay, ReceiptsOf
      <3>3. PlanStands'
        BY <1>1, <2>3, <2>6, <2>7, <3>2 DEF PlanStands
      <3>4. QED
        BY <1>1, <3>3 DEF IInv, ReceiptsOrdered, KeysOnce
    <2>9. QED
      BY <2>5, <2>8 DEF IInv
  <1>4. CASE v # "planned"
    <2>1. tx' = None /\ Told(r, v, revision)
      BY <1>4 DEF Check
    <2>2. revision \in Nat
      BY <1>1, ReplayedReceipt DEF Verdict
    <2>3. QED
      <3> HIDE DEF r, v, revision
      <3>1. /\ dialog' \in [Dialogs -> DialogRow]
            /\ \A d \in Dialogs : dialog'[d].st \notin {"closed", "open"} =>
                  Planned(Kind(d), dialog'[d].expected, dialog'[d].plan)
        BY <1>1, <1>2, <1>4, <2>1, <2>2, ToldPlans
      <3>2. QED
        BY <1>1, <2>1, <3>1, EndKeeps
  <1>5. QED
    BY <1>3, <1>4

\* What a receipt records is a number.
LEMMA ReceiptTypes ==
    ASSUME TypeOK
    PROVE  \A n \in DOMAIN receipts : /\ receipts[n] \in Receipts
                                      /\ receipts[n].from \in Nat /\ receipts[n].revision \in Nat
  <1> SUFFICES ASSUME NEW n \in DOMAIN receipts
               PROVE  /\ receipts[n] \in Receipts
                      /\ receipts[n].from \in Nat /\ receipts[n].revision \in Nat
    OBVIOUS
  <1>1. receipts[n] \in Receipts
    BY DEF TypeOK
  <1>2. QED
    BY <1>1 DEF Receipts

\* A receipt added at the end: the others are where they were.
LEMMA OneMore ==
    ASSUME TypeOK, NEW new \in Receipts, receipts' = Append(receipts, new)
    PROVE  /\ receipts' \in Seq(Receipts)
           /\ Len(receipts) \in Nat /\ Len(receipts') = Len(receipts) + 1
           /\ DOMAIN receipts = 1 .. Len(receipts)
           /\ DOMAIN receipts' = DOMAIN receipts \cup {Len(receipts')}
           /\ receipts'[Len(receipts')] = new
           /\ \A n \in DOMAIN receipts : receipts'[n] = receipts[n] /\ n < Len(receipts')
  BY DEF TypeOK

\* A plan that stands is applied as the newest receipt.
LEMMA AppliedKeeps ==
    ASSUME IInv, Finish, receipts' # receipts
    PROVE  IInv'
  <1> DEFINE r == tx.request
             revision == project.revision + IF r.effect THEN 1 ELSE 0
             new == [dialog |-> r.dialog, key |-> r.key, plan |-> tx.plan,
                     from |-> project.revision, revision |-> revision]
  <1>1. /\ tx # None /\ tx.step = "planned" /\ TypeOK /\ r \in Requests /\ tx \in Tx
        /\ tx' = None /\ UNCHANGED wire
    BY TxTypes DEF Finish, IInv
  <1>2. /\ receipts' = Append(receipts, new)
        /\ project' = [project EXCEPT !.revision = revision]
        /\ Told(r, "applied", revision)
    BY DEF Finish
  <1>3. /\ project.revision \in Nat /\ revision \in Nat /\ project.revision <= revision
        /\ r.effect \in BOOLEAN
    BY <1>1, TxTypes DEF TypeOK
  <1>4. Replay(r) = {}
    BY <1>1 DEF IInv, PlanStands
  <1> HIDE DEF revision
  <1>5. /\ new \in Receipts /\ new.dialog = r.dialog /\ new.key = r.key
        /\ new.from = project.revision /\ new.revision = revision
    BY <1>1, <1>3 DEF Receipts, Requests, Tx
  <1>6. /\ project' \in [revision : Nat, catalog : Catalogs, run : {"none", "own", "other"}]
        /\ project'.revision = revision
    BY <1>1, <1>2, <1>3 DEF TypeOK
  <1> HIDE DEF new, r
  <1>7. /\ receipts' \in Seq(Receipts)
        /\ Len(receipts) \in Nat /\ Len(receipts') = Len(receipts) + 1
        /\ DOMAIN receipts = 1 .. Len(receipts)
        /\ DOMAIN receipts' = DOMAIN receipts \cup {Len(receipts')}
        /\ receipts'[Len(receipts')] = new
        /\ \A n \in DOMAIN receipts : receipts'[n] = receipts[n] /\ n < Len(receipts')
    BY <1>1, <1>2, <1>5, OneMore
  <1>8. /\ dialog' \in [Dialogs -> DialogRow]
        /\ \A d \in Dialogs : dialog'[d].st \notin {"closed", "open"} =>
              Planned(Kind(d), dialog'[d].expected, dialog'[d].plan)
    BY <1>1, <1>2, <1>3, ToldPlans
  <1>9. TypeOK' /\ PlansConfirmed' /\ PlanStands'
    BY <1>1, <1>6, <1>7, <1>8 DEF IInv, TypeOK, PlansConfirmed, PlanStands
  <1>10. ReceiptsOrdered'
    <2>1. \A n \in DOMAIN receipts : /\ receipts[n].from \in Nat /\ receipts[n].revision \in Nat
                                     /\ receipts[n].from <= receipts[n].revision
                                     /\ receipts[n].revision <= project.revision
      BY <1>1, ReceiptTypes DEF IInv, ReceiptsOrdered
    <2>2. \A n \in DOMAIN receipts' :
             receipts'[n].from <= receipts'[n].revision /\ receipts'[n].revision <= project'.revision
      BY <1>3, <1>5, <1>6, <1>7, <2>1
    <2>3. \A m, n \in DOMAIN receipts' : m < n => receipts'[m].revision <= receipts'[n].from
      <3> SUFFICES ASSUME NEW m \in DOMAIN receipts', NEW n \in DOMAIN receipts', m < n
                   PROVE  receipts'[m].revision <= receipts'[n].from
        OBVIOUS
      <3>1. m \in DOMAIN receipts
        BY <1>7
      <3>2. CASE n \in DOMAIN receipts
        BY <1>7, <3>1, <3>2 DEF IInv, ReceiptsOrdered
      <3>3. CASE n = Len(receipts')
        BY <1>5, <1>7, <2>1, <3>1, <3>3
      <3>4. QED
        BY <1>7, <3>2, <3>3
    <2>4. QED
      BY <2>2, <2>3 DEF ReceiptsOrdered
  <1>11. KeysOnce'
    <2>1. \A n \in DOMAIN receipts : receipts[n].dialog # r.dialog \/ receipts[n].key # r.key
      BY <1>4 DEF Replay, ReceiptsOf
    <2>2. QED
      BY <1>5, <1>7, <2>1 DEF IInv, KeysOnce
  <1>12. QED
    BY <1>9, <1>10, <1>11 DEF IInv

\* Applied or denied, the transaction ends.
LEMMA FinishKeeps ==
    ASSUME IInv, Finish
    PROVE  IInv'
  <1>1. CASE receipts' # receipts
    BY <1>1, AppliedKeeps
  <1>2. CASE receipts' = receipts
    <2>1. /\ tx # None /\ TypeOK /\ tx.request \in Requests /\ tx' = None /\ UNCHANGED wire
      BY TxTypes DEF Finish, IInv
    <2>2. Told(tx.request, "denied", 0) /\ UNCHANGED project
      <3>1. Len(receipts') = Len(receipts) /\ Len(receipts) \in Nat
        BY <1>2, <2>1 DEF TypeOK
      <3>2. \A x : Len(Append(receipts, x)) = Len(receipts) + 1
        BY <2>1 DEF TypeOK
      <3>3. \A x : receipts' # Append(receipts, x)
        BY <3>1, <3>2
      <3>4. QED
        BY <3>3 DEF Finish
    <2>3. /\ dialog' \in [Dialogs -> DialogRow]
          /\ \A d \in Dialogs : dialog'[d].st \notin {"closed", "open"} =>
                Planned(Kind(d), dialog'[d].expected, dialog'[d].plan)
      BY <2>1, <2>2, ToldPlans
    <2>4. QED
      BY <1>2, <2>1, <2>2, <2>3, EndKeeps
  <1>3. QED
    BY <1>1, <1>2

\* Nothing is left of a transaction rolled back.
LEMMA AbortKeeps ==
    ASSUME IInv, Abort
    PROVE  IInv'
  <1>1. /\ dialog' \in [Dialogs -> DialogRow]
        /\ \A d \in Dialogs : dialog'[d].st \notin {"closed", "open"} =>
              Planned(Kind(d), dialog'[d].expected, dialog'[d].plan)
    BY DEF Abort, IInv, TypeOK, PlansConfirmed
  <1>2. QED
    BY <1>1, EndKeeps DEF Abort

\* Around a transaction only what the Project row does not guard changes: Runs
\* of other Projects, the metadata and the lock.
LEMMA OutsideKeeps ==
    ASSUME IInv, StartRun \/ EndRun \/ ApplyElsewhere \/ Drift \/ Lapse \/ ChangeLock
    PROVE  IInv'
  <1>1. /\ TypeOK /\ project.revision \in Nat /\ project.revision + 1 \in Nat
        /\ UNCHANGED <<dialog, wire, tx, receipts>>
    <2>1. TypeOK /\ project.revision \in Nat
      BY DEF IInv, TypeOK
    <2>2. UNCHANGED <<dialog, wire, tx, receipts>>
      BY DEF StartRun, EndRun, ApplyElsewhere, Drift, Lapse, ChangeLock
    <2>3. QED
      BY <2>1, <2>2
  <1>2. /\ project' \in [revision : Nat, catalog : Catalogs, run : {"none", "own", "other"}]
        /\ project.revision <= project'.revision
        /\ tx # None => /\ project'.revision = project.revision
                        /\ project'.run = "own" => project.run = "own"
    <2>1. CASE StartRun
      BY <1>1, <2>1 DEF StartRun, TypeOK
    <2>2. CASE EndRun
      BY <1>1, <2>2 DEF EndRun, TypeOK
    <2>3. CASE ApplyElsewhere
      <3> DEFINE next == project.revision + 1
      <3>1. project' = [project EXCEPT !.revision = next] /\ next \in Nat /\ project.revision <= next
        BY <1>1, <2>3 DEF ApplyElsewhere
      <3> HIDE DEF next
      <3>2. QED
        BY <1>1, <2>3, <3>1 DEF ApplyElsewhere, TypeOK
    <2>4. CASE Drift
      BY <1>1, <2>4 DEF Drift, TypeOK
    <2>5. CASE Lapse \/ ChangeLock
      <3>1. UNCHANGED project
        BY <2>5 DEF Lapse, ChangeLock
      <3>2. QED
        BY <1>1, <3>1 DEF TypeOK
    <2>6. QED
      BY <2>1, <2>2, <2>3, <2>4, <2>5
  <1>3. TypeOK' /\ PlansConfirmed' /\ KeysOnce'
    BY <1>1, <1>2 DEF IInv, TypeOK, PlansConfirmed, KeysOnce
  <1>4. PlanStands'
    BY <1>1, <1>2 DEF IInv, PlanStands, Replay, ReceiptsOf
  <1>5. ReceiptsOrdered'
    <2>1. \A n \in DOMAIN receipts : receipts[n].revision \in Nat
      BY <1>1, ReceiptTypes
    <2>2. project'.revision \in Nat
      BY <1>2
    <2>3. QED
      BY <1>1, <1>2, <2>1, <2>2 DEF IInv, ReceiptsOrdered
  <1>6. QED
    BY <1>3, <1>4, <1>5 DEF IInv

-----------------------------------------------------------------------------
(* The invariant. *)

\* A fresh Project, with metadata some command is valid in.
LEMMA InitIInv == Init => IInv
  <1> SUFFICES ASSUME Init
               PROVE  IInv
    OBVIOUS
  <1> DEFINE whole == CHOOSE c \in Catalogs : Valid(c)
  <1>1. whole \in Catalogs
    BY CatalogsAssumption
  <1>2. Closed \in DialogRow /\ Closed.st = "closed"
    BY DEF Closed, DialogRow, States
  <1> HIDE DEF whole
  <1>3. project \in [revision : Nat, catalog : Catalogs, run : {"none", "own", "other"}]
    BY <1>1 DEF Init, whole
  <1>4. dialog \in [Dialogs -> DialogRow] /\ \A d \in Dialogs : dialog[d].st = "closed"
    BY <1>2 DEF Init
  <1>5. receipts = <<>> /\ DOMAIN receipts = {} /\ receipts \in Seq(Receipts) /\ wire = {} /\ tx = None
    BY DEF Init
  <1>6. QED
    BY <1>3, <1>4, <1>5
    DEF IInv, TypeOK, PlansConfirmed, PlanStands, ReceiptsOrdered, KeysOnce

\* Every step keeps it.
LEMMA NextIInv == IInv /\ [Next]_vars => IInv'
  <1> SUFFICES ASSUME IInv, [Next]_vars
               PROVE  IInv'
    OBVIOUS
  <1>1. CASE UNCHANGED vars
    BY <1>1 DEF IInv, TypeOK, PlansConfirmed, PlanStands, Replay, ReceiptsOf, ReceiptsOrdered,
                KeysOnce, vars
  <1>2. CASE \E d \in Dialogs :
                Open(d) \/ Show(d) \/ Send(d) \/ NotConfirmed(d) \/ Again(d) \/ Close(d)
    BY <1>2, DialogKeeps
  <1>3. CASE Enter
    BY <1>3, EnterKeeps
  <1>4. CASE Check
    BY <1>4, CheckKeeps
  <1>5. CASE Finish
    BY <1>5, FinishKeeps
  <1>6. CASE Abort
    BY <1>6, AbortKeeps
  <1>7. CASE StartRun \/ EndRun \/ ApplyElsewhere \/ Drift \/ Lapse \/ ChangeLock
    BY <1>7, OutsideKeeps
  <1>8. QED
    BY <1>1, <1>2, <1>3, <1>4, <1>5, <1>6, <1>7 DEF Next

\* The inductive invariant holds in every state.
THEOREM Invariance == Spec => []IInv
  <1>1. Init => IInv
    BY InitIInv
  <1>2. IInv /\ [Next]_vars => IInv'
    BY NextIInv
  <1>3. QED
    BY <1>1, <1>2, PTL DEF Spec

-----------------------------------------------------------------------------
(* What follows. *)

\* However often a request is sent, lost or delayed, its key changes the
\* Project at most once, and one revision is changed by one key.
THEOREM KeysApplyOnce == Spec => []AppliedOnce
  <1>1. IInv => AppliedOnce
    <2> SUFFICES ASSUME IInv, NEW m \in DOMAIN receipts, NEW n \in DOMAIN receipts, m # n
                 PROVE  /\ \/ receipts[m].dialog # receipts[n].dialog
                           \/ receipts[m].key # receipts[n].key
                        /\ receipts[m].from = receipts[n].from =>
                              \/ receipts[m].revision = receipts[m].from
                              \/ receipts[n].revision = receipts[n].from
      BY DEF AppliedOnce
    <2>1. \A i \in {m, n} : /\ receipts[i].from \in Nat /\ receipts[i].revision \in Nat
                            /\ receipts[i].from <= receipts[i].revision
      BY ReceiptTypes DEF IInv, ReceiptsOrdered
    <2>2. m < n \/ n < m
      <3>1. DOMAIN receipts = 1 .. Len(receipts) /\ Len(receipts) \in Nat
        BY DEF IInv, TypeOK
      <3>2. QED
        BY <3>1
    <2>3. \/ receipts[m].revision <= receipts[n].from
          \/ receipts[n].revision <= receipts[m].from
      BY <2>2 DEF IInv, ReceiptsOrdered
    <2>4. receipts[m].from = receipts[n].from =>
             receipts[m].revision = receipts[m].from \/ receipts[n].revision = receipts[n].from
      BY <2>1, <2>3
    <2>5. QED
      BY <2>4 DEF IInv, KeysOnce
  <1>2. QED
    BY <1>1, Invariance, PTL

\* Only the end of a transaction adds a receipt: of the plan it stands by.
LEMMA ReceiptAdded ==
    ASSUME IInv, Next, receipts' # receipts
    PROVE  /\ Finish /\ tx # None /\ tx.step = "planned"
           /\ receipts'[Len(receipts')].from = project.revision
           /\ receipts'[Len(receipts')].plan = tx.plan
  <1>1. Finish
    BY DEF Next, Open, Show, Send, NotConfirmed, Again, Close, Enter, Check, Abort, StartRun,
           EndRun, ApplyElsewhere, Drift, Lapse, ChangeLock
  <1> DEFINE r == tx.request
             revision == project.revision + IF r.effect THEN 1 ELSE 0
             new == [dialog |-> r.dialog, key |-> r.key, plan |-> tx.plan,
                     from |-> project.revision, revision |-> revision]
  <1>2. tx # None /\ tx.step = "planned" /\ receipts' = Append(receipts, new)
    BY <1>1 DEF Finish
  <1>3. new.from = project.revision /\ new.plan = tx.plan
    OBVIOUS
  <1> HIDE DEF new
  <1>4. receipts'[Len(receipts')] = new
    BY <1>2 DEF IInv, TypeOK
  <1>5. QED
    BY <1>1, <1>2, <1>3, <1>4

\* What is applied is the command that was shown and confirmed, on the records
\* it was shown of, however late its request arrives.
THEOREM AppliesWhatWasConfirmed == Spec => AppliedAsConfirmed
  <1> DEFINE A == receipts' # receipts =>
                     LET r == tx.request   last == receipts'[Len(receipts')]
                     IN last.from = r.expected /\ last.plan = r.plan
  <1>1. IInv /\ [Next]_vars => [A]_vars
    <2> SUFFICES ASSUME IInv, Next, receipts' # receipts
                 PROVE  LET r == tx.request   last == receipts'[Len(receipts')]
                        IN last.from = r.expected /\ last.plan = r.plan
      BY DEF vars
    <2>1. QED
      BY ReceiptAdded DEF IInv, PlanStands
  <1>2. QED
    BY <1>1, Invariance, PTL DEF Spec, AppliedAsConfirmed

\* No human command changes a Project under its running Run, whose context and
\* revision are frozen.
THEOREM RunsAreLeftAlone == Spec => ReviewExcludesRun
  <1> DEFINE A == receipts' # receipts => project.run # "own"
  <1>1. IInv /\ [Next]_vars => [A]_vars
    <2> SUFFICES ASSUME IInv, Next, receipts' # receipts
                 PROVE  project.run # "own"
      BY DEF vars
    <2>1. QED
      BY ReceiptAdded DEF IInv, PlanStands
  <1>2. QED
    BY <1>1, Invariance, PTL DEF Spec, ReviewExcludesRun

\* What a dialog has done, and what an answer says of it.
OwnReceipts(d, key) ==
    {n \in DOMAIN receipts' : receipts'[n].dialog = d /\ receipts'[n].key = key}

TrueAnswer(d) ==
    dialog'[d].told \notin {None, dialog[d].told} =>
        LET own == OwnReceipts(d, dialog[d].key)
        IN /\ dialog'[d].told.verdict = "conflict" => own = {}
           /\ dialog'[d].told.verdict = "applied" =>
                 \E n \in own : receipts'[n].revision = dialog'[d].told.revision

\* An answer sent is one about the key the dialog waits for.
LEMMA ToldTruth ==
    ASSUME TypeOK, NEW r \in Requests, NEW verdict, NEW revision, Told(r, verdict, revision),
           verdict = "conflict" => OwnReceipts(r.dialog, r.key) = {},
           verdict = "applied" =>
              \E n \in OwnReceipts(r.dialog, r.key) : receipts'[n].revision = revision,
           NEW d \in Dialogs
    PROVE  TrueAnswer(d)
  <1> DEFINE answer == [verdict |-> verdict, revision |-> revision]
  <1>1. CASE UNCHANGED dialog
    BY <1>1 DEF TrueAnswer
  <1>2. CASE /\ dialog[r.dialog].key = r.key /\ dialog' = Answered(r.dialog, answer)
    <2>1. r.dialog \in Dialogs /\ dialog \in [Dialogs -> DialogRow]
      BY DEF TypeOK, Requests
    <2>2. answer.verdict = verdict /\ answer.revision = revision
      OBVIOUS
    <2> HIDE DEF answer
    <2>3. CASE d = r.dialog
      <3>1. dialog'[d].told = answer
        BY <1>2, <2>1, <2>3 DEF Answered, DialogRow
      <3>2. OwnReceipts(d, dialog[d].key) = OwnReceipts(r.dialog, r.key)
        BY <1>2, <2>3
      <3>3. QED
        BY <2>2, <3>1, <3>2 DEF TrueAnswer
    <2>4. CASE d # r.dialog
      <3>1. dialog'[d] = dialog[d]
        BY <1>2, <2>1, <2>4 DEF Answered
      <3>2. QED
        BY <3>1 DEF TrueAnswer
    <2>5. QED
      BY <2>3, <2>4
  <1>3. QED
    BY <1>1, <1>2, ToldRow

\* A dialog that is told "applied" is told the revision of its own change, and
\* one that is told of a conflict, after whatever lost answers, has changed
\* nothing.
THEOREM DialogsAreToldTheTruth == Spec => AnswersAreTrue
  <1>1. IInv /\ [Next]_vars => [\A d \in Dialogs : TrueAnswer(d)]_vars
    <2> SUFFICES ASSUME IInv, Next, NEW d \in Dialogs
                 PROVE  TrueAnswer(d)
      BY DEF vars
    <2>1. CASE \E e \in Dialogs :
                  Open(e) \/ Show(e) \/ Send(e) \/ NotConfirmed(e) \/ Again(e) \/ Close(e)
      <3>1. PICK e \in Dialogs :
               Open(e) \/ Show(e) \/ Send(e) \/ NotConfirmed(e) \/ Again(e) \/ Close(e)
        BY <2>1
      <3>2. PICK row \in DialogRow : Moved(e, row)
        BY <3>1, DialogMoves
      <3>3. /\ dialog'[e] = row /\ row.told \in {None, dialog[e].told}
            /\ \A f \in Dialogs \ {e} : dialog'[f] = dialog[f]
        BY <3>2, DialogTypes DEF Moved, IInv
      <3>4. QED
        BY <3>3 DEF TrueAnswer
    <2>2. CASE Check
      <3> DEFINE r == tx.request
                 v == Verdict(r)
                 revision == IF v = "applied"
                             THEN receipts[CHOOSE n \in Replay(r) : TRUE].revision ELSE 0
      <3>1. r \in Requests /\ TypeOK /\ UNCHANGED receipts
        BY <2>2, TxTypes DEF Check, IInv
      <3>2. CASE v = "planned"
        BY <2>2, <3>2 DEF Check, TrueAnswer
      <3>3. CASE v # "planned"
        <4>1. Told(r, v, revision)
          BY <2>2, <3>3 DEF Check
        <4>2. OwnReceipts(r.dialog, r.key) = Replay(r)
          BY <3>1 DEF Replay, ReceiptsOf, OwnReceipts
        <4>3. v = "conflict" => OwnReceipts(r.dialog, r.key) = {}
          BY <4>2 DEF Verdict
        <4>4. v = "applied" =>
                 \E n \in OwnReceipts(r.dialog, r.key) : receipts'[n].revision = revision
          <5> SUFFICES ASSUME v = "applied"
                       PROVE  \E n \in Replay(r) : receipts[n].revision = revision
            BY <3>1, <4>2
          <5>1. Replay(r) # {}
            BY DEF Verdict
          <5>2. QED
            BY <5>1
        <4> HIDE DEF r, v, revision
        <4>5. QED
          BY <3>1, <4>1, <4>3, <4>4, ToldTruth
      <3>4. QED
        BY <3>2, <3>3
    <2>3. CASE Finish
      <3> DEFINE r == tx.request
                 revision == project.revision + IF r.effect THEN 1 ELSE 0
                 new == [dialog |-> r.dialog, key |-> r.key, plan |-> tx.plan,
                         from |-> project.revision, revision |-> revision]
      <3>1. r \in Requests /\ TypeOK
        BY <2>3, TxTypes DEF Finish, IInv
      <3>2. CASE LockHeld(Owner(r.dialog))
        <4>1. receipts' = Append(receipts, new) /\ Told(r, "applied", revision)
          BY <2>3, <3>2 DEF Finish
        <4>2. new.dialog = r.dialog /\ new.key = r.key /\ new.revision = revision
          OBVIOUS
        <4> HIDE DEF new, revision
        <4>3. Len(receipts') \in DOMAIN receipts' /\ receipts'[Len(receipts')] = new
          BY <3>1, <4>1 DEF TypeOK
        <4>4. Len(receipts') \in OwnReceipts(r.dialog, r.key)
          BY <4>2, <4>3 DEF OwnReceipts
        <4> HIDE DEF r
        <4>5. QED
          BY <3>1, <4>1, <4>2, <4>3, <4>4, ToldTruth
      <3>3. CASE ~LockHeld(Owner(r.dialog))
        <4>1. Told(r, "denied", 0)
          BY <2>3, <3>3 DEF Finish
        <4> HIDE DEF r
        <4>2. QED
          BY <3>1, <4>1, ToldTruth
      <3>4. QED
        BY <3>2, <3>3
    <2>4. CASE Enter \/ Abort \/ StartRun \/ EndRun \/ ApplyElsewhere \/ Drift \/ Lapse \/ ChangeLock
      <3>1. UNCHANGED dialog
        BY <2>4 DEF Enter, Abort, StartRun, EndRun, ApplyElsewhere, Drift, Lapse, ChangeLock
      <3>2. QED
        BY <3>1 DEF TrueAnswer
    <2>5. QED
      BY <2>1, <2>2, <2>3, <2>4 DEF Next
  <1>2. QED
    BY <1>1, Invariance, PTL DEF Spec, AnswersAreTrue, TrueAnswer, OwnReceipts

=============================================================================
