---------------------------- MODULE MCChangeSet ----------------------------
(* Four small worlds in one instance: one client with two drafts of the    *)
(* Project; one client with two batches of two datasets; two clients of one*)
(* Principal with one draft and one batch, whose chunks may differ; two    *)
(* Principals, each with a draft of the Project.                           *)
EXTENDS ChangeSet, TLC

CONSTANTS alice, bob, s1, s2, s3, d1, d2, c1, c2, b1, b2, good, bad

MCChangeSets == {c1, c2}
MCBatches    == {b1, b2}
MCPrincipals == {alice, bob}
MCSessions   == {s1, s2, s3}
MCOwnerOf    == [s \in MCSessions |-> IF s = s3 THEN bob ELSE alice]
MCDatasets   == {d1, d2}
MCPieces     == {good, bad}
MCRecords    == {<<>>, <<good>>}

Begun   == {n \in Batches : batch[n].status # "absent"}
Idle(s) == view[s] = NoView /\ upload[s] = NoUpload
Alice   == /\ Idle(s3) /\ holder # bob /\ project.revision <= 2
           /\ \A c \in ChangeSets : cs[c].owner # bob
Alone   == Alice /\ Idle(s2)
Quiet   ==
    /\ ~project.locked
    /\ project.revision = 1 /\ (Begun # {} => cs[c1].digest = None)
    /\ (holder = alice \/ \A c \in ChangeSets : ~Mutable(c))
FirstCs == cs[c2].status = "absent"
OnlyD1  ==
    /\ \A n \in Begun : batch[n].dataset = d1
    /\ \A c \in ChangeSets : cs[c].draft[d2] = <<>>
    /\ \A s \in Sessions : d2 \in DOMAIN view[s].known => d1 \in DOMAIN view[s].known
InOrder == b2 \in Begun => b1 \in Begun
Young == cs[c1].status # "absent" => Mutable(c1) /\ cs[c1].left = Life
AsPlanned ==
    \A n \in Begun : \A i \in DOMAIN batch[n].chunks : batch[n].chunks[i] \in {good, NoPiece}

TwoDrafts  ==
    /\ Alone /\ OnlyD1 /\ Begun = {} /\ (FirstCs \/ cs[c1].status # "absent")
    /\ \A c \in ChangeSets : cs[c].revision <= 2
TwoBatches == Alone /\ FirstCs /\ InOrder /\ Young /\ Quiet /\ AsPlanned
TwoClients == Alice /\ FirstCs /\ Young /\ Quiet /\ OnlyD1 /\ Begun \subseteq {b1}
              /\ cs[c1].revision <= 2

TwoOwners  ==
    /\ Idle(s2) /\ OnlyD1 /\ Begun = {} /\ ~project.locked
    /\ \A c \in ChangeSets : cs[c].status # "absent" =>
          cs[c].revision <= 2 /\ cs[c].base = 1 /\ cs[c].left = Life
    /\ \A s \in Sessions : view[s].cs # None => d2 \in DOMAIN view[s].known

Worlds == TwoOwners \/ TwoDrafts \/ TwoBatches \/ TwoClients
=============================================================================
