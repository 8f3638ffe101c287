--------------------------- MODULE MCBridgeStage ---------------------------
(* Two worlds that never meet: work that is staged by two windows at once,  *)
(* before any validation (early), and work that one window stages while it  *)
(* is edited, validated, staged again and applied (first and second).  In   *)
(* both the workbench may be between its comparison and its rename while    *)
(* one window is at work on the first operation.                            *)
EXTENDS BridgeStage, TLC

CONSTANTS b1, b2, w

a1 == <<"k1", "a">>
a2 == <<"k1", "b">>
c1 == <<"k2", "a">>

early  == [objects |-> {a1}, attributes |-> {a1}]
first  == [objects |-> {a1}, attributes |-> {c1}]
second == [objects |-> {a2}]

MCDatasets == {"objects", "attributes"}
MCLarge    == {"attributes"}
MCWorks    == {early, first, second}
MCForeign  == {<<"objects", {c1}>>, <<"attributes", {c1}>>}
MCBridges  == {b1, b2}
MCDesks    == {w}
Windows    == Permutations(MCBridges)

Idle == {b \in MCBridges : bridge[b].pc = "idle"}

\* A command of the workbench is about to rename a record that a window uses.
Racing == Idle # MCBridges /\ desk[w] # None

Of(works) == local \in works /\ \A n \in DOMAIN ops : ops[n].accepted \in works

Early ==
    /\ Of({early}) /\ draft.review = None /\ Cardinality(wire) <= 2
    /\ Racing => Idle # {} /\ Cardinality(wire) <= 1

Late ==
    /\ Of({first, second}) /\ Idle # {} /\ Cardinality(wire) <= 1
    /\ <<"k2", "a">> \notin draft.content["objects"]
    /\ Racing => wire = {} /\ lost = {}

World == (Early \/ Late) /\ (Racing => Len(ops) = 1)
=============================================================================
