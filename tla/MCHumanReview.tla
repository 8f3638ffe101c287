--------------------------- MODULE MCHumanReview ---------------------------
(* Six dialogs of one user: a command of each kind alone with all that      *)
(* happens around it (d1 to d3), an editor that saves a second time (d4),   *)
(* and two dialogs at once in a quiet Project (d5 and d6).                  *)
EXTENDS HumanReview, TLC

CONSTANTS alice, bob, d1, d2, d3, d4, d5, d6, whole, renamed, broken

MCDialogs    == {d1, d2, d3, d4, d5, d6}
MCPrincipals == {alice, bob}
MCCatalogs   == {whole, renamed, broken}
MCOwner(d)   == alice
MCValid(c)   == c # broken
MCKind(d)    == CASE d \in {d1, d5} -> "review"
                  [] d \in {d2, d4, d6} -> "edit"
                  [] d = d3 -> "delete"

Used == {d \in MCDialogs : dialog[d].key > 0}
Once == \A d \in MCDialogs : dialog[d].key <= 1
Calm == project.run = "none" /\ project.catalog = whole
Mine == lock # None /\ lock.holder = alice

\* The worlds checked.
World ==
    \/ Used = {}
    \/ Used = {d1} /\ project.run # "other"
    \/ Used = {d2} /\ project.run # "other" /\ project.catalog # renamed
    \/ Used = {d3} /\ project.run # "other" /\ project.catalog # broken
    \/ Used = {d4} /\ project.catalog = whole /\ Mine /\ Cardinality(wire) <= 2
    \/ Used \subseteq {d5, d6} /\ Once /\ Calm /\ Mine /\ lock.live
       /\ dialog[d5].sent + dialog[d6].sent <= 3 /\ Cardinality(wire) <= 2
       /\ project.revision <= 1 + Len(receipts)
=============================================================================
