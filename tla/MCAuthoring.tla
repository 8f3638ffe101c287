---------------------------- MODULE MCAuthoring ----------------------------
(* Two calls a Run, two repairs, one recovery. The records k1 and k2 can be *)
(* authored in two ways; k1 the second way excludes k2, and k2 the second   *)
(* way is only valid while its source is there.                             *)
EXTENDS Authoring, TLC

CONSTANTS k1, k2, there, gone

MCWorlds == {there, gone}
MCRecords == {k1, k2}
MCContents == {1, 2}
MCAll    == AllWorkflows
MCBuilds == Builds

MCAnswers(w, i) ==
    IF w \in Builds
    THEN IF i = 1 THEN {<<>>, k1 :> 1, k1 :> 2} ELSE {<<>>, k1 :> 1, k2 :> 1, k2 :> 2}
    ELSE IF i = 1 THEN {<<>>, k1 :> 1, k1 :> 2} ELSE {<<>>, k2 :> 1, k2 :> 2}

MCValid(w, docs) ==
    /\ ~(k1 \in DOMAIN docs /\ k2 \in DOMAIN docs /\ docs[k1] = 2)
    /\ (k2 \in DOMAIN docs /\ docs[k2] = 2) => w = there
=============================================================================
