--------------------------- MODULE MCWorkflowRun ---------------------------
(* Instances of WorkflowRun: one Run with two workers; two Runs of one     *)
(* Project, or of two Projects of two Tenants.                             *)
EXTENDS WorkflowRun, TLC

CONSTANTS alice, bob, w1, w2, p1, p2, t1, t2

OneRun      == {1}
ThreeRuns   == {1, 2, 3}
OneActor    == {alice}
OneWorker   == {w1}
TwoWorkers  == {w1, w2}
OneProject  == {p1}
TwoProjects == {p1, p2}
OneTenant   == {t1}
TwoTenants  == {t1, t2}

AllInP1     == [r \in Runs |-> p1]
OneOfP2     == [r \in Runs |-> IF r = 3 THEN p2 ELSE p1]
AllInT1     == [p \in Projects |-> t1]
TenantEach  == [p \in Projects |-> IF p = p1 THEN t1 ELSE t2]

Absent(r) == run[r].state = "absent"
SharedProject == /\ Absent(3) /\ holder[t2] = Nobody
                 /\ project[p2] = [revision |-> 1, state |-> "open"]
OtherTenant == Absent(2) /\ \A p \in Projects : project[p].revision <= 2
PairOfRuns == SharedProject \/ OtherTenant

=============================================================================
