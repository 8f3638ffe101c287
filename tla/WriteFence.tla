----------------------------- MODULE WriteFence -----------------------------
(***************************************************************************)
(* What the Tenant Lock promises to the writes of a Tenant, with leases,   *)
(* clocks, events and refusals left out: one Principal at a time may       *)
(* write, in any number of transactions, and whoever may write changes     *)
(* only while no transaction is writing.                                   *)
(***************************************************************************)
CONSTANTS Principals, Sessions, Nobody

VARIABLES
    holder,   \* the Principal that may write, or Nobody
    writer    \* the Principal each session writes for, or Nobody

vars == <<holder, writer>>

Init ==
    /\ holder = Nobody
    /\ writer = [s \in Sessions |-> Nobody]

\* The holder is granted, revoked or replaced while nobody writes.
Change ==
    /\ \A s \in Sessions : writer[s] = Nobody
    /\ holder' \in Principals \cup {Nobody}
    /\ UNCHANGED writer

Start(s) ==
    /\ holder # Nobody
    /\ writer[s] = Nobody
    /\ writer' = [writer EXCEPT ![s] = holder]
    /\ UNCHANGED holder

Finish(s) ==
    /\ writer' = [writer EXCEPT ![s] = Nobody]
    /\ UNCHANGED holder

Next == Change \/ \E s \in Sessions : Start(s) \/ Finish(s)

Spec == Init /\ [][Next]_vars

=============================================================================
