----------------------------- MODULE RunOutcome -----------------------------
(***************************************************************************)
(* What a Workflow Run promises its owner, without workers, claims, leases *)
(* or transactions: it is worked on at most once, alone in its domain; its *)
(* log grows only until it ends; it ends once, and an offered draft, the   *)
(* end of the Run and the last entries of its log appear together.         *)
(***************************************************************************)
EXTENDS Naturals

CONSTANTS Runs, Domain

VARIABLES
    phase,    \* of each Run
    logged,   \* number of entries in its log
    offer     \* its draft: "none", "rejected", "ready" to apply, or "taken"

vars == <<phase, logged, offer>>

Init ==
    /\ phase = [r \in Runs |-> "unmade"]
    /\ logged = [r \in Runs |-> 0]
    /\ offer = [r \in Runs |-> "none"]

Request(r) ==
    /\ phase[r] = "unmade"
    /\ phase' = [phase EXCEPT ![r] = "waiting"]
    /\ UNCHANGED <<logged, offer>>

Begin(r) ==
    /\ phase[r] = "waiting"
    /\ \A q \in Runs : phase[q] = "working" => Domain[q] # Domain[r]
    /\ phase' = [phase EXCEPT ![r] = "working"]
    /\ logged' = [logged EXCEPT ![r] = 1]
    /\ UNCHANGED offer

Progress(r) ==
    /\ phase[r] = "working"
    /\ logged' = [logged EXCEPT ![r] = @ + 1]
    /\ UNCHANGED <<phase, offer>>

\* The Run succeeds, with a draft to apply or with nothing to change.
Deliver(r) ==
    /\ phase[r] = "working"
    /\ phase' = [phase EXCEPT ![r] = "done"]
    /\ \/ /\ logged' = [logged EXCEPT ![r] = @ + 2]
          /\ offer' = [offer EXCEPT ![r] = "ready"]
       \/ /\ logged' = [logged EXCEPT ![r] = @ + 1]
          /\ UNCHANGED offer

\* A Run fails and shows the draft that was rejected.
Reject(r) ==
    /\ phase[r] = "working"
    /\ phase' = [phase EXCEPT ![r] = "failed"]
    /\ logged' = [logged EXCEPT ![r] = @ + 1]
    /\ offer' = [offer EXCEPT ![r] = "rejected"]

\* Several Runs may be given up together.
GiveUp(S) ==
    /\ \A r \in S : phase[r] = "working"
    /\ phase' = [r \in Runs |-> IF r \in S THEN "failed" ELSE phase[r]]
    /\ logged' = [r \in Runs |-> IF r \in S THEN logged[r] + 1 ELSE logged[r]]
    /\ UNCHANGED offer

Cancel(r) ==
    /\ phase[r] \in {"waiting", "working"}
    /\ phase' = [phase EXCEPT ![r] = "cancelled"]
    /\ logged' = [logged EXCEPT ![r] = @ + 1]
    /\ UNCHANGED offer

Take(r) ==
    /\ phase[r] = "done" /\ offer[r] = "ready"
    /\ offer' = [offer EXCEPT ![r] = "taken"]
    /\ UNCHANGED <<phase, logged>>

Next ==
    \/ \E r \in Runs : \/ Request(r) \/ Begin(r) \/ Progress(r) \/ Deliver(r)
                       \/ Reject(r) \/ Cancel(r) \/ Take(r)
    \/ \E S \in SUBSET Runs : GiveUp(S)

Spec == Init /\ [][Next]_vars
=============================================================================
