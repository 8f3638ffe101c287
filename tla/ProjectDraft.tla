---------------------------- MODULE ProjectDraft ----------------------------
(***************************************************************************)
(* What a Project Change Set promises, with time, owners, batches, locks   *)
(* and lost answers left out: a draft is replaced one or more datasets at  *)
(* a time and numbered; it is sealed as it stands; only a sealed draft is  *)
(* applied, unchanged, over the Project revision it was made for; and what *)
(* is applied or closed stays as it is.                                    *)
(***************************************************************************)
EXTENDS Naturals

CONSTANTS ChangeSets, Drafts, NoDraft, Blank

VARIABLES
    draft,      \* the records of each draft
    number,     \* its draft revision, 0 before it exists
    seal,       \* the records sealed for Apply, or NoDraft
    base,       \* the Project revision it was made for
    end,        \* "open", "applied" or "closed"
    revision    \* of the Project

vars == <<draft, number, seal, base, end, revision>>

Init ==
    /\ draft = [c \in ChangeSets |-> Blank]
    /\ number = [c \in ChangeSets |-> 0]
    /\ seal = [c \in ChangeSets |-> NoDraft]
    /\ base = [c \in ChangeSets |-> 0]
    /\ end = [c \in ChangeSets |-> "open"]
    /\ revision = 1

Open(c) ==
    /\ number[c] = 0
    /\ number' = [number EXCEPT ![c] = 1]
    /\ base' = [base EXCEPT ![c] = revision]
    /\ UNCHANGED <<draft, seal, end, revision>>

Live(c) == number[c] > 0 /\ end[c] = "open"

Replace(c) ==
    /\ Live(c)
    /\ \E records \in Drafts : draft' = [draft EXCEPT ![c] = records]
    /\ number' = [number EXCEPT ![c] = @ + 1]
    /\ seal' = [seal EXCEPT ![c] = NoDraft]
    /\ UNCHANGED <<base, end, revision>>

Judge(c) ==
    /\ Live(c)
    /\ \/ base[c] = revision /\ seal' = [seal EXCEPT ![c] = draft[c]]
       \/ seal' = [seal EXCEPT ![c] = NoDraft]
    /\ UNCHANGED <<draft, number, base, end, revision>>

Apply(c) ==
    /\ Live(c)
    /\ seal[c] = draft[c] /\ base[c] = revision
    /\ end' = [end EXCEPT ![c] = "applied"]
    /\ revision' = revision + (IF draft[c] = Blank THEN 0 ELSE 1)
    /\ UNCHANGED <<draft, number, seal, base>>

Close(cs) ==
    /\ cs # {} /\ \A c \in cs : Live(c)
    /\ end' = [c \in ChangeSets |-> IF c \in cs THEN "closed" ELSE end[c]]
    /\ UNCHANGED <<draft, number, seal, base, revision>>

\* Creating a draft closes the expired ones of its owner in the same step.
CloseAndOpen(cs, c) ==
    /\ cs # {} /\ \A d \in cs : Live(d)
    /\ number[c] = 0
    /\ end' = [d \in ChangeSets |-> IF d \in cs THEN "closed" ELSE end[d]]
    /\ number' = [number EXCEPT ![c] = 1]
    /\ base' = [base EXCEPT ![c] = revision]
    /\ UNCHANGED <<draft, seal, revision>>

\* Somebody else's draft, outside ChangeSets, is applied.
Elsewhere ==
    /\ revision' = revision + 1
    /\ UNCHANGED <<draft, number, seal, base, end>>

Next ==
    \/ \E c \in ChangeSets : Open(c) \/ Replace(c) \/ Judge(c) \/ Apply(c)
    \/ \E cs \in SUBSET ChangeSets : Close(cs)
    \/ \E cs \in SUBSET ChangeSets, c \in ChangeSets : CloseAndOpen(cs, c)
    \/ Elsewhere

Spec == Init /\ [][Next]_vars

=============================================================================
