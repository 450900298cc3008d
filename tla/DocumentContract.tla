-------------------------- MODULE DocumentContract --------------------------
(***************************************************************************)
(* What an API client and its batch are promised of a document: it waits,  *)
(* is worked on by one invocation, gets one outcome, and is deleted at     *)
(* most once.  It never goes back, its outcome never changes, and its      *)
(* batch hears of it once.                                                 *)
(***************************************************************************)
EXTENDS Naturals

CONSTANTS Docs, Outcomes

\* counted is how often the batch has heard of the outcome.
VARIABLES phase, outcome, counted

vars == <<phase, outcome, counted>>

Undecided == "undecided"

Init ==
    /\ phase = [d \in Docs |-> "waiting"]
    /\ outcome = [d \in Docs |-> Undecided]
    /\ counted = [d \in Docs |-> 0]

Take(d) ==
    /\ phase[d] = "waiting"
    /\ phase' = [phase EXCEPT ![d] = "working"]
    /\ UNCHANGED <<outcome, counted>>

Resolve(d) ==
    /\ phase[d] \in {"waiting", "working"}
    /\ phase' = [phase EXCEPT ![d] = "resolved"]
    /\ \E o \in Outcomes : outcome' = [outcome EXCEPT ![d] = o]
    /\ UNCHANGED counted

Count(d) ==
    /\ counted[d] = 0
    /\ phase[d] \in {"resolved", "deleted"}
    /\ counted' = [counted EXCEPT ![d] = @ + 1]
    /\ UNCHANGED <<phase, outcome>>

\* The record keeps only that it was deleted.
Delete(d) ==
    /\ phase[d] = "resolved"
    /\ phase' = [phase EXCEPT ![d] = "deleted"]
    /\ outcome' = [outcome EXCEPT ![d] = Undecided]
    /\ UNCHANGED counted

Next == \E d \in Docs : Take(d) \/ Resolve(d) \/ Count(d) \/ Delete(d)

Spec == Init /\ [][Next]_vars
=============================================================================
