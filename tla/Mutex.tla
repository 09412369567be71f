------------------------------- MODULE Mutex -------------------------------
(***************************************************************************)
(* What _locked (public_scores.py) promises its callers: one process at a  *)
(* time is inside, and it is inside until it leaves or dies.               *)
(***************************************************************************)
CONSTANT Procs

VARIABLE inside     \* SUBSET Procs

Init == inside = {}

Enter(p) == inside = {} /\ inside' = {p}

Leave(p) == p \in inside /\ inside' = inside \ {p}

(* The machine goes down.                                                  *)
Clear == inside' = {}

Next == (\E p \in Procs : Enter(p) \/ Leave(p)) \/ Clear

Spec == Init /\ [][Next]_inside

MutualExclusion == \A p, q \in inside : p = q
=============================================================================
