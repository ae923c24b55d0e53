---------------------------- MODULE MCOrderLedger ----------------------------
(***************************************************************************)
(* Finite instances of OrderLedger: the functions its constants need, and  *)
(* the symmetry of interchangeable calls and reconcilers.                  *)
(***************************************************************************)
EXTENDS OrderLedger, TLC

CONSTANTS i1    \* the client order id every call uses

OneId == [q \in Requests |-> i1]
LegOfOne == [l \in Legs |-> i1]
Symmetry == Permutations(Requests) \union Permutations(Reconcilers)
=============================================================================
