-------------------------- MODULE MCLiveActivation --------------------------
(***************************************************************************)
(* A small instance of LiveActivation: the owner, an operator, and an      *)
(* admin, who may act in the operator's and in the reviewer's place.       *)
(***************************************************************************)
EXTENDS LiveActivation, TLC

CONSTANTS owner, operator, admin

Staff == {owner, operator, admin}

RoleOf == (owner :> "user") @@ (operator :> "operator") @@ (admin :> "admin")

Symmetry == Permutations(Activations) \union Permutations(Approvals)
=============================================================================
