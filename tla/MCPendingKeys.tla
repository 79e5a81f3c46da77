----------------------------- MODULE MCPendingKeys -----------------------------
(***************************************************************************)
(* Instances of the pending key queue for model checking.                  *)
(***************************************************************************)
EXTENDS PendingKeys, TLC

Symmetry ==
    Permutations(PendingId) \cup Permutations(Device) \cup Permutations(Confirm)
===============================================================================
