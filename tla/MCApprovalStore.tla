---------------------------- MODULE MCApprovalStore ----------------------------
(***************************************************************************)
(* Instances of the approval store for model checking.                     *)
(***************************************************************************)
EXTENDS ApprovalStore, TLC

Symmetry ==
    Permutations(Tx) \cup Permutations(Waiter) \cup Permutations(Call)
    \cup Permutations(LookupKey) \cup Permutations(Approver)
===============================================================================
