----------------------------- MODULE MCLoadLimiter -----------------------------
(***************************************************************************)
(* Instances of the load limiter for model checking.                       *)
(***************************************************************************)
EXTENDS LoadLimiter, TLC

Symmetry == Permutations(Request) \cup Permutations(Device)
===============================================================================
