----------------------------- MODULE MCReplayCache -----------------------------
(***************************************************************************)
(* Instances of the replay cache for model checking: bodies that share one *)
(* timestamp.                                                              *)
(***************************************************************************)
EXTENDS ReplayCache, TLC

CONSTANT BodyId

Bodies == [id : BodyId, ts : {1}]

Symmetry == Permutations(Request) \cup Permutations(BodyId)
===============================================================================
