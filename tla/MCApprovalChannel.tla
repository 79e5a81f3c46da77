--------------------------- MODULE MCApprovalChannel ---------------------------
(***************************************************************************)
(* Instances of the approval channel for model checking: a group chat, one *)
(* allowed user and one who is not.                                        *)
(***************************************************************************)
EXTENDS ApprovalChannel

Group == -1
===============================================================================
