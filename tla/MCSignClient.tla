------------------------------ MODULE MCSignClient ------------------------------
(***************************************************************************)
(* One call of the SDK, and the checks its body passes, over every request *)
(* that two hosts with a session each and two hosted keys allow.           *)
(***************************************************************************)
EXTENDS SignClient, SignChecks, TLC

CONSTANTS h1, h2, s1, s2

HostsOfSessions == (s1 :> h1) @@ (s2 :> h2)
===============================================================================
