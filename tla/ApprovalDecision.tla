---------------------------- MODULE ApprovalDecision ----------------------------
(***************************************************************************)
(* What the approval store promises, without mutexes, timers, channels or  *)
(* a signing step: every request is decided at most once, by a grantor or  *)
(* from the grant of an earlier request with the same lookup key, and what *)
(* a client is told is that decision.                                      *)
(***************************************************************************)
EXTENDS Naturals

CONSTANTS
    Tx,        \* requests
    Client,    \* calls that wait for a decision
    Key,       \* lookup keys
    Human,     \* approvers whose grants can be reused
    Nobody,    \* grantor of an undecided, refused or reused request
    AutoGrant, \* whether requests are granted without a human (dev)
    NoKey, NoTx

VARIABLES
    dec,       \* the request and its decision
    told       \* what each client was told

Unmade == [phase |-> "none", key |-> NoKey, reusable |-> FALSE,
           grantor |-> Nobody, until |-> 0]
NotTold == [tx |-> NoTx, phase |-> "none", until |-> 0]

Init ==
    /\ dec = [t \in Tx |-> Unmade]
    /\ told = [c \in Client |-> NotTold]

Open(t) ==
    /\ dec[t] = Unmade
    /\ \E k \in Key, r \in BOOLEAN :
         dec' = [dec EXCEPT ![t] = [phase |-> "open", key |-> k, reusable |-> r,
                                    grantor |-> Nobody, until |-> 0]]
    /\ UNCHANGED told

\* The grant may last until any time.
Grant(t) ==
    /\ dec[t].phase = "open"
    /\ dec'[t].until \in Nat
    /\ \E g \in Human \cup (IF AutoGrant THEN {Nobody} ELSE {}) :
         dec' = [dec EXCEPT ![t] = [phase |-> "granted", key |-> dec[t].key,
                                    reusable |-> dec[t].reusable, grantor |-> g,
                                    until |-> dec'[t].until]]
    /\ UNCHANGED told

Refuse(t) ==
    /\ dec[t].phase = "open"
    /\ dec' = [dec EXCEPT ![t].phase = "refused"]
    /\ UNCHANGED told

\* A new request is granted by reusing the grant a human gave to s.
Reuse(t, s) ==
    /\ dec[t] = Unmade
    /\ dec[s].phase = "granted" /\ dec[s].grantor \in Human /\ dec[s].reusable
    /\ dec' = [dec EXCEPT ![t] = [phase |-> "granted", key |-> dec[s].key,
                                  reusable |-> TRUE, grantor |-> Nobody,
                                  until |-> dec[s].until]]
    /\ UNCHANGED told

Tell(c, t) ==
    /\ told[c] = NotTold
    /\ dec[t].phase \in {"granted", "refused"}
    /\ told' = [told EXCEPT ![c] = [tx |-> t, phase |-> dec[t].phase,
                                    until |-> dec[t].until]]
    /\ UNCHANGED dec

Next ==
    \/ \E t \in Tx : Open(t) \/ Grant(t) \/ Refuse(t)
    \/ \E t, s \in Tx : Reuse(t, s)
    \/ \E c \in Client, t \in Tx : Tell(c, t)

Spec == Init /\ [][Next]_<<dec, told>>
===============================================================================
