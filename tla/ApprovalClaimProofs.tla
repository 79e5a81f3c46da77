-------------------------- MODULE ApprovalClaimProofs --------------------------
(***************************************************************************)
(* The invariant of the approval store is inductive: what a step does to   *)
(* approvals, transactions, sign requests, waiters and timers, and that    *)
(* claims stay single and leases and credentials earned.                   *)
(***************************************************************************)
EXTENDS ApprovalTypeProofs

(***************************************************************************)
(* Calls of approveWithIssuer.                                             *)
(***************************************************************************)

\* The steps a call can make.
CallMove(c) ==
    \/ call'[c] = call[c]
    \/ call'[c].pc = "idle"
    \/ /\ call[c].pc = "idle" /\ call'[c].pc = "start"
       /\ call'[c].tx \in Tx /\ state'[call'[c].tx] # "none"
       /\ Env # "dev" => call'[c].approver \in Approver
    \/ /\ call[c].pc = "start" /\ call'[c].pc = "claimed"
       /\ call'[c].tx = call[c].tx /\ call'[c].approver = call[c].approver
       /\ \A d \in Call \ {c} : call'[d] = call[d]
       /\ Undecided(call[c].tx, "pending")
       /\ state'[call[c].tx] = "approving"
       /\ result'[call[c].tx] = NoResult
       /\ claimedBy'[call[c].tx] = call[c].approver
    \/ /\ <<call[c].pc, call'[c].pc>> \in
             {<<"claimed", "signing">>, <<"signing", "issued">>, <<"signing", "failed">>}
       /\ call'[c].tx = call[c].tx /\ call'[c].approver = call[c].approver
    \/ /\ call[c].pc = "issued" /\ call'[c].pc = "put"
       /\ call'[c].tx = call[c].tx /\ call'[c].approver = call[c].approver
       /\ call'[c].until = call[c].until
       /\ call[c].approver # NoApprover
       /\ ~handler[call[c].tx].disableLease
       /\ UNCHANGED <<handler, claimedBy>>
       /\ state'[call[c].tx] = "approved"
       /\ result'[call[c].tx] = Credential(call[c].until, call[c].until)

\* Every step moves each call as CallMove says.
LEMMA CallsMove ==
    ASSUME Inv, [Next]_vars, NEW e \in Call
    PROVE  CallMove(e)
<1>a. call \in [Call -> CallRec] /\ state \in [Tx -> State] /\ call[e] \in CallRec
      /\ result \in [Tx -> Result] /\ claimedBy \in [Tx -> Approver \cup {NoApprover}]
  BY DEF Inv, TypeOK
<1>b. \A c \in Call : call[c].pc # "idle" => call[c].tx \in Tx
  BY DEF Inv, CallsNameTx
<1>1. ASSUME NEW t \in Tx, CreateBound(t)
      PROVE  CallMove(e)
  BY <1>a, <1>b, <1>1 DEF CreateBound, CallMove, CallRec, IdleCall
<1>2. ASSUME NEW c \in Call, NEW t \in Tx, NEW ttl \in TTL, NEW a \in Approver,
             Approve(c, t, ttl, a)
      PROVE  CallMove(e)
  BY <1>a, <1>b, <1>2 DEF Approve, CallMove, CallRec, IdleCall, txVars
<1>3. ASSUME NEW c \in Call, ClaimApproval(c)
      PROVE  CallMove(e)
  BY <1>a, <1>b, <1>3 DEF ClaimApproval, CallMove, CallRec, IdleCall, Undecided
<1>4. ASSUME NEW c \in Call, StampUntil(c)
      PROVE  CallMove(e)
  BY <1>a, <1>b, <1>4 DEF StampUntil, CallMove, CallRec, IdleCall, txVars
<1>5. ASSUME NEW c \in Call, IssueForTransaction(c)
      PROVE  CallMove(e)
  BY <1>a, <1>b, <1>5 DEF IssueForTransaction, CallMove, CallRec, IdleCall, txVars
<1>6. ASSUME NEW c \in Call, FinishApproved(c)
      PROVE  CallMove(e)
  BY <1>a, <1>b, <1>6 DEF FinishApproved, CallMove, CallRec, IdleCall,
     Undecided, FinishLocked
<1>7. ASSUME NEW c \in Call, FinishFailed(c)
      PROVE  CallMove(e)
  BY <1>a, <1>b, <1>7 DEF FinishFailed, CallMove, CallRec, IdleCall
<1>8. ASSUME NEW c \in Call, LeasePut(c)
      PROVE  CallMove(e)
  BY <1>a, <1>b, <1>8 DEF LeasePut, CallMove, CallRec, IdleCall, txVars
<1>9. ASSUME NEW t \in Tx, NEW k \in LookupKey, NEW direct \in BOOLEAN, SignRequest(t, k, direct)
      PROVE  CallMove(e)
  BY <1>9 DEF SignRequest, CallMove
<1>10. ASSUME NEW t \in Tx, LeaseLookup(t)
      PROVE  CallMove(e)
  BY <1>10 DEF LeaseLookup, CallMove
<1>11. ASSUME NEW t \in Tx, LeaseRemaining(t)
      PROVE  CallMove(e)
  BY <1>11 DEF LeaseRemaining, CallMove
<1>12. ASSUME NEW t \in Tx, LeaseIssue(t)
      PROVE  CallMove(e)
  BY <1>12 DEF LeaseIssue, CallMove
<1>13. ASSUME NEW t \in Tx, CreateInstantApproved(t)
      PROVE  CallMove(e)
  BY <1>13 DEF CreateInstantApproved, CallMove
<1>14. ASSUME NEW t \in Tx, Deny(t)
      PROVE  CallMove(e)
  BY <1>14 DEF Deny, CallMove
<1>15. ASSUME NEW t \in Tx, TimerFire(t)
      PROVE  CallMove(e)
  BY <1>15 DEF TimerFire, CallMove
<1>16. ASSUME NEW t \in Tx, Expire(t)
      PROVE  CallMove(e)
  BY <1>16 DEF Expire, CallMove
<1>17. ASSUME NEW w \in Waiter, NEW t \in Tx, WaitResult(w, t)
      PROVE  CallMove(e)
  BY <1>17 DEF WaitResult, CallMove
<1>18. ASSUME NEW w \in Waiter, WaitReceive(w)
      PROVE  CallMove(e)
  BY <1>18 DEF WaitReceive, CallMove
<1>19. ASSUME NEW w \in Waiter, WaitRemove(w)
      PROVE  CallMove(e)
  BY <1>19 DEF WaitRemove, CallMove
<1>20. ASSUME NEW w \in Waiter, CancelWait(w)
      PROVE  CallMove(e)
  BY <1>20 DEF CancelWait, CallMove
<1>21. CASE LoadOrRemoveSigner
  BY <1>21 DEF LoadOrRemoveSigner, CallMove
<1>22. CASE LeaseStep
  BY <1>22 DEF LeaseStep, CallMove
<1>23. CASE UNCHANGED vars
  BY <1>23 DEF vars, CallMove
<1> QED
  BY <1>1, <1>2, <1>3, <1>4, <1>5, <1>6, <1>7, <1>8, <1>9, <1>10, <1>11, <1>12,
     <1>13, <1>14, <1>15, <1>16, <1>17, <1>18, <1>19, <1>20, <1>21, <1>22, <1>23
     DEF Next, HandlerStep, CallStep

\* A running call keeps naming a created transaction.
LEMMA CallsNameTxPreserved ==
    ASSUME Inv, [Next]_vars
    PROVE  CallsNameTx'
<1> SUFFICES ASSUME NEW c \in Call, call'[c].pc # "idle"
             PROVE  /\ call'[c].tx \in Tx
                    /\ state'[call'[c].tx] # "none"
                    /\ Env # "dev" => call'[c].approver \in Approver
  BY DEF CallsNameTx
<1>1. CallMove(c)
  BY CallsMove
<1>2. CASE call[c].pc # "idle"
  <2>1. /\ call[c].tx \in Tx /\ state[call[c].tx] # "none"
        /\ Env # "dev" => call[c].approver \in Approver
    BY <1>2 DEF Inv, CallsNameTx
  <2>2. state'[call[c].tx] # "none"
    BY <2>1, CreatedStays
  <2>3. call'[c].tx = call[c].tx /\ call'[c].approver = call[c].approver
    BY <1>1, <1>2 DEF CallMove
  <2> QED
    BY <2>1, <2>2, <2>3
<1>3. CASE call[c].pc = "idle"
  BY <1>1, <1>3 DEF CallMove
<1> QED
  BY <1>2, <1>3

\* The transaction of a claim stays claimed while the call holds the claim.
LEMMA ClaimKept ==
    ASSUME Inv, [Next]_vars, NEW e \in Call, InClaim(e), InClaim(e)'
    PROVE  /\ state'[call[e].tx] = "approving"
           /\ result'[call[e].tx] = NoResult
           /\ claimedBy'[call[e].tx] = call[e].approver
<1> DEFINE s == call[e].tx
           Kept == /\ state'[s] = "approving"
                   /\ result'[s] = NoResult
                   /\ claimedBy'[s] = call[e].approver
<1>a. /\ s \in Tx /\ state[s] = "approving" /\ result[s] = NoResult
      /\ claimedBy[s] = call[e].approver
  BY DEF Inv, CallsNameTx, SingleClaim, InClaim
<1>b. /\ state \in [Tx -> State] /\ result \in [Tx -> Result]
      /\ claimedBy \in [Tx -> Approver \cup {NoApprover}]
      /\ call \in [Call -> CallRec]
  BY DEF Inv, TypeOK
<1>c. handler[s].pc = "done"
  BY <1>a DEF Inv, Lifecycle, LifecycleOf
<1>d. \A c \in Call : InClaim(c) /\ call[c].tx = s => c = e
  BY DEF Inv, SingleClaim
<1>e. SUFFICES Kept
  OBVIOUS
<1>1. ASSUME NEW t \in Tx, NEW k \in LookupKey, NEW direct \in BOOLEAN, SignRequest(t, k, direct)
      PROVE  Kept
  BY <1>a, <1>b, <1>1 DEF SignRequest, txVars
<1>2. ASSUME NEW t \in Tx, LeaseLookup(t)
      PROVE  Kept
  BY <1>a, <1>b, <1>2 DEF LeaseLookup, txVars
<1>3. ASSUME NEW t \in Tx, LeaseRemaining(t)
      PROVE  Kept
  BY <1>a, <1>b, <1>3 DEF LeaseRemaining, txVars
<1>4. ASSUME NEW t \in Tx, LeaseIssue(t)
      PROVE  Kept
  BY <1>a, <1>b, <1>4 DEF LeaseIssue, txVars
<1>5. ASSUME NEW t \in Tx, CreateInstantApproved(t)
      PROVE  Kept
  BY <1>a, <1>b, <1>c, <1>5 DEF CreateInstantApproved
<1>6. ASSUME NEW t \in Tx, CreateBound(t)
      PROVE  Kept
  BY <1>a, <1>b, <1>c, <1>6 DEF CreateBound
<1>7. ASSUME NEW c \in Call, NEW t \in Tx, NEW ttl \in TTL, NEW a \in Approver,
             Approve(c, t, ttl, a)
      PROVE  Kept
  BY <1>a, <1>b, <1>7 DEF Approve, txVars
<1>8. ASSUME NEW c \in Call, ClaimApproval(c)
      PROVE  Kept
  BY <1>a, <1>b, <1>8 DEF ClaimApproval, Undecided, txVars
<1>9. ASSUME NEW c \in Call, StampUntil(c)
      PROVE  Kept
  BY <1>a, <1>b, <1>9 DEF StampUntil, txVars
<1>10. ASSUME NEW c \in Call, IssueForTransaction(c)
      PROVE  Kept
  BY <1>a, <1>b, <1>10 DEF IssueForTransaction, txVars
<1>11. ASSUME NEW c \in Call, FinishApproved(c)
      PROVE  Kept
  <2>1. call[c].tx # s
    BY <1>a, <1>b, <1>d, <1>11 DEF FinishApproved, InClaim, IdleCall, CallRec
  <2> QED
    BY <1>a, <1>b, <1>11, <2>1 DEF FinishApproved, FinishLocked
<1>12. ASSUME NEW c \in Call, FinishFailed(c)
      PROVE  Kept
  <2>1. call[c].tx # s
    BY <1>a, <1>b, <1>d, <1>12 DEF FinishFailed, InClaim, IdleCall, CallRec
  <2> QED
    BY <1>a, <1>b, <1>12, <2>1 DEF FinishFailed, FinishLocked
<1>13. ASSUME NEW c \in Call, LeasePut(c)
      PROVE  Kept
  BY <1>a, <1>b, <1>13 DEF LeasePut, txVars
<1>14. ASSUME NEW t \in Tx, Deny(t)
      PROVE  Kept
  BY <1>a, <1>b, <1>14 DEF Deny, Undecided, FinishLocked, txVars
<1>15. ASSUME NEW t \in Tx, TimerFire(t)
      PROVE  Kept
  BY <1>a, <1>b, <1>15 DEF TimerFire, txVars
<1>16. ASSUME NEW t \in Tx, Expire(t)
      PROVE  Kept
  BY <1>a, <1>b, <1>16 DEF Expire, Undecided, FinishLocked, txVars
<1>17. ASSUME NEW w \in Waiter, NEW t \in Tx, WaitResult(w, t)
      PROVE  Kept
  BY <1>a, <1>b, <1>17 DEF WaitResult, txVars
<1>18. ASSUME NEW w \in Waiter, WaitReceive(w)
      PROVE  Kept
  BY <1>a, <1>b, <1>18 DEF WaitReceive, txVars
<1>19. ASSUME NEW w \in Waiter, WaitRemove(w)
      PROVE  Kept
  BY <1>a, <1>b, <1>19 DEF WaitRemove, txVars
<1>20. ASSUME NEW w \in Waiter, CancelWait(w)
      PROVE  Kept
  BY <1>a, <1>b, <1>20 DEF CancelWait, txVars
<1>21. CASE LoadOrRemoveSigner
  BY <1>a, <1>b, <1>21 DEF LoadOrRemoveSigner, txVars
<1>22. CASE LeaseStep
  BY <1>a, <1>b, <1>22 DEF LeaseStep, txVars
<1>23. CASE UNCHANGED vars
  BY <1>a, <1>23 DEF vars, txVars
<1> QED
  BY Zenon, <1>1, <1>2, <1>3, <1>4, <1>5, <1>6, <1>7, <1>8, <1>9, <1>10, <1>11,
     <1>12, <1>13, <1>14, <1>15, <1>16, <1>17, <1>18, <1>19, <1>20, <1>21,
     <1>22, <1>23 DEF Next, HandlerStep, CallStep

\* At most one call works on a transaction, before and after every step.
LEMMA SingleClaimPreserved ==
    ASSUME Inv, [Next]_vars
    PROVE  SingleClaim'
<1> DEFINE Busy(c) == InClaim(c) \/ call[c].pc = "put"
<1>a. \A c \in Call : CallMove(c)
  BY CallsMove
<1>1. ASSUME NEW c \in Call, InClaim(c)'
      PROVE  /\ state'[call'[c].tx] = "approving"
             /\ result'[call'[c].tx] = NoResult
             /\ claimedBy'[call'[c].tx] = call'[c].approver
  <2>1. CASE InClaim(c)
    <3>1. call'[c].tx = call[c].tx /\ call'[c].approver = call[c].approver
      BY <1>1, <1>a, <2>1 DEF CallMove, InClaim
    <3> QED
      BY <1>1, <2>1, <3>1, ClaimKept
  <2>2. CASE ~InClaim(c)
    BY <1>1, <1>a, <2>2 DEF CallMove, InClaim
  <2> QED
    BY <2>1, <2>2
<1>2. \A c \in Call : Busy(c)' => \/ Busy(c) /\ call'[c].tx = call[c].tx
                                 \/ /\ call[c].pc = "start" /\ call'[c].pc = "claimed"
                                    /\ call'[c].tx = call[c].tx
                                    /\ \A d \in Call \ {c} : call'[d] = call[d]
                                    /\ Undecided(call[c].tx, "pending")
  BY <1>a DEF CallMove, InClaim
<1>3. \A c \in Call : Busy(c) => state[call[c].tx] \in {"approving", "approved"}
  BY DEF Inv, SingleClaim, PutIsEarned, GaveLease
<1>4. ASSUME NEW c \in Call, NEW d \in Call, Busy(c)', Busy(d)', call'[c].tx = call'[d].tx
      PROVE  c = d
  <2>1. CASE Busy(c) /\ Busy(d)
    <3>1. call[c].tx = call[d].tx
      BY <1>2, <1>4, <2>1 DEF InClaim
    <3> QED
      BY <2>1, <3>1 DEF Inv, SingleClaim
  <2>2. CASE ~(Busy(c) /\ Busy(d))
    BY <1>2, <1>3, <1>4, <2>2 DEF Undecided, InClaim
  <2> QED
    BY <2>1, <2>2
<1> QED
  BY <1>1, <1>4 DEF SingleClaim

\* A call that reaches Put has just published its approval, or published it
\* before and the approval has not changed.
LEMMA PutIsEarnedPreserved ==
    ASSUME Inv, [Next]_vars
    PROVE  PutIsEarned'
<1> SUFFICES ASSUME NEW c \in Call, call'[c].pc = "put"
             PROVE  /\ GaveLease(call[c].tx, handler[call[c].tx].key, call[c].until)'
                    /\ claimedBy'[call'[c].tx] = call'[c].approver
  BY DEF PutIsEarned
<1>1. CallMove(c)
  BY CallsMove
<1>2. CASE call[c].pc = "put"
  <2>1. call'[c] = call[c]
    BY <1>1, <1>2 DEF CallMove
  <2>2. call[c].tx \in Tx
    BY <1>2 DEF Inv, CallsNameTx
  <2>3. GaveLease(call[c].tx, handler[call[c].tx].key, call[c].until)
        /\ claimedBy[call[c].tx] = call[c].approver
    BY <1>2 DEF Inv, PutIsEarned
  <2>4. state[call[c].tx] \in Terminal
    BY <2>3 DEF GaveLease, Terminal
  <2> QED
    BY <2>1, <2>2, <2>3, <2>4, SettledStays DEF GaveLease
<1>3. CASE call[c].pc # "put"
  <2>1. /\ call[c].pc = "issued" /\ call[c].approver # NoApprover
        /\ call'[c].tx = call[c].tx /\ call'[c].approver = call[c].approver
        /\ call'[c].until = call[c].until
        /\ ~handler[call[c].tx].disableLease
        /\ UNCHANGED <<handler, claimedBy>>
        /\ state'[call[c].tx] = "approved"
        /\ result'[call[c].tx] = Credential(call[c].until, call[c].until)
    BY <1>1, <1>3 DEF CallMove
  <2>2. claimedBy[call[c].tx] = call[c].approver
    BY <2>1 DEF Inv, SingleClaim, InClaim
  <2>3. call[c].approver \in Approver
    BY <2>1 DEF Inv, TypeOK, CallRec
  <2> QED
    BY <2>1, <2>2, <2>3 DEF GaveLease, Credential
<1> QED
  BY <1>2, <1>3

-------------------------------------------------------------------------------
(***************************************************************************)
(* How a transaction, and the request behind it, moves.                    *)
(***************************************************************************)

\* The transitions of one transaction: its state machine in the source.
TxMove(t) ==
    \/ /\ state'[t] = state[t] /\ result'[t] = result[t] /\ claimedBy'[t] = claimedBy[t]
    \/ /\ state[t] = "none" /\ handler[t].pc = "create"
       /\ state'[t] = "pending" /\ result'[t] = result[t] /\ claimedBy'[t] = claimedBy[t]
    \/ /\ state[t] = "none" /\ handler[t].pc = "instant"
       /\ state'[t] = "approved" /\ claimedBy'[t] = claimedBy[t]
       /\ result'[t] = Credential(handler[t].span, handler[t].leaseExp)
    \/ /\ state[t] = "pending" /\ state'[t] = "approving" /\ result'[t] = result[t]
    \/ /\ state[t] = "pending" /\ state'[t] = "denied" /\ result'[t] = Err("denied")
    \/ /\ state[t] = "pending" /\ state'[t] = "expired" /\ result'[t] = Err("timeout")
    \/ /\ state[t] = "approving" /\ state'[t] = "denied" /\ result'[t] = Err("signerr")
    \/ /\ state[t] = "approving" /\ state'[t] = "approved" /\ claimedBy'[t] = claimedBy[t]
       /\ \E c \in Call : /\ call[c].pc = "issued" /\ call[c].tx = t
                          /\ result'[t] = Credential(call[c].until, call[c].until)

\* Every step moves each transaction as TxMove says.
LEMMA TxsMove ==
    ASSUME Inv, [Next]_vars, NEW u \in Tx
    PROVE  TxMove(u)
<1>a. /\ state \in [Tx -> State] /\ result \in [Tx -> Result]
      /\ claimedBy \in [Tx -> Approver \cup {NoApprover}]
  BY DEF Inv, TypeOK
<1>b. handler[u].pc # "done" <=> state[u] = "none"
  BY SMTT(20) DEF Inv, Lifecycle, LifecycleOf
<1>1. ASSUME NEW t \in Tx, NEW k \in LookupKey, NEW direct \in BOOLEAN, SignRequest(t, k, direct)
      PROVE  TxMove(u)
  BY <1>1 DEF SignRequest, TxMove, txVars
<1>2. ASSUME NEW t \in Tx, LeaseLookup(t)
      PROVE  TxMove(u)
  BY <1>2 DEF LeaseLookup, TxMove, txVars
<1>3. ASSUME NEW t \in Tx, LeaseRemaining(t)
      PROVE  TxMove(u)
  BY <1>3 DEF LeaseRemaining, TxMove, txVars
<1>4. ASSUME NEW t \in Tx, LeaseIssue(t)
      PROVE  TxMove(u)
  BY <1>4 DEF LeaseIssue, TxMove, txVars
<1>5. ASSUME NEW t \in Tx, CreateInstantApproved(t)
      PROVE  TxMove(u)
  BY <1>a, <1>b, <1>5 DEF CreateInstantApproved, TxMove
<1>6. ASSUME NEW t \in Tx, CreateBound(t)
      PROVE  TxMove(u)
  BY <1>a, <1>b, <1>6 DEF CreateBound, TxMove
<1>7. ASSUME NEW c \in Call, NEW t \in Tx, NEW ttl \in TTL, NEW a \in Approver,
             Approve(c, t, ttl, a)
      PROVE  TxMove(u)
  BY <1>7 DEF Approve, TxMove, txVars
<1>8. ASSUME NEW c \in Call, ClaimApproval(c)
      PROVE  TxMove(u)
  BY <1>a, <1>8 DEF ClaimApproval, Undecided, TxMove
<1>9. ASSUME NEW c \in Call, StampUntil(c)
      PROVE  TxMove(u)
  BY <1>9 DEF StampUntil, TxMove, txVars
<1>10. ASSUME NEW c \in Call, IssueForTransaction(c)
      PROVE  TxMove(u)
  BY <1>10 DEF IssueForTransaction, TxMove, txVars
<1>11. ASSUME NEW c \in Call, FinishApproved(c)
      PROVE  TxMove(u)
  BY <1>a, <1>11, SMTT(20) DEF FinishApproved, Undecided, FinishLocked, TxMove
<1>12. ASSUME NEW c \in Call, FinishFailed(c)
      PROVE  TxMove(u)
  BY <1>a, <1>12 DEF FinishFailed, Undecided, FinishLocked, TxMove
<1>13. ASSUME NEW c \in Call, LeasePut(c)
      PROVE  TxMove(u)
  BY <1>13, SMTT(20) DEF LeasePut, TxMove, txVars
<1>14. ASSUME NEW t \in Tx, Deny(t)
      PROVE  TxMove(u)
  BY <1>a, <1>14 DEF Deny, Undecided, FinishLocked, TxMove
<1>15. ASSUME NEW t \in Tx, TimerFire(t)
      PROVE  TxMove(u)
  BY <1>15 DEF TimerFire, TxMove, txVars
<1>16. ASSUME NEW t \in Tx, Expire(t)
      PROVE  TxMove(u)
  BY <1>a, <1>16, SMTT(20) DEF Expire, Undecided, FinishLocked, TxMove
<1>17. ASSUME NEW w \in Waiter, NEW t \in Tx, WaitResult(w, t)
      PROVE  TxMove(u)
  BY <1>17 DEF WaitResult, TxMove, txVars
<1>18. ASSUME NEW w \in Waiter, WaitReceive(w)
      PROVE  TxMove(u)
  BY <1>18 DEF WaitReceive, TxMove, txVars
<1>19. ASSUME NEW w \in Waiter, WaitRemove(w)
      PROVE  TxMove(u)
  BY <1>19 DEF WaitRemove, TxMove, txVars
<1>20. ASSUME NEW w \in Waiter, CancelWait(w)
      PROVE  TxMove(u)
  BY <1>20 DEF CancelWait, TxMove, txVars
<1>21. CASE LoadOrRemoveSigner
  BY <1>21 DEF LoadOrRemoveSigner, TxMove, txVars
<1>22. CASE LeaseStep
  BY <1>22 DEF LeaseStep, TxMove, txVars
<1>23. CASE UNCHANGED vars
  BY <1>23, SMTT(20) DEF vars, txVars, TxMove
<1> QED
  BY <1>1, <1>2, <1>3, <1>4, <1>5, <1>6, <1>7, <1>8, <1>9, <1>10, <1>11, <1>12,
     <1>13, <1>14, <1>15, <1>16, <1>17, <1>18, <1>19, <1>20, <1>21, <1>22, <1>23
     DEF Next, HandlerStep, CallStep

\* The transitions of one sign request.
HandlerMove(t) ==
    \/ handler'[t] = handler[t]
    \/ /\ handler[t].pc = "idle" /\ handler'[t].pc = "lookup" /\ ~handler'[t].disableLease
    \/ /\ handler[t].pc = "idle" /\ handler'[t].pc = "create"
    \/ /\ handler'[t].key = handler[t].key
       /\ handler'[t].disableLease = handler[t].disableLease
       /\ \/ /\ handler[t].pc \notin {"idle", "done"}
             /\ handler'[t].pc \in {"create", "done"}
          \/ /\ handler[t].pc = "lookup" /\ handler'[t].pc = "hit"
             /\ \E k \in FindActive(handler[t].key) : handler'[t].leaseExp = leases[k]
          \/ /\ \/ handler[t].pc = "hit" /\ handler'[t].pc = "issue"
                \/ handler[t].pc = "issue" /\ handler'[t].pc = "instant"
             /\ handler'[t].leaseExp = handler[t].leaseExp

\* Every step moves each request as HandlerMove says.
LEMMA HandlersMove ==
    ASSUME Inv, [Next]_vars, NEW u \in Tx
    PROVE  HandlerMove(u)
<1>a. handler \in [Tx -> Handler] /\ handler[u] \in Handler
  BY DEF Inv, TypeOK
<1>1. ASSUME NEW t \in Tx, NEW k \in LookupKey, NEW direct \in BOOLEAN, SignRequest(t, k, direct)
      PROVE  HandlerMove(u)
  BY <1>a, <1>1 DEF SignRequest, HandlerMove, Handler
<1>2. ASSUME NEW t \in Tx, LeaseLookup(t)
      PROVE  HandlerMove(u)
  <2>1. CASE handler' = [handler EXCEPT ![t].pc = "create"]
    BY Zenon, <1>a, <1>2, <2>1 DEF LeaseLookup, HandlerMove, Handler
  <2>2. ASSUME NEW k \in FindActive(handler[t].key),
               handler' = [handler EXCEPT ![t].pc = "hit", ![t].leaseExp = leases[k]]
        PROVE  HandlerMove(u)
    BY Zenon, <1>a, <1>2, <2>2 DEF LeaseLookup, HandlerMove, Handler
  <2> QED
    BY <1>2, <2>1, <2>2 DEF LeaseLookup
<1>3. ASSUME NEW t \in Tx, LeaseRemaining(t)
      PROVE  HandlerMove(u)
  BY <1>a, <1>3 DEF LeaseRemaining, HandlerMove, Handler
<1>4. ASSUME NEW t \in Tx, LeaseIssue(t)
      PROVE  HandlerMove(u)
  BY <1>a, <1>4 DEF LeaseIssue, HandlerMove, Handler
<1>5. ASSUME NEW t \in Tx, CreateInstantApproved(t)
      PROVE  HandlerMove(u)
  BY <1>a, <1>5 DEF CreateInstantApproved, HandlerMove, Handler
<1>6. ASSUME NEW t \in Tx, CreateBound(t)
      PROVE  HandlerMove(u)
  BY <1>a, <1>6, SMTT(20) DEF CreateBound, HandlerMove, Handler
<1>7. ASSUME NEW c \in Call, NEW t \in Tx, NEW ttl \in TTL, NEW a \in Approver,
             Approve(c, t, ttl, a)
      PROVE  HandlerMove(u)
  BY <1>7 DEF Approve, HandlerMove
<1>8. ASSUME NEW c \in Call, ClaimApproval(c)
      PROVE  HandlerMove(u)
  BY <1>8 DEF ClaimApproval, HandlerMove
<1>9. ASSUME NEW c \in Call, StampUntil(c)
      PROVE  HandlerMove(u)
  BY <1>9 DEF StampUntil, HandlerMove
<1>10. ASSUME NEW c \in Call, IssueForTransaction(c)
      PROVE  HandlerMove(u)
  BY <1>10 DEF IssueForTransaction, HandlerMove
<1>11. ASSUME NEW c \in Call, FinishApproved(c)
      PROVE  HandlerMove(u)
  BY <1>11, SMTT(20) DEF FinishApproved, HandlerMove
<1>12. ASSUME NEW c \in Call, FinishFailed(c)
      PROVE  HandlerMove(u)
  BY <1>12, SMTT(20) DEF FinishFailed, HandlerMove
<1>13. ASSUME NEW c \in Call, LeasePut(c)
      PROVE  HandlerMove(u)
  BY <1>13, SMTT(20) DEF LeasePut, HandlerMove
<1>14. ASSUME NEW t \in Tx, Deny(t)
      PROVE  HandlerMove(u)
  BY <1>14 DEF Deny, HandlerMove
<1>15. ASSUME NEW t \in Tx, TimerFire(t)
      PROVE  HandlerMove(u)
  BY <1>15 DEF TimerFire, HandlerMove
<1>16. ASSUME NEW t \in Tx, Expire(t)
      PROVE  HandlerMove(u)
  BY <1>16 DEF Expire, HandlerMove
<1>17. ASSUME NEW w \in Waiter, NEW t \in Tx, WaitResult(w, t)
      PROVE  HandlerMove(u)
  BY <1>17 DEF WaitResult, HandlerMove
<1>18. ASSUME NEW w \in Waiter, WaitReceive(w)
      PROVE  HandlerMove(u)
  BY <1>18 DEF WaitReceive, HandlerMove
<1>19. ASSUME NEW w \in Waiter, WaitRemove(w)
      PROVE  HandlerMove(u)
  BY <1>19 DEF WaitRemove, HandlerMove
<1>20. ASSUME NEW w \in Waiter, CancelWait(w)
      PROVE  HandlerMove(u)
  BY <1>20 DEF CancelWait, HandlerMove
<1>21. CASE LoadOrRemoveSigner
  BY <1>21 DEF LoadOrRemoveSigner, HandlerMove
<1>22. CASE LeaseStep
  BY <1>22 DEF LeaseStep, HandlerMove
<1>23. CASE UNCHANGED vars
  BY <1>23 DEF vars, HandlerMove
<1> QED
  BY <1>1, <1>2, <1>3, <1>4, <1>5, <1>6, <1>7, <1>8, <1>9, <1>10, <1>11, <1>12,
     <1>13, <1>14, <1>15, <1>16, <1>17, <1>18, <1>19, <1>20, <1>21, <1>22, <1>23
     DEF Next, HandlerStep, CallStep

-------------------------------------------------------------------------------
(***************************************************************************)
(* Leases and credentials come from published approvals.                   *)
(***************************************************************************)

\* FindActive answers with recorded leases of the key it was asked for.
LEMMA FindActiveSound ==
    ASSUME LeaseInv, NEW l, NEW k \in FindActive(l)
    PROVE  k \in DOMAIN leases /\ k.lookup = l
BY DEF LeaseInv, IndexMatchesLeases, FindActive, Bucket

\* A request on the fast path holds a lease that was given.
LEMMA HandlerLeasePreserved ==
    ASSUME Inv, [Next]_vars
    PROVE  HandlerLease'
<1> SUFFICES ASSUME NEW t \in Tx
             PROVE  /\ handler'[t].pc \in {"lookup", "hit", "issue", "instant"} =>
                         ~handler'[t].disableLease
                    /\ handler'[t].pc \in {"hit", "issue", "instant"} =>
                         \E s \in Tx : GaveLease(s, handler[t].key, handler[t].leaseExp)'
  BY DEF HandlerLease
<1>1. HandlerMove(t)
  BY HandlersMove
<1>2. /\ handler[t].pc \in {"lookup", "hit", "issue", "instant"} =>
           ~handler[t].disableLease
      /\ handler[t].pc \in {"hit", "issue", "instant"} =>
           \E s \in Tx : GaveLease(s, handler[t].key, handler[t].leaseExp)
  BY DEF Inv, HandlerLease
<1>3. handler'[t].pc \in {"lookup", "hit", "issue", "instant"} => ~handler'[t].disableLease
  BY <1>1, <1>2 DEF HandlerMove
<1>4. ASSUME handler'[t].pc \in {"hit", "issue", "instant"}
      PROVE  \E s \in Tx : GaveLease(s, handler'[t].key, handler'[t].leaseExp)
  <2>1. CASE handler[t].pc \in {"hit", "issue", "instant"}
    BY <1>1, <1>2, <1>4, <2>1 DEF HandlerMove
  <2>2. CASE handler[t].pc \notin {"hit", "issue", "instant"}
    <3>1. PICK k \in FindActive(handler[t].key) : handler'[t].leaseExp = leases[k]
      BY <1>1, <1>4, <2>2 DEF HandlerMove
    <3>2. handler'[t].key = handler[t].key
      BY <1>1, <1>4, <2>2 DEF HandlerMove
    <3>3. k \in DOMAIN leases /\ k.lookup = handler[t].key
      BY FindActiveSound DEF Inv
    <3> QED
      BY <3>1, <3>2, <3>3 DEF Inv, LeaseOnlyFromApproval
  <2> QED
    BY <2>1, <2>2
<1>5. ASSUME handler'[t].pc \in {"hit", "issue", "instant"}
      PROVE  \E s \in Tx : GaveLease(s, handler[t].key, handler[t].leaseExp)'
  <2>1. PICK s \in Tx : GaveLease(s, handler'[t].key, handler'[t].leaseExp)
    BY <1>4, <1>5
  <2>2. state[s] \in Terminal
    BY <2>1 DEF GaveLease, Terminal
  <2> QED
    BY <2>1, <2>2, SettledStays DEF GaveLease
<1> QED
  BY <1>3, <1>5

\* Every lease keeps tracing to a published approval: a Put records one, a
\* purge only removes leases, and approvals do not change.
LEMMA LeaseOnlyFromApprovalPreserved ==
    ASSUME Inv, [Next]_vars
    PROVE  LeaseOnlyFromApproval'
<1> DEFINE Given(k, e) == \E s \in Tx : GaveLease(s, k.lookup, e) /\ claimedBy[s] = k.approver
<1>a. \A k \in DOMAIN leases : Given(k, leases[k])
  BY DEF Inv, LeaseOnlyFromApproval
<1>b. ASSUME NEW k \in DOMAIN leases'
      PROVE  Given(k, leases'[k])
  <2>1. CASE UNCHANGED <<leases, byLookup, purgeNow, now>>
    BY <1>a, <2>1, SMTT(20)
  <2>2. ASSUME NEW c \in Call, LeasePut(c)
        PROVE  Given(k, leases'[k])
    <3> DEFINE key == [lookup |-> handler[call[c].tx].key, approver |-> call[c].approver]
    <3>1. /\ DOMAIN leases' = DOMAIN leases \cup {key}
          /\ \A j \in DOMAIN leases' :
               leases'[j] = IF j = key THEN call[c].until ELSE leases[j]
      BY Zenon, <2>2 DEF LeasePut, Put
    <3>2. Given(key, call[c].until)
      BY Zenon, <2>2 DEF Inv, LeasePut, PutIsEarned, CallsNameTx
    <3> QED
      BY <1>a, <3>1, <3>2
  <2>3. CASE LeaseStep
    <3>1. k \in DOMAIN leases /\ leases'[k] = leases[k]
      BY <2>3, PurgeExpiredPreserves DEF Inv, LeaseStep, PurgeStart, Tick, leaseVars
    <3> QED
      BY <1>a, <3>1
  <2> QED
    BY <2>1, <2>2, <2>3, LeaseFrame
<1>c. ASSUME NEW k \in DOMAIN leases'
      PROVE  \E s \in Tx : GaveLease(s, k.lookup, leases[k])' /\ claimedBy'[s] = k.approver
  <2>1. PICK s \in Tx : GaveLease(s, k.lookup, leases'[k]) /\ claimedBy[s] = k.approver
    BY <1>b
  <2>2. state[s] \in Terminal
    BY <2>1 DEF GaveLease, Terminal
  <2> QED
    BY Zenon, <2>1, <2>2, SettledStays DEF GaveLease
<1> QED
  BY <1>c DEF LeaseOnlyFromApproval

\* Every credential keeps tracing to a human.
LEMMA CredentialTracesPreserved ==
    ASSUME Inv, [Next]_vars
    PROVE  CredentialTracesToHuman'
<1> SUFFICES ASSUME Env # "dev", NEW t \in Tx, result'[t].kind = "credential"
             PROVE  \/ claimedBy'[t] \in Approver
                    \/ /\ ~handler'[t].disableLease
                       /\ \E s \in Tx : GaveLease(s, handler[t].key, result[t].leaseExpiresAt)'
  BY DEF CredentialTracesToHuman
<1>1. TxMove(t)
  BY TxsMove
<1>2. LifecycleOf(t)
  BY DEF Inv, Lifecycle
<1>3. CASE result[t].kind = "credential"
  <2>1. state[t] \in Terminal
    BY <1>2, <1>3 DEF Inv, TypeOK, LifecycleOf, State, Terminal, NoResult
  <2>2. /\ handler'[t] = handler[t] /\ result'[t] = result[t]
        /\ claimedBy'[t] = claimedBy[t]
    BY <2>1, SettledStays
  <2>3. CASE claimedBy[t] \in Approver
    BY <2>2, <2>3
  <2>4. CASE claimedBy[t] \notin Approver
    <3>1. /\ ~handler[t].disableLease
          /\ \E s \in Tx : GaveLease(s, handler[t].key, result[t].leaseExpiresAt)
      BY <1>3, <2>4 DEF Inv, CredentialTracesToHuman
    <3>2. PICK s \in Tx : GaveLease(s, handler[t].key, result[t].leaseExpiresAt)
      BY <3>1
    <3>3. state[s] \in Terminal
      BY <3>2, SMTT(20) DEF GaveLease, Terminal
    <3> QED
      BY <2>2, <3>1, <3>2, <3>3, SettledStays DEF GaveLease
  <2> QED
    BY <2>3, <2>4, SMTT(20)
<1>4. CASE result[t].kind # "credential" /\ state[t] = "none"
  <2>1. /\ handler[t].pc = "instant"
        /\ result'[t] = Credential(handler[t].span, handler[t].leaseExp)
    BY Zenon, <1>1, <1>2, <1>4 DEF TxMove, LifecycleOf, NoResult
  <2>2. ~handler[t].disableLease
        /\ \E s \in Tx : GaveLease(s, handler[t].key, handler[t].leaseExp)
    BY <2>1 DEF Inv, HandlerLease
  <2>3. handler'[t].key = handler[t].key /\ handler'[t].disableLease = handler[t].disableLease
    BY <2>1, HandlersMove DEF HandlerMove
  <2>4. PICK s \in Tx : GaveLease(s, handler[t].key, handler[t].leaseExp)
    BY <2>2
  <2>5. state[s] \in Terminal
    BY <2>4 DEF GaveLease, Terminal
  <2> QED
    BY <2>1, <2>2, <2>3, <2>4, <2>5, SettledStays DEF GaveLease, Credential
<1>5. CASE result[t].kind # "credential" /\ state[t] # "none"
  <2>1. PICK c \in Call : call[c].pc = "issued" /\ call[c].tx = t
    BY <1>1, <1>5, SMTT(20) DEF TxMove, Err
  <2>2. claimedBy[t] = call[c].approver /\ call[c].approver \in Approver
    BY <2>1, SMTT(20) DEF Inv, SingleClaim, InClaim, CallsNameTx
  <2>3. claimedBy'[t] = claimedBy[t]
    BY <1>1, <1>5 DEF TxMove, Err
  <2> QED
    BY <2>2, <2>3, SMTT(20)
<1> QED
  BY <1>3, <1>4, <1>5

-------------------------------------------------------------------------------
(***************************************************************************)
(* Waiters and timers.                                                     *)
(***************************************************************************)

\* The steps of one Wait.
WaitMove(w) ==
    LET t == wait'[w].tx IN
    \/ wait'[w] = wait[w]
    \/ /\ wait[w].pc = "idle" /\ t \in Tx /\ state[t] # "none"
       /\ \/ wait'[w].pc = "done" /\ wait'[w].got = Err("notfound")
          \/ wait'[w].pc = "own" /\ wait'[w].got = result[t] /\ result[t] # NoResult
          \/ wait'[w].pc = "shared" /\ wait'[w].got = NoResult
    \/ /\ wait[w].pc # "idle" /\ t = wait[w].tx
       /\ \/ /\ wait[w].pc = "own" /\ wait'[w].pc = "received"
             /\ wait'[w].got = wait[w].got
          \/ /\ wait[w].pc = "shared" /\ wait'[w].pc = "received"
             /\ wait'[w].got = resultCh[t] /\ resultCh[t] # NoResult
          \/ /\ wait[w].pc = "received" /\ wait'[w].pc = "done"
             /\ wait'[w].got = wait[w].got
          \/ /\ wait[w].pc \in {"shared", "own"} /\ wait'[w].pc = "done"
             /\ wait'[w].got = Err("canceled")

\* Every step moves each waiter as WaitMove says.
LEMMA WaitsMove ==
    ASSUME Inv, [Next]_vars, NEW v \in Waiter
    PROVE  WaitMove(v)
<1>a. wait \in [Waiter -> WaitRec] /\ wait[v] \in WaitRec
  BY SMTT(20) DEF Inv, TypeOK
<1>1. ASSUME NEW t \in Tx, NEW k \in LookupKey, NEW direct \in BOOLEAN, SignRequest(t, k, direct)
      PROVE  WaitMove(v)
  BY <1>1 DEF SignRequest, WaitMove
<1>2. ASSUME NEW t \in Tx, LeaseLookup(t)
      PROVE  WaitMove(v)
  BY <1>2 DEF LeaseLookup, WaitMove
<1>3. ASSUME NEW t \in Tx, LeaseRemaining(t)
      PROVE  WaitMove(v)
  BY <1>3 DEF LeaseRemaining, WaitMove
<1>4. ASSUME NEW t \in Tx, LeaseIssue(t)
      PROVE  WaitMove(v)
  BY <1>4 DEF LeaseIssue, WaitMove
<1>5. ASSUME NEW t \in Tx, CreateInstantApproved(t)
      PROVE  WaitMove(v)
  BY <1>5 DEF CreateInstantApproved, WaitMove
<1>6. ASSUME NEW t \in Tx, CreateBound(t)
      PROVE  WaitMove(v)
  BY <1>6, SMTT(20) DEF CreateBound, WaitMove
<1>7. ASSUME NEW c \in Call, NEW t \in Tx, NEW ttl \in TTL, NEW a \in Approver,
             Approve(c, t, ttl, a)
      PROVE  WaitMove(v)
  BY <1>7 DEF Approve, WaitMove
<1>8. ASSUME NEW c \in Call, ClaimApproval(c)
      PROVE  WaitMove(v)
  BY <1>8 DEF ClaimApproval, WaitMove
<1>9. ASSUME NEW c \in Call, StampUntil(c)
      PROVE  WaitMove(v)
  BY <1>9 DEF StampUntil, WaitMove
<1>10. ASSUME NEW c \in Call, IssueForTransaction(c)
      PROVE  WaitMove(v)
  BY <1>10 DEF IssueForTransaction, WaitMove
<1>11. ASSUME NEW c \in Call, FinishApproved(c)
      PROVE  WaitMove(v)
  BY <1>11, SMTT(20) DEF FinishApproved, WaitMove
<1>12. ASSUME NEW c \in Call, FinishFailed(c)
      PROVE  WaitMove(v)
  BY <1>12, SMTT(20) DEF FinishFailed, WaitMove
<1>13. ASSUME NEW c \in Call, LeasePut(c)
      PROVE  WaitMove(v)
  BY <1>13, SMTT(20) DEF LeasePut, WaitMove
<1>14. ASSUME NEW t \in Tx, Deny(t)
      PROVE  WaitMove(v)
  BY <1>14, SMTT(20) DEF Deny, WaitMove
<1>15. ASSUME NEW t \in Tx, TimerFire(t)
      PROVE  WaitMove(v)
  BY <1>15, SMTT(20) DEF TimerFire, WaitMove
<1>16. ASSUME NEW t \in Tx, Expire(t)
      PROVE  WaitMove(v)
  BY <1>16, SMTT(20) DEF Expire, WaitMove
<1>17. ASSUME NEW w \in Waiter, NEW t \in Tx, WaitResult(w, t)
      PROVE  WaitMove(v)
  BY <1>a, <1>17 DEF WaitResult, WaitMove, WaitRec
<1>18. ASSUME NEW w \in Waiter, WaitReceive(w)
      PROVE  WaitMove(v)
  BY <1>a, <1>18 DEF WaitReceive, WaitMove, WaitRec
<1>19. ASSUME NEW w \in Waiter, WaitRemove(w)
      PROVE  WaitMove(v)
  BY <1>a, <1>19 DEF WaitRemove, WaitMove, WaitRec
<1>20. ASSUME NEW w \in Waiter, CancelWait(w)
      PROVE  WaitMove(v)
  BY <1>a, <1>20, SMTT(20) DEF CancelWait, WaitMove, WaitRec
<1>21. CASE LoadOrRemoveSigner
  BY <1>21 DEF LoadOrRemoveSigner, WaitMove
<1>22. CASE LeaseStep
  BY <1>22, SMTT(20) DEF LeaseStep, WaitMove
<1>23. CASE UNCHANGED vars
  BY <1>23 DEF vars, WaitMove
<1> QED
  BY <1>1, <1>2, <1>3, <1>4, <1>5, <1>6, <1>7, <1>8, <1>9, <1>10, <1>11, <1>12,
     <1>13, <1>14, <1>15, <1>16, <1>17, <1>18, <1>19, <1>20, <1>21, <1>22, <1>23
     DEF Next, HandlerStep, CallStep

\* What a waiter holds stays the transaction's result.
LEMMA WaitsNameTxPreserved ==
    ASSUME Inv, [Next]_vars
    PROVE  WaitsNameTx'
<1> SUFFICES ASSUME NEW w \in Waiter
             PROVE  WaitOK(w)'
  BY DEF WaitsNameTx
<1>1. WaitMove(w)
  BY WaitsMove
<1>2. WaitOK(w)
  BY DEF Inv, WaitsNameTx
<1>3. \A t \in Tx : state[t] # "none" => state'[t] # "none"
  BY CreatedStays
<1>4. \A t \in Tx : result[t] # NoResult => result'[t] = result[t]
  <2> SUFFICES ASSUME NEW t \in Tx, result[t] # NoResult
               PROVE  result'[t] = result[t]
    OBVIOUS
  <2>1. state[t] \in Terminal
    BY SMTT(20) DEF Inv, TypeOK, Lifecycle, LifecycleOf, State, Terminal
  <2> QED
    BY <2>1, SettledStays
<1>5. \A t \in Tx : resultCh[t] \in {NoResult, result[t]}
  BY SMTT(20) DEF Inv, Lifecycle, LifecycleOf
<1>6. CASE wait'[w] = wait[w]
  BY <1>2, <1>3, <1>4, <1>6, Zenon DEF WaitOK
<1>7. CASE wait[w].pc = "idle" /\ wait'[w] # wait[w]
  <2>1. wait'[w].tx \in Tx /\ state'[wait'[w].tx] # "none"
    BY <1>1, <1>3, <1>7, Zenon DEF WaitMove
  <2>2. \/ wait'[w].pc = "done" /\ wait'[w].got = Err("notfound")
        \/ /\ wait'[w].pc = "own" /\ wait'[w].got = result'[wait'[w].tx]
           /\ wait'[w].got # NoResult
        \/ wait'[w].pc = "shared" /\ wait'[w].got = NoResult
    BY <1>1, <1>4, <1>7, ZenonT(30) DEF WaitMove
  <2> QED
    BY <2>1, <2>2, Zenon DEF WaitOK
<1>8. CASE wait[w].pc # "idle" /\ wait'[w] # wait[w]
  <2>1. /\ wait[w].tx \in Tx /\ wait'[w].tx = wait[w].tx
        /\ state'[wait[w].tx] # "none"
    BY <1>1, <1>2, <1>3, <1>8, ZenonT(30) DEF WaitMove, WaitOK
  <2>2. \/ /\ wait'[w].pc \in {"received", "done"} /\ wait'[w].got # NoResult
           /\ wait'[w].got = result[wait[w].tx]
        \/ wait'[w].pc = "done" /\ wait'[w].got = Err("canceled")
    BY <1>1, <1>2, <1>5, <1>8, <2>1 DEF WaitMove, WaitOK
  <2>3. wait'[w].got = result[wait[w].tx] /\ wait'[w].got # NoResult
        => wait'[w].got = result'[wait[w].tx]
    BY <1>4, <2>1, Zenon
  <2> QED
    BY <2>1, <2>2, <2>3 DEF WaitOK
<1> QED
  BY <1>6, <1>7, <1>8

\* A pending transaction keeps a timer, and a decided or deleted one has none
\* armed.
LEMMA TimerGuardsPreserved ==
    ASSUME Inv, [Next]_vars
    PROVE  TimerGuardsPending'
<1> DEFINE G(t) == /\ Undecided(t, "pending") => timer[t] # "off"
                   /\ timer[t] = "armed" => t \in txs /\ result[t] = NoResult
<1> SUFFICES ASSUME NEW u \in Tx
             PROVE  G(u)'
  BY DEF TimerGuardsPending
<1>a. G(u) /\ LifecycleOf(u)
  BY DEF Inv, TimerGuardsPending, Lifecycle
<1>b. /\ state \in [Tx -> State] /\ result \in [Tx -> Result]
      /\ timer \in [Tx -> {"off", "armed", "fired"}]
  BY DEF Inv, TypeOK
<1>c. ASSUME UNCHANGED <<txs, state, result, timer>>
      PROVE  G(u)'
  BY <1>a, <1>c, SMTT(20) DEF Undecided
<1>1. ASSUME NEW t \in Tx, NEW k \in LookupKey, NEW direct \in BOOLEAN, SignRequest(t, k, direct)
      PROVE  G(u)'
  BY <1>c, <1>1, Zenon DEF SignRequest, txVars
<1>2. ASSUME NEW t \in Tx, LeaseLookup(t)
      PROVE  G(u)'
  BY <1>c, <1>2 DEF LeaseLookup, txVars
<1>3. ASSUME NEW t \in Tx, LeaseRemaining(t)
      PROVE  G(u)'
  BY <1>c, <1>3 DEF LeaseRemaining, txVars
<1>4. ASSUME NEW t \in Tx, LeaseIssue(t)
      PROVE  G(u)'
  BY <1>c, <1>4 DEF LeaseIssue, txVars
<1>5. ASSUME NEW t \in Tx, CreateInstantApproved(t)
      PROVE  G(u)'
  BY <1>a, <1>b, <1>5 DEF CreateInstantApproved, LifecycleOf, Undecided
<1>6. ASSUME NEW t \in Tx, CreateBound(t)
      PROVE  G(u)'
  BY <1>a, <1>b, <1>6, SMTT(20) DEF CreateBound, LifecycleOf, Undecided
<1>7. ASSUME NEW c \in Call, NEW t \in Tx, NEW ttl \in TTL, NEW a \in Approver,
             Approve(c, t, ttl, a)
      PROVE  G(u)'
  BY <1>c, <1>7 DEF Approve, txVars
<1>8. ASSUME NEW c \in Call, ClaimApproval(c)
      PROVE  G(u)'
  BY <1>a, <1>b, <1>8 DEF ClaimApproval, Undecided
<1>9. ASSUME NEW c \in Call, StampUntil(c)
      PROVE  G(u)'
  BY <1>c, <1>9 DEF StampUntil, txVars
<1>10. ASSUME NEW c \in Call, IssueForTransaction(c)
      PROVE  G(u)'
  BY <1>c, <1>10 DEF IssueForTransaction, txVars
<1>11. ASSUME NEW c \in Call, FinishApproved(c)
      PROVE  G(u)'
  BY <1>a, <1>b, <1>11, SMTT(20) DEF FinishApproved, FinishLocked, StopTimer, Undecided
<1>12. ASSUME NEW c \in Call, FinishFailed(c)
      PROVE  G(u)'
  BY <1>a, <1>b, <1>12, SMTT(20) DEF FinishFailed, FinishLocked, StopTimer, Undecided
<1>13. ASSUME NEW c \in Call, LeasePut(c)
      PROVE  G(u)'
  BY <1>c, <1>13, Zenon DEF LeasePut, txVars
<1>14. ASSUME NEW t \in Tx, Deny(t)
      PROVE  G(u)'
  BY <1>a, <1>b, <1>14, Zenon DEF Deny, FinishLocked, StopTimer, Undecided
<1>15. ASSUME NEW t \in Tx, TimerFire(t)
      PROVE  G(u)'
  BY <1>a, <1>b, <1>15, SMTT(20) DEF TimerFire, Undecided
<1>16. ASSUME NEW t \in Tx, Expire(t)
      PROVE  G(u)'
  BY <1>a, <1>b, <1>16, SMTT(20) DEF Expire, FinishLocked, Undecided
<1>17. ASSUME NEW w \in Waiter, NEW t \in Tx, WaitResult(w, t)
      PROVE  G(u)'
  BY <1>c, <1>17 DEF WaitResult, txVars
<1>18. ASSUME NEW w \in Waiter, WaitReceive(w)
      PROVE  G(u)'
  BY <1>c, <1>18 DEF WaitReceive, txVars
<1>19. ASSUME NEW w \in Waiter, WaitRemove(w)
      PROVE  G(u)'
  <2>1. result[wait[w].tx] # NoResult
    BY <1>19 DEF Inv, WaitsNameTx, WaitOK, WaitRemove
  <2> QED
    BY <1>a, <1>b, <1>19, <2>1 DEF WaitRemove, Undecided
<1>20. ASSUME NEW w \in Waiter, CancelWait(w)
      PROVE  G(u)'
  BY <1>a, <1>b, <1>20 DEF CancelWait, StopTimer, Undecided
<1>21. CASE LoadOrRemoveSigner
  BY <1>c, <1>21 DEF LoadOrRemoveSigner, txVars
<1>22. CASE LeaseStep
  BY <1>c, <1>22 DEF LeaseStep, txVars
<1>23. CASE UNCHANGED vars
  BY <1>c, <1>23 DEF vars, txVars
<1> QED
  BY Zenon, <1>1, <1>2, <1>3, <1>4, <1>5, <1>6, <1>7, <1>8, <1>9, <1>10, <1>11,
     <1>12, <1>13, <1>14, <1>15, <1>16, <1>17, <1>18, <1>19, <1>20, <1>21,
     <1>22, <1>23 DEF Next, HandlerStep, CallStep

-------------------------------------------------------------------------------
(***************************************************************************)
(* The invariant is inductive.                                             *)
(***************************************************************************)

\* The initial state satisfies the invariant.
LEMMA InitInv == Init => Inv
<1> SUFFICES ASSUME Init
             PROVE  Inv
  OBVIOUS
<1>1. LeaseInv
  BY LeaseInitInv DEF Init
<1>2. TypeOK
  BY <1>1, ValuesTyped, SMTT(20) DEF Init, LeaseInv, TypeOK, State
<1>3. Lifecycle
  BY SMTT(20) DEF Init, Lifecycle, LifecycleOf, IdleHandler
<1>4. CallsNameTx /\ SingleClaim /\ PutIsEarned
  BY DEF Init, CallsNameTx, SingleClaim, InClaim, PutIsEarned, IdleCall
<1>5. HandlerLease
  BY DEF Init, HandlerLease, IdleHandler
<1>6. LeaseOnlyFromApproval
  BY DEF Init, LeaseInit, LeaseOnlyFromApproval
<1>7. CredentialTracesToHuman
  BY DEF Init, CredentialTracesToHuman, NoResult
<1>8. WaitsNameTx
  BY DEF Init, WaitsNameTx, WaitOK, IdleWait
<1>9. TimerGuardsPending
  BY DEF Init, TimerGuardsPending, Undecided
<1> QED
  BY <1>1, <1>2, <1>3, <1>4, <1>5, <1>6, <1>7, <1>8, <1>9 DEF Inv

\* Every step preserves the invariant.
LEMMA StepInv == Inv /\ [Next]_vars => Inv'
BY TypePreserved, LeaseInvPreserved, LifecyclePreserved, CallsNameTxPreserved,
   SingleClaimPreserved, PutIsEarnedPreserved, HandlerLeasePreserved,
   LeaseOnlyFromApprovalPreserved, CredentialTracesPreserved, WaitsNameTxPreserved,
   TimerGuardsPreserved DEF Inv

\* The invariant holds in every reachable state.
THEOREM Invariance == Spec => []Inv
BY InitInv, StepInv, PTL DEF Spec
===============================================================================
