-------------------------- MODULE ApprovalStoreProofs --------------------------
(***************************************************************************)
(* The theorems about the approval store: the properties that follow from  *)
(* its invariant, the count of waiters, and that it implements             *)
(* ApprovalDecision: initial states map to initial states, every step to a *)
(* step or a stutter.                                                      *)
(***************************************************************************)
EXTENDS ApprovalClaimProofs, FiniteSetTheorems

\* The approval store never leaves its types.
THEOREM TypeCorrect == Spec => []TypeOK
<1>1. Inv => TypeOK
  BY DEF Inv
<1> QED
  BY <1>1, Invariance, PTL

\* Two approvals never work on one transaction (claimApproval).
THEOREM ClaimExclusive == Spec => []SingleClaim
<1>1. Inv => SingleClaim
  BY DEF Inv
<1> QED
  BY <1>1, Invariance, PTL

\* A lease is recorded only for a published human approval: nothing that was
\* denied, expired, abandoned or failed to sign leaves one (approveWithIssuer).
THEOREM LeaseSafety == Spec => []LeaseOnlyFromApproval
<1>1. Inv => LeaseOnlyFromApproval
  BY DEF Inv
<1> QED
  BY <1>1, Invariance, PTL

\* Outside dev, no credential without a human approval of the same lookup key
\* (handleSign, IssueFromLease, CreateInstantApproved, approveWithIssuer).
THEOREM HumanOrigin == Spec => []CredentialTracesToHuman
<1>1. Inv => CredentialTracesToHuman
  BY DEF Inv
<1> QED
  BY <1>1, Invariance, PTL

\* Put, purgeExpired and deleteLocked keep the two maps of the lease store in
\* agreement, whatever is approved and whenever the purge runs.
THEOREM LeaseIndexCorrect == Spec => []IndexMatchesLeases
<1>1. Inv => IndexMatchesLeases
  BY DEF Inv, LeaseInv
<1> QED
  BY <1>1, Invariance, PTL

\* FindActive, which goes through the index only, finds a lease whenever a lookup
\* key has a live one, and one that lives at least as long.
THEOREM LookupFindsLongest == Spec => []FindActiveIsLongest
<1>1. Inv => FindActiveIsLongest
  BY FindActiveTakesLongest DEF Inv
<1> QED
  BY <1>1, Invariance, PTL

\* purgeExpired never removes a lease that is still usable, although it reads
\* the clock before it takes the mutex.
THEOREM PurgeSafe == Spec => PurgeRemovesOnlyExpired
<1> DEFINE Removed == \A k \in DOMAIN leases : k \notin DOMAIN leases' => now > leases[k]
<1>1. Inv /\ [Next]_vars => [Removed]_<<leaseVars, now>>
  <2> SUFFICES ASSUME Inv, [Next]_vars
               PROVE  Removed
    OBVIOUS
  <2>1. CASE UNCHANGED <<leases, byLookup, purgeNow, now>>
    BY <2>1
  <2>2. CASE \E c \in Call : LeasePut(c)
    BY <2>2 DEF LeasePut, Put
  <2>3. CASE PurgeStart \/ Tick
    BY <2>3 DEF PurgeStart, Tick, leaseVars
  <2>4. CASE PurgeExpired
    BY <2>4, PurgeExpiredPreserves DEF Inv
  <2> QED
    BY <2>1, <2>2, <2>3, <2>4, LeaseFrame DEF LeaseStep
<1> QED
  BY <1>1, Invariance, PTL DEF Spec, PurgeRemovesOnlyExpired

\* Timers and pending transactions match (CreateBound, finishLocked, cancelWait,
\* remove).
THEOREM TimerSafety == Spec => []TimerGuardsPending
<1>1. Inv => TimerGuardsPending
  BY DEF Inv
<1> QED
  BY <1>1, Invariance, PTL

\* Waiters are told the transaction's one decision (waitResult, finishLocked).
THEOREM WaitersToldTruth == Spec => []WaitersAgree
<1>1. Inv => WaitersAgree
  BY DEF Inv, TypeOK, WaitRec, WaitersAgree, WaitsNameTx, WaitOK, IdleWait, NoResult, Err
<1> QED
  BY <1>1, Invariance, PTL

\* A decision is final, and Deny and the timer cannot touch a claimed
\* transaction (finishPending, finishClaimed).
THEOREM DecisionIsFinal == Spec => DecisionFinal
<1> DEFINE Final(t) ==
        /\ result[t] # NoResult => result'[t] = result[t] /\ state'[t] = state[t]
        /\ state[t] = "approving" =>
             \/ state'[t] = "approving"
             \/ state'[t] = "approved" /\ result'[t].kind = "credential"
             \/ state'[t] = "denied" /\ result'[t].kind = "signerr"
<1>1. Inv /\ [Next]_vars => [\A t \in Tx : Final(t)]_vars
  <2> SUFFICES ASSUME Inv, [Next]_vars, NEW t \in Tx
               PROVE  Final(t)
    OBVIOUS
  <2>1. TxMove(t)
    BY TxsMove
  <2>2. LifecycleOf(t) /\ state[t] \in State
    BY DEF Inv, TypeOK, Lifecycle
  <2>3. result[t] # NoResult => state[t] \in Terminal
    BY <2>2 DEF LifecycleOf, State, Terminal
  <2>4. result[t] # NoResult => result'[t] = result[t] /\ state'[t] = state[t]
    BY <2>3, SettledStays
  <2>5. ASSUME state[t] = "approving", state'[t] # "approving"
        PROVE  \/ state'[t] = "approved" /\ result'[t].kind = "credential"
               \/ state'[t] = "denied" /\ result'[t].kind = "signerr"
    <3>1. \/ state'[t] = "denied" /\ result'[t] = Err("signerr")
          \/ /\ state'[t] = "approved"
             /\ \E c \in Call : result'[t] = Credential(call[c].until, call[c].until)
      BY <2>1, <2>5 DEF TxMove
    <3>2. Err("signerr").kind = "signerr" /\ \A x, y : Credential(x, y).kind = "credential"
      BY DEF Credential, Err
    <3> QED
      BY <3>1, <3>2
  <2> QED
    BY <2>4, <2>5
<1> QED
  BY <1>1, Invariance, PTL DEF Spec, DecisionFinal

-------------------------------------------------------------------------------
(***************************************************************************)
(* The count of waiters.  While a transaction is undecided, the count of   *)
(* its entry is the number of waiters on its channel, and without an entry *)
(* nobody waits.  Once it is decided the count means nothing: cancelWait   *)
(* also subtracts waiters that were never added.                           *)
(***************************************************************************)

\* The waiters on the channel of a transaction.
Sharing(t) == {w \in Waiter : wait[w].pc = "shared" /\ wait[w].tx = t}

CountOf(t) ==
    /\ state[t] = "none" => waiters[t] = 0
    /\ result[t] = NoResult =>
         /\ IsFiniteSet(Sharing(t))
         /\ t \in txs => waiters[t] = Cardinality(Sharing(t))
         /\ t \notin txs => Sharing(t) = {}

\* Steps that leave the waiters of a transaction and its entry alone.
LEMMA CountFrame ==
    ASSUME NEW t \in Tx, CountOf(t), Sharing(t)' = Sharing(t), waiters'[t] = waiters[t],
           t \in txs' <=> t \in txs,
           state'[t] = "none" => state[t] = "none",
           result'[t] = NoResult => result[t] = NoResult
    PROVE  CountOf(t)'
BY DEF CountOf

\* A transaction is inserted before anybody can wait for it.
LEMMA CountCreate ==
    ASSUME Inv, NEW t \in Tx, CountOf(t), handler[t].pc # "done", wait' = wait,
           waiters' = waiters, state'[t] # "none"
    PROVE  CountOf(t)'
<1>1. state[t] = "none" /\ waiters[t] = 0
  BY DEF Inv, Lifecycle, LifecycleOf, CountOf
<1>2. Sharing(t)' = {}
  BY <1>1 DEF Sharing, Inv, WaitsNameTx, WaitOK
<1>3. Cardinality({}) = 0 /\ IsFiniteSet({})
  BY FS_EmptySet
<1> QED
  BY <1>1, <1>2, <1>3, Zenon DEF CountOf

\* A wait is counted exactly when it shares the channel (waitResult).
LEMMA CountWaitResult ==
    ASSUME Inv, NEW w \in Waiter, NEW t \in Tx, CountOf(t), WaitResult(w, t)
    PROVE  CountOf(t)'
<1>1. /\ wait \in [Waiter -> WaitRec] /\ waiters \in [Tx -> Int]
      /\ wait[w].pc = "idle" /\ state[t] # "none"
      /\ UNCHANGED <<txs, state, result>>
  BY DEF WaitResult, Inv, TypeOK
<1>2. w \notin Sharing(t)
  BY <1>1 DEF Sharing
<1>3. CASE result[t] # NoResult
  BY <1>1, <1>3 DEF CountOf
<1>4. CASE result[t] = NoResult /\ t \notin txs
  <2>1. wait' = [wait EXCEPT ![w] = [pc |-> "done", tx |-> t, got |-> Err("notfound")]]
    BY <1>4 DEF WaitResult
  <2>2. Sharing(t)' = Sharing(t)
    BY <1>1, <1>2, <2>1 DEF Sharing
  <2> QED
    BY <1>1, <1>4, <2>2 DEF CountOf
<1>5. CASE result[t] = NoResult /\ t \in txs
  <2>1. /\ wait' = [wait EXCEPT ![w] = [pc |-> "shared", tx |-> t, got |-> NoResult]]
        /\ waiters' = [waiters EXCEPT ![t] = @ + 1]
    BY <1>5 DEF WaitResult
  <2>2. Sharing(t)' = Sharing(t) \cup {w}
    BY <1>1, <2>1 DEF Sharing
  <2>3. IsFiniteSet(Sharing(t)) /\ waiters[t] = Cardinality(Sharing(t))
    BY <1>5 DEF CountOf
  <2>4. /\ IsFiniteSet(Sharing(t) \cup {w})
        /\ Cardinality(Sharing(t) \cup {w}) = Cardinality(Sharing(t)) + 1
    BY <1>2, <2>3, FS_AddElement
  <2>5. waiters'[t] = waiters[t] + 1
    BY <1>1, <2>1
  <2>6. waiters'[t] = Cardinality(Sharing(t)') /\ IsFiniteSet(Sharing(t)')
    BY <2>2, <2>3, <2>4, <2>5
  <2> QED
    BY <1>1, <1>5, <2>6 DEF CountOf
<1> QED
  BY <1>3, <1>4, <1>5

\* A counted waiter that gives up leaves the entry to the others, and deletes
\* it only when there are none (cancelWait).
LEMMA CountCancel ==
    ASSUME Inv, NEW w \in Waiter, NEW t \in Tx, CountOf(t), CancelWait(w), wait[w].tx = t
    PROVE  CountOf(t)'
<1>1. /\ wait \in [Waiter -> WaitRec] /\ waiters \in [Tx -> Int]
      /\ wait[w].pc \in {"shared", "own"} /\ UNCHANGED <<state, result>>
      /\ wait' = [wait EXCEPT ![w].pc = "done", ![w].got = Err("canceled")]
      /\ state[t] # "none"
  BY DEF CancelWait, Inv, TypeOK, WaitsNameTx, WaitOK
<1>2. CASE result[t] # NoResult
  BY <1>1, <1>2 DEF CountOf
<1>3. CASE result[t] = NoResult
  <2>1. w \in Sharing(t)
    BY <1>1, <1>3 DEF Sharing, Inv, WaitsNameTx, WaitOK
  <2>2. /\ t \in txs /\ IsFiniteSet(Sharing(t))
        /\ waiters[t] = Cardinality(Sharing(t))
    BY <1>3, <2>1 DEF CountOf
  <2>3. Sharing(t)' = Sharing(t) \ {w}
    BY <1>1 DEF Sharing, WaitRec
  <2>4. /\ IsFiniteSet(Sharing(t) \ {w})
        /\ Cardinality(Sharing(t) \ {w}) = Cardinality(Sharing(t)) - 1
    BY <2>1, <2>2, FS_RemoveElement, Zenon
  <2>5. waiters'[t] = waiters[t] - 1
    BY <1>1, <2>2 DEF CancelWait
  <2>6. waiters'[t] = Cardinality(Sharing(t)') /\ IsFiniteSet(Sharing(t)')
    BY <2>2, <2>3, <2>4, <2>5
  <2>7. ASSUME t \notin txs' PROVE Sharing(t)' = {}
    <3>1. waiters[t] - 1 <= 0
      BY <2>2, <2>7 DEF CancelWait
    <3>2. waiters'[t] \in Nat
      BY <2>6, FS_CardinalityType
    <3>3. Cardinality(Sharing(t)') = 0
      BY <1>1, <2>5, <2>6, <3>1, <3>2
    <3> QED
      BY <2>6, <3>3, FS_EmptySet
  <2> QED
    BY <1>1, <2>6, <2>7 DEF CountOf
<1> QED
  BY <1>2, <1>3

\* Every step keeps the count of every transaction.
LEMMA CountPreserved ==
    ASSUME Inv, [Next]_vars, NEW t \in Tx, CountOf(t)
    PROVE  CountOf(t)'
<1>1. result'[t] = NoResult => result[t] = NoResult
  <2>1. LifecycleOf(t) /\ state[t] \in State
    BY DEF Inv, TypeOK, Lifecycle
  <2>2. result[t] # NoResult => state[t] \in Terminal
    BY <2>1 DEF LifecycleOf, State, Terminal
  <2> QED
    BY <2>2, SettledStays
<1>2. state'[t] = "none" => state[t] = "none"
  BY CreatedStays
<1>3. wait \in [Waiter -> WaitRec] /\ waiters \in [Tx -> Int] /\ state \in [Tx -> State]
  BY DEF Inv, TypeOK
<1>4. ASSUME UNCHANGED <<wait, waiters, txs>> PROVE CountOf(t)'
  <2>1. Sharing(t)' = Sharing(t)
    BY <1>4 DEF Sharing
  <2> QED
    BY <1>1, <1>2, <1>4, <2>1, CountFrame
<1>5. ASSUME NEW s \in Tx, CreateInstantApproved(s) \/ CreateBound(s) PROVE CountOf(t)'
  <2>1. /\ UNCHANGED <<wait, waiters>> /\ txs' = txs \cup {s}
        /\ handler[s].pc # "done" /\ state'[s] # "none"
    BY <1>3, <1>5 DEF CreateInstantApproved, CreateBound
  <2>2. CASE s = t
    BY <2>1, <2>2, CountCreate
  <2>3. CASE s # t
    <3>1. Sharing(t)' = Sharing(t)
      BY <2>1 DEF Sharing
    <3> QED
      BY <1>1, <1>2, <2>1, <2>3, <3>1, CountFrame
  <2> QED
    BY <2>2, <2>3
<1>6. ASSUME NEW w \in Waiter, NEW s \in Tx, WaitResult(w, s) PROVE CountOf(t)'
  <2>1. CASE s = t
    BY <1>6, <2>1, CountWaitResult
  <2>2. CASE s # t
    <3>1. /\ txs' = txs /\ waiters'[t] = waiters[t] /\ wait[w].pc = "idle"
          /\ \E p, g : wait' = [wait EXCEPT ![w] = [pc |-> p, tx |-> s, got |-> g]]
      BY <1>3, <1>6, <2>2 DEF WaitResult
    <3>2. Sharing(t)' = Sharing(t)
      BY <1>3, <2>2, <3>1 DEF Sharing
    <3> QED
      BY <1>1, <1>2, <3>1, <3>2, CountFrame
  <2> QED
    BY <2>1, <2>2
<1>7. ASSUME NEW w \in Waiter, wait[w].tx = t, WaitReceive(w) \/ WaitRemove(w) PROVE CountOf(t)'
  <2>1. result[t] # NoResult
    BY <1>7 DEF WaitReceive, WaitRemove, Inv, Lifecycle, LifecycleOf, WaitsNameTx, WaitOK
  <2>2. result'[t] # NoResult /\ state'[t] # "none"
    <3>1. state[t] # "none"
      BY <1>7 DEF WaitReceive, WaitRemove, Inv, WaitsNameTx, WaitOK
    <3> QED
      BY <1>1, <1>2, <2>1, <3>1, SMTT(20)
  <2> QED
    BY <2>2 DEF CountOf
<1>8. ASSUME NEW w \in Waiter, wait[w].tx # t,
             WaitReceive(w) \/ WaitRemove(w) \/ CancelWait(w)
      PROVE  CountOf(t)'
  <2>1. /\ waiters'[t] = waiters[t] /\ (t \in txs' <=> t \in txs)
        /\ \A v \in Waiter : v # w => wait'[v] = wait[v]
        /\ wait'[w].tx = wait[w].tx
    BY <1>3, <1>8 DEF WaitReceive, WaitRemove, CancelWait, WaitRec
  <2>2. Sharing(t)' = Sharing(t)
    BY <1>8, <2>1 DEF Sharing
  <2> QED
    BY <1>1, <1>2, <2>1, <2>2, CountFrame, SMTT(20)
<1>9. ASSUME NEW w \in Waiter, WaitReceive(w) \/ WaitRemove(w) \/ CancelWait(w) PROVE CountOf(t)'
  BY <1>7, <1>8, <1>9, CountCancel
<1>10. ASSUME NEW s \in Tx, NEW k \in LookupKey, NEW direct \in BOOLEAN, SignRequest(s, k, direct)
       PROVE  CountOf(t)'
  BY <1>4, <1>10 DEF SignRequest, txVars
<1>11. ASSUME NEW s \in Tx, LeaseLookup(s) \/ LeaseRemaining(s) \/ LeaseIssue(s)
       PROVE  CountOf(t)'
  BY <1>4, <1>11 DEF LeaseLookup, LeaseRemaining, LeaseIssue, txVars
<1>12. ASSUME NEW c \in Call, NEW s \in Tx, NEW ttl \in TTL, NEW a \in Approver,
              Approve(c, s, ttl, a)
       PROVE  CountOf(t)'
  BY <1>4, <1>12 DEF Approve, txVars
<1>13. ASSUME NEW c \in Call, CallStep(c) PROVE CountOf(t)'
  <2>1. UNCHANGED <<wait, waiters, txs>>
    BY <1>13 DEF CallStep, ClaimApproval, StampUntil, IssueForTransaction, FinishApproved,
       FinishFailed, LeasePut, txVars
  <2> QED
    BY <1>4, <2>1, SMTT(20)
<1>14. ASSUME NEW s \in Tx, Deny(s) \/ TimerFire(s) \/ Expire(s) PROVE CountOf(t)'
  BY <1>4, <1>14 DEF Deny, TimerFire, Expire
<1>15. CASE LoadOrRemoveSigner \/ LeaseStep
  BY <1>4, <1>15 DEF LoadOrRemoveSigner, LeaseStep, txVars
<1>16. CASE UNCHANGED vars
  BY <1>4, <1>16 DEF vars, txVars
<1> QED
  BY <1>5, <1>6, <1>9, <1>10, <1>11, <1>12, <1>13, <1>14, <1>15, <1>16, Zenon
     DEF Next, HandlerStep

\* A counted waiter of an undecided transaction never loses it to the
\* cancellation of another (waitResult, cancelWait).
THEOREM WaitersKeepTx == Spec => []NoAbandonedWaiter
<1> DEFINE Counted == \A t \in Tx : CountOf(t)
<1>1. Init => Counted
  <2>1. ASSUME Init, NEW t \in Tx PROVE CountOf(t)
    <3>1. Sharing(t) = {} /\ waiters[t] = 0 /\ t \notin txs
      BY <2>1 DEF Init, Sharing, IdleWait
    <3>2. IsFiniteSet({})
      BY FS_EmptySet
    <3> QED
      BY <3>1, <3>2 DEF CountOf
  <2> QED
    BY <2>1
<1>2. Inv /\ Counted /\ [Next]_vars => Counted'
  BY CountPreserved
<1>3. Inv /\ Counted => NoAbandonedWaiter
  BY Zenon DEF Inv, WaitsNameTx, WaitOK, CountOf, Sharing, NoAbandonedWaiter
<1> HIDE DEF Counted
<1> QED
  BY <1>1, <1>2, <1>3, Invariance, PTL DEF Spec

-------------------------------------------------------------------------------
(***************************************************************************)
(* The approval store implements the decision specification.               *)
(***************************************************************************)

\* A transaction that is not created, decided or re-requested by a step looks
\* the same to the decision specification.
LEMMA DecisionFrame ==
    ASSUME NEW u \in Tx, result'[u] = result[u],
           state'[u] = state[u] \/ (state[u] = "pending" /\ state'[u] = "approving"),
           state[u] = "approved" => claimedBy'[u] = claimedBy[u],
           state[u] # "none" => handler'[u].key = handler[u].key
                                /\ handler'[u].disableLease = handler[u].disableLease
    PROVE  DecisionOf(u)' = DecisionOf(u)
<1>1. Phase(u)' = Phase(u)
  BY SMTT(20) DEF Phase
<1> QED
  BY <1>1 DEF DecisionOf

\* A waiter's step that is not the receive looks like nothing.
LEMMA ToldFrame ==
    ASSUME Inv, [Next]_vars, NEW v \in Waiter,
           ~(wait[v].pc \in {"own", "shared"} /\ wait'[v].pc = "received")
    PROVE  ToldOf(v)' = ToldOf(v)
<1>1. WaitMove(v)
  BY WaitsMove
<1>2. WaitOK(v)
  BY DEF Inv, WaitsNameTx
<1> QED
  BY <1>1, <1>2 DEF WaitMove, WaitOK, ToldOf, Err

\* A step that changes no decision and hands out none is a stuttering step.
LEMMA Stutters ==
    ASSUME \A u \in Tx : DecisionOf(u)' = DecisionOf(u),
           \A v \in Waiter : ToldOf(v)' = ToldOf(v)
    PROVE  UNCHANGED <<Decision, Told>>
BY DEF Decision, Told

\* A request that has not become a transaction is not visible.
LEMMA RequestStutters ==
    ASSUME Inv, [Next]_vars, NEW t \in Tx, handler[t].pc # "done",
           \A u \in Tx \ {t} : handler'[u] = handler[u],
           UNCHANGED <<txVars, wait>>
    PROVE  UNCHANGED <<Decision, Told>>
<1>1. state[t] = "none"
  BY DEF Inv, Lifecycle, LifecycleOf
<1>2. ASSUME NEW u \in Tx
      PROVE  DecisionOf(u)' = DecisionOf(u)
  BY <1>1, DecisionFrame DEF txVars
<1>3. \A v \in Waiter : ToldOf(v)' = ToldOf(v)
  BY DEF ToldOf
<1> QED
  BY <1>2, <1>3, Stutters

\* One more decision, or one more answer, is one step of the specification.
\* The decisions of all other transactions stay as they are.
DecidesOnly(t) ==
    /\ \A u \in Tx \ {t} : DecisionOf(u)' = DecisionOf(u)
    /\ UNCHANGED Told

\* A transaction that does not exist is an unmade request.
LEMMA NotYetMade ==
    ASSUME NEW t \in Tx, state[t] = "none", result[t] = NoResult
    PROVE  DecisionOf(t) = D!Unmade
<1>1. Phase(t) = "none"
  BY DEF Phase
<1>2. (state[t] # "none" /\ ~handler[t].disableLease) = FALSE
  OBVIOUS
<1>3. result[t].leaseExpiresAt = 0
  BY DEF NoResult
<1>4. /\ (IF state[t] = "none" THEN NoKey ELSE handler[t].key) = NoKey
      /\ (IF state[t] = "approved" THEN claimedBy[t] ELSE NoApprover) = NoApprover
  OBVIOUS
<1> QED
  BY <1>1, <1>2, <1>3, <1>4, Zenon DEF DecisionOf, D!Unmade

\* A new pending transaction opens a request.
LEMMA OpenStep ==
    ASSUME Inv, NEW t \in Tx, DecidesOnly(t), handler[t].pc = "create",
           state'[t] = "pending", result'[t] = result[t],
           handler'[t].key = handler[t].key,
           handler'[t].disableLease = handler[t].disableLease
    PROVE  D!Open(t)
<1>1. /\ state[t] = "none" /\ result[t] = NoResult
      /\ handler[t].key \in LookupKey /\ handler[t].disableLease \in BOOLEAN
  BY DEF Inv, TypeOK, Lifecycle, LifecycleOf, Handler
<1>2. DecisionOf(t) = D!Unmade
  BY <1>1, NotYetMade
<1>3. DecisionOf(t)' = [phase |-> "open", key |-> handler[t].key,
                        reusable |-> ~handler[t].disableLease,
                        grantor |-> NoApprover, until |-> 0]
  BY <1>1 DEF DecisionOf, Phase, NoResult
<1>4. Decision' = [Decision EXCEPT ![t] = DecisionOf(t)']
  BY Zenon DEF Decision, DecidesOnly
<1>5. Decision[t] = D!Unmade
  BY <1>2 DEF Decision
<1>6. (~handler[t].disableLease) \in BOOLEAN
  OBVIOUS
<1>7. UNCHANGED Told
  BY DEF DecidesOnly
<1>8. \E k \in LookupKey, r \in BOOLEAN :
        Decision' = [Decision EXCEPT ![t] = [phase |-> "open", key |-> k, reusable |-> r,
                                             grantor |-> NoApprover, until |-> 0]]
  BY Zenon, <1>1, <1>3, <1>4, <1>6
<1> QED
  BY ZenonT(30), <1>5, <1>7, <1>8 DEF D!Open

\* Denying, expiring and failing to sign refuse a request.
LEMMA RefuseStep ==
    ASSUME Inv, NEW t \in Tx, DecidesOnly(t), UNCHANGED handler,
           state[t] \in {"pending", "approving"}, state'[t] \in {"denied", "expired"},
           result'[t].leaseExpiresAt = 0
    PROVE  D!Refuse(t)
<1>1. result[t] = NoResult
  BY DEF Inv, Lifecycle, LifecycleOf
<1>2. DecisionOf(t) = [phase |-> "open", key |-> handler[t].key,
                       reusable |-> ~handler[t].disableLease,
                       grantor |-> NoApprover, until |-> 0]
  BY <1>1 DEF DecisionOf, Phase, NoResult
<1>3. DecisionOf(t)' = [phase |-> "refused", key |-> handler[t].key,
                        reusable |-> ~handler[t].disableLease,
                        grantor |-> NoApprover, until |-> 0]
  BY DEF DecisionOf, Phase
<1>4. Decision' = [Decision EXCEPT ![t] = DecisionOf(t)']
  BY Zenon DEF Decision, DecidesOnly
<1>5. Decision[t] = DecisionOf(t)
  BY DEF Decision
<1>6. DecisionOf(t)' = [Decision[t] EXCEPT !.phase = "refused"]
  BY <1>2, <1>3, <1>5
<1>7. Decision' = [Decision EXCEPT ![t].phase = "refused"]
  BY <1>4, <1>6
<1> QED
  BY <1>2, <1>5, <1>7 DEF D!Refuse, DecidesOnly

\* Publishing an approval grants a request.
LEMMA GrantStep ==
    ASSUME Inv, NEW t \in Tx, DecidesOnly(t), UNCHANGED <<handler, claimedBy>>,
           state[t] = "approving", state'[t] = "approved",
           result'[t].leaseExpiresAt \in Nat,
           claimedBy[t] \in Approver \cup (IF Env = "dev" THEN {NoApprover} ELSE {})
    PROVE  D!Grant(t)
<1>1. result[t] = NoResult
  BY DEF Inv, Lifecycle, LifecycleOf
<1>2. DecisionOf(t) = [phase |-> "open", key |-> handler[t].key,
                       reusable |-> ~handler[t].disableLease,
                       grantor |-> NoApprover, until |-> 0]
  BY <1>1 DEF DecisionOf, Phase, NoResult
<1>3. DecisionOf(t)' = [phase |-> "granted", key |-> handler[t].key,
                        reusable |-> ~handler[t].disableLease,
                        grantor |-> claimedBy[t], until |-> result'[t].leaseExpiresAt]
  BY DEF DecisionOf, Phase
<1>4. Decision' = [Decision EXCEPT ![t] = DecisionOf(t)']
  BY Zenon DEF Decision, DecidesOnly
<1>5. Decision[t] = DecisionOf(t) /\ Decision'[t] = DecisionOf(t)'
  BY DEF Decision
<1>6. Decision'[t].until = result'[t].leaseExpiresAt
  BY <1>3, <1>5, SMTT(20)
<1>7. DecisionOf(t)' = [phase |-> "granted", key |-> Decision[t].key,
                        reusable |-> Decision[t].reusable, grantor |-> claimedBy[t],
                        until |-> Decision'[t].until]
  BY <1>2, <1>3, <1>5, <1>6
<1>8. Decision' = [Decision EXCEPT
                     ![t] = [phase |-> "granted", key |-> Decision[t].key,
                             reusable |-> Decision[t].reusable, grantor |-> claimedBy[t],
                             until |-> Decision'[t].until]]
  BY <1>4, <1>7
<1>9. Decision[t].phase = "open"
  BY <1>2, <1>5
<1> QED
  BY <1>6, <1>8, <1>9, SMTT(20) DEF D!Grant, DecidesOnly

\* The lease fast path reuses the grant behind the lease.
LEMMA ReuseStep ==
    ASSUME Inv, NEW t \in Tx, DecidesOnly(t), handler[t].pc = "instant",
           state'[t] = "approved", claimedBy'[t] = claimedBy[t],
           handler'[t].key = handler[t].key,
           handler'[t].disableLease = handler[t].disableLease,
           result'[t].leaseExpiresAt = handler[t].leaseExp
    PROVE  \E s \in Tx : D!Reuse(t, s)
<1>1. /\ state[t] = "none" /\ result[t] = NoResult /\ claimedBy[t] = NoApprover
      /\ ~handler[t].disableLease
  BY DEF Inv, Lifecycle, LifecycleOf, HandlerLease
<1>2. PICK s \in Tx : GaveLease(s, handler[t].key, handler[t].leaseExp)
  BY DEF Inv, HandlerLease
<1>3. DecisionOf(t) = D!Unmade
  BY <1>1, NotYetMade
<1>4. DecisionOf(t)' = [phase |-> "granted", key |-> handler[t].key, reusable |-> TRUE,
                        grantor |-> NoApprover, until |-> handler[t].leaseExp]
  BY Zenon, <1>1 DEF DecisionOf, Phase
<1>5. DecisionOf(s) = [phase |-> "granted", key |-> handler[t].key, reusable |-> TRUE,
                       grantor |-> claimedBy[s], until |-> handler[t].leaseExp]
      /\ claimedBy[s] \in Approver
  BY Zenon, <1>2 DEF DecisionOf, Phase, GaveLease
<1>6. Decision' = [Decision EXCEPT ![t] = DecisionOf(t)']
  BY Zenon DEF Decision, DecidesOnly
<1>7. Decision[t] = DecisionOf(t) /\ Decision[s] = DecisionOf(s)
  BY DEF Decision
<1>8. DecisionOf(t)' = [phase |-> "granted", key |-> Decision[s].key, reusable |-> TRUE,
                        grantor |-> NoApprover, until |-> Decision[s].until]
  BY <1>4, <1>5, <1>7, SMTT(20)
<1>9. /\ Decision[s].phase = "granted" /\ Decision[s].grantor \in Approver
      /\ Decision[s].reusable
  BY <1>5, <1>7
<1>10. D!Reuse(t, s)
  BY <1>3, <1>6, <1>7, <1>8, <1>9 DEF D!Reuse, DecidesOnly
<1> QED
  BY <1>10

\* A receive tells one client the decision of its transaction.
LEMMA TellStep ==
    ASSUME Inv, NEW w \in Waiter, WaitReceive(w)
    PROVE  D!Tell(w, wait[w].tx) /\ wait[w].tx \in Tx
<1> DEFINE t == wait[w].tx
<1>1. /\ wait[w].pc \in {"own", "shared"} /\ t \in Tx
      /\ wait'[w].pc = "received" /\ wait'[w].tx = t
      /\ wait'[w].got = result[t] /\ result[t] # NoResult
  <2>1. WaitOK(w) /\ resultCh[t] \in {NoResult, result[t]}
    BY DEF Inv, WaitsNameTx, WaitOK, Lifecycle, LifecycleOf, WaitReceive
  <2> QED
    BY <2>1 DEF Inv, TypeOK, WaitRec, WaitReceive, WaitOK
<1>2. \A v \in Waiter \ {w} : wait'[v] = wait[v]
  BY SMTT(20) DEF Inv, TypeOK, WaitReceive
<1>3. \/ state[t] = "approved" /\ result[t].kind = "credential"
      \/ state[t] \in {"denied", "expired"}
         /\ result[t].kind \in {"denied", "signerr", "timeout"}
  <2>1. LifecycleOf(t) /\ state[t] \in State
    BY <1>1 DEF Inv, TypeOK, Lifecycle
  <2> QED
    BY <1>1, <2>1, SMTT(20) DEF LifecycleOf, State, Err
<1>4. DecisionOf(t).phase \in {"granted", "refused"}
      /\ DecisionOf(t).until = result[t].leaseExpiresAt
      /\ DecisionOf(t).phase = IF result[t].kind = "credential" THEN "granted" ELSE "refused"
  BY <1>3, SMTT(20) DEF DecisionOf, Phase
<1>5. ToldOf(w) = D!NotTold
  BY <1>1, SMTT(20) DEF ToldOf, D!NotTold
<1>6. ToldOf(w)' = [tx |-> t, phase |-> DecisionOf(t).phase, until |-> DecisionOf(t).until]
  BY <1>1, <1>3, <1>4 DEF ToldOf
<1>7. Told' = [Told EXCEPT ![w] = ToldOf(w)']
  BY ZenonT(30), <1>2 DEF Told, ToldOf
<1>8. Told[w] = ToldOf(w) /\ Decision[t] = DecisionOf(t)
  BY <1>1 DEF Told, Decision
<1>9. UNCHANGED Decision
  BY DEF WaitReceive, Decision, DecisionOf, Phase
<1> QED
  BY Zenon, <1>1, <1>4, <1>5, <1>6, <1>7, <1>8, <1>9 DEF D!Tell

\* The initial state is the initial state of the specification.
LEMMA InitDecision == Init => D!Init
<1> SUFFICES ASSUME Init
             PROVE  D!Init
  OBVIOUS
<1>1. \A t \in Tx : DecisionOf(t) = D!Unmade
  BY NotYetMade DEF Init
<1>2. \A w \in Waiter : ToldOf(w) = D!NotTold
  BY SMTT(20) DEF Init, ToldOf, IdleWait, D!NotTold
<1> QED
  BY <1>1, <1>2 DEF D!Init, Decision, Told

\* Every step of the store is a step of the specification, or no step.
LEMMA StepDecision ==
    ASSUME Inv, [Next]_vars
    PROVE  [D!Next]_<<Decision, Told>>
<1>a. /\ handler \in [Tx -> Handler] /\ state \in [Tx -> State]
      /\ result \in [Tx -> Result] /\ claimedBy \in [Tx -> Approver \cup {NoApprover}]
  BY DEF Inv, TypeOK
<1>b. ASSUME UNCHANGED <<state, result, claimedBy, handler, wait>>
      PROVE  UNCHANGED <<Decision, Told>>
  BY <1>b DEF Decision, DecisionOf, Phase, Told, ToldOf
<1>c. ASSUME UNCHANGED wait
      PROVE  UNCHANGED Told
  BY <1>c, SMTT(20) DEF Told, ToldOf
<1>d. ASSUME NEW t \in Tx, UNCHANGED <<wait>>,
             \A u \in Tx \ {t} : /\ state'[u] = state[u] /\ result'[u] = result[u]
                                 /\ claimedBy'[u] = claimedBy[u] /\ handler'[u] = handler[u]
      PROVE  DecidesOnly(t)
  BY <1>c, <1>d, DecisionFrame, SMTT(20) DEF DecidesOnly
<1>e. ASSUME NEW t \in Tx, UNCHANGED <<handler, claimedBy, wait>>,
             Undecided(t, "pending") \/ Undecided(t, "approving"),
             NEW st \in {"denied", "expired"}, NEW k \in Failure,
             FinishLocked(t, st, Err(k))
      PROVE  D!Refuse(t)
  <2>1. DecidesOnly(t)
    BY <1>a, <1>d, <1>e DEF FinishLocked
  <2>2. /\ state'[t] = st /\ result'[t] = Err(k)
    BY <1>a, <1>e DEF FinishLocked
  <2>3. result'[t].leaseExpiresAt = 0
    BY <2>2 DEF Err
  <2> QED
    BY <1>e, <2>1, <2>2, <2>3, RefuseStep, SMTT(20) DEF Undecided
<1>1. ASSUME NEW t \in Tx, NEW k \in LookupKey, NEW direct \in BOOLEAN,
             SignRequest(t, k, direct)
      PROVE  UNCHANGED <<Decision, Told>>
  BY <1>a, <1>1, RequestStutters DEF SignRequest
<1>2. ASSUME NEW t \in Tx, LeaseLookup(t) \/ LeaseRemaining(t) \/ LeaseIssue(t)
      PROVE  UNCHANGED <<Decision, Told>>
  <2>1. handler[t].pc # "done" /\ UNCHANGED <<txVars, wait>>
    BY <1>2 DEF LeaseLookup, LeaseRemaining, LeaseIssue
  <2>2. \A u \in Tx \ {t} : handler'[u] = handler[u]
    BY <1>a, <1>2, SMTT(20) DEF LeaseLookup, LeaseRemaining, LeaseIssue
  <2> QED
    BY <2>1, <2>2, RequestStutters
<1>3. ASSUME NEW t \in Tx, CreateInstantApproved(t)
      PROVE  \E s \in Tx : D!Reuse(t, s)
  <2>1. DecidesOnly(t)
    BY <1>a, <1>d, <1>3 DEF CreateInstantApproved
  <2>2. /\ handler[t].pc = "instant" /\ state'[t] = "approved"
        /\ claimedBy'[t] = claimedBy[t]
    BY <1>a, <1>3 DEF CreateInstantApproved
  <2>3. handler'[t].key = handler[t].key /\ handler'[t].disableLease = handler[t].disableLease
    BY <1>a, <1>3 DEF CreateInstantApproved, Handler
  <2>4. result'[t] = Credential(handler[t].span, handler[t].leaseExp)
    BY <1>a, <1>3, SMTT(20) DEF CreateInstantApproved
  <2>5. result'[t].leaseExpiresAt = handler[t].leaseExp
    BY <2>4 DEF Credential
  <2> QED
    BY <2>1, <2>2, <2>3, <2>5, ReuseStep, SMTT(20)
<1>4. ASSUME NEW t \in Tx, CreateBound(t)
      PROVE  D!Open(t)
  <2>1. DecidesOnly(t)
    BY <1>a, <1>d, <1>4 DEF CreateBound
  <2>2. handler[t].pc = "create" /\ state'[t] = "pending" /\ result'[t] = result[t]
    BY <1>a, <1>4 DEF CreateBound
  <2>3. handler'[t].key = handler[t].key /\ handler'[t].disableLease = handler[t].disableLease
    BY <1>a, <1>4 DEF CreateBound, Handler
  <2> QED
    BY <2>1, <2>2, <2>3, OpenStep
<1>5. ASSUME NEW c \in Call, ClaimApproval(c)
      PROVE  UNCHANGED <<Decision, Told>>
  <2>1. ASSUME NEW u \in Tx
        PROVE  DecisionOf(u)' = DecisionOf(u)
    BY <1>a, <1>5, DecisionFrame DEF ClaimApproval, Undecided
  <2>2. \A v \in Waiter : ToldOf(v)' = ToldOf(v)
    BY <1>5 DEF ClaimApproval, ToldOf
  <2> QED
    BY <2>1, <2>2, Stutters
<1>6. ASSUME NEW c \in Call, FinishApproved(c)
      PROVE  (\E t \in Tx : D!Grant(t)) \/ UNCHANGED <<Decision, Told>>
  <2> DEFINE t == call[c].tx
  <2>1. CASE Undecided(t, "approving")
    <3>1. t \in Tx /\ call[c].until \in Nat /\ claimedBy[t] = call[c].approver
      BY <1>6 DEF Inv, TypeOK, CallRec, CallsNameTx, SingleClaim, InClaim, FinishApproved
    <3>2. claimedBy[t] \in Approver \cup (IF Env = "dev" THEN {NoApprover} ELSE {})
      BY <1>a, <1>6, <3>1 DEF Inv, CallsNameTx, FinishApproved
    <3>3. /\ UNCHANGED <<handler, claimedBy, wait>>
          /\ FinishLocked(t, "approved", Credential(call[c].until, call[c].until))
      BY <1>6, <2>1, SMTT(20) DEF FinishApproved
    <3>4. DecidesOnly(t)
      BY <1>a, <1>d, <3>1, <3>3, SMTT(20) DEF FinishLocked
    <3>5. /\ state'[t] = "approved"
          /\ result'[t] = Credential(call[c].until, call[c].until)
      BY <1>a, <3>1, <3>3, SMTT(20) DEF FinishLocked
    <3>6. result'[t].leaseExpiresAt \in Nat
      BY <3>1, <3>5, SMTT(20) DEF Credential
    <3>7. D!Grant(t)
      BY <2>1, <3>1, <3>2, <3>3, <3>4, <3>5, <3>6, GrantStep, SMTT(20) DEF Undecided
    <3> QED
      BY <3>1, <3>7
  <2>2. CASE ~Undecided(t, "approving")
    BY <1>6, <1>b, <2>2 DEF FinishApproved
  <2> QED
    BY <2>1, <2>2
<1>7. ASSUME NEW c \in Call, FinishFailed(c)
      PROVE  (\E t \in Tx : D!Refuse(t)) \/ UNCHANGED <<Decision, Told>>
  <2>1. call[c].tx \in Tx
    BY <1>7 DEF Inv, CallsNameTx, FinishFailed
  <2>2. CASE Undecided(call[c].tx, "approving")
    <3>1. D!Refuse(call[c].tx)
      BY <1>7, <1>e, <2>1, <2>2 DEF FinishFailed, Failure
    <3> QED
      BY <2>1, <3>1
  <2>3. CASE ~Undecided(call[c].tx, "approving")
    BY <1>7, <1>b, <2>3 DEF FinishFailed
  <2> QED
    BY <2>2, <2>3, SMTT(20)
<1>8. ASSUME NEW t \in Tx, Deny(t)
      PROVE  D!Refuse(t)
  BY <1>8, <1>e DEF Deny, Failure
<1>9. ASSUME NEW t \in Tx, Expire(t)
      PROVE  D!Refuse(t) \/ UNCHANGED <<Decision, Told>>
  <2>1. CASE Undecided(t, "pending")
    BY <1>9, <1>e, <2>1 DEF Expire, Failure
  <2>2. CASE ~Undecided(t, "pending")
    BY <1>9, <1>b, <2>2 DEF Expire
  <2> QED
    BY <2>1, <2>2
<1>10. ASSUME NEW w \in Waiter, NEW t \in Tx, WaitResult(w, t)
       PROVE  UNCHANGED <<Decision, Told>>
  <2>1. \A v \in Waiter : ToldOf(v)' = ToldOf(v)
    BY <1>10, ToldFrame, Zenon DEF Inv, TypeOK, WaitResult
  <2>2. \A u \in Tx : DecisionOf(u)' = DecisionOf(u)
    BY <1>10 DEF WaitResult, DecisionOf, Phase
  <2> QED
    BY <2>1, <2>2, Stutters, SMTT(20)
<1>11. ASSUME NEW w \in Waiter, WaitRemove(w) \/ CancelWait(w)
       PROVE  UNCHANGED <<Decision, Told>>
  <2>1. \A v \in Waiter : wait'[v].pc = wait[v].pc \/ wait'[v].pc = "done"
    BY <1>11, SMTT(20) DEF Inv, TypeOK, WaitRec, WaitRemove, CancelWait
  <2>2. \A v \in Waiter : ToldOf(v)' = ToldOf(v)
    BY <2>1, ToldFrame
  <2>3. \A u \in Tx : DecisionOf(u)' = DecisionOf(u)
    BY <1>11 DEF WaitRemove, CancelWait, DecisionOf, Phase
  <2> QED
    BY <2>2, <2>3, Stutters
<1>12. ASSUME NEW w \in Waiter, WaitReceive(w)
       PROVE  \E t \in Tx : D!Tell(w, t)
  BY <1>12, TellStep, SMTT(20)
<1>13. ASSUME NEW c \in Call, NEW t \in Tx, NEW ttl \in TTL, NEW a \in Approver,
              Approve(c, t, ttl, a)
       PROVE  UNCHANGED <<Decision, Told>>
  BY <1>13, <1>b DEF Approve, txVars
<1>14. ASSUME NEW c \in Call, StampUntil(c) \/ IssueForTransaction(c) \/ LeasePut(c)
       PROVE  UNCHANGED <<Decision, Told>>
  BY <1>14, <1>b DEF StampUntil, IssueForTransaction, LeasePut, txVars
<1>15. ASSUME NEW t \in Tx, TimerFire(t)
       PROVE  UNCHANGED <<Decision, Told>>
  BY <1>15, <1>b DEF TimerFire
<1>16. ASSUME LoadOrRemoveSigner \/ LeaseStep \/ UNCHANGED vars
       PROVE  UNCHANGED <<Decision, Told>>
  BY <1>16, <1>b DEF LoadOrRemoveSigner, LeaseStep, vars, txVars
<1> QED
  BY <1>1, <1>2, <1>3, <1>4, <1>5, <1>6, <1>7, <1>8, <1>9, <1>10, <1>11, <1>12, <1>13,
     <1>14, <1>15, <1>16 DEF Next, HandlerStep, CallStep, D!Next

\* The store implements the decision specification, in dev and outside it.
THEOREM Refinement == Spec => ImplementsDecision
BY InitDecision, StepDecision, Invariance, PTL DEF Spec, ImplementsDecision, D!Spec
===============================================================================
