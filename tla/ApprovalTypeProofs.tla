-------------------------- MODULE ApprovalTypeProofs ---------------------------
(***************************************************************************)
(* Proofs about the approval store, for every set of transactions, calls,  *)
(* waiters, lookup keys and approvers, in both environments and for every  *)
(* clock bound.  Here: the operations of the lease store, the inductive    *)
(* invariant, types and the life of a transaction.                         *)
(*                                                                         *)
(* Inv is the inductive invariant.  LeaseOnlyFromApproval is not inductive *)
(* alone: that a Put records a published approval is known only because    *)
(* the call that reaches Put holds the one claim on its transaction        *)
(* (SingleClaim), because that transaction has been published (PutIsEarned)*)
(* and because a published transaction never changes again (Lifecycle).    *)
(***************************************************************************)
EXTENDS ApprovalStore, WellFoundedInduction, TLAPS

\* The time a running purge compares with is never ahead of the clock.
PurgeNotAhead == purgeNow <= now

\* FindActive takes a maximum, which exists because expiries are bounded.
ExpiryBounded == \E b \in Nat : \A k \in DOMAIN leases : leases[k] <= b

LeaseInv == LeaseTypeOK /\ IndexMatchesLeases /\ PurgeNotAhead /\ ExpiryBounded

-------------------------------------------------------------------------------
(***************************************************************************)
(* The operations, one lemma each.                                         *)
(***************************************************************************)

\* Put keeps the maps well-typed and the index exact.
LEMMA PutPreserves ==
    ASSUME LeaseInv, NEW k \in FullKey, NEW e \in Nat, Put(k, e)
    PROVE  LeaseInv'
<1>1. k.lookup \in LookupKey
  BY DEF FullKey
<1>2. LeaseTypeOK'
  BY <1>1 DEF LeaseInv, LeaseTypeOK, Put, Bucket
<1>3. IndexMatchesLeases'
  <2>1. DOMAIN leases' = DOMAIN leases \cup {k}
    BY DEF Put
  <2>2. DOMAIN byLookup' = DOMAIN byLookup \cup {k.lookup}
    BY DEF Put
  <2>3. ASSUME NEW l \in DOMAIN byLookup'
        PROVE  byLookup'[l] # {} /\ byLookup'[l] = {j \in DOMAIN leases' : j.lookup = l}
    <3>1. CASE l = k.lookup
      <4>1. byLookup'[l] = Bucket(l) \cup {k}
        BY <2>2, <3>1 DEF Put
      <4>2. Bucket(l) = {j \in DOMAIN leases : j.lookup = l}
        BY DEF LeaseInv, IndexMatchesLeases, Bucket
      <4> QED
        BY <2>1, <3>1, <4>1, <4>2
    <3>2. CASE l # k.lookup
      <4>1. byLookup'[l] = byLookup[l] /\ l \in DOMAIN byLookup
        BY <2>2, <3>2 DEF Put
      <4> QED
        BY <2>1, <3>2, <4>1 DEF LeaseInv, IndexMatchesLeases
    <3> QED
      BY <3>1, <3>2
  <2>4. \A j \in DOMAIN leases' : j.lookup \in DOMAIN byLookup'
    BY <2>1, <2>2 DEF LeaseInv, IndexMatchesLeases
  <2> QED
    BY <2>3, <2>4 DEF IndexMatchesLeases
<1>4. PurgeNotAhead'
  BY DEF LeaseInv, PurgeNotAhead, Put
<1>5. ExpiryBounded'
  <2>1. PICK b \in Nat : \A j \in DOMAIN leases : leases[j] <= b
    BY DEF LeaseInv, ExpiryBounded
  <2>2. PICK m \in Nat : b <= m /\ e <= m
    OBVIOUS
  <2>3. \A j \in DOMAIN leases' :
          leases'[j] = IF j = k THEN e ELSE leases[j]
    BY DEF Put
  <2>4. \A j \in DOMAIN leases' : j # k => j \in DOMAIN leases /\ leases[j] \in Nat
    BY DEF Put, LeaseInv, LeaseTypeOK
  <2>5. \A j \in DOMAIN leases' : leases'[j] <= m
    BY <2>1, <2>2, <2>3, <2>4
  <2> QED
    BY <2>5 DEF ExpiryBounded
<1> QED
  BY <1>2, <1>3, <1>4, <1>5 DEF LeaseInv

\* Reading the clock starts a purge that is not ahead of it.
LEMMA PurgeStartPreserves ==
    ASSUME LeaseInv, PurgeStart
    PROVE  LeaseInv'
BY DEF LeaseInv, LeaseTypeOK, IndexMatchesLeases, PurgeNotAhead, ExpiryBounded, PurgeStart

\* Deleting any set of recorded leases keeps the index exact: a bucket loses
\* exactly those keys, and disappears with its last one.
LEMMA DeletePreservesIndex ==
    ASSUME LeaseTypeOK, IndexMatchesLeases,
           NEW dead \in SUBSET DOMAIN leases, DeleteAll(dead)
    PROVE  IndexMatchesLeases'
<1> DEFINE touched == {k.lookup : k \in dead}
           kept == {m \in DOMAIN byLookup : m \in touched => byLookup[m] \ dead # {}}
<1>1. DOMAIN leases' = DOMAIN leases \ dead
  BY DEF DeleteAll
<1>2. DOMAIN byLookup' = kept /\ \A l \in kept : byLookup'[l] = byLookup[l] \ dead
  BY DEF DeleteAll
<1>3. ASSUME NEW l \in kept
      PROVE  byLookup'[l] # {} /\ byLookup'[l] = {j \in DOMAIN leases' : j.lookup = l}
  <2>1. byLookup[l] = {j \in DOMAIN leases : j.lookup = l} /\ byLookup[l] # {}
    BY DEF IndexMatchesLeases
  <2>2. byLookup[l] \ dead # {}
    <3>1. CASE l \in touched
      BY <3>1
    <3>2. CASE l \notin touched
      BY <2>1, <3>2
    <3> QED
      BY <3>1, <3>2
  <2> QED
    BY <1>1, <1>2, <2>1, <2>2
<1>4. ASSUME NEW j \in DOMAIN leases'
      PROVE  j.lookup \in kept
  <2>1. j \in DOMAIN leases /\ j \notin dead
    BY <1>1
  <2>2. j.lookup \in DOMAIN byLookup /\ j \in byLookup[j.lookup]
    BY <2>1 DEF IndexMatchesLeases
  <2> QED
    BY <2>1, <2>2
<1> QED
  BY <1>2, <1>3, <1>4 DEF IndexMatchesLeases

\* A purge keeps the invariant and removes only leases that have expired.
LEMMA PurgeExpiredPreserves ==
    ASSUME LeaseInv, PurgeExpired
    PROVE  /\ LeaseInv'
           /\ \A k \in DOMAIN leases : k \notin DOMAIN leases' => now > leases[k]
           /\ \A k \in DOMAIN leases' : k \in DOMAIN leases /\ leases'[k] = leases[k]
<1> DEFINE dead == {k \in DOMAIN leases : purgeNow > leases[k]}
<1>1. DeleteAll(dead) /\ purgeNow' = PurgeIdle /\ now' = now
  BY DEF PurgeExpired
<1>2. DOMAIN leases' = DOMAIN leases \ dead
  BY <1>1 DEF DeleteAll
<1>3. \A k \in DOMAIN leases' : k \in DOMAIN leases /\ leases'[k] = leases[k]
  BY <1>1, <1>2 DEF DeleteAll
<1>4. LeaseTypeOK'
  <2>1. DOMAIN leases' \subseteq FullKey /\ leases' \in [DOMAIN leases' -> Nat]
    BY <1>1 DEF LeaseInv, LeaseTypeOK, DeleteAll
  <2>2. /\ DOMAIN byLookup' \subseteq LookupKey
        /\ byLookup' \in [DOMAIN byLookup' -> SUBSET FullKey]
    BY <1>1 DEF LeaseInv, LeaseTypeOK, DeleteAll
  <2> QED
    BY <1>1, <2>1, <2>2 DEF LeaseInv, LeaseTypeOK, PurgeIdle
<1>5. IndexMatchesLeases'
  <2>1. dead \in SUBSET DOMAIN leases
    OBVIOUS
  <2> QED
    BY <1>1, <2>1, DeletePreservesIndex DEF LeaseInv
<1>6. PurgeNotAhead'
  BY <1>1 DEF LeaseInv, LeaseTypeOK, PurgeNotAhead, PurgeIdle
<1>7. ASSUME NEW k \in DOMAIN leases, k \notin DOMAIN leases'
      PROVE  now > leases[k]
  <2>1. purgeNow > leases[k]
    BY <1>2, <1>7
  <2> QED
    BY <2>1 DEF LeaseInv, LeaseTypeOK, PurgeNotAhead, PurgeIdle
<1>8. ExpiryBounded'
  BY <1>3 DEF LeaseInv, ExpiryBounded
<1> QED
  BY <1>3, <1>4, <1>5, <1>6, <1>7, <1>8 DEF LeaseInv

\* Time passing keeps the invariant.
LEMMA TickPreserves ==
    ASSUME LeaseInv, Tick
    PROVE  LeaseInv'
BY DEF LeaseInv, LeaseTypeOK, IndexMatchesLeases, PurgeNotAhead, ExpiryBounded, Tick,
   leaseVars, PurgeIdle

\* The empty store satisfies the invariant.
LEMMA LeaseInitInv == LeaseInit => LeaseInv
BY DEF LeaseInit, LeaseInv, LeaseTypeOK, IndexMatchesLeases, PurgeNotAhead, ExpiryBounded,
   PurgeIdle

-------------------------------------------------------------------------------
(***************************************************************************)
(* Lookups.                                                                *)
(***************************************************************************)

\* Of a set of leases that is not empty, one expires last.
LEMMA LastToExpire ==
    ASSUME LeaseInv, NEW S \in SUBSET DOMAIN leases, S # {}
    PROVE  \E m \in S : \A j \in S : leases[j] <= leases[m]
<1>0. PICK b \in Nat : \A k \in DOMAIN leases : leases[k] <= b
  BY DEF LeaseInv, ExpiryBounded
<1> DEFINE Left(k) == b - leases[k]
           T == {Left(k) : k \in S}
           Less == {ss \in Nat \X Nat : ss[1] < ss[2]}
<1>1. \A k \in S : leases[k] \in Nat /\ leases[k] <= b
  BY <1>0 DEF LeaseInv, LeaseTypeOK
<1>2. T \in SUBSET Nat /\ T # {}
  BY <1>1
<1>3. IsWellFoundedOn(Less, Nat)
  BY NatLessThanWellFounded, Zenon DEF OpToRel
<1>4. PICK x \in T : \A y \in T : <<y, x>> \notin Less
  <2> HIDE DEF T, Less
  <2> QED
    BY <1>2, <1>3, WFMin, Zenon
<1>5. PICK m \in S : x = Left(m)
  OBVIOUS
<1>6. ASSUME NEW j \in S PROVE leases[j] <= leases[m]
  <2>1. Left(j) \in T /\ Left(j) \in Nat /\ Left(m) \in Nat
    BY <1>1
  <2>2. <<Left(j), Left(m)>> \notin Less
    BY <1>4, <1>5, <2>1
  <2>3. ~(Left(j) < Left(m))
    BY <2>1, <2>2
  <2> QED
    BY <1>1, <2>3
<1> QED
  BY <1>6

\* FindActive, which goes through the index only, finds a lease whenever a lookup
\* key has a live one, and one that lives at least as long.
LEMMA FindActiveTakesLongest == LeaseInv => FindActiveIsLongest
<1> SUFFICES ASSUME LeaseInv, NEW k \in DOMAIN leases, leases[k] >= now
             PROVE  /\ FindActive(k.lookup) # {}
                    /\ \A f \in FindActive(k.lookup) :
                         f.lookup = k.lookup /\ leases[f] >= leases[k]
  BY DEF FindActiveIsLongest
<1> DEFINE live == {j \in Bucket(k.lookup) : j \in DOMAIN leases /\ ~(now > leases[j])}
<1>1. Bucket(k.lookup) = {j \in DOMAIN leases : j.lookup = k.lookup}
  BY DEF Bucket, LeaseInv, IndexMatchesLeases
<1>2. now \in Nat /\ \A j \in DOMAIN leases : leases[j] \in Nat
  BY DEF LeaseInv, LeaseTypeOK
<1>3. k \in live /\ live \in SUBSET DOMAIN leases
  BY <1>1, <1>2
<1>4. FindActive(k.lookup) = {m \in live : \A j \in live : leases[j] <= leases[m]}
  BY DEF FindActive
<1>5. \A f \in live : f.lookup = k.lookup
  BY <1>1
<1> HIDE DEF live
<1>6. \E m \in live : \A j \in live : leases[j] <= leases[m]
  BY <1>3, LastToExpire, SMTT(20)
<1> QED
  BY <1>2, <1>3, <1>4, <1>5, <1>6

-------------------------------------------------------------------------------
(***************************************************************************)
(* The inductive invariant of the approval store.                          *)
(***************************************************************************)

\* How request, state and result of a transaction go together.
LifecycleOf(t) ==
    /\ handler[t].pc # "done" <=> state[t] = "none"
    /\ handler[t].pc # "idle" => handler[t].key \in LookupKey
    /\ state[t] = "none" => t \notin txs /\ timer[t] = "off"
    /\ state[t] \in {"none", "pending"} => claimedBy[t] = NoApprover
    /\ state[t] \in {"none", "pending", "approving"} => result[t] = NoResult
    /\ state[t] = "approved" => result[t].kind = "credential"
    /\ state[t] = "denied" => result[t] \in {Err("denied"), Err("signerr")}
    /\ state[t] = "expired" => result[t] = Err("timeout")
    /\ resultCh[t] \in {NoResult, result[t]}
Lifecycle == \A t \in Tx : LifecycleOf(t)

\* A running call names a transaction that has been created, and outside dev
\* it speaks for an approver.
CallsNameTx ==
    \A c \in Call : call[c].pc # "idle" =>
        /\ call[c].tx \in Tx
        /\ state[call[c].tx] # "none"
        /\ Env # "dev" => call[c].approver \in Approver

\* A call about to Put a lease has published the approval behind it.
PutIsEarned ==
    \A c \in Call : call[c].pc = "put" =>
        /\ GaveLease(call[c].tx, handler[call[c].tx].key, call[c].until)
        /\ claimedBy[call[c].tx] = call[c].approver

\* A request on the fast path holds a copy of a lease that was given.
HandlerLease ==
    \A t \in Tx :
        /\ handler[t].pc \in {"lookup", "hit", "issue", "instant"} =>
             ~handler[t].disableLease
        /\ handler[t].pc \in {"hit", "issue", "instant"} =>
             \E s \in Tx : GaveLease(s, handler[t].key, handler[t].leaseExp)

\* What a waiter knows at each of its steps.
WaitOK(w) ==
    /\ wait[w].pc = "idle" => wait[w] = IdleWait
    /\ wait[w].pc # "idle" => wait[w].tx \in Tx /\ state[wait[w].tx] # "none"
    /\ wait[w].pc = "shared" => wait[w].got = NoResult
    /\ wait[w].pc \in {"own", "received"} =>
         wait[w].got = result[wait[w].tx] /\ wait[w].got # NoResult
    /\ wait[w].pc = "done" =>
         \/ wait[w].got \in {Err("notfound"), Err("canceled")}
         \/ wait[w].got = result[wait[w].tx] /\ wait[w].got # NoResult
WaitsNameTx == \A w \in Waiter : WaitOK(w)

\* The inductive invariant.
Inv ==
    /\ TypeOK
    /\ LeaseInv
    /\ Lifecycle
    /\ CallsNameTx
    /\ SingleClaim
    /\ PutIsEarned
    /\ HandlerLease
    /\ LeaseOnlyFromApproval
    /\ CredentialTracesToHuman
    /\ WaitsNameTx
    /\ TimerGuardsPending

-------------------------------------------------------------------------------
(***************************************************************************)
(* Decided transactions.                                                   *)
(***************************************************************************)

\* No step touches the request, state, result or claimant of a decided
\* transaction.
LEMMA SettledStays ==
    ASSUME Inv, [Next]_vars, NEW s \in Tx, state[s] \in Terminal
    PROVE  /\ handler'[s] = handler[s]
           /\ state'[s] = state[s]
           /\ result'[s] = result[s]
           /\ claimedBy'[s] = claimedBy[s]
<1> DEFINE Settled == /\ handler'[s] = handler[s]
                      /\ state'[s] = state[s]
                      /\ result'[s] = result[s]
                      /\ claimedBy'[s] = claimedBy[s]
<1>0. /\ handler[s].pc = "done"
      /\ result[s] # NoResult
      /\ handler \in [Tx -> Handler] /\ state \in [Tx -> State]
      /\ result \in [Tx -> Result] /\ claimedBy \in [Tx -> Approver \cup {NoApprover}]
  BY DEF Inv, TypeOK, Lifecycle, LifecycleOf, Terminal, NoResult, Err
<1>1. ASSUME NEW t \in Tx, NEW k \in LookupKey, NEW direct \in BOOLEAN, SignRequest(t, k, direct)
      PROVE  Settled
  BY <1>0, <1>1 DEF SignRequest, Terminal, txVars
<1>2. ASSUME NEW t \in Tx, LeaseLookup(t)
      PROVE  Settled
  BY <1>0, <1>2 DEF LeaseLookup, Terminal, txVars
<1>3. ASSUME NEW t \in Tx, LeaseRemaining(t)
      PROVE  Settled
  BY <1>0, <1>3 DEF LeaseRemaining, Terminal, txVars
<1>4. ASSUME NEW t \in Tx, LeaseIssue(t)
      PROVE  Settled
  BY <1>0, <1>4 DEF LeaseIssue, Terminal, txVars
<1>5. ASSUME NEW t \in Tx, CreateInstantApproved(t)
      PROVE  Settled
  BY <1>0, <1>5 DEF CreateInstantApproved, Terminal, txVars
<1>6. ASSUME NEW t \in Tx, CreateBound(t)
      PROVE  Settled
  BY <1>0, <1>6 DEF CreateBound, Terminal, txVars
<1>7. ASSUME NEW c \in Call, NEW t \in Tx, NEW ttl \in TTL, NEW a \in Approver,
             Approve(c, t, ttl, a)
      PROVE  Settled
  BY <1>0, <1>7 DEF Approve, Terminal, txVars
<1>8. ASSUME NEW c \in Call, ClaimApproval(c)
      PROVE  Settled
  BY <1>0, <1>8 DEF ClaimApproval, Undecided, Terminal, txVars
<1>9. ASSUME NEW c \in Call, StampUntil(c)
      PROVE  Settled
  BY <1>0, <1>9 DEF StampUntil, Terminal, txVars
<1>10. ASSUME NEW c \in Call, IssueForTransaction(c)
      PROVE  Settled
  BY <1>0, <1>10 DEF IssueForTransaction, Terminal, txVars
<1>11. ASSUME NEW c \in Call, FinishApproved(c)
      PROVE  Settled
  BY <1>0, <1>11 DEF FinishApproved, FinishLocked, StopTimer, Undecided, Terminal, txVars
<1>12. ASSUME NEW c \in Call, FinishFailed(c)
      PROVE  Settled
  BY <1>0, <1>12, SMTT(20) DEF FinishFailed, FinishLocked, StopTimer, Undecided, Terminal, txVars
<1>13. ASSUME NEW c \in Call, LeasePut(c)
      PROVE  Settled
  BY <1>0, <1>13 DEF LeasePut, Put, Terminal, txVars
<1>14. ASSUME NEW t \in Tx, Deny(t)
      PROVE  Settled
  BY <1>0, <1>14 DEF Deny, FinishLocked, StopTimer, Undecided, Terminal, txVars
<1>15. ASSUME NEW t \in Tx, TimerFire(t)
      PROVE  Settled
  BY <1>0, <1>15 DEF TimerFire, Terminal, txVars
<1>16. ASSUME NEW t \in Tx, Expire(t)
      PROVE  Settled
  BY <1>0, <1>16 DEF Expire, FinishLocked, Undecided, Terminal, txVars
<1>17. ASSUME NEW w \in Waiter, NEW t \in Tx, WaitResult(w, t)
      PROVE  Settled
  BY <1>0, <1>17 DEF WaitResult, Terminal, txVars
<1>18. ASSUME NEW w \in Waiter, WaitReceive(w)
      PROVE  Settled
  BY <1>0, <1>18 DEF WaitReceive, Terminal, txVars
<1>19. ASSUME NEW w \in Waiter, WaitRemove(w)
      PROVE  Settled
  BY <1>0, <1>19 DEF WaitRemove, Terminal, txVars
<1>20. ASSUME NEW w \in Waiter, CancelWait(w)
      PROVE  Settled
  BY <1>0, <1>20 DEF CancelWait, StopTimer, Terminal, txVars
<1>21. CASE LoadOrRemoveSigner
  BY <1>0, <1>21 DEF LoadOrRemoveSigner, Terminal, txVars
<1>22. CASE LeaseStep
  BY <1>0, <1>22 DEF LeaseStep, PurgeStart, PurgeExpired, Tick, Terminal, txVars
<1>23. CASE UNCHANGED vars
  BY <1>23, SMTT(20) DEF vars, txVars
<1> QED
  BY <1>1, <1>2, <1>3, <1>4, <1>5, <1>6, <1>7, <1>8, <1>9, <1>10, <1>11, <1>12,
     <1>13, <1>14, <1>15, <1>16, <1>17, <1>18, <1>19, <1>20, <1>21, <1>22, <1>23
     DEF Next, HandlerStep, CallStep

\* A created transaction stays created.
LEMMA CreatedStays ==
    ASSUME Inv, [Next]_vars, NEW s \in Tx, state[s] # "none"
    PROVE  state'[s] # "none"
<1>0. /\ handler[s].pc = "done"
      /\ handler \in [Tx -> Handler] /\ state \in [Tx -> State]
  BY DEF Inv, TypeOK, Lifecycle, LifecycleOf
<1>1. ASSUME NEW t \in Tx, NEW k \in LookupKey, NEW direct \in BOOLEAN, SignRequest(t, k, direct)
      PROVE  state'[s] # "none"
  BY <1>0, <1>1 DEF SignRequest, txVars
<1>2. ASSUME NEW t \in Tx, LeaseLookup(t)
      PROVE  state'[s] # "none"
  BY <1>0, <1>2 DEF LeaseLookup, txVars
<1>3. ASSUME NEW t \in Tx, LeaseRemaining(t)
      PROVE  state'[s] # "none"
  BY <1>0, <1>3 DEF LeaseRemaining, txVars
<1>4. ASSUME NEW t \in Tx, LeaseIssue(t)
      PROVE  state'[s] # "none"
  BY <1>0, <1>4 DEF LeaseIssue, txVars
<1>5. ASSUME NEW t \in Tx, CreateInstantApproved(t)
      PROVE  state'[s] # "none"
  BY <1>0, <1>5 DEF CreateInstantApproved, txVars
<1>6. ASSUME NEW t \in Tx, CreateBound(t)
      PROVE  state'[s] # "none"
  BY <1>0, <1>6 DEF CreateBound, txVars
<1>7. ASSUME NEW c \in Call, NEW t \in Tx, NEW ttl \in TTL, NEW a \in Approver,
             Approve(c, t, ttl, a)
      PROVE  state'[s] # "none"
  BY <1>0, <1>7 DEF Approve, txVars
<1>8. ASSUME NEW c \in Call, ClaimApproval(c)
      PROVE  state'[s] # "none"
  BY <1>0, <1>8 DEF ClaimApproval, Undecided, txVars
<1>9. ASSUME NEW c \in Call, StampUntil(c)
      PROVE  state'[s] # "none"
  BY <1>0, <1>9 DEF StampUntil, txVars
<1>10. ASSUME NEW c \in Call, IssueForTransaction(c)
      PROVE  state'[s] # "none"
  BY <1>0, <1>10 DEF IssueForTransaction, txVars
<1>11. ASSUME NEW c \in Call, FinishApproved(c)
      PROVE  state'[s] # "none"
  BY <1>0, <1>11 DEF FinishApproved, FinishLocked, StopTimer, Undecided, txVars
<1>12. ASSUME NEW c \in Call, FinishFailed(c)
      PROVE  state'[s] # "none"
  BY <1>0, <1>12 DEF FinishFailed, FinishLocked, StopTimer, Undecided, txVars
<1>13. ASSUME NEW c \in Call, LeasePut(c)
      PROVE  state'[s] # "none"
  BY <1>0, <1>13 DEF LeasePut, Put, txVars
<1>14. ASSUME NEW t \in Tx, Deny(t)
      PROVE  state'[s] # "none"
  BY <1>0, <1>14 DEF Deny, FinishLocked, StopTimer, Undecided, txVars
<1>15. ASSUME NEW t \in Tx, TimerFire(t)
      PROVE  state'[s] # "none"
  BY <1>0, <1>15 DEF TimerFire, txVars
<1>16. ASSUME NEW t \in Tx, Expire(t)
      PROVE  state'[s] # "none"
  BY <1>0, <1>16 DEF Expire, FinishLocked, Undecided, txVars
<1>17. ASSUME NEW w \in Waiter, NEW t \in Tx, WaitResult(w, t)
      PROVE  state'[s] # "none"
  BY <1>0, <1>17 DEF WaitResult, txVars
<1>18. ASSUME NEW w \in Waiter, WaitReceive(w)
      PROVE  state'[s] # "none"
  BY <1>0, <1>18 DEF WaitReceive, txVars
<1>19. ASSUME NEW w \in Waiter, WaitRemove(w)
      PROVE  state'[s] # "none"
  BY <1>0, <1>19 DEF WaitRemove, txVars
<1>20. ASSUME NEW w \in Waiter, CancelWait(w)
      PROVE  state'[s] # "none"
  BY <1>0, <1>20 DEF CancelWait, StopTimer, txVars
<1>21. CASE LoadOrRemoveSigner
  BY <1>0, <1>21 DEF LoadOrRemoveSigner, txVars
<1>22. CASE LeaseStep
  BY <1>0, <1>22 DEF LeaseStep, PurgeStart, PurgeExpired, Tick, txVars
<1>23. CASE UNCHANGED vars
  BY <1>23 DEF vars, txVars
<1> QED
  BY <1>1, <1>2, <1>3, <1>4, <1>5, <1>6, <1>7, <1>8, <1>9, <1>10, <1>11, <1>12,
     <1>13, <1>14, <1>15, <1>16, <1>17, <1>18, <1>19, <1>20, <1>21, <1>22, <1>23
     DEF Next, HandlerStep, CallStep

-------------------------------------------------------------------------------
(***************************************************************************)
(* The leases, as the approval store uses them.                            *)
(***************************************************************************)

\* Only LeasePut and the lease store's own steps touch the leases or the clock.
LEMMA LeaseFrame ==
    ASSUME [Next]_vars
    PROVE  \/ UNCHANGED <<leases, byLookup, purgeNow, now>>
           \/ \E c \in Call : LeasePut(c)
           \/ LeaseStep
<1>1. ASSUME NEW t \in Tx, NEW k \in LookupKey, NEW direct \in BOOLEAN, SignRequest(t, k, direct)
      PROVE  UNCHANGED <<leases, byLookup, purgeNow, now>>
  BY <1>1 DEF SignRequest, leaseVars
<1>2. ASSUME NEW t \in Tx, LeaseLookup(t)
      PROVE  UNCHANGED <<leases, byLookup, purgeNow, now>>
  BY <1>2 DEF LeaseLookup, leaseVars
<1>3. ASSUME NEW t \in Tx, LeaseRemaining(t)
      PROVE  UNCHANGED <<leases, byLookup, purgeNow, now>>
  BY <1>3 DEF LeaseRemaining, leaseVars
<1>4. ASSUME NEW t \in Tx, LeaseIssue(t)
      PROVE  UNCHANGED <<leases, byLookup, purgeNow, now>>
  BY <1>4 DEF LeaseIssue, leaseVars
<1>5. ASSUME NEW t \in Tx, CreateInstantApproved(t)
      PROVE  UNCHANGED <<leases, byLookup, purgeNow, now>>
  BY <1>5 DEF CreateInstantApproved, leaseVars
<1>6. ASSUME NEW t \in Tx, CreateBound(t)
      PROVE  UNCHANGED <<leases, byLookup, purgeNow, now>>
  BY <1>6 DEF CreateBound, leaseVars
<1>7. ASSUME NEW c \in Call, NEW t \in Tx, NEW ttl \in TTL, NEW a \in Approver,
             Approve(c, t, ttl, a)
      PROVE  UNCHANGED <<leases, byLookup, purgeNow, now>>
  BY <1>7 DEF Approve, leaseVars
<1>8. ASSUME NEW c \in Call, ClaimApproval(c)
      PROVE  UNCHANGED <<leases, byLookup, purgeNow, now>>
  BY <1>8 DEF ClaimApproval, leaseVars
<1>9. ASSUME NEW c \in Call, StampUntil(c)
      PROVE  UNCHANGED <<leases, byLookup, purgeNow, now>>
  BY <1>9 DEF StampUntil, leaseVars
<1>10. ASSUME NEW c \in Call, IssueForTransaction(c)
      PROVE  UNCHANGED <<leases, byLookup, purgeNow, now>>
  BY <1>10 DEF IssueForTransaction, leaseVars
<1>11. ASSUME NEW c \in Call, FinishApproved(c)
      PROVE  UNCHANGED <<leases, byLookup, purgeNow, now>>
  BY <1>11 DEF FinishApproved, leaseVars
<1>12. ASSUME NEW c \in Call, FinishFailed(c)
      PROVE  UNCHANGED <<leases, byLookup, purgeNow, now>>
  BY <1>12 DEF FinishFailed, leaseVars
<1>13. ASSUME NEW t \in Tx, Deny(t)
      PROVE  UNCHANGED <<leases, byLookup, purgeNow, now>>
  BY <1>13 DEF Deny, leaseVars
<1>14. ASSUME NEW t \in Tx, TimerFire(t)
      PROVE  UNCHANGED <<leases, byLookup, purgeNow, now>>
  BY <1>14 DEF TimerFire, leaseVars
<1>15. ASSUME NEW t \in Tx, Expire(t)
      PROVE  UNCHANGED <<leases, byLookup, purgeNow, now>>
  BY <1>15 DEF Expire, leaseVars
<1>16. ASSUME NEW w \in Waiter, NEW t \in Tx, WaitResult(w, t)
      PROVE  UNCHANGED <<leases, byLookup, purgeNow, now>>
  BY <1>16 DEF WaitResult, leaseVars
<1>17. ASSUME NEW w \in Waiter, WaitReceive(w)
      PROVE  UNCHANGED <<leases, byLookup, purgeNow, now>>
  BY <1>17 DEF WaitReceive, leaseVars
<1>18. ASSUME NEW w \in Waiter, WaitRemove(w)
      PROVE  UNCHANGED <<leases, byLookup, purgeNow, now>>
  BY <1>18 DEF WaitRemove, leaseVars
<1>19. ASSUME NEW w \in Waiter, CancelWait(w)
      PROVE  UNCHANGED <<leases, byLookup, purgeNow, now>>
  BY <1>19 DEF CancelWait, leaseVars
<1>20. CASE LoadOrRemoveSigner
  BY <1>20 DEF LoadOrRemoveSigner, leaseVars
<1>21. CASE UNCHANGED vars
  BY <1>21 DEF vars, leaseVars
<1> QED
  BY <1>1, <1>2, <1>3, <1>4, <1>5, <1>6, <1>7, <1>8, <1>9, <1>10, <1>11, <1>12,
     <1>13, <1>14, <1>15, <1>16, <1>17, <1>18, <1>19, <1>20, <1>21 DEF Next,
     HandlerStep, CallStep

\* A lease is put for a key and an approver of the model.
LEMMA PutIsTyped ==
    ASSUME Inv, NEW c \in Call, LeasePut(c)
    PROVE  /\ [lookup |-> handler[call[c].tx].key, approver |-> call[c].approver] \in FullKey
           /\ call[c].until \in Nat
<1>1. call[c].pc = "put"
  BY DEF LeasePut
<1>2. call[c].tx \in Tx /\ state[call[c].tx] # "none"
  BY <1>1 DEF Inv, CallsNameTx
<1>3. handler[call[c].tx].key \in LookupKey
  BY <1>2 DEF Inv, Lifecycle, LifecycleOf
<1>4. call[c].approver \in Approver
  BY <1>1 DEF Inv, PutIsEarned, GaveLease
<1>5. call[c].until \in Nat
  BY DEF Inv, TypeOK, CallRec
<1> QED
  BY <1>3, <1>4, <1>5 DEF FullKey

\* The two maps of the lease store stay in agreement.
LEMMA LeaseInvPreserved ==
    ASSUME Inv, [Next]_vars
    PROVE  LeaseInv'
<1>0. LeaseInv
  BY DEF Inv
<1>1. CASE UNCHANGED <<leases, byLookup, purgeNow, now>>
  BY <1>0, <1>1 DEF LeaseInv, LeaseTypeOK, IndexMatchesLeases, PurgeNotAhead, ExpiryBounded
<1>2. ASSUME NEW c \in Call, LeasePut(c)
      PROVE  LeaseInv'
  <2>1. Put([lookup |-> handler[call[c].tx].key, approver |-> call[c].approver],
            call[c].until)
    BY <1>2 DEF LeasePut
  <2> QED
    BY <1>0, <1>2, <2>1, PutIsTyped, PutPreserves
<1>3. CASE LeaseStep
  BY <1>0, <1>3, PurgeStartPreserves, PurgeExpiredPreserves, TickPreserves DEF LeaseStep
<1> QED
  BY <1>1, <1>2, <1>3, LeaseFrame

-------------------------------------------------------------------------------
(***************************************************************************)
(* Type correctness.                                                       *)
(***************************************************************************)

\* The values the actions store are of the declared types.
LEMMA ValuesTyped ==
    /\ NoResult \in Result
    /\ \A k \in Failure : Err(k) \in Result
    /\ \A u, l \in Nat : Credential(u, l) \in Result
    /\ IdleHandler \in Handler
    /\ IdleCall \in CallRec
    /\ IdleWait \in WaitRec
BY DEF NoResult, Result, Failure, Err, Credential, IdleHandler, Handler, IdleCall,
       CallRec, IdleWait, WaitRec

\* Every step keeps the types.
LEMMA TypePreserved ==
    ASSUME Inv, [Next]_vars
    PROVE  TypeOK'
<1> DEFINE T == /\ available \in BOOLEAN
                /\ handler \in [Tx -> Handler]
                /\ txs \subseteq Tx
                /\ state \in [Tx -> State]
                /\ result \in [Tx -> Result]
                /\ resultCh \in [Tx -> Result]
                /\ timer \in [Tx -> {"off", "armed", "fired"}]
                /\ waiters \in [Tx -> Int]
                /\ claimedBy \in [Tx -> Approver \cup {NoApprover}]
                /\ call \in [Call -> CallRec]
                /\ wait \in [Waiter -> WaitRec]
<1> SUFFICES T'
  BY LeaseInvPreserved DEF TypeOK, LeaseInv
<1>a. T /\ now \in Nat
  BY DEF Inv, TypeOK, LeaseTypeOK
<1>b. \A t \in Tx : handler[t] \in Handler /\ handler[t].leaseExp \in Nat
                    /\ handler[t].span \in Nat
  BY <1>a DEF Handler
<1>c. \A c \in Call : call[c] \in CallRec /\ call[c].ttl \in Nat /\ call[c].until \in Nat
                      /\ call[c].approver \in Approver \cup {NoApprover}
  BY <1>a DEF CallRec
<1>d. \A w \in Waiter : wait[w] \in WaitRec
  BY <1>a
<1>1. ASSUME NEW t \in Tx, NEW k \in LookupKey, NEW direct \in BOOLEAN, SignRequest(t, k, direct)
      PROVE  T'
  <2>1. handler' \in [Tx -> Handler]
    BY <1>a, <1>b, <1>1 DEF SignRequest, Handler
  <2> QED
    BY <1>a, <1>1, <2>1 DEF SignRequest, txVars
<1>2. ASSUME NEW t \in Tx, LeaseLookup(t)
      PROVE  T'
  <2>1. ASSUME handler' = [handler EXCEPT ![t].pc = "create"]
        PROVE  handler' \in [Tx -> Handler]
    BY ZenonT(30), <1>a, <1>b, <2>1 DEF Handler
  <2>2. ASSUME NEW k \in FindActive(handler[t].key),
               handler' = [handler EXCEPT ![t].pc = "hit", ![t].leaseExp = leases[k]]
        PROVE  handler' \in [Tx -> Handler]
    <3>1. leases[k] \in Nat
      BY DEF FindActive, Inv, TypeOK, LeaseTypeOK
    <3>2. handler[t] \in Handler /\ handler \in [Tx -> Handler]
      BY <1>a
    <3> QED
      BY Zenon, <2>2, <3>1, <3>2 DEF Handler
  <2> QED
    BY <1>a, <1>2, <2>1, <2>2 DEF LeaseLookup, txVars
<1>3. ASSUME NEW t \in Tx, LeaseRemaining(t)
      PROVE  T'
  <2>1. handler[t] \in Handler /\ handler \in [Tx -> Handler]
    BY <1>a
  <2>2. Remaining(handler[t].leaseExp) \in Nat
    BY <1>a, <1>b DEF Remaining
  <2>3. ASSUME handler' = [handler EXCEPT ![t].pc = "create", ![t].leaseExp = 0]
        PROVE  handler' \in [Tx -> Handler]
    BY Zenon, <2>1, <2>3 DEF Handler
  <2>4. ASSUME handler' = [handler EXCEPT ![t].pc = "issue",
                                        ![t].span = Remaining(handler[t].leaseExp)]
        PROVE  handler' \in [Tx -> Handler]
    BY Zenon, <2>1, <2>2, <2>4 DEF Handler
  <2> QED
    BY <1>a, <1>3, <2>3, <2>4 DEF LeaseRemaining, txVars
<1>4. ASSUME NEW t \in Tx, LeaseIssue(t)
      PROVE  T'
  <2>1. handler[t] \in Handler /\ handler \in [Tx -> Handler]
    BY <1>a
  <2>2. now + handler[t].span \in Nat
    BY <1>a, <1>b
  <2>3. ASSUME handler' = [handler EXCEPT ![t].pc = "instant",
                                        ![t].span = now + handler[t].span]
        PROVE  handler' \in [Tx -> Handler]
    BY Zenon, <2>1, <2>2, <2>3 DEF Handler
  <2>4. ASSUME handler' = [handler EXCEPT ![t].pc = "create", ![t].leaseExp = 0,
                                        ![t].span = 0]
        PROVE  handler' \in [Tx -> Handler]
    BY Zenon, <2>1, <2>4 DEF Handler
  <2> QED
    BY <1>a, <1>4, <2>3, <2>4 DEF LeaseIssue, txVars
<1>5. ASSUME NEW t \in Tx, CreateInstantApproved(t)
      PROVE  T'
  <2>1. handler[t] \in Handler /\ handler \in [Tx -> Handler]
    BY <1>a, <1>b, ValuesTyped
  <2>2. handler' = [handler EXCEPT ![t].pc = "done", ![t].leaseExp = 0,
                                    ![t].span = 0]
    BY <1>5 DEF CreateInstantApproved
  <2>3. handler' \in [Tx -> Handler]
    BY Zenon, <2>1, <2>2 DEF Handler
  <2> QED
    BY <1>a, <1>5, <2>3, <1>b, ValuesTyped DEF CreateInstantApproved, txVars, State
<1>6. ASSUME NEW t \in Tx, CreateBound(t)
      PROVE  T'
  <2>1. handler' \in [Tx -> Handler]
    BY ZenonT(30), <1>a, <1>b, <1>6 DEF CreateBound, Handler
  <2> QED
    BY <1>a, <1>6, <2>1, StoreAssumption DEF CreateBound, txVars, State, CallRec
<1>7. ASSUME NEW c \in Call, NEW t \in Tx, NEW ttl \in TTL, NEW a \in Approver,
             Approve(c, t, ttl, a)
      PROVE  T'
  <2>1. call' \in [Call -> CallRec]
    BY <1>a, <1>c, <1>7, StoreAssumption DEF Approve, CallRec
  <2> QED
    BY <1>a, <1>7, <2>1 DEF Approve, txVars
<1>8. ASSUME NEW c \in Call, ClaimApproval(c)
      PROVE  T'
  <2>1. call[c] \in CallRec /\ call \in [Call -> CallRec] /\ IdleCall \in CallRec
    BY <1>a, <1>c, ValuesTyped
  <2>2. \/ call' = [call EXCEPT ![c].pc = "claimed"]
        \/ call' = [call EXCEPT ![c] = IdleCall]
    BY <1>8 DEF ClaimApproval
  <2>3. call' \in [Call -> CallRec]
    BY <2>1, <2>2 DEF CallRec
  <2> QED
    BY <1>a, <1>8, <2>3, <1>c DEF ClaimApproval, Undecided, txVars, State,
       CallsNameTx, Inv
<1>9. ASSUME NEW c \in Call, StampUntil(c)
      PROVE  T'
  <2>1. call[c] \in CallRec /\ call \in [Call -> CallRec] /\ now + call[c].ttl \in Nat
    BY <1>a, <1>c, ValuesTyped
  <2>2. call' = [call EXCEPT ![c].pc = "signing", ![c].until = now + call[c].ttl]
    BY <1>9 DEF StampUntil
  <2>3. call' \in [Call -> CallRec]
    BY Zenon, <2>1, <2>2 DEF CallRec
  <2> QED
    BY <1>a, <1>9, <2>3 DEF StampUntil, txVars
<1>10. ASSUME NEW c \in Call, IssueForTransaction(c)
      PROVE  T'
  <2>1. call' \in [Call -> CallRec]
    BY <1>a, <1>c, <1>10 DEF IssueForTransaction, CallRec
  <2> QED
    BY <1>a, <1>10, <2>1 DEF IssueForTransaction, txVars
<1>11. ASSUME NEW c \in Call, FinishApproved(c)
      PROVE  T'
  <2>1. call' \in [Call -> CallRec]
    BY <1>a, <1>c, <1>11, ValuesTyped, SMTT(20) DEF FinishApproved, CallRec
  <2> QED
    BY <1>a, <1>11, <2>1, <1>c, ValuesTyped DEF FinishApproved, FinishLocked,
       StopTimer, Undecided, txVars, State, CallsNameTx, Inv
<1>12. ASSUME NEW c \in Call, FinishFailed(c)
      PROVE  T'
  <2>1. call' \in [Call -> CallRec]
    BY <1>a, <1>c, <1>12, ValuesTyped DEF FinishFailed
  <2> QED
    BY <1>a, <1>12, <2>1, ValuesTyped DEF FinishFailed, FinishLocked, StopTimer,
       Undecided, txVars, State, Failure, CallsNameTx, Inv
<1>13. ASSUME NEW c \in Call, LeasePut(c)
      PROVE  T'
  <2>1. call' \in [Call -> CallRec]
    BY <1>a, <1>c, <1>13, ValuesTyped DEF LeasePut
  <2> QED
    BY <1>a, <1>13, <2>1 DEF LeasePut, txVars
<1>14. ASSUME NEW t \in Tx, Deny(t)
      PROVE  T'
  BY <1>a, <1>14, ValuesTyped DEF Deny, FinishLocked, StopTimer, Undecided,
     txVars, State, Failure
<1>15. ASSUME NEW t \in Tx, TimerFire(t)
      PROVE  T'
  BY <1>a, <1>15 DEF TimerFire, txVars
<1>16. ASSUME NEW t \in Tx, Expire(t)
      PROVE  T'
  BY <1>a, <1>16, ValuesTyped, SMTT(20) DEF Expire, FinishLocked, Undecided, txVars, State, Failure
<1>17. ASSUME NEW w \in Waiter, NEW t \in Tx, WaitResult(w, t)
      PROVE  T'
  <2>1. wait' \in [Waiter -> WaitRec]
    BY <1>a, <1>d, <1>17, ValuesTyped DEF WaitResult, WaitRec, Failure
  <2> QED
    BY <1>a, <1>17, <2>1 DEF WaitResult, txVars
<1>18. ASSUME NEW w \in Waiter, WaitReceive(w)
      PROVE  T'
  <2>1. wait' \in [Waiter -> WaitRec]
    BY <1>a, <1>d, <1>18 DEF WaitReceive, WaitRec
  <2> QED
    BY <1>a, <1>18, <2>1, ValuesTyped DEF WaitReceive, txVars, WaitsNameTx, Inv
<1>19. ASSUME NEW w \in Waiter, WaitRemove(w)
      PROVE  T'
  <2>1. wait' \in [Waiter -> WaitRec]
    BY <1>a, <1>d, <1>19, SMTT(20) DEF WaitRemove, WaitRec
  <2> QED
    BY <1>a, <1>19, <2>1 DEF WaitRemove, txVars
<1>20. ASSUME NEW w \in Waiter, CancelWait(w)
      PROVE  T'
  <2>1. wait' \in [Waiter -> WaitRec]
    BY ZenonT(30), <1>a, <1>d, <1>20, ValuesTyped DEF CancelWait, WaitRec, Failure
  <2> QED
    BY <1>a, <1>20, <2>1 DEF CancelWait, StopTimer, txVars, WaitsNameTx, Inv
<1>21. CASE LoadOrRemoveSigner
  BY <1>a, <1>21 DEF LoadOrRemoveSigner, txVars
<1>22. CASE LeaseStep
  BY <1>a, <1>22 DEF LeaseStep, txVars
<1>23. CASE UNCHANGED vars
  BY <1>a, <1>23 DEF vars, txVars
<1> QED
  BY Zenon, <1>1, <1>2, <1>3, <1>4, <1>5, <1>6, <1>7, <1>8, <1>9, <1>10, <1>11,
     <1>12, <1>13, <1>14, <1>15, <1>16, <1>17, <1>18, <1>19, <1>20, <1>21,
     <1>22, <1>23 DEF Next, HandlerStep, CallStep

-------------------------------------------------------------------------------
(***************************************************************************)
(* Transactions.                                                           *)
(***************************************************************************)

\* Every step keeps request, state and result of each transaction in step.
LEMMA LifecyclePreserved ==
    ASSUME Inv, [Next]_vars
    PROVE  Lifecycle'
<1> SUFFICES ASSUME NEW u \in Tx
             PROVE  LifecycleOf(u)'
  BY DEF Lifecycle
<1>a. LifecycleOf(u)
  BY DEF Inv, Lifecycle
<1>b. /\ handler \in [Tx -> Handler] /\ state \in [Tx -> State]
      /\ result \in [Tx -> Result] /\ resultCh \in [Tx -> Result]
      /\ timer \in [Tx -> {"off", "armed", "fired"}]
      /\ claimedBy \in [Tx -> Approver \cup {NoApprover}]
  BY DEF Inv, TypeOK
<1>c. handler[u] \in Handler
  BY <1>b, SMTT(20)
<1>1. ASSUME UNCHANGED <<handler, txs, state, result, resultCh, timer, claimedBy>>
      PROVE  LifecycleOf(u)'
  BY <1>a, <1>1, SMTT(20) DEF LifecycleOf
<1>2. ASSUME NEW t \in Tx, NEW k \in LookupKey, NEW direct \in BOOLEAN,
             SignRequest(t, k, direct)
      PROVE  LifecycleOf(u)'
  BY <1>a, <1>b, <1>2 DEF LifecycleOf, SignRequest, txVars
<1>3. ASSUME NEW t \in Tx, LeaseLookup(t)
      PROVE  LifecycleOf(u)'
  <2>1. \/ handler'[u].key = handler[u].key /\ handler[u].pc = "lookup" /\ t = u
        \/ handler'[u] = handler[u]
    BY <1>b, <1>3 DEF LeaseLookup, Handler
  <2>2. t = u => handler'[u].pc \in {"create", "hit"}
    BY <1>b, <1>3 DEF LeaseLookup, Handler
  <2> QED
    BY <1>a, <1>3, <2>1, <2>2 DEF LifecycleOf, LeaseLookup, txVars
<1>4. ASSUME NEW t \in Tx, LeaseRemaining(t)
      PROVE  LifecycleOf(u)'
  BY <1>a, <1>b, <1>c, <1>4 DEF LifecycleOf, LeaseRemaining, txVars, Handler
<1>5. ASSUME NEW t \in Tx, LeaseIssue(t)
      PROVE  LifecycleOf(u)'
  BY <1>a, <1>b, <1>c, <1>5, SMTT(20) DEF LifecycleOf, LeaseIssue, txVars, Handler
<1>6. ASSUME NEW t \in Tx, CreateInstantApproved(t)
      PROVE  LifecycleOf(u)'
  BY <1>a, <1>b, <1>c, <1>6 DEF LifecycleOf, CreateInstantApproved, Credential, Handler
<1>7. ASSUME NEW t \in Tx, CreateBound(t)
      PROVE  LifecycleOf(u)'
  BY <1>a, <1>b, <1>c, <1>7 DEF LifecycleOf, CreateBound, Handler
<1>8. ASSUME NEW c \in Call, ClaimApproval(c)
      PROVE  LifecycleOf(u)'
  BY <1>a, <1>b, <1>8 DEF LifecycleOf, ClaimApproval, Undecided
<1>9. ASSUME NEW c \in Call, FinishApproved(c)
      PROVE  LifecycleOf(u)'
  BY <1>a, <1>b, <1>9, SMTT(20) DEF LifecycleOf, FinishApproved, Undecided, FinishLocked,
     StopTimer, Credential
<1>10. ASSUME NEW c \in Call, FinishFailed(c)
       PROVE  LifecycleOf(u)'
  BY <1>a, <1>b, <1>10 DEF LifecycleOf, FinishFailed, Undecided, FinishLocked, StopTimer
<1>11. ASSUME NEW t \in Tx, Deny(t)
       PROVE  LifecycleOf(u)'
  BY <1>a, <1>b, <1>11 DEF LifecycleOf, Deny, Undecided, FinishLocked, StopTimer
<1>12. ASSUME NEW t \in Tx, TimerFire(t)
       PROVE  LifecycleOf(u)'
  BY <1>a, <1>b, <1>12, SMTT(20) DEF LifecycleOf, TimerFire
<1>13. ASSUME NEW t \in Tx, Expire(t)
       PROVE  LifecycleOf(u)'
  BY <1>a, <1>b, <1>13, SMTT(20) DEF LifecycleOf, Expire, Undecided, FinishLocked
<1>14. ASSUME NEW w \in Waiter, NEW t \in Tx, WaitResult(w, t)
       PROVE  LifecycleOf(u)'
  BY <1>1, <1>14 DEF WaitResult
<1>15. ASSUME NEW w \in Waiter, WaitReceive(w)
       PROVE  LifecycleOf(u)'
  BY <1>a, <1>b, <1>15 DEF LifecycleOf, WaitReceive
<1>16. ASSUME NEW w \in Waiter, WaitRemove(w)
       PROVE  LifecycleOf(u)'
  BY <1>a, <1>16 DEF LifecycleOf, WaitRemove
<1>17. ASSUME NEW w \in Waiter, CancelWait(w)
       PROVE  LifecycleOf(u)'
  BY <1>a, <1>b, <1>17 DEF LifecycleOf, CancelWait, StopTimer
<1>18. ASSUME NEW c \in Call, NEW t \in Tx, NEW ttl \in TTL, NEW a \in Approver,
              Approve(c, t, ttl, a)
       PROVE  LifecycleOf(u)'
  BY <1>1, <1>18 DEF Approve, txVars
<1>19. ASSUME NEW c \in Call, StampUntil(c) \/ IssueForTransaction(c) \/ LeasePut(c)
       PROVE  LifecycleOf(u)'
  BY <1>1, <1>19 DEF StampUntil, IssueForTransaction, LeasePut, txVars
<1>20. ASSUME LoadOrRemoveSigner \/ LeaseStep \/ UNCHANGED vars
       PROVE  LifecycleOf(u)'
  BY <1>1, <1>20 DEF LoadOrRemoveSigner, LeaseStep, vars, txVars
<1> QED
  BY <1>2, <1>3, <1>4, <1>5, <1>6, <1>7, <1>8, <1>9, <1>10, <1>11, <1>12, <1>13, <1>14,
     <1>15, <1>16, <1>17, <1>18, <1>19, <1>20 DEF Next, HandlerStep, CallStep
===============================================================================
