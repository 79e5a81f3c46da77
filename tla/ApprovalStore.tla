----------------------------- MODULE ApprovalStore -----------------------------
(***************************************************************************)
(* The approval transactions of luna-proxy (proxy/internal/approval) and   *)
(* the sign and wait handlers that drive them (proxy/internal/api).        *)
(*                                                                         *)
(* A sign request becomes one transaction.  It is either signed at once    *)
(* from an active lease, or it stays pending until a human approves or     *)
(* denies it (Telegram, mobile), its timer expires it, or its last waiter  *)
(* gives up.  Approving claims the transaction, signs outside the mutex,   *)
(* and then publishes the result and records a lease in two more steps.    *)
(* Each critical section of Store.mu, and each step taken outside it that  *)
(* reads the clock or the keystore, is one action.                         *)
(*                                                                         *)
(* A request is identified with the transaction it creates.  The signer    *)
(* mode only decides which key a signature needs; "available" says whether *)
(* that key is loaded, and it changes while requests are in flight.        *)
(***************************************************************************)
EXTENDS LeaseStore

CONSTANTS
    Tx,          \* transaction ids, one per sign request
    Waiter,      \* calls of Store.Wait
    Call,        \* concurrent runs of approveWithIssuer
    TTL,         \* lifetimes an approver may ask for
    DefaultTTL,  \* DefaultDevCertTTL
    Env,         \* cfg.Env: "dev" approves without a human
    NoTx, NoKey, \* absence of a transaction, of a lookup key
    NoApprover   \* the empty approver of the dev auto-approval

ASSUME StoreAssumption ==
    /\ TTL \subseteq Nat
    /\ DefaultTTL \in Nat \ {0}
    /\ Env \in {"dev", "prod"}
    /\ NoTx \notin Tx
    /\ NoKey \notin LookupKey
    /\ NoApprover \notin Approver

VARIABLES
    available,   \* the signing key is loaded (keystore, outside this module)
    handler,     \* progress and content of the sign request of a transaction
    txs,         \* ids in Store.txs
    state,       \* Transaction.State
    result,      \* txEntry.result, kept after the entry is deleted
    resultCh,    \* content of the one-slot channel txEntry.resultCh
    timer,       \* txEntry.timer: "off", "armed", or "fired" (callback started)
    waiters,     \* txEntry.waiters
    claimedBy,   \* who claimed the transaction (history)
    call,        \* progress of each approveWithIssuer
    wait         \* progress of each Wait

txVars == <<txs, state, result, resultCh, timer, waiters, claimedBy>>
vars == <<leaseVars, now, available, handler, txVars, call, wait>>

-------------------------------------------------------------------------------
(***************************************************************************)
(* Values.  A Result is a credential with its two expiries, or an error.   *)
(***************************************************************************)
State == {"none", "pending", "approving", "approved", "denied", "expired"}
Terminal == {"approved", "denied", "expired"}

Failure == {"denied", "timeout", "signerr", "notfound", "canceled"}

Result == [kind : {"none", "credential"} \cup Failure,
           expiresAt : Nat, leaseExpiresAt : Nat]

NoResult == [kind |-> "none", expiresAt |-> 0, leaseExpiresAt |-> 0]
Credential(until, leaseUntil) ==
    [kind |-> "credential", expiresAt |-> until, leaseExpiresAt |-> leaseUntil]
Err(kind) == [kind |-> kind, expiresAt |-> 0, leaseExpiresAt |-> 0]

Handler == [pc : {"idle", "lookup", "hit", "issue", "instant", "create", "done"},
            key : LookupKey \cup {NoKey}, disableLease : BOOLEAN,
            leaseExp : Nat, span : Nat]
IdleHandler == [pc |-> "idle", key |-> NoKey, disableLease |-> FALSE,
                leaseExp |-> 0, span |-> 0]

CallRec == [pc : {"idle", "start", "claimed", "signing", "issued", "failed", "put"},
            tx : Tx \cup {NoTx}, ttl : Nat,
            approver : Approver \cup {NoApprover}, until : Nat]
IdleCall == [pc |-> "idle", tx |-> NoTx, ttl |-> 0, approver |-> NoApprover,
             until |-> 0]

WaitRec == [pc : {"idle", "shared", "own", "received", "done"},
            tx : Tx \cup {NoTx}, got : Result]
IdleWait == [pc |-> "idle", tx |-> NoTx, got |-> NoResult]

Init ==
    /\ LeaseInit
    /\ available = TRUE
    /\ handler = [t \in Tx |-> IdleHandler]
    /\ txs = {}
    /\ state = [t \in Tx |-> "none"]
    /\ result = [t \in Tx |-> NoResult]
    /\ resultCh = [t \in Tx |-> NoResult]
    /\ timer = [t \in Tx |-> "off"]
    /\ waiters = [t \in Tx |-> 0]
    /\ claimedBy = [t \in Tx |-> NoApprover]
    /\ call = [c \in Call |-> IdleCall]
    /\ wait = [w \in Waiter |-> IdleWait]

-------------------------------------------------------------------------------
(***************************************************************************)
(* The sign handler: lease fast path, or a pending transaction.            *)
(***************************************************************************)

\* Mutated form of SignRequest: a direct local-key request may use a lease.
SignRequestDirectLease(t, key, direct) ==
    /\ handler[t].pc = "idle"
    /\ available
    /\ handler' = [handler EXCEPT ![t] =
                     [pc |-> IF Env # "dev" THEN "lookup" ELSE "create",
                      key |-> key, disableLease |-> direct,
                      leaseExp |-> 0, span |-> 0]]
    /\ UNCHANGED <<leaseVars, now, available, txVars, call, wait>>

\* handleSign up to the lease lookup: 503 while the keystore is sealed; the
\* dev environment and direct local-key requests never use a lease.
SignRequest(t, key, direct) ==
    /\ handler[t].pc = "idle"
    /\ available
    /\ handler' = [handler EXCEPT ![t] =
                     [pc |-> IF Env # "dev" /\ ~direct THEN "lookup" ELSE "create",
                      key |-> key, disableLease |-> direct,
                      leaseExp |-> 0, span |-> 0]]
    /\ UNCHANGED <<leaseVars, now, available, txVars, call, wait>>

\* IssueFromLease: FindActive returns a copy of the lease, or nothing.
LeaseLookup(t) ==
    /\ handler[t].pc = "lookup"
    /\ \/ /\ FindActive(handler[t].key) = {}
          /\ handler' = [handler EXCEPT ![t].pc = "create"]
       \/ \E k \in FindActive(handler[t].key) :
            handler' = [handler EXCEPT ![t].pc = "hit", ![t].leaseExp = leases[k]]
    /\ UNCHANGED <<leaseVars, now, available, txVars, call, wait>>

\* IssueFromLease: the remaining time, read from the clock; none left is a miss.
LeaseRemaining(t) ==
    LET remaining == Remaining(handler[t].leaseExp)
    IN  /\ handler[t].pc = "hit"
        /\ handler' = IF remaining <= 0
                      THEN [handler EXCEPT ![t].pc = "create", ![t].leaseExp = 0]
                      ELSE [handler EXCEPT ![t].pc = "issue", ![t].span = remaining]
        /\ UNCHANGED <<leaseVars, now, available, txVars, call, wait>>

\* IssueFromLease: sign until time.Now() + remaining, a second reading of the
\* clock.  A signing error falls back to human approval.
LeaseIssue(t) ==
    /\ handler[t].pc = "issue"
    /\ \/ /\ available
          /\ handler' = [handler EXCEPT ![t].pc = "instant",
                                        ![t].span = now + handler[t].span]
       \/ handler' = [handler EXCEPT ![t].pc = "create", ![t].leaseExp = 0,
                                     ![t].span = 0]
    /\ UNCHANGED <<leaseVars, now, available, txVars, call, wait>>

\* The finished transaction of the fast path; nobody counts as its waiter and
\* it has no timer.
CreateInstantApproved(t) ==
    LET res == Credential(handler[t].span, handler[t].leaseExp)
    IN  /\ handler[t].pc = "instant"
        /\ txs' = txs \cup {t}
        /\ state' = [state EXCEPT ![t] = "approved"]
        /\ result' = [result EXCEPT ![t] = res]
        /\ resultCh' = [resultCh EXCEPT ![t] = res]
        /\ handler' = [handler EXCEPT ![t].pc = "done", ![t].leaseExp = 0,
                                      ![t].span = 0]
        /\ UNCHANGED <<leaseVars, now, available, timer, waiters, claimedBy,
                       call, wait>>

\* A pending transaction with its timer; dev starts the auto-approval.
CreateBound(t) ==
    /\ handler[t].pc = "create"
    /\ txs' = txs \cup {t}
    /\ state' = [state EXCEPT ![t] = "pending"]
    /\ timer' = [timer EXCEPT ![t] = "armed"]
    /\ handler' = [handler EXCEPT ![t].pc = "done"]
    /\ IF Env = "dev"
       THEN \E c \in Call :
              /\ call[c].pc = "idle"
              /\ call' = [call EXCEPT ![c] =
                            [pc |-> "start", tx |-> t, ttl |-> DefaultTTL,
                             approver |-> NoApprover, until |-> 0]]
       ELSE UNCHANGED call
    /\ UNCHANGED <<leaseVars, now, available, result, resultCh, waiters,
                   claimedBy, wait>>

-------------------------------------------------------------------------------
(***************************************************************************)
(* Deciding a transaction.                                                 *)
(***************************************************************************)

\* Mutated form of Undecided: only the entry's existence is checked.
UndecidedIfPresent(t, st) == t \in txs

\* The entry exists, has no result, and is in state st (the three checks of
\* claimApproval, finishPending and finishClaimed).
Undecided(t, st) == t \in txs /\ result[t] = NoResult /\ state[t] = st

StopTimer(t) ==
    timer' = [timer EXCEPT ![t] = IF @ = "armed" THEN "off" ELSE @]

\* Mutated form of FinishLocked: nothing is sent to the waiters.
FinishLockedSilent(t, st, res) ==
    /\ state' = [state EXCEPT ![t] = st]
    /\ result' = [result EXCEPT ![t] = res]
    /\ UNCHANGED resultCh

\* finishLocked but for the timer: the send does not block on a full channel.
FinishLocked(t, st, res) ==
    /\ state' = [state EXCEPT ![t] = st]
    /\ result' = [result EXCEPT ![t] = res]
    /\ resultCh' = [resultCh EXCEPT ![t] = IF @ = NoResult THEN res ELSE @]

\* An approver's request reaches Store.Approve.  It may name a transaction that
\* is decided or gone by now, but only one that once existed.
Approve(c, t, ttl, a) ==
    /\ call[c].pc = "idle"
    /\ state[t] # "none"
    /\ call' = [call EXCEPT ![c] =
                  [pc |-> "start", tx |-> t,
                   ttl |-> IF ttl <= 0 THEN DefaultTTL ELSE ttl,
                   approver |-> a, until |-> 0]]
    /\ UNCHANGED <<leaseVars, now, available, handler, txVars, wait>>

\* Mutated form of ClaimApproval: the state is not checked.
ClaimAnyUndecided(c) ==
    LET t == call[c].tx
    IN  /\ call[c].pc = "start"
        /\ IF t \in txs /\ result[t] = NoResult
           THEN /\ state' = [state EXCEPT ![t] = "approving"]
                /\ claimedBy' = [claimedBy EXCEPT ![t] = call[c].approver]
                /\ call' = [call EXCEPT ![c].pc = "claimed"]
           ELSE /\ call' = [call EXCEPT ![c] = IdleCall]
                /\ UNCHANGED <<state, claimedBy>>
        /\ UNCHANGED <<leaseVars, now, available, handler, txs, result,
                       resultCh, timer, waiters, wait>>

\* claimApproval: only one approval gets past it.
ClaimApproval(c) ==
    LET t == call[c].tx
    IN  /\ call[c].pc = "start"
        /\ IF Undecided(t, "pending")
           THEN /\ state' = [state EXCEPT ![t] = "approving"]
                /\ claimedBy' = [claimedBy EXCEPT ![t] = call[c].approver]
                /\ call' = [call EXCEPT ![c].pc = "claimed"]
           ELSE /\ call' = [call EXCEPT ![c] = IdleCall]
                /\ UNCHANGED <<state, claimedBy>>
        /\ UNCHANGED <<leaseVars, now, available, handler, txs, result,
                       resultCh, timer, waiters, wait>>

\* approveWithIssuer: until := time.Now().Add(ttl).
StampUntil(c) ==
    /\ call[c].pc = "claimed"
    /\ call' = [call EXCEPT ![c].pc = "signing", ![c].until = now + call[c].ttl]
    /\ UNCHANGED <<leaseVars, now, available, handler, txVars, wait>>

\* issueForTransaction: signing fails without the key, and may fail with it.
IssueForTransaction(c) ==
    /\ call[c].pc = "signing"
    /\ \/ /\ available
          /\ call' = [call EXCEPT ![c].pc = "issued"]
       \/ call' = [call EXCEPT ![c].pc = "failed"]
    /\ UNCHANGED <<leaseVars, now, available, handler, txVars, wait>>

\* finishClaimed after a successful signature.  Publishing the result decides
\* whether a lease follows; the entry may be gone, and then nothing follows.
FinishApproved(c) ==
    LET t == call[c].tx
    IN  /\ call[c].pc = "issued"
        /\ IF Undecided(t, "approving")
           THEN /\ FinishLocked(t, "approved", Credential(call[c].until, call[c].until))
                /\ StopTimer(t)
                /\ call' = IF call[c].approver # NoApprover /\ ~handler[t].disableLease
                           THEN [call EXCEPT ![c].pc = "put"]
                           ELSE [call EXCEPT ![c] = IdleCall]
           ELSE /\ call' = [call EXCEPT ![c] = IdleCall]
                /\ UNCHANGED <<state, result, resultCh, timer>>
        /\ UNCHANGED <<leaseVars, now, available, handler, txs, waiters,
                       claimedBy, wait>>

\* Mutated form of FinishFailed: no return after the signing error.
FinishFailedPutsLease(c) ==
    LET t == call[c].tx
    IN  /\ call[c].pc = "failed"
        /\ IF Undecided(t, "approving")
           THEN FinishLocked(t, "denied", Err("signerr")) /\ StopTimer(t)
           ELSE UNCHANGED <<state, result, resultCh, timer>>
        /\ call' = [call EXCEPT ![c].pc = "put"]
        /\ UNCHANGED <<leaseVars, now, available, handler, txs, waiters,
                       claimedBy, wait>>

\* Mutated form of FinishFailed: the transaction is left claimed.
FinishFailedForgets(c) ==
    /\ call[c].pc = "failed"
    /\ call' = [call EXCEPT ![c] = IdleCall]
    /\ UNCHANGED <<leaseVars, now, available, handler, txVars, wait>>

\* finishClaimed after a signing error: the transaction ends denied.
FinishFailed(c) ==
    LET t == call[c].tx
    IN  /\ call[c].pc = "failed"
        /\ IF Undecided(t, "approving")
           THEN FinishLocked(t, "denied", Err("signerr")) /\ StopTimer(t)
           ELSE UNCHANGED <<state, result, resultCh, timer>>
        /\ call' = [call EXCEPT ![c] = IdleCall]
        /\ UNCHANGED <<leaseVars, now, available, handler, txs, waiters,
                       claimedBy, wait>>

\* approveWithIssuer: leases.Put, after the result has been published.  (The
\* client certificate is never missing: the sign routes require mTLS.)
LeasePut(c) ==
    /\ call[c].pc = "put"
    /\ Put([lookup |-> handler[call[c].tx].key, approver |-> call[c].approver],
           call[c].until)
    /\ call' = [call EXCEPT ![c] = IdleCall]
    /\ UNCHANGED <<available, handler, txVars, wait>>

\* Mutated form of Deny: a claimed transaction can be denied.
DenyClaimed(t) ==
    /\ t \in txs /\ result[t] = NoResult
    /\ FinishLocked(t, "denied", Err("denied"))
    /\ StopTimer(t)
    /\ UNCHANGED <<leaseVars, now, available, handler, txs, waiters, claimedBy,
                   call, wait>>

\* Deny; on a transaction that is not pending it does nothing.
Deny(t) ==
    /\ Undecided(t, "pending")
    /\ FinishLocked(t, "denied", Err("denied"))
    /\ StopTimer(t)
    /\ UNCHANGED <<leaseVars, now, available, handler, txs, waiters, claimedBy,
                   call, wait>>

\* The approval timeout elapses and the callback starts; Stop is too late now.
TimerFire(t) ==
    /\ timer[t] = "armed"
    /\ timer' = [timer EXCEPT ![t] = "fired"]
    /\ UNCHANGED <<leaseVars, now, available, handler, txs, state, result,
                   resultCh, waiters, claimedBy, call, wait>>

\* expire, in the callback's goroutine.
Expire(t) ==
    /\ timer[t] = "fired"
    /\ timer' = [timer EXCEPT ![t] = "off"]
    /\ IF Undecided(t, "pending")
       THEN FinishLocked(t, "expired", Err("timeout"))
       ELSE UNCHANGED <<state, result, resultCh>>
    /\ UNCHANGED <<leaseVars, now, available, handler, txs, waiters, claimedBy,
                   call, wait>>

-------------------------------------------------------------------------------
(***************************************************************************)
(* Waiting for the result.                                                 *)
(***************************************************************************)

\* waitResult: unknown transaction, a private copy of the result, or the
\* entry's channel (and only then is the waiter counted).
WaitResult(w, t) ==
    /\ wait[w].pc = "idle"
    /\ state[t] # "none"
    /\ IF t \notin txs
       THEN wait' = [wait EXCEPT ![w] = [pc |-> "done", tx |-> t,
                                         got |-> Err("notfound")]]
       ELSE IF result[t] # NoResult
       THEN wait' = [wait EXCEPT ![w] = [pc |-> "own", tx |-> t, got |-> result[t]]]
       ELSE wait' = [wait EXCEPT ![w] = [pc |-> "shared", tx |-> t, got |-> NoResult]]
    /\ waiters' = [waiters EXCEPT ![t] =
                     IF t \in txs /\ result[t] = NoResult THEN @ + 1 ELSE @]
    /\ UNCHANGED <<leaseVars, now, available, handler, txs, state, result,
                   resultCh, timer, claimedBy, call>>

\* The receive of Wait's select.
WaitReceive(w) ==
    LET t == wait[w].tx
    IN  /\ \/ /\ wait[w].pc = "own"
              /\ wait' = [wait EXCEPT ![w].pc = "received"]
              /\ UNCHANGED resultCh
           \/ /\ wait[w].pc = "shared"
              /\ resultCh[t] # NoResult
              /\ wait' = [wait EXCEPT ![w].pc = "received", ![w].got = resultCh[t]]
              /\ resultCh' = [resultCh EXCEPT ![t] = NoResult]
        /\ UNCHANGED <<leaseVars, now, available, handler, txs, state, result,
                       timer, waiters, claimedBy, call>>

\* remove, and the return of Wait.
WaitRemove(w) ==
    /\ wait[w].pc = "received"
    /\ txs' = txs \ {wait[w].tx}
    /\ wait' = [wait EXCEPT ![w].pc = "done"]
    /\ UNCHANGED <<leaseVars, now, available, handler, state, result, resultCh,
                   timer, waiters, claimedBy, call>>

\* Mutated form of CancelWait: the count is ignored.
CancelWaitAlwaysDeletes(w) ==
    LET t == wait[w].tx
    IN  /\ wait[w].pc \in {"shared", "own"}
        /\ wait' = [wait EXCEPT ![w].pc = "done", ![w].got = Err("canceled")]
        /\ waiters' = [waiters EXCEPT ![t] = @ - 1]
        /\ StopTimer(t)
        /\ txs' = txs \ {t}
        /\ UNCHANGED <<leaseVars, now, available, handler, state, result,
                       resultCh, claimedBy, call>>

\* The caller's context ends: cancelWait, which deletes the entry with the
\* last counted waiter, whatever its state.
CancelWait(w) ==
    LET t == wait[w].tx
    IN  /\ wait[w].pc \in {"shared", "own"}
        /\ wait' = [wait EXCEPT ![w].pc = "done", ![w].got = Err("canceled")]
        /\ IF t \notin txs
           THEN UNCHANGED <<waiters, timer, txs>>
           ELSE /\ waiters' = [waiters EXCEPT ![t] = @ - 1]
                /\ IF waiters[t] - 1 <= 0
                   THEN StopTimer(t) /\ txs' = txs \ {t}
                   ELSE UNCHANGED <<timer, txs>>
        /\ UNCHANGED <<leaseVars, now, available, handler, state, result,
                       resultCh, claimedBy, call>>

-------------------------------------------------------------------------------
(***************************************************************************)
(* The environment of the store, and the specification.                    *)
(***************************************************************************)

\* The keystore gains or loses the signing key (control socket).
LoadOrRemoveSigner ==
    /\ available' = ~available
    /\ UNCHANGED <<leaseVars, now, handler, txVars, call, wait>>

LeaseStep ==
    /\ PurgeStart \/ PurgeExpired \/ Tick
    /\ UNCHANGED <<available, handler, txVars, call, wait>>

HandlerStep(t) ==
    \/ LeaseLookup(t) \/ LeaseRemaining(t) \/ LeaseIssue(t)
    \/ CreateInstantApproved(t) \/ CreateBound(t)

CallStep(c) ==
    \/ ClaimApproval(c) \/ StampUntil(c) \/ IssueForTransaction(c)
    \/ FinishApproved(c) \/ FinishFailed(c) \/ LeasePut(c)

Next ==
    \/ \E t \in Tx, k \in LookupKey, direct \in BOOLEAN : SignRequest(t, k, direct)
    \/ \E t \in Tx : HandlerStep(t)
    \/ \E c \in Call, t \in Tx, ttl \in TTL, a \in Approver : Approve(c, t, ttl, a)
    \/ \E c \in Call : CallStep(c)
    \/ \E t \in Tx : Env # "dev" /\ Deny(t)  \* the Telegram poller is off in dev
    \/ \E t \in Tx : TimerFire(t) \/ Expire(t)
    \/ \E w \in Waiter, t \in Tx : WaitResult(w, t)
    \/ \E w \in Waiter : WaitReceive(w) \/ WaitRemove(w) \/ CancelWait(w)
    \/ LoadOrRemoveSigner
    \/ LeaseStep

Spec == Init /\ [][Next]_vars

\* The Go scheduler runs every goroutine that can run, and the runtime fires
\* every armed timer.  No human, client or clock is required to act.
Fairness ==
    /\ \A t \in Tx : WF_vars(HandlerStep(t)) /\ WF_vars(TimerFire(t))
                     /\ WF_vars(Expire(t))
    /\ \A c \in Call : WF_vars(CallStep(c))
    /\ \A w \in Waiter : WF_vars(WaitReceive(w)) /\ WF_vars(WaitRemove(w))

FairSpec == Spec /\ Fairness

-------------------------------------------------------------------------------
(***************************************************************************)
(* Safety                                                                  *)
(***************************************************************************)
TypeOK ==
    /\ LeaseTypeOK
    /\ available \in BOOLEAN
    /\ handler \in [Tx -> Handler]
    /\ txs \subseteq Tx
    /\ state \in [Tx -> State]
    /\ result \in [Tx -> Result]
    /\ resultCh \in [Tx -> Result]
    /\ timer \in [Tx -> {"off", "armed", "fired"}]
    /\ waiters \in [Tx -> Int]
    /\ claimedBy \in [Tx -> Approver \cup {NoApprover}]
    /\ call \in [Call -> CallRec]
    /\ wait \in [Waiter -> WaitRec]

\* Once a transaction has a result, neither the result nor the state changes,
\* and a claimed transaction can only become approved or fail to sign: Deny and
\* a late timer callback leave it alone (finishPending, finishClaimed).
DecisionFinal ==
    [][\A t \in Tx :
        /\ result[t] # NoResult => result'[t] = result[t] /\ state'[t] = state[t]
        /\ state[t] = "approving" =>
             \/ state'[t] = "approving"
             \/ state'[t] = "approved" /\ result'[t].kind = "credential"
             \/ state'[t] = "denied" /\ result'[t].kind = "signerr"]_vars

\* At most one approval works on a transaction, from the claim to the lease,
\* and while it signs nobody else moves the transaction on (claimApproval).
InClaim(c) == call[c].pc \in {"claimed", "signing", "issued", "failed"}
SingleClaim ==
    /\ \A c \in Call : InClaim(c) =>
         /\ state[call[c].tx] = "approving"
         /\ result[call[c].tx] = NoResult
         /\ claimedBy[call[c].tx] = call[c].approver
    /\ \A c, d \in Call :
         /\ InClaim(c) \/ call[c].pc = "put"
         /\ InClaim(d) \/ call[d].pc = "put"
         /\ call[c].tx = call[d].tx
         => c = d

\* Transaction s gave the grant behind a lease of key l that expires at e: a
\* human approved it, its result was published with that lease expiry, and it
\* did not disable leases.
GaveLease(s, l, e) ==
    /\ state[s] = "approved"
    /\ claimedBy[s] \in Approver
    /\ handler[s].key = l
    /\ ~handler[s].disableLease
    /\ result[s].kind = "credential"
    /\ result[s].leaseExpiresAt = e

\* Every lease comes from a published human approval of that same approver:
\* a denied, expired, abandoned or failed request leaves none behind
\* (approveWithIssuer returns before Put when finishClaimed fails).
LeaseOnlyFromApproval ==
    \A k \in DOMAIN leases : \E s \in Tx :
        GaveLease(s, k.lookup, leases[k]) /\ claimedBy[s] = k.approver

\* Outside dev, every credential is the work of a human: its own transaction
\* was claimed by an approver, or it carries the lease expiry of an approved
\* transaction with the same lookup key (IssueFromLease, CreateInstantApproved).
CredentialTracesToHuman ==
    Env # "dev" =>
        \A t \in Tx : result[t].kind = "credential" =>
            \/ claimedBy[t] \in Approver
            \/ /\ ~handler[t].disableLease
               /\ \E s \in Tx : GaveLease(s, handler[t].key, result[t].leaseExpiresAt)

\* A waiter that is told a decision is told the transaction's decision, by
\* whichever channel it came (waitResult's private copy or the shared one).
WaitersAgree ==
    \A w \in Waiter :
        wait[w].got.kind \notin {"none", "notfound", "canceled"} =>
            wait[w].got = result[wait[w].tx]

\* While a counted waiter waits for an undecided transaction, no other waiter
\* that gives up deletes the transaction (the count in waitResult, cancelWait).
NoAbandonedWaiter ==
    \A w \in Waiter :
        wait[w].pc = "shared" /\ result[wait[w].tx] = NoResult => wait[w].tx \in txs

\* A pending transaction always has a timer that will end it, and no timer is
\* left armed for a transaction that is decided or deleted (CreateBound,
\* finishLocked, cancelWait; remove does not stop the timer).
TimerGuardsPending ==
    \A t \in Tx :
        /\ Undecided(t, "pending") => timer[t] # "off"
        /\ timer[t] = "armed" => t \in txs /\ result[t] = NoResult

(***************************************************************************)
(* Liveness, under Fairness                                                *)
(***************************************************************************)

\* Every transaction is decided or deleted, with no help from any human: the
\* timer ends a pending one, and signing ends a claimed one.
EveryTxEnds ==
    \A t \in Tx : t \in txs /\ result[t] = NoResult
                    ~> t \notin txs \/ result[t] # NoResult

\* A waiter returns unless another call waits for the same transaction.
LoneWaiterReturns ==
    \A w \in Waiter : wait[w].pc \in {"shared", "own", "received"}
        ~> \/ wait[w].pc = "done"
           \/ \E v \in Waiter \ {w} : wait[v].tx = wait[w].tx

(***************************************************************************)
(* The decision specification                                              *)
(***************************************************************************)
Phase(t) ==
    CASE state[t] = "none" -> "none"
      [] state[t] \in {"pending", "approving"} -> "open"
      [] state[t] = "approved" -> "granted"
      [] OTHER -> "refused"

DecisionOf(t) ==
    [phase |-> Phase(t),
     key |-> IF state[t] = "none" THEN NoKey ELSE handler[t].key,
     reusable |-> state[t] # "none" /\ ~handler[t].disableLease,
     grantor |-> IF state[t] = "approved" THEN claimedBy[t] ELSE NoApprover,
     until |-> result[t].leaseExpiresAt]

ToldOf(w) ==
    IF wait[w].pc \in {"received", "done"}
       /\ wait[w].got.kind \notin {"notfound", "canceled"}
    THEN [tx |-> wait[w].tx,
          phase |-> IF wait[w].got.kind = "credential" THEN "granted" ELSE "refused",
          until |-> wait[w].got.leaseExpiresAt]
    ELSE [tx |-> NoTx, phase |-> "none", until |-> 0]

Decision == [t \in Tx |-> DecisionOf(t)]
Told == [w \in Waiter |-> ToldOf(w)]

D == INSTANCE ApprovalDecision WITH
        Client <- Waiter, Key <- LookupKey, Human <- Approver,
        Nobody <- NoApprover, AutoGrant <- (Env = "dev"),
        dec <- Decision, told <- Told

\* The store implements the decision specification: one decision per request,
\* grants only by approvers or from a reusable grant for the same key, and
\* clients are told the decision.
ImplementsDecision == D!Spec

(***************************************************************************)
(* What the comment on Wait says, and the code does not do.                *)
(***************************************************************************)

\* "Wait blocks until the transaction is approved, denied, expires, or ctx is
\* canceled": once the transaction is decided, each of its waiters returns.
EveryWaiterReturns ==
    \A w \in Waiter : wait[w].pc = "shared" /\ result[wait[w].tx] # NoResult
        ~> wait[w].pc = "done"
===============================================================================
