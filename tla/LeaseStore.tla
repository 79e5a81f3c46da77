------------------------------ MODULE LeaseStore ------------------------------
(***************************************************************************)
(* The in-memory session leases of luna-proxy (proxy/internal/lease).      *)
(*                                                                         *)
(* A lease lets the proxy sign without a new human approval.  It is keyed  *)
(* by the request's lookup key and the approver; a second map, byLookup,   *)
(* indexes the full keys by lookup key.  Go maps are partial functions     *)
(* here, and every method that holds the store's mutex is one action.      *)
(* ApprovalStore takes these actions among its own.                        *)
(***************************************************************************)
EXTENDS Integers

CONSTANTS
    LookupKey,  \* the lookup keys of sign requests (opaque)
    Approver,   \* the approver identities, "telegram:<chat>" or "device:<id>"
    MaxTime     \* bound of the clock

ASSUME LeaseAssumption == MaxTime \in Nat

VARIABLES
    leases,     \* full key -> expiry (ActiveLease.ExpiresAt)
    byLookup,   \* lookup key -> set of full keys
    purgeNow,   \* the time read by a running purgeExpired, or PurgeIdle
    now         \* the wall clock

leaseVars == <<leases, byLookup, purgeNow>>

FullKey == [lookup : LookupKey, approver : Approver]

PurgeIdle == -1

LeaseTypeOK ==
    /\ DOMAIN leases \subseteq FullKey
    /\ leases \in [DOMAIN leases -> Nat]
    /\ DOMAIN byLookup \subseteq LookupKey
    /\ byLookup \in [DOMAIN byLookup -> SUBSET FullKey]
    /\ purgeNow \in Nat \cup {PurgeIdle}
    /\ now \in Nat

LeaseInit ==
    /\ leases = [k \in {} |-> 0]
    /\ byLookup = [l \in {} |-> {}]
    /\ purgeNow = PurgeIdle
    /\ now = 0

(***************************************************************************)
(* Lookups.  The bucket of a missing lookup key is Go's nil map: empty.    *)
(***************************************************************************)
Bucket(l) == IF l \in DOMAIN byLookup THEN byLookup[l] ELSE {}

\* Mutated forms of FindActive: the first live candidate, whatever its expiry;
\* and a search that ignores the lookup key.
FindActiveFirst(l) ==
    {k \in Bucket(l) : k \in DOMAIN leases /\ ~(now > leases[k])}

FindActiveAnyKey(l) ==
    LET live == {k \in DOMAIN leases : ~(now > leases[k])}
    IN  {k \in live : \A j \in live : leases[j] <= leases[k]}

\* The leases FindActive may return: the loop keeps the longest-lived live
\* candidate, and Go's map order decides between candidates of equal expiry.
FindActive(l) ==
    LET live == {k \in Bucket(l) : k \in DOMAIN leases /\ ~(now > leases[k])}
    IN  {k \in live : \A j \in live : leases[j] <= leases[k]}

\* Time until expiry, never negative.
Remaining(expiresAt) == IF expiresAt - now < 0 THEN 0 ELSE expiresAt - now

(***************************************************************************)
(* Put overwrites the expiry recorded for the key, whatever it was.        *)
(***************************************************************************)

\* Mutated form of Put: the index is forgotten.
PutWithoutIndex(k, expiresAt) ==
    /\ leases' = [j \in DOMAIN leases \cup {k} |->
                    IF j = k THEN expiresAt ELSE leases[j]]
    /\ UNCHANGED <<byLookup, purgeNow, now>>

Put(k, expiresAt) ==
    /\ leases' = [j \in DOMAIN leases \cup {k} |->
                    IF j = k THEN expiresAt ELSE leases[j]]
    /\ byLookup' = [l \in DOMAIN byLookup \cup {k.lookup} |->
                      IF l = k.lookup THEN Bucket(l) \cup {k} ELSE byLookup[l]]
    /\ UNCHANGED <<purgeNow, now>>

(***************************************************************************)
(* purgeLoop runs purgeExpired every 30s.  purgeExpired reads the clock    *)
(* before it takes the mutex, so the time it compares with may be old.     *)
(***************************************************************************)
PurgeStart ==
    /\ purgeNow = PurgeIdle
    /\ purgeNow' = now
    /\ UNCHANGED <<leases, byLookup, now>>

\* deleteLocked for every key of dead: a bucket that becomes empty goes too.
DeleteAll(dead) ==
    LET touched == {k.lookup : k \in dead}
    IN  /\ leases' = [k \in DOMAIN leases \ dead |-> leases[k]]
        /\ byLookup' = [l \in {m \in DOMAIN byLookup :
                                 m \in touched => byLookup[m] \ dead # {}} |->
                          byLookup[l] \ dead]

\* Mutated form of PurgeExpired: a lease is purged at its last instant.
PurgeExpiredEarly ==
    /\ purgeNow # PurgeIdle
    /\ DeleteAll({k \in DOMAIN leases : purgeNow >= leases[k]})
    /\ purgeNow' = PurgeIdle
    /\ UNCHANGED now

PurgeExpired ==
    /\ purgeNow # PurgeIdle
    /\ DeleteAll({k \in DOMAIN leases : purgeNow > leases[k]})
    /\ purgeNow' = PurgeIdle
    /\ UNCHANGED now

Tick ==
    /\ now < MaxTime
    /\ now' = now + 1
    /\ UNCHANGED leaseVars

-------------------------------------------------------------------------------
(***************************************************************************)
(* Properties                                                              *)
(***************************************************************************)

\* The index and the lease map describe the same leases: each bucket holds
\* exactly the full keys recorded for its lookup key, and there is no empty
\* bucket (Put, deleteLocked).
IndexMatchesLeases ==
    /\ \A l \in DOMAIN byLookup :
         /\ byLookup[l] # {}
         /\ byLookup[l] = {k \in DOMAIN leases : k.lookup = l}
    /\ \A k \in DOMAIN leases : k.lookup \in DOMAIN byLookup

\* FindActive misses no usable lease: when any lease of a lookup key is live,
\* it answers, and with one that lives at least as long (FindActive goes
\* through the index only).
FindActiveIsLongest ==
    \A k \in DOMAIN leases :
        leases[k] >= now =>
            /\ FindActive(k.lookup) # {}
            /\ \A f \in FindActive(k.lookup) :
                 f.lookup = k.lookup /\ leases[f] >= leases[k]

\* A lease that is still usable is never purged, even when the purge compares
\* with a time it read before a later Put (purgeExpired reads the clock
\* before locking).
PurgeRemovesOnlyExpired ==
    [][\A k \in DOMAIN leases : k \notin DOMAIN leases' => now > leases[k]]_<<leaseVars, now>>
===============================================================================
