------------------------------ MODULE PendingKeys ------------------------------
(***************************************************************************)
(* Keys uploaded by mobile devices and the operator commands that load or  *)
(* drop them: PendingStore (proxy/internal/keystore/pending.go), the       *)
(* upload handler (proxy/internal/api/keys_pending_handler.go), the mobile *)
(* registry (proxy/internal/mobile/store.go) and the control socket's key  *)
(* and mobile operations (proxy/internal/control/ops.go), composed with    *)
(* the keystore.                                                           *)
(*                                                                         *)
(* Uploads and control requests run concurrently.  Each use of a lock      *)
(* (PendingStore.mu, Keystore.mu, the registry's) is one action; between   *)
(* two of them key.confirm holds a pointer to the entry, whose blob it     *)
(* passes to the keystore to be zeroed.                                    *)
(***************************************************************************)
EXTENDS Keystore

CONSTANTS
    PendingId,           \* ids of uploads, one per request
    Device,              \* mobile devices
    Confirm,             \* concurrent key.confirm requests
    MaxPendingGlobal,    \* 32 in the code
    MaxPendingPerDevice, \* 4 in the code
    PendingTTL,          \* 15 min in the code
    NoId, NoDevice

ASSUME PendingAssumption ==
    /\ IsFiniteSet(PendingId)
    /\ MaxPendingGlobal \in Nat /\ MaxPendingPerDevice \in Nat
    /\ PendingTTL \in Nat
    /\ NoId \notin PendingId /\ NoDevice \notin Device

VARIABLES
    devices,   \* mobile.Store.devices
    upload,    \* progress of each upload
    entry,     \* the PendingKey an upload created
    blob,      \* PendingKey.Blob: the key inside, NoKey once zeroed
    entries,   \* ids in PendingStore.entries
    byDev,     \* PendingStore.byDev
    confirm,   \* progress of each key.confirm
    loads      \* history: how often an entry's key was loaded

queueVars == <<entry, entries, byDev>>
vars == <<ksVars, now, devices, upload, queueVars, blob, confirm, loads>>

Entry == [dev : Device \cup {NoDevice}, expiresAt : Nat]
IdleConfirm == [pc |-> "idle", id |-> NoId]

Init ==
    /\ KeystoreInit
    /\ devices = {}
    /\ upload = [i \in PendingId |-> "idle"]
    /\ entry = [i \in PendingId |-> [dev |-> NoDevice, expiresAt |-> 0]]
    /\ blob = [i \in PendingId |-> NoKey]
    /\ entries = {}
    /\ byDev = [d \in Device |-> 0]
    /\ confirm = [c \in Confirm |-> IdleConfirm]
    /\ loads = [i \in PendingId |-> 0]

OfDevice(d, ids) == {i \in ids : entry[i].dev = d}

\* delete of every entry in ids, with the counters of their devices.
Drop(ids) ==
    /\ entries' = entries \ ids
    /\ byDev' = [d \in Device |->
                   LET n == Cardinality(OfDevice(d, ids \cap entries))
                   IN  IF byDev[d] > n THEN byDev[d] - n ELSE 0]
    /\ UNCHANGED entry

Expired == {i \in entries : now > entry[i].expiresAt}

\* Mutated form of PurgeExpired: the counters are not reduced.
PurgeExpiredUncounted ==
    /\ entries' = entries \ Expired
    /\ UNCHANGED <<entry, byDev>>

\* purgeExpiredLocked, run by Get, List and Count.
PurgeExpired == Drop(Expired)

-------------------------------------------------------------------------------
(***************************************************************************)
(* Mobile devices and uploads                                              *)
(***************************************************************************)
MobileEnroll(d) ==
    /\ d \notin devices
    /\ devices' = devices \cup {d}
    /\ UNCHANGED <<ksVars, now, upload, queueVars, blob, confirm, loads>>

\* The entries of the device stay queued.
MobileDelete(d) ==
    /\ d \in devices
    /\ devices' = devices \ {d}
    /\ UNCHANGED <<ksVars, now, upload, queueVars, blob, confirm, loads>>

\* handleMobileKeysPending up to the signature check: the device is enrolled.
UploadChecked(i, d, k) ==
    /\ upload[i] = "idle"
    /\ d \in devices
    /\ upload' = [upload EXCEPT ![i] = "checked"]
    /\ entry' = [entry EXCEPT ![i].dev = d]
    /\ blob' = [blob EXCEPT ![i] = k]
    /\ UNCHANGED <<ksVars, now, devices, entries, byDev, confirm, loads>>

\* Mutated form of QueueFull: only the global limit is checked.
QueueFullGlobal(d) == Cardinality(entries) >= MaxPendingGlobal

\* Expired entries count: Add does not purge.
QueueFull(d) ==
    \/ Cardinality(entries) >= MaxPendingGlobal
    \/ byDev[d] >= MaxPendingPerDevice

\* PendingStore.Add and the answer of the handler.
UploadAdd(i) ==
    LET d == entry[i].dev
    IN  /\ upload[i] = "checked"
        /\ IF QueueFull(d)
           THEN /\ upload' = [upload EXCEPT ![i] = "refused"]
                /\ UNCHANGED queueVars
           ELSE /\ upload' = [upload EXCEPT ![i] = "added"]
                /\ entry' = [entry EXCEPT ![i].expiresAt = now + PendingTTL]
                /\ entries' = entries \cup {i}
                /\ byDev' = [byDev EXCEPT ![d] = @ + 1]
        /\ UNCHANGED <<ksVars, now, devices, blob, confirm, loads>>

-------------------------------------------------------------------------------
(***************************************************************************)
(* Control operations                                                      *)
(***************************************************************************)

\* key.pending.list and status.
ListPending ==
    /\ PurgeExpired
    /\ UNCHANGED <<ksVars, now, devices, upload, blob, confirm, loads>>

\* key.confirm: Pending.Get purges, then answers with the entry or not found.
ConfirmGet(c, i) ==
    /\ Mode = "local-key"
    /\ confirm[c].pc = "idle"
    /\ PurgeExpired
    /\ confirm' = IF i \in entries'
                  THEN [confirm EXCEPT ![c] = [pc |-> "got", id |-> i]]
                  ELSE confirm
    /\ UNCHANGED <<ksVars, now, devices, upload, blob, loads>>

\* Mutated form of Zeroed: the buffer survives a load that succeeds.
ZeroedOnFailureOnly(b, outcome) ==
    IF outcome \in {"mlock", "bad"} THEN NoKey ELSE b

\* LoadPEMBytes wipes the buffer it was given unless it is locked out.
Zeroed(b, outcome) == IF outcome = "locked" THEN b ELSE NoKey

\* key.confirm: the entry's own blob goes to the keystore.
ConfirmLoad(c) ==
    LET i == confirm[c].id
    IN  /\ confirm[c].pc = "got"
        /\ \E outcome \in LoadOutcome :
             /\ LoadPEMBytes(blob[i], i, outcome)
             /\ blob' = [blob EXCEPT ![i] = Zeroed(@, outcome)]
             /\ loads' = IF outcome = "loaded"
                         THEN [loads EXCEPT ![i] = @ + 1] ELSE loads
             /\ confirm' = [confirm EXCEPT ![c].pc =
                              IF outcome = "loaded" THEN "loaded"
                              ELSE IF outcome = "locked" THEN "refused" ELSE "failed"]
        /\ UNCHANGED <<now, devices, upload, queueVars>>

\* key.confirm: the entry is deleted, unless somebody did already.
ConfirmDelete(c) ==
    /\ confirm[c].pc = "loaded"
    /\ Drop({confirm[c].id})
    /\ confirm' = [confirm EXCEPT ![c] = IdleConfirm]
    /\ UNCHANGED <<ksVars, now, devices, upload, blob, loads>>

\* The operator reads the answer of a failed confirm and may try again.
ConfirmAnswered(c) ==
    /\ confirm[c].pc \in {"failed", "refused"}
    /\ confirm' = [confirm EXCEPT ![c] = IdleConfirm]
    /\ UNCHANGED <<ksVars, now, devices, upload, queueVars, blob, loads>>

\* key.reject: Delete without a purge.
KeyReject(i) ==
    /\ i \in entries
    /\ Drop({i})
    /\ UNCHANGED <<ksVars, now, devices, upload, blob, confirm, loads>>

\* Key operations that bypass the queue, and the clock.
KeystoreStep ==
    /\ \/ \E k \in Key : KeyLoad(k)
       \/ \E fp \in Key \cup {NoKey} : RemoveSigner(fp)
       \/ Tick
    /\ UNCHANGED <<devices, upload, queueVars, blob, confirm, loads>>

Next ==
    \/ \E d \in Device : MobileEnroll(d) \/ MobileDelete(d)
    \/ \E i \in PendingId, d \in Device, k \in Key : UploadChecked(i, d, k)
    \/ \E i \in PendingId : UploadAdd(i) \/ KeyReject(i)
    \/ ListPending
    \/ \E c \in Confirm, i \in PendingId : ConfirmGet(c, i)
    \/ \E c \in Confirm : ConfirmLoad(c) \/ ConfirmDelete(c) \/ ConfirmAnswered(c)
    \/ KeystoreStep

Spec == Init /\ [][Next]_vars

-------------------------------------------------------------------------------
(***************************************************************************)
(* Properties                                                              *)
(***************************************************************************)

\* Type correctness.
PendingTypeOK ==
    /\ signers \subseteq Key
    /\ unsealFails \in 0..(MaxUnsealAttempts - 1)
    /\ unsealLockedUntil \in Nat
    /\ now \in Nat
    /\ devices \subseteq Device
    /\ upload \in [PendingId -> {"idle", "checked", "added", "refused"}]
    /\ entry \in [PendingId -> Entry]
    /\ blob \in [PendingId -> Key \cup {NoKey}]
    /\ entries \subseteq PendingId
    /\ byDev \in [Device -> Nat]
    /\ confirm \in [Confirm -> [pc : {"idle", "got", "loaded", "failed", "refused"},
                                id : PendingId \cup {NoId}]]
    /\ loads \in [PendingId -> Nat]

\* The per-device counters follow the queue through every interleaving of
\* uploads, confirms, rejects and purges: a counter that stays high shuts a
\* device out, one that falls behind lifts its limit (Add, Delete,
\* purgeExpiredLocked keep them by hand).
CountersMatchQueue ==
    \A d \in Device : byDev[d] = Cardinality(OfDevice(d, entries))

\* The queue never holds more uploads than either limit allows, whatever
\* mixture of expired and live entries it holds (Add).
QueueWithinLimits ==
    /\ Cardinality(entries) <= MaxPendingGlobal
    /\ \A d \in Device : Cardinality(OfDevice(d, entries)) <= MaxPendingPerDevice

\* One upload is loaded at most once, although two confirms of the same entry
\* may both hold it: the first load zeroes the blob the second one reads
\* (handleKeyConfirm, LoadPEMBytes).
UploadLoadedOnce == \A i \in PendingId : loads[i] <= 1
===============================================================================
