--------------------------- MODULE PendingKeysProofs ---------------------------
(***************************************************************************)
(* Proofs about the pending keys and the keystore, for any number of       *)
(* uploads, devices and concurrent confirms, and for every limit.          *)
(*                                                                         *)
(* Three invariants over different variables: the queue and its counters,  *)
(* what a confirm may hold and what is left of the blob it holds, and the  *)
(* log of failed unseals against the lockout.                              *)
(***************************************************************************)
EXTENDS PendingKeys, FiniteSetTheorems, TLAPS

-------------------------------------------------------------------------------
(***************************************************************************)
(* The invariants                                                          *)
(***************************************************************************)

\* Only uploads that were added are in the queue.
QueuedWasAdded ==
    /\ \A i \in entries : upload[i] = "added"
    /\ \A i \in PendingId : upload[i] = "checked" => entry[i].dev \in Device

QueueInv == CountersMatchQueue /\ QueueWithinLimits /\ QueuedWasAdded

\* A confirm that holds an entry holds one that was added, and a blob that was
\* loaded has been zeroed.
ConfirmInv ==
    /\ \A c \in Confirm : confirm[c].pc # "idle" =>
           confirm[c].id \in PendingId /\ upload[confirm[c].id] = "added"
    /\ \A i \in PendingId :
           \/ loads[i] = 0
           \/ loads[i] = 1 /\ blob[i] = NoKey /\ upload[i] = "added"

\* The failures before the last unsealFails ones lie a cooldown back, and the
\* last one started the lockout if there is one.
FailRecord == [at : Nat, src : PendingId \cup {NoKey}]

LockoutInv ==
    /\ failLog \in Seq(FailRecord)
    /\ Len(failLog) <= MaxUnsealAttempts + 1
    /\ unsealFails <= Len(failLog)
    /\ \A i \in 1..Len(failLog) : failLog[i].at <= failLog[Len(failLog)].at
    /\ unsealLockedUntil # 0 =>
           /\ unsealFails = 0 /\ Len(failLog) > 0
           /\ unsealLockedUntil = failLog[Len(failLog)].at + UnsealCooldown
    /\ \A i \in 1..Len(failLog) : failLog[i].at <= now
    /\ unsealLockedUntil = 0 =>
           \A i \in 1..(Len(failLog) - unsealFails) :
               now >= failLog[i].at + UnsealCooldown
    /\ LockoutSlowsGuessing

PendingInv == PendingTypeOK /\ QueueInv /\ ConfirmInv /\ LockoutInv

-------------------------------------------------------------------------------
(***************************************************************************)
(* The keystore                                                            *)
(***************************************************************************)

\* The types of the keystore's variables.
KeystoreTypeOK ==
    /\ signers \subseteq Key
    /\ unsealFails \in 0..(MaxUnsealAttempts - 1)
    /\ unsealLockedUntil \in Nat
    /\ now \in Nat

\* The log after a failure: one entry longer, and without its first if it was full.
LEMMA LogFailureFact ==
    ASSUME failLog \in Seq(FailRecord), Len(failLog) <= MaxUnsealAttempts + 1, now \in Nat,
           NEW src \in PendingId \cup {NoKey}, LogFailure(src)
    PROVE  /\ failLog' \in Seq(FailRecord)
           /\ \E k \in {0, 1} :
                /\ k = 1 <=> Len(failLog) = MaxUnsealAttempts + 1
                /\ Len(failLog') = Len(failLog) + 1 - k
                /\ failLog'[Len(failLog')].at = now
                /\ \A i \in 1..(Len(failLog') - 1) :
                      i + k \in 1..Len(failLog) /\ failLog'[i] = failLog[i + k]
<1> DEFINE r == [at |-> now, src |-> src]
           log == Append(failLog, r)
           n == Len(failLog)
           k == IF Len(log) > MaxUnsealAttempts + 1 THEN 1 ELSE 0
<1>1. MaxUnsealAttempts \in Nat /\ n \in Nat
  BY KeystoreAssumption
<1>2. r \in FailRecord /\ r.at = now
  BY DEF FailRecord
<1> HIDE DEF r
<1>3. /\ log \in Seq(FailRecord) /\ Len(log) = n + 1 /\ log[n + 1] = r
      /\ \A i \in 1..n : log[i] = failLog[i]
  BY <1>2
<1>4. k \in {0, 1} /\ (k = 1 <=> n = MaxUnsealAttempts + 1)
  BY <1>1, <1>3
<1>5. failLog' = SubSeq(log, 1 + k, n + 1)
  BY <1>3 DEF LogFailure, r
<1> HIDE DEF log, k
<1>6. /\ failLog' \in Seq(FailRecord) /\ Len(failLog') = n + 1 - k
      /\ \A i \in 1..(n + 1 - k) : failLog'[i] = log[i + k]
  BY <1>1, <1>3, <1>4, <1>5, SMTT(20)
<1>7. failLog'[Len(failLog')].at = now
  BY <1>1, <1>2, <1>3, <1>4, <1>6
<1>8. \A i \in 1..(Len(failLog') - 1) : i + k \in 1..n /\ failLog'[i] = failLog[i + k]
  BY <1>1, <1>3, <1>4, <1>6
<1> QED
  BY <1>4, <1>6, <1>7, <1>8, SMTT(20)

\* Loading a key, however it ends.
LEMMA LoadPEMBytesStep ==
    ASSUME KeystoreTypeOK, LockoutInv, NEW k \in Key \cup {NoKey},
           NEW src \in PendingId \cup {NoKey}, NEW outcome \in LoadOutcome,
           LoadPEMBytes(k, src, outcome), now' = now
    PROVE  KeystoreTypeOK' /\ LockoutInv'
<1> DEFINE fails == IF unsealLockedUntil # 0 THEN 0 ELSE unsealFails
           n == Len(failLog)
<1>1. /\ MaxUnsealAttempts \in Nat \ {0} /\ UnsealCooldown \in Nat \ {0} /\ NoKey \notin Key
      /\ n \in Nat /\ \A i \in 1..n : failLog[i].at \in Nat
  <2>1. \A i \in 1..n : failLog[i] \in FailRecord
    BY DEF LockoutInv
  <2> QED
    BY <2>1, KeystoreAssumption DEF LockoutInv, FailRecord
<1>2. fails \in 0..(MaxUnsealAttempts - 1) /\ fails <= n
  BY <1>1 DEF KeystoreTypeOK, LockoutInv
<1>3. ~Locked => \A i \in 1..(n - fails) : now >= failLog[i].at + UnsealCooldown
  BY <1>1 DEF KeystoreTypeOK, LockoutInv, Locked
<1>4. CASE outcome = "locked"
  BY <1>4, SMTT(20) DEF LoadPEMBytes, ksVars, KeystoreTypeOK, LockoutInv, LockoutSlowsGuessing
<1>5. CASE outcome = "mlock"
  <2>1. /\ ~Locked /\ unsealFails' = fails /\ unsealLockedUntil' = 0
        /\ UNCHANGED <<signers, failLog>>
    BY <1>5 DEF LoadPEMBytes
  <2> HIDE DEF fails
  <2> QED
    BY <1>1, <1>2, <1>3, <2>1 DEF KeystoreTypeOK, LockoutInv, LockoutSlowsGuessing
<1>6. CASE outcome = "loaded"
  <2>1. /\ k # NoKey /\ signers' = Load(k) /\ failLog' = <<>>
        /\ unsealFails' = 0 /\ unsealLockedUntil' = 0
    BY <1>6 DEF LoadPEMBytes
  <2>2. KeystoreTypeOK'
    BY <1>1, <2>1 DEF KeystoreTypeOK, Load
  <2>3. LockoutInv'
    BY <1>1, <2>1 DEF LockoutInv, LockoutSlowsGuessing
  <2> QED
    BY <2>2, <2>3
<1>7. CASE outcome = "bad"
  <2>1. ~Locked /\ RecordUnsealFailure(fails) /\ LogFailure(src) /\ signers' = signers
    BY <1>7 DEF LoadPEMBytes
  <2> HIDE DEF fails
  <2>2. now \in Nat /\ failLog \in Seq(FailRecord) /\ n <= MaxUnsealAttempts + 1
    BY DEF KeystoreTypeOK, LockoutInv
  <2>3. /\ failLog' \in Seq(FailRecord)
        /\ \E j \in {0, 1} :
             /\ j = 1 <=> n = MaxUnsealAttempts + 1
             /\ Len(failLog') = n + 1 - j
             /\ failLog'[Len(failLog')].at = now
             /\ \A i \in 1..(Len(failLog') - 1) :
                   i + j \in 1..n /\ failLog'[i] = failLog[i + j]
    BY <2>1, <2>2, LogFailureFact, Zenon
  <2>4. PICK j \in {0, 1} :
             /\ j = 1 <=> n = MaxUnsealAttempts + 1
             /\ Len(failLog') = n + 1 - j
             /\ failLog'[Len(failLog')].at = now
             /\ \A i \in 1..(Len(failLog') - 1) :
                   i + j \in 1..n /\ failLog'[i] = failLog[i + j]
    BY <2>3
  <2> DEFINE m == Len(failLog')
  <2>5. m = n + 1 - j /\ m \in Nat /\ m > 0 /\ m <= MaxUnsealAttempts + 1
    BY <1>1, <2>2, <2>4
  <2>6. ASSUME NEW i \in 1..m PROVE failLog'[i].at <= now
    <3>1. CASE i = m
      BY <2>2, <2>4, <3>1
    <3>2. CASE i \in 1..(m - 1)
      <4>1. i + j \in 1..n /\ failLog'[i] = failLog[i + j]
        BY <2>4, <3>2, SMTT(20)
      <4> QED
        BY <4>1 DEF LockoutInv
    <3> QED
      BY <2>5, <3>1, <3>2
  <2>7. ASSUME NEW i \in 1..(m - 1), i + j <= n - fails
        PROVE  now >= failLog'[i].at + UnsealCooldown
    <3>1. i + j \in 1..n /\ failLog'[i] = failLog[i + j]
      BY <2>4, <2>7
    <3>2. i + j \in 1..(n - fails)
      BY <1>1, <1>2, <2>7, <3>1
    <3> QED
      BY <1>3, <2>1, <3>1, <3>2
  <2>8. KeystoreTypeOK'
    BY <1>1, <1>2, <2>1, <2>2 DEF KeystoreTypeOK, RecordUnsealFailure
  <2>9. LockoutSlowsGuessing'
    <3>1. SUFFICES ASSUME m > MaxUnsealAttempts
                   PROVE  failLog'[m].at - failLog'[1].at >= UnsealCooldown
      BY DEF LockoutSlowsGuessing
    <3>2. m = MaxUnsealAttempts + 1 /\ n = MaxUnsealAttempts + j
      BY <1>1, <2>5, <3>1
    <3>3. 1 \in 1..(m - 1) /\ 1 + j <= n - fails
      BY <1>1, <1>2, <3>2
    <3>4. now >= failLog'[1].at + UnsealCooldown
      BY <2>7, <3>3
    <3>5. failLog'[1].at \in Nat
      <4>1. failLog'[1] \in FailRecord
        BY <2>3, <2>5
      <4> QED
        BY <4>1 DEF FailRecord
    <3> QED
      BY <1>1, <2>2, <2>4, <3>4, <3>5
  <2>10. CASE fails + 1 >= MaxUnsealAttempts
    <3>1. unsealFails' = 0 /\ unsealLockedUntil' = now + UnsealCooldown
      BY <2>1, <2>10 DEF RecordUnsealFailure
    <3>2. unsealLockedUntil' # 0
      BY <1>1, <2>2, <3>1
    <3>3. LockoutInv'
      BY <2>3, <2>4, <2>5, <2>6, <2>9, <3>1, <3>2 DEF LockoutInv
    <3> QED
      BY <2>8, <3>3
  <2>11. CASE ~(fails + 1 >= MaxUnsealAttempts)
    <3>1. unsealFails' = fails + 1 /\ unsealLockedUntil' = 0
      BY <2>1, <2>11 DEF RecordUnsealFailure
    <3>2. unsealFails' <= m
      BY <1>1, <1>2, <2>4, <2>5, <3>1
    <3>3. ASSUME NEW i \in 1..(m - unsealFails') PROVE now >= failLog'[i].at + UnsealCooldown
      <4>1. i \in 1..(m - 1) /\ i + j <= n - fails
        BY <1>1, <1>2, <2>5, <3>1
      <4> QED
        BY <2>7, <4>1
    <3>4. LockoutInv'
      BY <2>3, <2>4, <2>5, <2>6, <2>9, <3>1, <3>2, <3>3 DEF LockoutInv
    <3> QED
      BY <2>8, <3>4
  <2> QED
    BY <2>10, <2>11
<1> QED
  BY <1>4, <1>5, <1>6, <1>7 DEF LoadOutcome

\* A step that leaves the keystore alone; the clock may advance.
LEMMA KeystoreUnchanged ==
    ASSUME KeystoreTypeOK, LockoutInv, UNCHANGED ksVars, now' \in Nat, now' >= now
    PROVE  KeystoreTypeOK' /\ LockoutInv'
<1>1. UNCHANGED <<signers, unsealFails, unsealLockedUntil, failLog>>
  BY DEF ksVars
<1>2. UnsealCooldown \in Nat /\ \A i \in 1..Len(failLog) : failLog[i].at \in Nat
  <2>1. \A i \in 1..Len(failLog) : failLog[i] \in FailRecord
    BY DEF LockoutInv
  <2> QED
    BY <2>1, KeystoreAssumption DEF FailRecord
<1>3. KeystoreTypeOK'
  BY <1>1 DEF KeystoreTypeOK
<1>4. \A i \in 1..Len(failLog) : failLog[i].at <= now'
  BY <1>2 DEF LockoutInv, KeystoreTypeOK
<1>5. unsealLockedUntil = 0 =>
        \A i \in 1..(Len(failLog) - unsealFails) : now' >= failLog[i].at + UnsealCooldown
  <2>1. \A i \in 1..(Len(failLog) - unsealFails) : i \in 1..Len(failLog)
    BY DEF LockoutInv, KeystoreTypeOK
  <2> QED
    BY <1>2, <2>1 DEF LockoutInv, KeystoreTypeOK
<1> QED
  BY <1>1, <1>3, <1>4, <1>5 DEF LockoutInv, LockoutSlowsGuessing

-------------------------------------------------------------------------------
(***************************************************************************)
(* The queue                                                               *)
(***************************************************************************)

\* Sets of uploads are finite.
LEMMA UploadsFinite ==
    ASSUME NEW S \in SUBSET PendingId
    PROVE  IsFiniteSet(S) /\ Cardinality(S) \in Nat
<1>1. IsFiniteSet(S)
  BY PendingAssumption, FS_Subset, Zenon
<1> QED
  BY <1>1, FS_CardinalityType, Zenon

\* Dropping entries keeps the counters exact and the queue within its limits.
LEMMA DropKeepsQueue ==
    ASSUME PendingTypeOK, QueueInv, NEW ids, Drop(ids), upload' = upload
    PROVE  QueueInv' /\ entries' \subseteq PendingId /\ byDev' \in [Device -> Nat]
<1>1. entries \in SUBSET PendingId /\ entries' = entries \ ids /\ entry' = entry
  BY DEF PendingTypeOK, Drop
<1>2. ASSUME NEW d \in Device
      PROVE  /\ byDev'[d] \in Nat
             /\ byDev'[d] = Cardinality(OfDevice(d, entries)')
             /\ byDev'[d] <= byDev[d]
  <2> DEFINE A == OfDevice(d, entries)
             G == OfDevice(d, ids \cap entries)
  <2>1. A \in SUBSET PendingId /\ G \in SUBSET PendingId /\ A \cap G = G
    BY <1>1 DEF OfDevice
  <2>2. OfDevice(d, entries)' = A \ G
    BY <1>1 DEF OfDevice
  <2>3. byDev[d] = Cardinality(A)
    BY DEF QueueInv, CountersMatchQueue
  <2>4. byDev'[d] = IF byDev[d] > Cardinality(G) THEN byDev[d] - Cardinality(G) ELSE 0
    BY DEF Drop
  <2> HIDE DEF A, G
  <2>5. IsFiniteSet(A) /\ Cardinality(A) \in Nat /\ Cardinality(G) \in Nat
    BY <2>1, UploadsFinite
  <2>6. Cardinality(A \ G) = Cardinality(A) - Cardinality(G)
    BY <2>1, <2>5, FS_Difference, ZenonT(30)
  <2>7. Cardinality(A \ G) \in Nat
    <3>1. A \ G \in SUBSET PendingId
      BY <2>1
    <3> QED
      BY <3>1, UploadsFinite
  <2> QED
    BY <2>2, <2>3, <2>4, <2>5, <2>6, <2>7
<1>3. byDev' \in [Device -> Nat]
  <2>1. byDev' = [d \in Device |-> byDev'[d]]
    BY DEF Drop
  <2> QED
    BY <1>2, <2>1
<1>4. Cardinality(entries') <= MaxPendingGlobal
  <2>1. /\ Cardinality(entries') \in Nat /\ Cardinality(entries) \in Nat
        /\ IsFiniteSet(entries)
    <3>1. entries' \in SUBSET PendingId
      BY <1>1
    <3> QED
      BY <1>1, <3>1, UploadsFinite
  <2>2. entries' \in SUBSET entries
    BY <1>1
  <2>3. Cardinality(entries') <= Cardinality(entries)
    BY <2>1, <2>2, FS_Subset, Zenon
  <2> QED
    BY <2>1, <2>3, PendingAssumption DEF QueueInv, QueueWithinLimits
<1>5. \A d \in Device : Cardinality(OfDevice(d, entries)') <= MaxPendingPerDevice
  <2>1. \A d \in Device : byDev[d] <= MaxPendingPerDevice /\ byDev[d] \in Nat
    BY DEF QueueInv, CountersMatchQueue, QueueWithinLimits, PendingTypeOK
  <2> QED
    BY <1>2, <2>1, PendingAssumption
<1>6. CountersMatchQueue'
  BY <1>2 DEF CountersMatchQueue
<1>7. QueueWithinLimits'
  BY <1>4, <1>5 DEF QueueWithinLimits
<1>8. QueuedWasAdded'
  BY <1>1 DEF QueueInv, QueuedWasAdded
<1> QED
  BY <1>1, <1>3, <1>6, <1>7, <1>8 DEF QueueInv

\* A step that leaves the queue alone.
LEMMA QueueUnchanged ==
    ASSUME QueueInv, UNCHANGED <<entry, entries, byDev, upload>>
    PROVE  QueueInv'
BY DEF QueueInv, CountersMatchQueue, QueueWithinLimits, QueuedWasAdded, OfDevice

\* An upload that passed the checks is not in the queue yet.
LEMMA UploadCheckedKeepsQueue ==
    ASSUME PendingTypeOK, QueueInv, NEW i \in PendingId, NEW d \in Device, NEW k \in Key,
           UploadChecked(i, d, k)
    PROVE  QueueInv' /\ entry' \in [PendingId -> Entry]
<1>1. /\ i \notin entries /\ entries \subseteq PendingId
      /\ entries' = entries /\ byDev' = byDev
      /\ entry' = [entry EXCEPT ![i].dev = d] /\ entry \in [PendingId -> Entry]
      /\ upload' = [upload EXCEPT ![i] = "checked"]
  BY DEF UploadChecked, QueueInv, QueuedWasAdded, PendingTypeOK
<1>2. entry' \in [PendingId -> Entry] /\ entry'[i].dev = d
  BY <1>1 DEF Entry
<1>3. \A e \in PendingId : e # i => entry'[e] = entry[e]
  BY <1>1
<1>4. \A x \in Device : OfDevice(x, entries)' = OfDevice(x, entries)
  BY <1>1, <1>3 DEF OfDevice
<1>5. CountersMatchQueue' /\ QueueWithinLimits'
  BY <1>1, <1>4 DEF QueueInv, CountersMatchQueue, QueueWithinLimits
<1>6. QueuedWasAdded'
  BY <1>1, <1>2, <1>3 DEF QueueInv, QueuedWasAdded, PendingTypeOK
<1> QED
  BY <1>2, <1>5, <1>6 DEF QueueInv

\* An upload is added below both limits, once.
LEMMA UploadAddKeepsQueue ==
    ASSUME PendingTypeOK, QueueInv, NEW i \in PendingId, UploadAdd(i)
    PROVE  /\ QueueInv' /\ entry' \in [PendingId -> Entry]
           /\ entries' \subseteq PendingId /\ byDev' \in [Device -> Nat]
<1> DEFINE d == entry[i].dev
<1>1. /\ i \notin entries /\ entries \in SUBSET PendingId /\ d \in Device
      /\ entry \in [PendingId -> Entry] /\ byDev \in [Device -> Nat]
      /\ upload \in [PendingId -> {"idle", "checked", "added", "refused"}]
      /\ now \in Nat /\ upload[i] = "checked"
  BY DEF UploadAdd, QueueInv, QueuedWasAdded, PendingTypeOK
<1>2. CASE QueueFull(d)
  <2>1. UNCHANGED <<entry, entries, byDev>> /\ upload' = [upload EXCEPT ![i] = "refused"]
    BY <1>2 DEF UploadAdd, queueVars
  <2>2. CountersMatchQueue' /\ QueueWithinLimits'
    BY <2>1 DEF QueueInv, CountersMatchQueue, QueueWithinLimits, OfDevice
  <2>3. QueuedWasAdded'
    BY <1>1, <2>1 DEF QueueInv, QueuedWasAdded
  <2> QED
    BY <1>1, <2>1, <2>2, <2>3 DEF QueueInv
<1>3. CASE ~QueueFull(d)
  <2>1. /\ upload' = [upload EXCEPT ![i] = "added"]
        /\ entry' = [entry EXCEPT ![i].expiresAt = now + PendingTTL]
        /\ entries' = entries \cup {i}
        /\ byDev' = [byDev EXCEPT ![d] = @ + 1]
    BY <1>3 DEF UploadAdd
  <2>2. \A e \in PendingId : entry'[e].dev = entry[e].dev
    BY <1>1, <2>1 DEF Entry
  <2>3. entry' \in [PendingId -> Entry]
    BY <1>1, <2>1, PendingAssumption DEF Entry
  <2>4. entries' \subseteq PendingId /\ byDev' \in [Device -> Nat]
    BY <1>1, <2>1
  <2>5. ASSUME NEW x \in Device
        PROVE  /\ byDev'[x] = Cardinality(OfDevice(x, entries)')
               /\ byDev'[x] <= MaxPendingPerDevice
    <3> DEFINE A == OfDevice(x, entries)
    <3>1. A \in SUBSET PendingId /\ i \notin A
      BY <1>1 DEF OfDevice
    <3>2. IsFiniteSet(A) /\ Cardinality(A) \in Nat
      BY <3>1, UploadsFinite
    <3>3. byDev[x] = Cardinality(A) /\ Cardinality(A) <= MaxPendingPerDevice
      BY DEF QueueInv, CountersMatchQueue, QueueWithinLimits
    <3>4. CASE x = d
      <4>1. OfDevice(x, entries)' = A \cup {i}
        BY <1>1, <2>1, <2>2, <3>4 DEF OfDevice
      <4>2. byDev'[x] = byDev[x] + 1 /\ byDev[x] < MaxPendingPerDevice
        BY <1>1, <1>3, <2>1, <3>4, PendingAssumption DEF QueueFull
      <4> HIDE DEF A
      <4>3. Cardinality(A \cup {i}) = Cardinality(A) + 1
        BY <3>1, <3>2, FS_AddElement, Zenon
      <4> QED
        BY <3>2, <3>3, <4>1, <4>2, <4>3, PendingAssumption
    <3>5. CASE x # d
      <4>1. OfDevice(x, entries)' = A
        BY <1>1, <2>1, <2>2, <3>5 DEF OfDevice
      <4>2. byDev'[x] = byDev[x]
        BY <1>1, <2>1, <3>5
      <4> QED
        BY <3>3, <4>1, <4>2
    <3> QED
      BY <3>4, <3>5
  <2>6. Cardinality(entries') <= MaxPendingGlobal
    <3>1. IsFiniteSet(entries) /\ Cardinality(entries) \in Nat
      BY <1>1, UploadsFinite
    <3>2. Cardinality(entries) < MaxPendingGlobal
      BY <1>3, <3>1, PendingAssumption DEF QueueFull
    <3>3. Cardinality(entries \cup {i}) = Cardinality(entries) + 1
      BY <1>1, <3>1, FS_AddElement, Zenon
    <3> QED
      BY <2>1, <3>1, <3>2, <3>3, PendingAssumption
  <2>7. CountersMatchQueue' /\ QueueWithinLimits'
    BY <2>5, <2>6 DEF CountersMatchQueue, QueueWithinLimits
  <2>8. QueuedWasAdded'
    BY <1>1, <2>1, <2>2 DEF QueueInv, QueuedWasAdded
  <2> QED
    BY <2>3, <2>4, <2>7, <2>8 DEF QueueInv
<1> QED
  BY <1>2, <1>3

-------------------------------------------------------------------------------
(***************************************************************************)
(* The steps                                                               *)
(***************************************************************************)

\* The first state.
LEMMA InitPendingInv == Init => PendingInv
<1> SUFFICES ASSUME Init PROVE PendingInv
  OBVIOUS
<1> USE DEF Init, KeystoreInit
<1>1. PendingTypeOK
  BY KeystoreAssumption, PendingAssumption DEF PendingTypeOK, Entry, IdleConfirm
<1>2. CountersMatchQueue /\ QueueWithinLimits
  <2>1. \A d \in Device : OfDevice(d, entries) = {}
    BY DEF OfDevice
  <2>2. Cardinality({}) = 0
    BY FS_EmptySet
  <2>3. \A d \in Device : Cardinality(OfDevice(d, entries)) = 0
    BY <2>1, <2>2, Zenon
  <2>4. CountersMatchQueue
    BY <2>3 DEF CountersMatchQueue
  <2>5. Cardinality(entries) <= MaxPendingGlobal
    BY <2>2, PendingAssumption
  <2> QED
    BY <2>3, <2>4, <2>5, PendingAssumption DEF QueueWithinLimits
<1>3. QueuedWasAdded
  BY DEF QueuedWasAdded
<1>4. ConfirmInv
  BY DEF ConfirmInv, IdleConfirm
<1>5. LockoutInv
  <2>1. failLog \in Seq(FailRecord) /\ Len(failLog) = 0
    OBVIOUS
  <2> QED
    BY <2>1, KeystoreAssumption DEF LockoutInv, LockoutSlowsGuessing
<1> QED
  BY <1>1, <1>2, <1>3, <1>4, <1>5 DEF PendingInv, QueueInv

\* The types of what is not the keystore's.
RestTypeOK ==
    /\ devices \subseteq Device
    /\ upload \in [PendingId -> {"idle", "checked", "added", "refused"}]
    /\ entry \in [PendingId -> Entry]
    /\ blob \in [PendingId -> Key \cup {NoKey}]
    /\ entries \subseteq PendingId
    /\ byDev \in [Device -> Nat]
    /\ confirm \in [Confirm -> [pc : {"idle", "got", "loaded", "failed", "refused"},
                                id : PendingId \cup {NoId}]]
    /\ loads \in [PendingId -> Nat]

\* The two halves of the type invariant.
LEMMA TypeHalves == PendingTypeOK <=> KeystoreTypeOK /\ RestTypeOK
BY DEF PendingTypeOK, KeystoreTypeOK, RestTypeOK

\* Steps that leave the keystore and its clock alone only have to keep the rest.
LEMMA KeystoreAside ==
    ASSUME PendingInv, UNCHANGED <<ksVars, now>>, RestTypeOK', QueueInv', ConfirmInv'
    PROVE  PendingInv'
<1>1. KeystoreTypeOK /\ LockoutInv /\ now' \in Nat /\ now' >= now
  BY TypeHalves DEF PendingInv, KeystoreTypeOK
<1>2. KeystoreTypeOK' /\ LockoutInv'
  BY <1>1, KeystoreUnchanged
<1> QED
  BY <1>2 DEF PendingInv, PendingTypeOK, KeystoreTypeOK, RestTypeOK

\* Enrolling and deleting a device.
LEMMA MobileStep ==
    ASSUME PendingInv, NEW d \in Device, MobileEnroll(d) \/ MobileDelete(d)
    PROVE  PendingInv'
<1>1. /\ UNCHANGED <<ksVars, now>>
      /\ UNCHANGED <<upload, entry, entries, byDev, blob, confirm, loads>>
      /\ devices' \subseteq devices \cup {d}
  BY DEF MobileEnroll, MobileDelete, queueVars
<1>2. RestTypeOK'
  BY <1>1 DEF PendingInv, PendingTypeOK, RestTypeOK
<1>3. QueueInv'
  BY <1>1, QueueUnchanged DEF PendingInv
<1>4. ConfirmInv'
  BY <1>1 DEF PendingInv, ConfirmInv
<1> QED
  BY <1>1, <1>2, <1>3, <1>4, KeystoreAside

\* The first half of an upload: nobody has loaded or holds this id.
LEMMA UploadCheckedStep ==
    ASSUME PendingInv, NEW i \in PendingId, NEW d \in Device, NEW k \in Key,
           UploadChecked(i, d, k)
    PROVE  PendingInv'
<1>1. /\ UNCHANGED <<ksVars, now>>
      /\ UNCHANGED <<devices, entries, byDev, confirm, loads>>
      /\ upload[i] = "idle" /\ upload' = [upload EXCEPT ![i] = "checked"]
      /\ blob' = [blob EXCEPT ![i] = k]
  BY DEF UploadChecked
<1>2. QueueInv' /\ entry' \in [PendingId -> Entry]
  BY UploadCheckedKeepsQueue DEF PendingInv
<1>3. RestTypeOK'
  BY <1>1, <1>2, Zenon DEF PendingInv, PendingTypeOK, RestTypeOK
<1>4. ConfirmInv'
  BY <1>1 DEF PendingInv, ConfirmInv, PendingTypeOK
<1> QED
  BY <1>1, <1>2, <1>3, <1>4, KeystoreAside

\* The second half of an upload.
LEMMA UploadAddStep ==
    ASSUME PendingInv, NEW i \in PendingId, UploadAdd(i)
    PROVE  PendingInv'
<1>1. /\ UNCHANGED <<ksVars, now>>
      /\ UNCHANGED <<devices, blob, confirm, loads>>
      /\ upload[i] = "checked"
      /\ \E u \in {"refused", "added"} : upload' = [upload EXCEPT ![i] = u]
  BY DEF UploadAdd
<1>2. /\ QueueInv' /\ entry' \in [PendingId -> Entry]
      /\ entries' \subseteq PendingId /\ byDev' \in [Device -> Nat]
  BY UploadAddKeepsQueue DEF PendingInv
<1>3. RestTypeOK'
  BY <1>1, <1>2, Zenon DEF PendingInv, PendingTypeOK, RestTypeOK
<1>4. ConfirmInv'
  BY <1>1 DEF PendingInv, ConfirmInv, PendingTypeOK
<1> QED
  BY <1>1, <1>2, <1>3, <1>4, KeystoreAside

\* Steps that only drop entries: the listing and key.reject.
LEMMA DropStep ==
    ASSUME PendingInv, NEW ids, Drop(ids),
           UNCHANGED <<ksVars, now>>, UNCHANGED <<devices, upload, blob, confirm, loads>>
    PROVE  PendingInv'
<1>1. QueueInv' /\ entries' \subseteq PendingId /\ byDev' \in [Device -> Nat]
  BY DropKeepsQueue DEF PendingInv
<1>2. RestTypeOK'
  BY <1>1, Zenon DEF PendingInv, PendingTypeOK, RestTypeOK, Drop
<1>3. ConfirmInv'
  BY DEF PendingInv, ConfirmInv
<1> QED
  BY <1>1, <1>2, <1>3, KeystoreAside

\* A confirm takes an entry that is queued, so one that was added.
LEMMA ConfirmGetStep ==
    ASSUME PendingInv, NEW c \in Confirm, NEW i \in PendingId, ConfirmGet(c, i)
    PROVE  PendingInv'
<1>1. /\ UNCHANGED <<ksVars, now>> /\ Drop(Expired)
      /\ UNCHANGED <<devices, upload, blob, loads>>
      /\ confirm' = IF i \in entries'
                    THEN [confirm EXCEPT ![c] = [pc |-> "got", id |-> i]]
                    ELSE confirm
  BY DEF ConfirmGet, PurgeExpired
<1>2. QueueInv' /\ entries' \subseteq PendingId /\ byDev' \in [Device -> Nat]
  BY <1>1, DropKeepsQueue DEF PendingInv
<1>3. i \in entries' => upload[i] = "added"
  BY <1>1 DEF Drop, PendingInv, QueueInv, QueuedWasAdded
<1>4. RestTypeOK'
  BY <1>1, <1>2, Zenon DEF PendingInv, PendingTypeOK, RestTypeOK, Drop
<1>5. ConfirmInv'
  BY <1>1, <1>3 DEF PendingInv, ConfirmInv, PendingTypeOK
<1> QED
  BY <1>1, <1>2, <1>4, <1>5, KeystoreAside

\* A confirm ends: the entry it loaded is deleted, or its answer is read.
LEMMA ConfirmEndStep ==
    ASSUME PendingInv, NEW c \in Confirm, ConfirmDelete(c) \/ ConfirmAnswered(c)
    PROVE  PendingInv'
<1>1. /\ UNCHANGED <<ksVars, now>>
      /\ UNCHANGED <<devices, upload, blob, loads>>
      /\ confirm' = [confirm EXCEPT ![c] = IdleConfirm]
      /\ Drop({confirm[c].id}) \/ UNCHANGED <<entry, entries, byDev>>
  BY DEF ConfirmDelete, ConfirmAnswered, queueVars
<1>2. /\ QueueInv' /\ entries' \subseteq PendingId /\ byDev' \in [Device -> Nat]
      /\ entry' = entry
  <2>1. CASE Drop({confirm[c].id})
    BY <1>1, <2>1, DropKeepsQueue, Zenon DEF PendingInv, Drop
  <2>2. CASE UNCHANGED <<entry, entries, byDev>>
    BY <1>1, <2>2, QueueUnchanged DEF PendingInv, PendingTypeOK
  <2> QED
    BY <1>1, <2>1, <2>2
<1>3. RestTypeOK'
  BY <1>1, <1>2 DEF PendingInv, PendingTypeOK, RestTypeOK, IdleConfirm
<1>4. ConfirmInv'
  BY <1>1 DEF PendingInv, ConfirmInv, PendingTypeOK, IdleConfirm
<1> QED
  BY <1>1, <1>2, <1>3, <1>4, KeystoreAside

\* A confirm passes the entry's blob to the keystore: what is loaded was not
\* zeroed before and is zeroed now.
LEMMA ConfirmLoadStep ==
    ASSUME PendingInv, NEW c \in Confirm, ConfirmLoad(c)
    PROVE  PendingInv'
<1> DEFINE i == confirm[c].id
<1>1. PICK outcome \in LoadOutcome :
        /\ LoadPEMBytes(blob[i], i, outcome)
        /\ blob' = [blob EXCEPT ![i] = Zeroed(@, outcome)]
        /\ loads' = IF outcome = "loaded" THEN [loads EXCEPT ![i] = @ + 1] ELSE loads
        /\ confirm' = [confirm EXCEPT ![c].pc =
                          IF outcome = "loaded" THEN "loaded"
                          ELSE IF outcome = "locked" THEN "refused" ELSE "failed"]
  BY Zenon DEF ConfirmLoad
<1>2. /\ UNCHANGED <<now, devices, upload, entry, entries, byDev>>
      /\ confirm[c].pc = "got"
  BY DEF ConfirmLoad, queueVars
<1>3. i \in PendingId /\ upload[i] = "added"
  BY <1>2 DEF PendingInv, ConfirmInv
<1>4. /\ loads \in [PendingId -> Nat]
      /\ blob \in [PendingId -> Key \cup {NoKey}]
      /\ confirm \in [Confirm -> [pc : {"idle", "got", "loaded", "failed", "refused"},
                                  id : PendingId \cup {NoId}]]
  BY DEF PendingInv, PendingTypeOK
<1>5. KeystoreTypeOK' /\ LockoutInv'
  <2>1. KeystoreTypeOK /\ LockoutInv /\ blob[i] \in Key \cup {NoKey}
    BY <1>3, <1>4, TypeHalves DEF PendingInv
  <2> QED
    BY <1>1, <1>2, <1>3, <2>1, LoadPEMBytesStep
<1>6. outcome = "loaded" => blob[i] # NoKey
  BY <1>1 DEF LoadPEMBytes, LoadOutcome
<1>7. RestTypeOK'
  <2>1. blob' \in [PendingId -> Key \cup {NoKey}]
    BY <1>1, <1>3, <1>4 DEF Zeroed
  <2>2. loads' \in [PendingId -> Nat]
    BY <1>1, <1>3, <1>4
  <2>3. confirm' \in [Confirm -> [pc : {"idle", "got", "loaded", "failed", "refused"},
                                  id : PendingId \cup {NoId}]]
    BY <1>1, <1>4
  <2> QED
    BY <1>2, <2>1, <2>2, <2>3 DEF PendingInv, PendingTypeOK, RestTypeOK
<1>8. QueueInv'
  BY <1>2, QueueUnchanged DEF PendingInv
<1>9. ConfirmInv'
  <2>1. \A x \in Confirm : confirm'[x].id = confirm[x].id /\ (x # c => confirm'[x] = confirm[x])
    BY <1>1, <1>4
  <2>2. \A x \in Confirm : confirm'[x].pc # "idle" =>
          confirm'[x].id \in PendingId /\ upload'[confirm'[x].id] = "added"
    BY <1>2, <1>3, <2>1 DEF PendingInv, ConfirmInv
  <2>3. \A e \in PendingId : e # i => loads'[e] = loads[e] /\ blob'[e] = blob[e]
    BY <1>1, <1>4
  <2>4. \/ loads'[i] = 0
        \/ loads'[i] = 1 /\ blob'[i] = NoKey
    <3>1. CASE outcome = "loaded"
      BY <1>1, <1>3, <1>4, <1>6, <3>1 DEF PendingInv, ConfirmInv, Zeroed
    <3>2. CASE outcome # "loaded"
      BY <1>1, <1>3, <1>4, <3>2 DEF PendingInv, ConfirmInv, Zeroed
    <3> QED
      BY <3>1, <3>2
  <2> QED
    BY <1>2, <1>3, <2>2, <2>3, <2>4 DEF PendingInv, ConfirmInv
<1> QED
  BY <1>5, <1>7, <1>8, <1>9, TypeHalves DEF PendingInv, PendingTypeOK, KeystoreTypeOK, RestTypeOK

\* key.load, key.remove and the clock.
LEMMA KeystoreStepStep ==
    ASSUME PendingInv, KeystoreStep
    PROVE  PendingInv'
<1>1. UNCHANGED <<devices, upload, entry, entries, byDev, blob, confirm, loads>>
  BY DEF KeystoreStep, queueVars
<1>2. KeystoreTypeOK /\ LockoutInv /\ MaxTime \in Nat
  BY TypeHalves, KeystoreAssumption DEF PendingInv
<1>3. KeystoreTypeOK' /\ LockoutInv'
  <2>1. ASSUME NEW k \in Key, KeyLoad(k) PROVE KeystoreTypeOK' /\ LockoutInv'
    <3>1. PICK outcome \in LoadOutcome : LoadPEMBytes(k, NoKey, outcome)
      BY <2>1 DEF KeyLoad
    <3>2. now' = now
      BY <2>1 DEF KeyLoad
    <3> QED
      BY <1>2, <3>1, <3>2, LoadPEMBytesStep
  <2>2. ASSUME NEW fp \in Key \cup {NoKey}, RemoveSigner(fp) PROVE KeystoreTypeOK' /\ LockoutInv'
    BY <1>2, <2>2 DEF RemoveSigner, KeystoreTypeOK, LockoutInv, LockoutSlowsGuessing
  <2>3. CASE Tick
    <3>1. UNCHANGED ksVars /\ now' \in Nat /\ now' >= now
      BY <1>2, <2>3 DEF Tick, KeystoreTypeOK
    <3> QED
      BY <1>2, <3>1, KeystoreUnchanged
  <2> QED
    BY <2>1, <2>2, <2>3 DEF KeystoreStep
<1>4. QueueInv'
  BY <1>1, QueueUnchanged DEF PendingInv
<1>5. ConfirmInv'
  BY <1>1 DEF PendingInv, ConfirmInv
<1>6. RestTypeOK'
  BY <1>1 DEF PendingInv, PendingTypeOK, RestTypeOK
<1> QED
  BY <1>3, <1>4, <1>5, <1>6 DEF PendingInv, PendingTypeOK, KeystoreTypeOK, RestTypeOK

\* Every step keeps the invariant.
LEMMA NextPendingInv == PendingInv /\ [Next]_vars => PendingInv'
<1> SUFFICES ASSUME PendingInv, [Next]_vars PROVE PendingInv'
  OBVIOUS
<1>1. ASSUME NEW i \in PendingId, KeyReject(i) PROVE PendingInv'
  <2>1. /\ Drop({i}) /\ UNCHANGED <<ksVars, now>>
        /\ UNCHANGED <<devices, upload, blob, confirm, loads>>
    BY <1>1 DEF KeyReject, PendingInv, PendingTypeOK
  <2> QED
    BY <2>1, DropStep
<1>2. CASE ListPending
  <2>1. /\ Drop(Expired) /\ UNCHANGED <<ksVars, now>>
        /\ UNCHANGED <<devices, upload, blob, confirm, loads>>
    BY <1>2 DEF ListPending, PurgeExpired, PendingInv, PendingTypeOK
  <2> QED
    BY <2>1, DropStep
<1>3. CASE UNCHANGED vars
  <2>1. /\ UNCHANGED <<ksVars, now>>
        /\ UNCHANGED <<upload, entry, entries, byDev, blob, confirm, loads, devices>>
    BY <1>3 DEF vars, queueVars
  <2>2. QueueInv'
    BY <2>1, QueueUnchanged DEF PendingInv
  <2>3. ConfirmInv' /\ RestTypeOK'
    BY <2>1 DEF PendingInv, ConfirmInv, PendingTypeOK, RestTypeOK
  <2> QED
    BY <2>1, <2>2, <2>3, KeystoreAside
<1> QED
  BY <1>1, <1>2, <1>3, MobileStep, UploadCheckedStep, UploadAddStep, ConfirmGetStep,
     ConfirmEndStep, ConfirmLoadStep, KeystoreStepStep, Zenon DEF Next

-------------------------------------------------------------------------------
(***************************************************************************)
(* The theorems                                                            *)
(***************************************************************************)

\* The invariant holds in every behaviour.
LEMMA PendingInvariant == Spec => []PendingInv
<1> QED
  BY InitPendingInv, NextPendingInv, PTL DEF Spec

\* The types hold; unsealFails never reaches the limit it is compared with.
THEOREM PendingTypesHold == Spec => []PendingTypeOK
<1>1. PendingInv => PendingTypeOK
  BY DEF PendingInv
<1> QED
  BY <1>1, PendingInvariant, PTL

\* The hand-kept counters of Add, Delete and purgeExpiredLocked equal the number
\* of queued uploads of each device.
THEOREM CountersStayExact == Spec => []CountersMatchQueue
<1>1. PendingInv => CountersMatchQueue
  BY DEF PendingInv, QueueInv
<1> QED
  BY <1>1, PendingInvariant, PTL

\* The queue stays within the global and the per-device limit of Add.
THEOREM QueueStaysWithinLimits == Spec => []QueueWithinLimits
<1>1. PendingInv => QueueWithinLimits
  BY DEF PendingInv, QueueInv
<1> QED
  BY <1>1, PendingInvariant, PTL

\* However many confirms hold an upload, its key is loaded at most once.
THEOREM LoadedAtMostOnce == Spec => []UploadLoadedOnce
<1>1. PendingInv => UploadLoadedOnce
  BY DEF PendingInv, ConfirmInv, UploadLoadedOnce
<1> QED
  BY <1>1, PendingInvariant, PTL

\* Failed unseals without a success between them are spread over a cooldown,
\* whoever makes them (checkUnsealLock, recordUnsealFailure).
THEOREM LockoutHolds == Spec => []LockoutSlowsGuessing
<1>1. PendingInv => LockoutSlowsGuessing
  BY DEF PendingInv, LockoutInv
<1> QED
  BY <1>1, PendingInvariant, PTL
===============================================================================
