------------------------------- MODULE Keystore -------------------------------
(***************************************************************************)
(* The in-memory signing keys of luna-proxy (proxy/internal/keystore) and  *)
(* the lockout of failed unseal attempts.                                  *)
(*                                                                         *)
(* In local-key mode the signers form a pool keyed by fingerprint, in      *)
(* local-ca mode there is one slot.  Both are the set of loaded keys here: *)
(* a load adds to the pool and replaces the slot.  Every operation runs    *)
(* under Keystore.mu, so each is one action.  What the operator typed and  *)
(* what the PEM holds only matter through the outcome of LoadPEMBytes.     *)
(***************************************************************************)
EXTENDS Integers, Sequences, FiniteSets

CONSTANTS
    Key,               \* signing keys, by fingerprint
    NoKey,             \* no key: an empty fingerprint, a zeroed PEM buffer
    Mode,              \* "local-ca" or "local-key"
    MaxUnsealAttempts, \* failures before the lockout (5 in the code)
    UnsealCooldown,    \* length of the lockout (15 min in the code)
    MaxTime            \* bound on the clock

ASSUME KeystoreAssumption ==
    /\ NoKey \notin Key
    /\ Mode \in {"local-ca", "local-key"}
    /\ MaxUnsealAttempts \in Nat \ {0}
    /\ UnsealCooldown \in Nat \ {0}
    /\ MaxTime \in Nat

VARIABLES
    signers,           \* pool.signers, or the CA slot
    unsealFails,       \* Keystore.unsealFails
    unsealLockedUntil, \* Keystore.unsealLockedUntil, 0 for the zero time
    now,               \* the clock
    failLog            \* history: the last failed loads since a success

ksVars == <<signers, unsealFails, unsealLockedUntil, failLog>>

\* How LoadPEMBytes can end: "bad" is a wrong passphrase, a buffer that is no
\* ed25519 key, or a key that cannot be locked in memory.
LoadOutcome == {"locked", "mlock", "bad", "loaded"}

KeystoreInit ==
    /\ signers = {}
    /\ unsealFails = 0
    /\ unsealLockedUntil = 0
    /\ now = 1
    /\ failLog = <<>>

Available == signers # {}

\* Answer of checkUnsealLock.
Locked == unsealLockedUntil # 0 /\ now < unsealLockedUntil

\* Mutated form of RecordUnsealFailure: the lockout comes one attempt late.
RecordUnsealFailureLate(fails) ==
    IF fails + 1 > MaxUnsealAttempts
    THEN unsealFails' = 0 /\ unsealLockedUntil' = now + UnsealCooldown
    ELSE unsealFails' = fails + 1 /\ unsealLockedUntil' = 0

RecordUnsealFailure(fails) ==
    IF fails + 1 >= MaxUnsealAttempts
    THEN unsealFails' = 0 /\ unsealLockedUntil' = now + UnsealCooldown
    ELSE unsealFails' = fails + 1 /\ unsealLockedUntil' = 0

\* The failures since the last success, the most recent MaxUnsealAttempts + 1.
LogFailure(src) ==
    LET log == Append(failLog, [at |-> now, src |-> src])
    IN  failLog' = SubSeq(log, IF Len(log) > MaxUnsealAttempts + 1 THEN 2 ELSE 1,
                          Len(log))

\* Where a loaded key goes: the pool, or the CA slot.
Load(k) == IF Mode = "local-key" THEN signers \cup {k} ELSE {k}

\* Loading the PEM buffer that holds k (NoKey once zeroed) on behalf of src.
LoadPEMBytes(k, src, outcome) ==
    LET fails == IF unsealLockedUntil # 0 THEN 0 ELSE unsealFails
    IN  \/ /\ outcome = "locked" /\ Locked
           /\ UNCHANGED ksVars
        \/ /\ outcome = "mlock" /\ ~Locked
           /\ unsealFails' = fails /\ unsealLockedUntil' = 0
           /\ UNCHANGED <<signers, failLog>>
        \/ /\ outcome = "bad" /\ ~Locked
           /\ RecordUnsealFailure(fails)
           /\ LogFailure(src)
           /\ UNCHANGED signers
        \/ /\ outcome = "loaded" /\ ~Locked /\ k # NoKey
           /\ signers' = Load(k)
           /\ unsealFails' = 0 /\ unsealLockedUntil' = 0
           /\ failLog' = <<>>

\* key.load: LoadPEMFile with a buffer of its own.
KeyLoad(k) ==
    /\ \E outcome \in LoadOutcome : LoadPEMBytes(k, NoKey, outcome)
    /\ UNCHANGED now

\* key.remove: an empty fingerprint clears the CA slot.
RemoveSigner(fp) ==
    /\ signers # {}
    /\ fp \in signers \/ (Mode = "local-ca" /\ fp = NoKey)
    /\ signers' = IF Mode = "local-key" THEN signers \ {fp} ELSE {}
    /\ UNCHANGED <<unsealFails, unsealLockedUntil, failLog, now>>

Tick ==
    /\ now < MaxTime
    /\ now' = now + 1
    /\ UNCHANGED ksVars

-------------------------------------------------------------------------------
(***************************************************************************)
(* Properties                                                              *)
(***************************************************************************)

\* Failed unseal attempts are slowed down: MaxUnsealAttempts + 1 failures in a
\* row, without a success in between, are spread over at least one cooldown
\* (checkUnsealLock, recordUnsealFailure).
LockoutSlowsGuessing ==
    Len(failLog) > MaxUnsealAttempts =>
        failLog[Len(failLog)].at - failLog[1].at >= UnsealCooldown
===============================================================================
