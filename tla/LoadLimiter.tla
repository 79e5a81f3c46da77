------------------------------ MODULE LoadLimiter ------------------------------
(***************************************************************************)
(* Remote key loads from enrolled CLI devices and their rate limiter:      *)
(* proxy/internal/cli/ratelimit.go and store.go, handleCLIKeysLoad and the *)
(* enrolment handlers of proxy/internal/api, and the cli operations of the *)
(* control socket.  The limiter also counts the attempts at agent          *)
(* enrolment (handleMTLSEnroll) by source address.                         *)
(*                                                                         *)
(* A load looks its device up, asks the limiter, loads the key and then    *)
(* charges the limiter, each under a lock of its own; other requests and   *)
(* the revocation of the device run in between.  TryRecordSuccess reads    *)
(* the clock before it takes the lock.                                     *)
(*                                                                         *)
(* log[s] is every success recorded for s since its history was last       *)
(* forgotten, and live[s] the indices of those the limiter still holds.    *)
(***************************************************************************)
EXTENDS Integers, Sequences, FiniteSets

CONSTANTS
    Device,   \* CLI devices: a fresh id and certificate for each enrolment
    Source,   \* source addresses of agent enrolments
    Request,  \* HTTP requests, each handled by a goroutine of its own
    Limit,    \* loadRateLimitCount (10)
    Window,   \* loadRateLimitWindow (1 h)
    MaxTime,  \* bound on the clock
    Nobody

ASSUME LimiterAssumption ==
    /\ Limit \in Nat \ {0} /\ Window \in Nat \ {0} /\ MaxTime \in Nat
    /\ Nobody \notin Device \cup Source
    /\ Device \cap Source = {}

VARIABLES
    now,
    device,   \* "new", "enrolled", "deleted" from the registry, "forgotten"
    req,      \* progress of each request
    log, live

vars == <<now, device, req, log, live>>

Subject == Device \cup Source
AtRest(pc) == [pc |-> pc, who |-> Nobody, read |-> 0]
Pc == {"idle", "known", "allowed", "loaded", "recording", "done", "refused"}

Init ==
    /\ now = 0
    /\ device = [d \in Device |-> "new"]
    /\ req = [q \in Request |-> AtRest("idle")]
    /\ log = [s \in Subject |-> <<>>]
    /\ live = [s \in Subject |-> {}]

-------------------------------------------------------------------------------
(***************************************************************************)
(* The device registry                                                     *)
(***************************************************************************)

\* handleCLIEnroll and cli.enroll: the CSR is signed and the new certificate
\* registered.
CLIEnroll(d) ==
    /\ device[d] = "new"
    /\ device' = [device EXCEPT ![d] = "enrolled"]
    /\ UNCHANGED <<now, req, log, live>>

\* handleCLIDeleteDevice and cli.delete: the registry first ...
CLIDelete(d) ==
    /\ device[d] = "enrolled"
    /\ device' = [device EXCEPT ![d] = "deleted"]
    /\ UNCHANGED <<now, req, log, live>>

\* ... then the limiter's history.
Forget(d) ==
    /\ device[d] = "deleted"
    /\ device' = [device EXCEPT ![d] = "forgotten"]
    /\ log' = [log EXCEPT ![d] = <<>>]
    /\ live' = [live EXCEPT ![d] = {}]
    /\ UNCHANGED <<now, req>>

-------------------------------------------------------------------------------
(***************************************************************************)
(* The limiter                                                             *)
(***************************************************************************)

\* Mutated form of Pruned: a success leaves the window one unit early.
PrunedEarly(s, t) == {i \in live[s] : log[s][i].read > t - Window + 1}

\* pruneLocked with the cutoff of a clock reading t.
Pruned(s, t) == {i \in live[s] : log[s][i].read > t - Window}

HasRoom(times) == Cardinality(times) < Limit

\* The critical section of TryRecordSuccess.
TryRecordSuccess(q) ==
    LET s == req[q].who
        times == Pruned(s, req[q].read)
    IN  /\ req[q].pc = "recording"
        /\ IF HasRoom(times)
           THEN /\ log' = [log EXCEPT ![s] = Append(@, [read |-> req[q].read, at |-> now])]
                /\ live' = [live EXCEPT ![s] = times \cup {Len(log[s]) + 1}]
                /\ req' = [req EXCEPT ![q] = AtRest("done")]
           ELSE /\ live' = [live EXCEPT ![s] = times]
                /\ req' = [req EXCEPT ![q] =
                             AtRest(IF s \in Device THEN "done" ELSE "refused")]
                /\ UNCHANGED log
        /\ UNCHANGED <<now, device>>

-------------------------------------------------------------------------------
(***************************************************************************)
(* Requests                                                                *)
(***************************************************************************)

\* handleMTLSEnroll: the attempt is charged before the token and the CSR are
\* looked at.
MTLSEnroll(q, s) ==
    /\ req[q].pc = "idle"
    /\ req' = [req EXCEPT ![q] = [pc |-> "recording", who |-> s, read |-> now]]
    /\ UNCHANGED <<now, device, log, live>>

\* handleCLIKeysLoad: the certificate's device is looked up.
LoadStart(q, d) ==
    /\ req[q].pc = "idle"
    /\ req' = [req EXCEPT ![q] = IF device[d] = "enrolled"
                                 THEN [pc |-> "known", who |-> d, read |-> 0]
                                 ELSE AtRest("refused")]
    /\ UNCHANGED <<now, device, log, live>>

\* Authentication and the fields of the body may refuse the request; then
\* Allowed prunes the history and answers.
LoadAllowed(q) ==
    LET s == req[q].who
    IN  /\ req[q].pc = "known"
        /\ \/ /\ req' = [req EXCEPT ![q] = AtRest("refused")]
              /\ UNCHANGED live
           \/ /\ live' = [live EXCEPT ![s] = Pruned(s, now)]
              /\ req' = [req EXCEPT ![q] = IF HasRoom(live'[s])
                                           THEN [@ EXCEPT !.pc = "allowed"]
                                           ELSE AtRest("refused")]
        /\ UNCHANGED <<now, device, log>>

\* Keystore.LoadPEMBytes, which may fail.
LoadKey(q) ==
    /\ req[q].pc = "allowed"
    /\ \/ req' = [req EXCEPT ![q] = AtRest("refused")]
       \/ req' = [req EXCEPT ![q].pc = "loaded"]
    /\ UNCHANGED <<now, device, log, live>>

\* TryRecordSuccess reads the clock and waits for the lock.
LoadRecord(q) ==
    /\ req[q].pc = "loaded"
    /\ req' = [req EXCEPT ![q].pc = "recording", ![q].read = now]
    /\ UNCHANGED <<now, device, log, live>>

Tick ==
    /\ now < MaxTime
    /\ now' = now + 1
    /\ UNCHANGED <<device, req, log, live>>

Next ==
    \/ \E d \in Device : CLIEnroll(d) \/ CLIDelete(d) \/ Forget(d)
    \/ \E q \in Request, s \in Source : MTLSEnroll(q, s)
    \/ \E q \in Request, d \in Device : LoadStart(q, d)
    \/ \E q \in Request :
         LoadAllowed(q) \/ LoadKey(q) \/ LoadRecord(q) \/ TryRecordSuccess(q)
    \/ Tick

Spec == Init /\ [][Next]_vars

-------------------------------------------------------------------------------
(***************************************************************************)
(* Properties                                                              *)
(***************************************************************************)

\* Type correctness.
LimiterTypeOK ==
    /\ now \in Nat
    /\ device \in [Device -> {"new", "enrolled", "deleted", "forgotten"}]
    /\ req \in [Request -> [pc : Pc, who : Subject \cup {Nobody}, read : Nat]]
    /\ log \in [Subject -> Seq([read : Nat, at : Nat])]
    /\ live \in [Subject -> SUBSET Nat]
    /\ \A s \in Subject : live[s] \subseteq 1..Len(log[s])

\* Whenever a success is recorded, at most Limit of the successes recorded so
\* far for that device or address have a clock reading inside the window that
\* ends then, although requests are charged in another order than they read
\* the clock (TryRecordSuccess, pruneLocked).
RecordedWithinLimit ==
    \A s \in Subject : \A j \in 1..Len(log[s]) :
        Cardinality({i \in 1..j : log[s][i].read > log[s][j].at - Window}) <= Limit
===============================================================================
