------------------------------ MODULE ReplayCache ------------------------------
(***************************************************************************)
(* Replay protection of the sign and key-load requests: the timestamp      *)
(* window and the replay cache (proxy/internal/auth/pipeline.go and        *)
(* replay.go), run by concurrent HTTP handlers.                            *)
(*                                                                         *)
(* The clock counts ticks, TicksPerSec to the second: timestamps are       *)
(* compared in whole seconds, cache entries expire to the tick.  A request *)
(* reads the clock twice, once for its timestamp and once before it waits  *)
(* for the cache's mutex, so it may find the cache in a state later than   *)
(* its reading.                                                            *)
(*                                                                         *)
(* log is every entry ever put in the cache, in order, and live the        *)
(* indices of those still in it: the list ReplayLRU.order is live in       *)
(* decreasing order, and byKey maps the body of each of them to it.        *)
(***************************************************************************)
EXTENDS Integers, Sequences, FiniteSets

CONSTANTS
    Request,      \* the requests, each handled by a goroutine of its own
    Body,         \* request bodies, with the timestamp each one carries
    Window,       \* timestampWindowSec (30)
    TTL,          \* lifetime of an entry, in ticks (60 s)
    Max,          \* capacity of the cache (1000)
    TicksPerSec,
    MaxTime,      \* bound on the clock
    NoBody

ASSUME ReplayAssumption ==
    /\ Window \in Nat /\ TTL \in Nat \ {0} /\ Max \in Nat \ {0}
    /\ TicksPerSec \in Nat \ {0} /\ MaxTime \in Nat
    /\ \A b \in Body : b.ts \in Nat
    /\ NoBody \notin Body

\* An entry lives as long as the window is wide, in the code 60 s and +-30 s.
ASSUME LifetimeCoversWindow == TTL >= (2 * Window) * TicksPerSec

VARIABLES now, req, log, live

vars == <<now, req, log, live>>

Pc == {"idle", "stamped", "reading", "accepted", "replay", "refused"}
AtRest(pc) == [pc |-> pc, body |-> NoBody, stamp |-> 0, read |-> 0]

Init ==
    /\ now = 0
    /\ req = [r \in Request |-> AtRest("idle")]
    /\ log = <<>>
    /\ live = {}

\* Mutated form of InWindow: the difference is rounded, not the clock.
InWindowLoose(ts) ==
    /\ now - ts * TicksPerSec <= (Window + 1) * TicksPerSec
    /\ ts * TicksPerSec - now <= Window * TicksPerSec

\* ValidateTimestampAt: the clock in whole seconds.
InWindow(ts) ==
    LET delta == now \div TicksPerSec - ts
    IN  delta <= Window /\ -delta <= Window

\* The MAC of the body under this connection's TLS exporter, then the
\* timestamp, with the clock the handler read.
Validate(r, b, macOK) ==
    /\ req[r].pc = "idle"
    /\ req' = [req EXCEPT ![r] =
                  IF macOK /\ InWindow(b.ts)
                  THEN [pc |-> "stamped", body |-> b, stamp |-> now, read |-> 0]
                  ELSE AtRest("refused")]
    /\ UNCHANGED <<now, log, live>>

\* AddIfNew reads the clock, then waits for the mutex.
ReadClock(r) ==
    /\ req[r].pc = "stamped"
    /\ req' = [req EXCEPT ![r].pc = "reading", ![r].read = now]
    /\ UNCHANGED <<now, log, live>>

ExpiredAt(i, t) == t >= log[i].read + TTL

\* Mutated form of Evicted: everything the list holds behind a live entry
\* goes as well.
EvictedThrough(t) == {i \in live : \E j \in live : j >= i /\ ExpiredAt(j, t)}

\* evictExpired goes from the back of the list to the first live entry.
Evicted(t) == {i \in live : \A j \in live : j <= i => ExpiredAt(j, t)}

Oldest(S) == CHOOSE i \in S : \A j \in S : i <= j

\* At capacity the entry at the back goes.
Trim(S) == IF Cardinality(S) > Max THEN S \ {Oldest(S)} ELSE S

\* The critical section of AddIfNew.
AddIfNew(r) ==
    LET b == req[r].body
        t == req[r].read
        kept == live \ Evicted(t)
        same == {i \in kept : log[i].body = b}
    IN  /\ req[r].pc = "reading"
        /\ IF \E i \in same : ~ExpiredAt(i, t)
           THEN /\ req' = [req EXCEPT ![r] = AtRest("replay")]
                /\ live' = kept
                /\ UNCHANGED log
           ELSE /\ req' = [req EXCEPT ![r] = AtRest("accepted")]
                /\ log' = Append(log, [body |-> b, stamp |-> req[r].stamp,
                                       read |-> t, at |-> now])
                /\ live' = Trim((kept \ same) \cup {Len(log) + 1})
        /\ UNCHANGED now

Tick ==
    /\ now < MaxTime
    /\ now' = now + 1
    /\ UNCHANGED <<req, log, live>>

Next ==
    \/ \E r \in Request, b \in Body, macOK \in BOOLEAN : Validate(r, b, macOK)
    \/ \E r \in Request : ReadClock(r) \/ AddIfNew(r)
    \/ Tick

Spec == Init /\ [][Next]_vars

-------------------------------------------------------------------------------
(***************************************************************************)
(* Properties                                                              *)
(***************************************************************************)

\* Type correctness.
ReplayTypeOK ==
    /\ now \in Nat
    /\ req \in [Request -> [pc : Pc, body : Body \cup {NoBody},
                            stamp : Nat, read : Nat]]
    /\ log \in Seq([body : Body, stamp : Nat, read : Nat, at : Nat])
    /\ live \subseteq 1..Len(log)

\* The list and the map stay one structure: a body is in the cache at most
\* once, and the cache never exceeds its capacity (AddIfNew keeps byKey and
\* order side by side).
CacheWellFormed ==
    /\ \A i, j \in live : log[i].body = log[j].body => i = j
    /\ Cardinality(live) <= Max

\* A body is accepted a second time only when its entry had expired by then or
\* Max other requests were accepted since, although handlers reach the cache
\* in another order than they read the clock (AddIfNew, evictExpired).
AcceptedOnceWhileCached ==
    \A i, j \in 1..Len(log) :
        (i < j /\ log[i].body = log[j].body) =>
            \/ log[j].at >= log[i].read + TTL
            \/ j - i > Max

\* The window is one second wider than the lifetime of an entry.  Below
\* capacity a body is accepted twice only if it first came in the first second
\* of its window, or if its entry expired while the second request was between
\* its timestamp check and the cache (ValidateSignRequest, ValidateCLIKeysLoad).
WindowCoveredByCache ==
    \A i, j \in 1..Len(log) :
        (i < j /\ log[i].body = log[j].body) =>
            \/ j - i > Max
            \/ log[i].read \div TicksPerSec <= log[i].body.ts - Window
            \/ log[j].stamp < log[i].read + TTL /\ log[i].read + TTL <= log[j].at
===============================================================================
