--------------------------- MODULE RequestProofs ----------------------------
(***************************************************************************)
(* Proofs about a sign request between the agent's socket and the proxy's  *)
(* handlers: the daemon that sends it (LunaAgent), for any number of       *)
(* connections, keys and sessions and in both signer modes, and the replay *)
(* cache it meets (ReplayCache), for every set of requests and bodies,     *)
(* every capacity and every lifetime that covers the timestamp window.     *)
(*                                                                         *)
(* The cache.  What is to be shown speaks of the log alone.  The invariant *)
(* says which entries of the log are still in the cache: all of them, but  *)
(* for those that have expired by now and those with Max entries after     *)
(* them.  That clock readings reach the cache late only makes it keep      *)
(* more.                                                                   *)
(***************************************************************************)
EXTENDS ReplayCache, LunaAgent, FiniteSetTheorems, WellFoundedInduction, TLAPS

-----------------------------------------------------------------------------
(* The daemon *)

Pub == Key \cup {Ephemeral, None}
Bound == Session \cup {None}
ConnState ==
    [pc : {"closed", "open", "sign", "remote", "list", "lock", "unlock"},
     binding : Bound, pub : Pub, sent : Bound]

(* The types of the daemon's state *)
AgentTypeOK ==
    /\ loaded \subseteq Key
    /\ identities \subseteq Pub
    /\ locked \in BOOLEAN
    /\ holder \in Conn \cup {None}
    /\ conn \in [Conn -> ConnState]
    /\ presented \in [Conn -> Bound]
    /\ answer \in [Conn -> [asked : Pub, key : Pub]]

(* The binding of a connection is the one presented there, and the copy    *)
(* that signWithBinding works with is still that one.                      *)
BindingsOwn ==
    \A c \in Conn :
        /\ conn[c].binding = presented[c]
        /\ conn[c].pc \in {"sign", "remote"} => conn[c].sent = presented[c]

(* A request at the proxy holds the mutex, and the agent is not locked     *)
(* while anybody holds it.                                                 *)
MutexGuards ==
    /\ \A c \in Conn : conn[c].pc = "remote" => holder = c
    /\ locked => holder = None

AgentInv == AgentTypeOK /\ BindingsOwn /\ MutexGuards /\ SignatureByOfferedKey

(* The daemon starts unlocked, without connections and without signatures. *)
LEMMA AgentInitInv == AgentInit => AgentInv
  <1> SUFFICES ASSUME AgentInit PROVE AgentInv
    OBVIOUS
  <1>1. AgentTypeOK
    BY Zenon DEF AgentInit, AgentTypeOK, ConnState, Pub, Bound, Closed, NoAnswer
  <1>2. BindingsOwn /\ MutexGuards
    BY DEF AgentInit, BindingsOwn, MutexGuards, Closed
  <1>3. SignatureByOfferedKey
    BY DEF AgentInit, SignatureByOfferedKey, NoAnswer
  <1> QED
    BY <1>1, <1>2, <1>3 DEF AgentInv

(* A connection that is done with its request waits for the next one with  *)
(* its binding; the others are as before.                                  *)
LEMMA DoneState ==
  ASSUME AgentTypeOK, NEW c \in Conn
  PROVE  /\ Done(c) \in [Conn -> ConnState]
         /\ Done(c)[c].pc = "open" /\ Done(c)[c].binding = conn[c].binding
         /\ \A d \in Conn \ {c} : Done(c)[d] = conn[d]
  <1> DEFINE one == [conn EXCEPT ![c].pc = "open"]
             two == [one EXCEPT ![c].pub = None]
  <1>1. one \in [Conn -> ConnState] /\ one[c].pc = "open" /\ one[c].binding = conn[c].binding
    BY DEF AgentTypeOK, ConnState
  <1>2. two \in [Conn -> ConnState] /\ two[c].pc = "open" /\ two[c].binding = conn[c].binding
    BY <1>1, ZenonT(30) DEF ConnState, Pub
  <1>3. Done(c) = [two EXCEPT ![c].sent = None]
    BY DEF Done
  <1>4. \A d \in Conn \ {c} : one[d] = conn[d] /\ two[d] = conn[d]
    BY DEF AgentTypeOK
  <1> HIDE DEF one, two
  <1> QED
    BY <1>2, <1>3, <1>4 DEF ConnState, Bound

(* Every step of the daemon, of a connection or of the operator at the     *)
(* proxy keeps the invariant.                                              *)
LEMMA AgentStepInv == AgentInv /\ [AgentNext]_agentVars => AgentInv'
  <1> SUFFICES ASSUME AgentInv, [AgentNext]_agentVars PROVE AgentInv'
    OBVIOUS
  <1> USE DEF AgentInv
  <1>1. CASE RunAgent
    <2>1. ResolveIdentities \subseteq Pub
      BY DEF AgentTypeOK, ResolveIdentities, LocalKeyIdentities, Pub
    <2>2. AgentTypeOK'
      BY <1>1, <2>1, Zenon DEF AgentTypeOK, RunAgent
    <2> QED
      BY <1>1, <2>2
      DEF RunAgent, BindingsOwn, MutexGuards, SignatureByOfferedKey
  <1>2. CASE Stop
    <2>1. AgentTypeOK'
      BY <1>2 DEF AgentTypeOK, Stop, ConnState, Closed, Pub, Bound
    <2> QED
      BY <1>2, <2>1
      DEF Stop, BindingsOwn, MutexGuards, SignatureByOfferedKey, Closed
  <1>3. CASE \E k \in Key : ChangeLoaded(k)
    BY <1>3
    DEF ChangeLoaded, AgentTypeOK, BindingsOwn, MutexGuards, SignatureByOfferedKey
  <1>4. ASSUME NEW c \in Conn, Accept(c) PROVE AgentInv'
    BY <1>4
    DEF Accept, AgentTypeOK, ConnState, BindingsOwn, MutexGuards, SignatureByOfferedKey
  <1>5. ASSUME NEW c \in Conn, Serve(c) PROVE AgentInv'
    <2>1. conn' = Done(c) /\ holder = None
      BY <1>5 DEF Serve
    <2>2. locked' \in BOOLEAN
      BY <1>5, Zenon DEF Serve, AgentTypeOK
    <2>3. AgentTypeOK'
      BY <1>5, <2>1, <2>2, DoneState, Zenon DEF Serve, AgentTypeOK
    <2>4. BindingsOwn' /\ MutexGuards'
      BY <1>5, <2>1, DoneState DEF Serve, BindingsOwn, MutexGuards
    <2> QED
      BY <1>5, <2>3, <2>4 DEF Serve, SignatureByOfferedKey
  <1>6. ASSUME NEW c \in Conn, SignWithBinding(c) PROVE AgentInv'
    <2>1. CASE conn' = Done(c) /\ UNCHANGED holder
      <3>1. AgentTypeOK'
        BY <1>6, <2>1, DoneState DEF SignWithBinding, AgentTypeOK
      <3>2. BindingsOwn' /\ MutexGuards'
        BY <1>6, <2>1, DoneState DEF SignWithBinding, BindingsOwn, MutexGuards
      <3> QED
        BY <1>6, <3>1, <3>2 DEF SignWithBinding, SignatureByOfferedKey
    <2>2. CASE ~locked /\ conn' = [conn EXCEPT ![c].pc = "remote"] /\ holder' = c
      <3>1. AgentTypeOK'
        BY <1>6, <2>2 DEF SignWithBinding, AgentTypeOK, ConnState
      <3>2. BindingsOwn'
        BY <1>6, <2>2 DEF SignWithBinding, AgentTypeOK, ConnState, BindingsOwn
      <3>3. \A d \in Conn \ {c} : conn'[d].pc # "remote"
        BY <1>6, <2>2, AgentAssumption
        DEF SignWithBinding, AgentTypeOK, ConnState, MutexGuards
      <3>4. MutexGuards'
        BY <1>6, <2>2, <3>3 DEF SignWithBinding, MutexGuards
      <3> QED
        BY <1>6, <3>1, <3>2, <3>4 DEF SignWithBinding, SignatureByOfferedKey
    <2> QED
      BY <1>6, <2>1, <2>2 DEF SignWithBinding, Held
  <1>7. ASSUME NEW c \in Conn, SignReturn(c) PROVE AgentInv'
    <2>1. conn' = Done(c) /\ holder' = None
      BY <1>7 DEF SignReturn, Released
    <2>2. conn[c].pub \in Pub /\ SigningKey(conn[c].pub) \in Pub
      BY DEF AgentTypeOK, ConnState, SigningKey, Pub
    <2>3. answer' \in [Conn -> [asked : Pub, key : Pub]]
      BY <1>7, <2>2 DEF SignReturn, AgentTypeOK
    <2>4. AgentTypeOK'
      BY <1>7, <2>1, <2>3, DoneState DEF SignReturn, AgentTypeOK
    <2>5. BindingsOwn'
      BY <1>7, <2>1, DoneState DEF SignReturn, BindingsOwn
    <2>6. \A d \in Conn \ {c} : conn[d].pc # "remote"
      BY <1>7 DEF SignReturn, MutexGuards
    <2>7. MutexGuards'
      BY <2>1, <2>6, DoneState DEF MutexGuards
    <2>8. SignatureByOfferedKey'
      BY <1>7 DEF SignReturn, SigningKey, AgentTypeOK, SignatureByOfferedKey
    <2> QED
      BY <2>4, <2>5, <2>7, <2>8
  <1>8. ASSUME NEW c \in Conn, NEW s \in Session, Extension(c, s) PROVE AgentInv'
    BY <1>8
    DEF Extension, Bind, AgentTypeOK, ConnState, Bound, BindingsOwn, MutexGuards,
        SignatureByOfferedKey
  <1>9. ASSUME NEW c \in Conn, NEW k \in identities, SignWithFlags(c, k) PROVE AgentInv'
    <2>1. /\ conn' \in [Conn -> ConnState]
          /\ conn'[c].pc = "sign" /\ conn'[c].sent = conn[c].binding
          /\ conn'[c].binding = conn[c].binding
          /\ \A d \in Conn \ {c} : conn'[d] = conn[d]
      BY <1>9, ZenonT(30) DEF SignWithFlags, AgentTypeOK, ConnState
    <2>2. AgentTypeOK' /\ SignatureByOfferedKey'
      BY <1>9, <2>1 DEF SignWithFlags, AgentTypeOK, SignatureByOfferedKey
    <2> QED
      BY <1>9, <2>1, <2>2 DEF SignWithFlags, BindingsOwn, MutexGuards
  <1>10. ASSUME NEW c \in Conn, NEW op \in {"list", "lock", "unlock"}, Call(c, op)
         PROVE AgentInv'
    BY <1>10
    DEF Call, AgentTypeOK, ConnState, BindingsOwn, MutexGuards, SignatureByOfferedKey
  <1>11. CASE UNCHANGED agentVars
    BY <1>11
    DEF agentVars, AgentTypeOK, BindingsOwn, MutexGuards, SignatureByOfferedKey
  <1> QED
    BY <1>1, <1>2, <1>3, <1>4, <1>5, <1>6, <1>7, <1>8, <1>9, <1>10, <1>11 DEF AgentNext

(* In every reachable state of the daemon, for any number of connections:  *)
(* the binding that a request carries to the proxy is its connection's     *)
(* own, the mutex covers the whole request, a locked agent has none there, *)
(* and signatures are by the key that was asked for.                       *)
THEOREM AgentInvariance == AgentSpec => []AgentInv
  BY AgentInitInv, AgentStepInv, PTL DEF AgentSpec

(* A request at the proxy carries the session of its own connection,       *)
(* however the connections' Extension and SignWithFlags interleave.        *)
THEOREM OwnSession == AgentSpec => []BoundToOwnSession
  <1>1. AgentInv => BoundToOwnSession
    BY DEF AgentInv, BindingsOwn, BoundToOwnSession
  <1> QED
    BY <1>1, AgentInvariance, PTL

(* Once Lock has returned no connection has a request at the proxy.        *)
THEOREM LockedMeansIdle == AgentSpec => []LockHolds
  <1>1. AgentInv => LockHolds
    BY AgentAssumption DEF AgentInv, MutexGuards, LockHolds
  <1> QED
    BY <1>1, AgentInvariance, PTL

(* In local-key mode signatures are made with the key the client asked     *)
(* for, whatever is loaded at or removed from the proxy meanwhile.         *)
THEOREM OfferedKeySigns == AgentSpec => []SignatureByOfferedKey
  <1>1. AgentInv => SignatureByOfferedKey
    BY DEF AgentInv
  <1> QED
    BY <1>1, AgentInvariance, PTL

-------------------------------------------------------------------------------
\* The replay cache

\* The timestamp that ValidateTimestampAt accepted at clock reading t.
StampFits(t, b) == t \div TicksPerSec <= b.ts + Window

\* A request on its way has a body whose timestamp was checked, and clock
\* readings in order.
RequestsInOrder ==
    \A r \in Request :
        /\ req[r].pc \in {"stamped", "reading"} =>
              /\ req[r].body \in Body
              /\ StampFits(req[r].stamp, req[r].body)
              /\ req[r].stamp <= now
        /\ req[r].pc = "reading" =>
              req[r].stamp <= req[r].read /\ req[r].read <= now

\* The same of an accepted request.
LogInOrder ==
    \A i \in 1..Len(log) :
        /\ StampFits(log[i].stamp, log[i].body)
        /\ log[i].read <= now

\* An entry leaves the cache only when it has expired or Max others came after.
LeftForReason ==
    \A i \in 1..Len(log) :
        i \in live \/ now >= log[i].read + TTL \/ Len(log) >= i + Max

ReplayInv ==
    /\ ReplayTypeOK
    /\ RequestsInOrder
    /\ LogInOrder
    /\ CacheWellFormed
    /\ LeftForReason
    /\ AcceptedOnceWhileCached

-----------------------------------------------------------------------------
(***************************************************************************)
(* Arithmetic and finite sets                                              *)
(***************************************************************************)

\* A set of naturals that is not empty has a least element.
LEMMA LeastElement ==
    ASSUME NEW T \in SUBSET Nat, T # {}
    PROVE  \E x \in T : \A y \in T : x <= y
<1> DEFINE Less == {ss \in Nat \X Nat : ss[1] < ss[2]}
<1>1. IsWellFoundedOn(Less, Nat)
  BY NatLessThanWellFounded, Zenon DEF OpToRel
<1>2. PICK x \in T : \A y \in T : <<y, x>> \notin Less
  <2> HIDE DEF Less
  <2> QED
    BY <1>1, WFMin, Zenon
<1>3. ASSUME NEW y \in T PROVE x <= y
  <2>1. x \in Nat /\ y \in Nat
    OBVIOUS
  <2>2. ASSUME y < x PROVE <<y, x>> \in Less
    BY <2>1, <2>2
  <2> QED
    BY <1>2, <2>1, <2>2
<1> QED
  BY <1>3

\* Clock readings k seconds apart are k apart in whole seconds.
LEMMA SecondsApart ==
    ASSUME NEW a \in Nat, NEW b \in Nat, NEW c \in Nat \ {0}, NEW k \in Nat,
           b >= a + k * c
    PROVE  b \div c >= a \div c + k
<1> DEFINE p == a \div c
           q == b \div c
<1>1. p \in Int /\ q \in Int /\ c * p <= a /\ b < c * q + c
  OBVIOUS
<1> HIDE DEF p, q
<1>2. c * (p + k) < c * (q + 1)
  BY <1>1
<1>3. p + k < q + 1
  BY <1>1, <1>2
<1> QED
  BY <1>1, <1>3 DEF p, q

\* Sets of indices of the log are finite.
LEMMA IndexSets ==
    ASSUME NEW n \in Nat, NEW S \in SUBSET (1..n)
    PROVE  IsFiniteSet(S) /\ Cardinality(S) \in Nat
<1>1. IsFiniteSet(1..n)
  BY FS_Interval
<1>2. IsFiniteSet(S)
  BY <1>1, FS_Subset, Zenon
<1> QED
  BY <1>2, FS_CardinalityType, Zenon

\* Trim removes at most one element, the one with Max others after it, and
\* leaves no more than Max.
LEMMA TrimFact ==
    ASSUME NEW n \in Nat, NEW S \in SUBSET (1..n), Cardinality(S) <= Max + 1
    PROVE  /\ Trim(S) \subseteq S
           /\ Cardinality(Trim(S)) <= Max
           /\ \A i \in S : i \in Trim(S) \/ n >= i + Max
<1>1. IsFiniteSet(S) /\ Cardinality(S) \in Nat /\ Max \in Nat
  BY IndexSets, ReplayAssumption, Zenon
<1>2. CASE Cardinality(S) <= Max
  BY <1>1, <1>2 DEF Trim
<1>3. CASE Cardinality(S) = Max + 1
  <2> DEFINE o == Oldest(S)
  <2>1. S # {}
    BY <1>1, <1>3, FS_EmptySet
  <2>2. o \in S /\ \A j \in S : o <= j
    <3>1. S \in SUBSET Nat
      OBVIOUS
    <3>2. \E i \in S : \A j \in S : i <= j
      BY <2>1, <3>1, LeastElement, Zenon
    <3> QED
      BY <3>2, Zenon DEF Oldest
  <2>3. Trim(S) = S \ {o}
    BY <1>1, <1>3 DEF Trim
  <2> HIDE DEF o
  <2>4. Cardinality(S \ {o}) = Max
    BY <1>1, <1>3, <2>2, FS_RemoveElement
  <2>5. n >= o + Max
    <3>1. o \in Int /\ S \in SUBSET (o..n)
      BY <2>2
    <3>2. Cardinality(S) <= Cardinality(o..n)
      <4>1. IsFiniteSet(o..n)
        BY <3>1, FS_Interval
      <4> QED
        BY <3>1, <4>1, FS_Subset, Zenon
    <3>3. Cardinality(o..n) = n - o + 1
      BY <2>2, <3>1, FS_Interval
    <3> QED
      BY <1>1, <1>3, <3>1, <3>2, <3>3
  <2> QED
    BY <1>1, <2>3, <2>4, <2>5
<1> QED
  BY <1>1, <1>2, <1>3

-----------------------------------------------------------------------------
(***************************************************************************)
(* The steps                                                               *)
(***************************************************************************)

\* The initial state.
LEMMA InitReplayInv == Init => ReplayInv
<1> SUFFICES ASSUME Init PROVE ReplayInv
  OBVIOUS
<1>1. log = <<>> /\ live = {} /\ 1..Len(log) = {} /\ Cardinality(live) = 0
  BY FS_EmptySet DEF Init
<1>2. ReplayTypeOK
  BY <1>1 DEF Init, ReplayTypeOK, AtRest, Pc
<1>3. RequestsInOrder
  BY DEF Init, RequestsInOrder, AtRest
<1> QED
  BY <1>1, <1>2, <1>3, ReplayAssumption
  DEF ReplayInv, LogInOrder, CacheWellFormed, LeftForReason, AcceptedOnceWhileCached

\* The fields of the log's entries.
LEMMA EntryFields ==
    ASSUME ReplayTypeOK
    PROVE  /\ Len(log) \in Nat
           /\ \A i \in 1..Len(log) :
                 /\ log[i].body \in Body /\ log[i].stamp \in Nat
                 /\ log[i].read \in Nat /\ log[i].at \in Nat
<1> DEFINE Entry == [body : Body, stamp : Nat, read : Nat, at : Nat]
<1>1. log \in Seq(Entry)
  BY DEF ReplayTypeOK
<1> HIDE DEF Entry
<1>2. Len(log) \in Nat /\ \A i \in 1..Len(log) : log[i] \in Entry
  BY <1>1
<1> QED
  BY <1>2 DEF Entry

\* A step that leaves the log and the cache alone keeps what is said of them.
LEMMA CacheUnchanged ==
    ASSUME ReplayInv, UNCHANGED <<log, live>>, now' \in Nat, now' >= now
    PROVE  LogInOrder' /\ CacheWellFormed' /\ LeftForReason' /\ AcceptedOnceWhileCached'
<1>1. now \in Nat /\ TTL \in Nat /\ \A i \in 1..Len(log) : log[i].read \in Nat
  BY EntryFields, ReplayAssumption DEF ReplayInv, ReplayTypeOK
<1>2. LogInOrder'
  BY <1>1 DEF ReplayInv, LogInOrder, StampFits
<1>3. CacheWellFormed' /\ AcceptedOnceWhileCached'
  BY DEF ReplayInv, CacheWellFormed, AcceptedOnceWhileCached
<1>4. LeftForReason'
  BY <1>1 DEF ReplayInv, LeftForReason
<1> QED
  BY <1>2, <1>3, <1>4

\* The timestamp check.
LEMMA ValidateStep ==
    ASSUME ReplayInv, NEW r \in Request, NEW b \in Body, NEW macOK \in BOOLEAN,
           Validate(r, b, macOK)
    PROVE  ReplayInv'
<1>1. UNCHANGED <<now, log, live>> /\ now \in Nat
  BY DEF Validate, ReplayInv, ReplayTypeOK
<1>2. LogInOrder' /\ CacheWellFormed' /\ LeftForReason' /\ AcceptedOnceWhileCached'
  BY <1>1, CacheUnchanged
<1>3. ReplayTypeOK'
  BY <1>1 DEF ReplayInv, ReplayTypeOK, Validate, AtRest, Pc
<1>4. InWindow(b.ts) => StampFits(now, b)
  <2>1. b.ts \in Nat /\ Window \in Nat /\ now \div TicksPerSec \in Int
    BY <1>1, ReplayAssumption
  <2> QED
    BY <2>1 DEF InWindow, StampFits
<1>5. RequestsInOrder'
  BY <1>1, <1>4 DEF ReplayInv, ReplayTypeOK, RequestsInOrder, Validate, AtRest, StampFits
<1> QED
  BY <1>2, <1>3, <1>5 DEF ReplayInv

\* The clock reading before the mutex.
LEMMA ReadClockStep ==
    ASSUME ReplayInv, NEW r \in Request, ReadClock(r)
    PROVE  ReplayInv'
<1>1. UNCHANGED <<now, log, live>> /\ now \in Nat
  BY DEF ReadClock, ReplayInv, ReplayTypeOK
<1>2. LogInOrder' /\ CacheWellFormed' /\ LeftForReason' /\ AcceptedOnceWhileCached'
  BY <1>1, CacheUnchanged
<1>3. ReplayTypeOK'
  BY <1>1, ZenonT(30) DEF ReplayInv, ReplayTypeOK, ReadClock, Pc
<1>4. RequestsInOrder'
  BY <1>1 DEF ReplayInv, ReplayTypeOK, RequestsInOrder, ReadClock, StampFits
<1> QED
  BY <1>2, <1>3, <1>4 DEF ReplayInv

\* The clock.
LEMMA TickStep ==
    ASSUME ReplayInv, Tick
    PROVE  ReplayInv'
<1>1. UNCHANGED <<req, log, live>> /\ now \in Nat /\ now' = now + 1
  BY DEF Tick, ReplayInv, ReplayTypeOK
<1>2. LogInOrder' /\ CacheWellFormed' /\ LeftForReason' /\ AcceptedOnceWhileCached'
  BY <1>1, CacheUnchanged
<1>3. ReplayTypeOK'
  BY <1>1 DEF ReplayInv, ReplayTypeOK
<1>4. RequestsInOrder'
  BY <1>1 DEF ReplayInv, ReplayTypeOK, RequestsInOrder, StampFits
<1> QED
  BY <1>2, <1>3, <1>4 DEF ReplayInv

\* The cache is used: what AddIfNew removes because of the clock has expired.
LEMMA AddIfNewStep ==
    ASSUME ReplayInv, NEW r \in Request, AddIfNew(r)
    PROVE  ReplayInv'
<1> DEFINE b == req[r].body
           t == req[r].read
           n == Len(log)
           kept == live \ Evicted(t)
           same == {i \in kept : log[i].body = b}
           e == [body |-> b, stamp |-> req[r].stamp, read |-> t, at |-> now]
           S == (kept \ same) \cup {n + 1}
<1>1. /\ now' = now /\ now \in Nat /\ n \in Nat /\ live \in SUBSET (1..n)
      /\ TTL \in Nat /\ Max \in Nat
      /\ \A i \in 1..n : log[i].read \in Nat /\ log[i].at \in Nat
  <2>1. now' = now
    BY DEF AddIfNew
  <2>2. ReplayTypeOK
    BY DEF ReplayInv
  <2>3. \A i \in 1..n : log[i].read \in Nat /\ log[i].at \in Nat
    BY <2>2, EntryFields
  <2>4. now \in Nat /\ n \in Nat /\ live \in SUBSET (1..n)
    BY <2>2 DEF ReplayTypeOK
  <2> QED
    BY <2>1, <2>3, <2>4, ReplayAssumption
<1>2. /\ b \in Body /\ t \in Nat /\ t <= now /\ StampFits(req[r].stamp, b)
      /\ req[r].stamp \in Nat
  BY DEF AddIfNew, ReplayInv, ReplayTypeOK, RequestsInOrder
<1>3. \A i \in Evicted(t) : now >= log[i].read + TTL
  BY <1>1, <1>2 DEF Evicted, ExpiredAt
<1>4. \A i \in 1..n : i \in kept \/ now >= log[i].read + TTL \/ n >= i + Max
  BY <1>3 DEF ReplayInv, LeftForReason
<1>5. IsFiniteSet(kept) /\ Cardinality(kept) \in Nat /\ Cardinality(kept) <= Max
  <2>1. IsFiniteSet(live) /\ Cardinality(live) \in Nat /\ Cardinality(live) <= Max
    BY <1>1, IndexSets, Zenon DEF ReplayInv, CacheWellFormed
  <2>2. kept \in SUBSET live
    OBVIOUS
  <2> HIDE DEF kept
  <2>3. IsFiniteSet(kept) /\ Cardinality(kept) <= Cardinality(live)
    BY <2>1, <2>2, FS_Subset, Zenon
  <2>4. Cardinality(kept) \in Nat
    BY <2>3, FS_CardinalityType, Zenon
  <2> QED
    BY <1>1, <2>1, <2>3, <2>4
<1>6. RequestsInOrder'
  <2>1. PICK pc \in {"replay", "accepted"} : req' = [req EXCEPT ![r] = AtRest(pc)]
    BY Zenon DEF AddIfNew
  <2>2. \A q \in Request : req'[q] = IF q = r THEN AtRest(pc) ELSE req[q]
    BY <2>1 DEF ReplayInv, ReplayTypeOK
  <2>3. AtRest(pc).pc = pc
    BY DEF AtRest
  <2> QED
    BY <1>1, <2>2, <2>3 DEF ReplayInv, RequestsInOrder, StampFits
<1>7. CASE \E i \in same : ~ExpiredAt(i, t)
  <2>1. live' = kept /\ log' = log /\ req' = [req EXCEPT ![r] = AtRest("replay")]
    BY <1>7, Zenon DEF AddIfNew
  <2> HIDE DEF kept
  <2>2. kept \in SUBSET live
    BY DEF kept
  <2>3. ReplayTypeOK'
    BY <1>1, <2>1, <2>2 DEF ReplayInv, ReplayTypeOK, AtRest, Pc
  <2>4. CacheWellFormed'
    BY <1>5, <2>1, <2>2 DEF ReplayInv, CacheWellFormed
  <2>5. LogInOrder' /\ AcceptedOnceWhileCached'
    BY <1>1, <2>1, Zenon DEF ReplayInv, LogInOrder, AcceptedOnceWhileCached, StampFits
  <2>6. LeftForReason'
    BY <1>1, <1>4, <2>1 DEF LeftForReason
  <2> QED
    BY <1>6, <2>3, <2>4, <2>5, <2>6 DEF ReplayInv
<1>8. CASE \A i \in same : ExpiredAt(i, t)
  <2>1. /\ log' = Append(log, e) /\ live' = Trim(S)
        /\ req' = [req EXCEPT ![r] = AtRest("accepted")]
    BY <1>8, Zenon DEF AddIfNew
  <2>2. ASSUME NEW i \in same
        PROVE  now >= log[i].read + TTL
    <3>1. i \in 1..n /\ ExpiredAt(i, t)
      BY <1>1, <1>8
    <3> QED
      BY <1>1, <1>2, <3>1 DEF ExpiredAt
  <2>3. S \in SUBSET (1..(n + 1)) /\ S \subseteq live \cup {n + 1}
    <3>1. S \subseteq live \cup {n + 1}
      OBVIOUS
    <3>2. ASSUME NEW i \in live \cup {n + 1}
          PROVE  i \in 1..(n + 1)
      <4> HIDE DEF n
      <4> QED
        BY <1>1
    <3> HIDE DEF S
    <3> QED
      BY <3>1, <3>2
  <2>4. \A i \in S : i <= n => log[i].body # b
    BY <1>1
  <2>5. \A i \in 1..n : i \in S \/ now >= log[i].read + TTL \/ n >= i + Max
    BY <1>4, <2>2
  <2>6. \A i \in 1..n : log[i].body = b => now >= log[i].read + TTL \/ n >= i + Max
    BY <1>4, <2>2
  <2>7. Cardinality(S) <= Max + 1
    <3> DEFINE K == kept \ same
    <3>1. K \in SUBSET kept
      OBVIOUS
    <3> HIDE DEF K, kept
    <3>2. IsFiniteSet(K) /\ Cardinality(K) <= Cardinality(kept)
      BY <1>5, <3>1, FS_Subset, Zenon
    <3>3. Cardinality(K) \in Nat
      BY <3>2, FS_CardinalityType, Zenon
    <3>4. Cardinality(K \cup {n + 1}) \in {Cardinality(K), Cardinality(K) + 1}
      BY <3>2, FS_AddElement, Zenon
    <3> QED
      BY <1>1, <1>5, <3>2, <3>3, <3>4 DEF K
  <2> HIDE DEF S, e, same, kept
  <2>8. /\ Trim(S) \subseteq S /\ Cardinality(Trim(S)) <= Max
        /\ \A i \in S : i \in Trim(S) \/ n + 1 >= i + Max
    <3>1. n + 1 \in Nat
      BY <1>1
    <3> HIDE DEF n
    <3> QED
      BY <3>1, <2>3, <2>7, TrimFact
  <2>9. /\ Len(log') = n + 1 /\ log'[n + 1] = e
        /\ \A i \in 1..n : log'[i] = log[i]
    BY <2>1 DEF ReplayInv, ReplayTypeOK
  <2>10. e.body = b /\ e.read = t /\ e.at = now /\ e.stamp = req[r].stamp
    BY DEF e
  <2> HIDE DEF n, b, t
  <2>11. ReplayTypeOK'
    <3>1. e \in [body : Body, stamp : Nat, read : Nat, at : Nat]
      BY <1>1, <1>2 DEF e
    <3>2. log' \in Seq([body : Body, stamp : Nat, read : Nat, at : Nat])
      BY <2>1, <3>1 DEF ReplayInv, ReplayTypeOK
    <3>3. live' \subseteq 1..Len(log')
      BY <2>1, <2>3, <2>8, <2>9, Zenon
    <3>4. req' \in [Request -> [pc : Pc, body : Body \cup {NoBody}, stamp : Nat, read : Nat]]
      BY <2>1 DEF ReplayInv, ReplayTypeOK, AtRest, Pc
    <3> QED
      BY <1>1, <3>2, <3>3, <3>4 DEF ReplayTypeOK
  <2>12. CacheWellFormed'
    <3>1. ASSUME NEW i \in live', NEW j \in live', log'[i].body = log'[j].body
          PROVE  i = j
      <4>1. i \in S /\ j \in S /\ i \in 1..(n + 1) /\ j \in 1..(n + 1)
        BY <2>1, <2>3, <2>8, <3>1, Zenon
      <4>2. CASE i \in 1..n /\ j \in 1..n
        <5>1. i \in live /\ j \in live
          BY <1>1, <2>3, <4>1, <4>2
        <5> QED
          BY <2>9, <3>1, <4>2, <5>1 DEF ReplayInv, CacheWellFormed
      <4>3. CASE i = n + 1 /\ j \in 1..n
        BY <1>1, <2>4, <2>9, <2>10, <3>1, <4>1, <4>3
      <4>4. CASE j = n + 1 /\ i \in 1..n
        BY <1>1, <2>4, <2>9, <2>10, <3>1, <4>1, <4>4
      <4> QED
        BY <1>1, <4>1, <4>2, <4>3, <4>4
    <3> QED
      BY <2>1, <2>8, <3>1, Zenon DEF CacheWellFormed
  <2>13. LogInOrder'
    <3>1. ASSUME NEW i \in 1..(n + 1)
          PROVE  StampFits(log'[i].stamp, log'[i].body) /\ log'[i].read <= now
      <4>1. CASE i \in 1..n
        BY <2>9, <4>1 DEF n, ReplayInv, LogInOrder
      <4>2. CASE i = n + 1
        BY <1>2, <2>9, <2>10, <4>2
      <4> QED
        BY <1>1, <4>1, <4>2
    <3> QED
      BY <1>1, <2>9, <3>1 DEF LogInOrder, StampFits
  <2>14. LeftForReason'
    <3>1. ASSUME NEW i \in 1..(n + 1)
          PROVE  i \in Trim(S) \/ now >= log'[i].read + TTL \/ n + 1 >= i + Max
      <4>1. CASE i \in 1..n
        BY <1>1, <2>5, <2>8, <2>9, <4>1
      <4>2. CASE i = n + 1
        BY <2>8, <4>2, Zenon DEF S
      <4> QED
        BY <1>1, <4>1, <4>2
    <3> QED
      BY <1>1, <2>1, <2>9, <3>1 DEF LeftForReason
  <2>15. AcceptedOnceWhileCached'
    <3>1. ASSUME NEW i \in 1..(n + 1), NEW j \in 1..(n + 1), i < j,
                 log'[i].body = log'[j].body
          PROVE  log'[j].at >= log'[i].read + TTL \/ j - i > Max
      <4>1. i \in 1..n
        BY <1>1, <3>1
      <4>2. CASE j \in 1..n
        BY <2>9, <3>1, <4>1, <4>2 DEF n, ReplayInv, AcceptedOnceWhileCached
      <4>3. CASE j = n + 1
        BY <1>1, <2>6, <2>9, <2>10, <3>1, <4>1, <4>3
      <4> QED
        BY <1>1, <4>2, <4>3
    <3> QED
      BY <2>9, <3>1 DEF AcceptedOnceWhileCached
  <2> QED
    BY <1>6, <2>11, <2>12, <2>13, <2>14, <2>15 DEF ReplayInv
<1> QED
  BY <1>7, <1>8

-----------------------------------------------------------------------------
\* The invariant is inductive.
LEMMA ReplayInvariant == Spec => []ReplayInv
<1>1. ReplayInv /\ [Next]_vars => ReplayInv'
  <2> SUFFICES ASSUME ReplayInv, [Next]_vars PROVE ReplayInv'
    OBVIOUS
  <2>1. CASE UNCHANGED vars
    BY <2>1 DEF vars, ReplayInv, ReplayTypeOK, RequestsInOrder, LogInOrder,
       StampFits, CacheWellFormed, LeftForReason, AcceptedOnceWhileCached
  <2>2. CASE Next
    BY <2>2, ValidateStep, ReadClockStep, AddIfNewStep, TickStep DEF Next
  <2> QED
    BY <2>1, <2>2
<1> QED
  BY <1>1, InitReplayInv, PTL DEF Spec

\* A body is in the cache once, and the cache keeps its capacity, in whatever
\* order the handlers reach it (AddIfNew).
THEOREM CacheStaysWellFormed == Spec => []CacheWellFormed
BY ReplayInvariant, PTL DEF ReplayInv

\* A body is accepted again only after its entry expired or Max others were
\* accepted (AddIfNew, evictExpired).
THEOREM NoReplayWhileCached == Spec => []AcceptedOnceWhileCached
BY ReplayInvariant, PTL DEF ReplayInv

\* The lifetime of an entry covers the timestamp window but for its first
\* second and for requests under way (ValidateTimestampAt, AddIfNew).
THEOREM WindowIsCovered == Spec => []WindowCoveredByCache
<1>1. ReplayInv => WindowCoveredByCache
  <2> SUFFICES ASSUME ReplayInv, NEW i \in 1..Len(log), NEW j \in 1..Len(log),
                      i < j, log[i].body = log[j].body, ~(j - i > Max),
                      ~(log[j].stamp < log[i].read + TTL /\ log[i].read + TTL <= log[j].at)
               PROVE  log[i].read \div TicksPerSec <= log[i].body.ts - Window
    BY Zenon DEF WindowCoveredByCache
  <2> DEFINE a == log[i].read
             d == log[j].stamp
             c == TicksPerSec
             s == log[i].body.ts
  <2>1. /\ a \in Nat /\ d \in Nat /\ log[j].at \in Nat /\ c \in Nat \ {0}
        /\ s \in Nat /\ Window \in Nat /\ TTL \in Nat
    BY EntryFields, ReplayAssumption DEF ReplayInv
  <2>2. log[j].at >= a + TTL
    BY DEF ReplayInv, AcceptedOnceWhileCached
  <2>3. d >= a + TTL
    BY <2>1, <2>2
  <2>4. d \div c <= s + Window
    BY DEF ReplayInv, LogInOrder, StampFits
  <2> HIDE DEF a, d, c, s
  <2>5. 2 * Window \in Nat /\ TTL >= (2 * Window) * c
    BY <2>1, LifetimeCoversWindow DEF c
  <2>6. (2 * Window) * c \in Nat
    BY <2>1
  <2>7. d >= a + (2 * Window) * c
    BY <2>1, <2>3, <2>5, <2>6
  <2>8. d \div c >= a \div c + 2 * Window
    BY <2>1, <2>5, <2>7, SecondsApart, Zenon
  <2>9. a \div c \in Int /\ d \div c \in Int
    BY <2>1
  <2>10. a \div c <= s - Window
    BY <2>1, <2>4, <2>8, <2>9
  <2> QED
    BY <2>10 DEF a, c, s
<1> QED
  BY <1>1, ReplayInvariant, PTL
=============================================================================
