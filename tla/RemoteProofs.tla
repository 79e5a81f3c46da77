----------------------------- MODULE RemoteProofs -----------------------------
(***************************************************************************)
(* Proofs about the two ways into the proxy from outside: remote key loads *)
(* from CLI devices (LoadLimiter), for any number of devices, addresses    *)
(* and requests, and approvals from phones (ApprovalChannel), for any      *)
(* number of requests, users, taps and crashes.                            *)
(*                                                                         *)
(* The limiter.  Requests are charged in another order than they read the  *)
(* clock, so a cutoff may be older than one used before.  It is never      *)
(* newer than the clock: what pruneLocked has dropped is outside the       *)
(* window for good, and what is inside is held, Limit entries at most.     *)
(*                                                                         *)
(* The channel.  The bot API delivers an update until a later call         *)
(* confirms it.  The poller's offset separates what this process has       *)
(* handled from what is still in its batch, so nothing is handled twice.   *)
(***************************************************************************)
EXTENDS LoadLimiter, ApprovalChannel, FiniteSetTheorems, TLAPS

-------------------------------------------------------------------------------
\* The limiter

\* A request about to be charged has somebody to charge, and a clock reading
\* of the past.
ChargesInOrder ==
    \A q \in Request :
        /\ req[q].pc \in {"known", "allowed", "loaded"} => req[q].who \in Device
        /\ req[q].pc = "recording" => req[q].who \in Subject /\ req[q].read <= now

\* The limiter holds every success inside the window that ends now.
WindowHeld ==
    \A s \in Subject : \A i \in 1..Len(log[s]) :
        log[s][i].read > now - Window => i \in live[s]

\* It holds no more than Limit.
HeldWithinLimit == \A s \in Subject : Cardinality(live[s]) <= Limit

LimiterInv ==
    /\ LimiterTypeOK
    /\ ChargesInOrder
    /\ WindowHeld
    /\ HeldWithinLimit
    /\ RecordedWithinLimit

-------------------------------------------------------------------------------
\* Sets of indices of a log are finite, and their subsets no larger.
LEMMA IndexSets ==
    ASSUME NEW n \in Nat, NEW S \in SUBSET (1..n), NEW T \in SUBSET S
    PROVE  /\ IsFiniteSet(T) /\ Cardinality(T) \in Nat
           /\ IsFiniteSet(S) /\ Cardinality(S) \in Nat
           /\ Cardinality(T) <= Cardinality(S)
<1>1. IsFiniteSet(1..n)
  BY FS_Interval
<1>2. IsFiniteSet(S)
  BY <1>1, FS_Subset, Zenon
<1>3. IsFiniteSet(T) /\ Cardinality(T) <= Cardinality(S)
  BY <1>2, FS_Subset, Zenon
<1> QED
  BY <1>2, <1>3, FS_CardinalityType, Zenon

\* The types of the logs and of what is held of them.
LEMMA LogTypes ==
    ASSUME LimiterTypeOK, NEW s \in Subject
    PROVE  /\ Len(log[s]) \in Nat
           /\ live[s] \in SUBSET (1..Len(log[s]))
           /\ \A i \in 1..Len(log[s]) : log[s][i].read \in Nat /\ log[s][i].at \in Nat
<1> DEFINE Entry == [read : Nat, at : Nat]
<1>1. log[s] \in Seq(Entry)
  BY DEF LimiterTypeOK
<1> HIDE DEF Entry
<1>2. Len(log[s]) \in Nat /\ \A i \in 1..Len(log[s]) : log[s][i] \in Entry
  BY <1>1
<1>3. live[s] \in SUBSET (1..Len(log[s]))
  BY DEF LimiterTypeOK
<1> QED
  BY <1>2, <1>3 DEF Entry

\* pruneLocked with a cutoff of the past drops nothing inside the window.
LEMMA PrunedFact ==
    ASSUME LimiterInv, NEW s \in Subject, NEW t \in Nat, t <= now
    PROVE  /\ Pruned(s, t) \in SUBSET live[s]
           /\ Cardinality(Pruned(s, t)) \in Nat /\ Cardinality(Pruned(s, t)) <= Limit
           /\ \A i \in 1..Len(log[s]) : log[s][i].read > now - Window => i \in Pruned(s, t)
<1>1. /\ Len(log[s]) \in Nat /\ live[s] \in SUBSET (1..Len(log[s]))
      /\ \A i \in 1..Len(log[s]) : log[s][i].read \in Nat
      /\ now \in Nat /\ Window \in Nat /\ Limit \in Nat
  BY LogTypes, LimiterAssumption, SMTT(20) DEF LimiterInv, LimiterTypeOK
<1>2. Pruned(s, t) \in SUBSET live[s]
  BY DEF Pruned
<1>3. /\ Cardinality(Pruned(s, t)) \in Nat /\ Cardinality(live[s]) \in Nat
      /\ Cardinality(Pruned(s, t)) <= Cardinality(live[s])
  BY <1>1, <1>2, IndexSets, Zenon
<1>4. Cardinality(live[s]) <= Limit
  BY DEF LimiterInv, HeldWithinLimit
<1>5. ASSUME NEW i \in 1..Len(log[s]), log[s][i].read > now - Window
      PROVE  i \in Pruned(s, t)
  <2>1. i \in live[s]
    BY <1>5 DEF LimiterInv, WindowHeld
  <2> QED
    BY <1>1, <1>5, <2>1 DEF Pruned
<1> QED
  BY <1>1, <1>2, <1>3, <1>4, <1>5

-------------------------------------------------------------------------------
(***************************************************************************)
(* The steps                                                               *)
(***************************************************************************)

\* The initial state.
LEMMA InitLimiterInv == Init => LimiterInv
<1> SUFFICES ASSUME Init PROVE LimiterInv
  OBVIOUS
<1>1. LimiterTypeOK
  BY DEF Init, LimiterTypeOK, AtRest, Pc
<1>2. ChargesInOrder
  BY DEF Init, ChargesInOrder, AtRest
<1>3. \A s \in Subject : log[s] = <<>> /\ 1..Len(log[s]) = {} /\ Cardinality(live[s]) = 0
  BY FS_EmptySet DEF Init
<1> QED
  BY <1>1, <1>2, <1>3, LimiterAssumption
  DEF LimiterInv, WindowHeld, HeldWithinLimit, RecordedWithinLimit

\* A step that records nothing, and after which the limiter holds what it held
\* or less, but all that is inside the window.
LEMMA NothingRecorded ==
    ASSUME LimiterInv, log' = log, now' \in Nat, now' >= now,
           live' \in [Subject -> SUBSET Nat],
           \A s \in Subject :
               /\ live'[s] \in SUBSET live[s]
               /\ \A i \in 1..Len(log[s]) : log[s][i].read > now - Window => i \in live'[s]
    PROVE  WindowHeld' /\ HeldWithinLimit' /\ RecordedWithinLimit'
<1>1. ASSUME NEW s \in Subject, NEW i \in 1..Len(log[s]), log[s][i].read > now' - Window
      PROVE  i \in live'[s]
  <2>1. log[s][i].read \in Nat /\ now \in Nat /\ Window \in Nat
    BY LogTypes, LimiterAssumption DEF LimiterInv, LimiterTypeOK
  <2> QED
    BY <1>1, <2>1
<1>2. ASSUME NEW s \in Subject PROVE Cardinality(live'[s]) <= Limit
  <2>1. Len(log[s]) \in Nat /\ live[s] \in SUBSET (1..Len(log[s]))
    BY LogTypes DEF LimiterInv
  <2>2. /\ Cardinality(live'[s]) \in Nat /\ Cardinality(live[s]) \in Nat
        /\ Cardinality(live'[s]) <= Cardinality(live[s])
    BY <2>1, IndexSets, Zenon
  <2> QED
    BY <2>2, LimiterAssumption DEF LimiterInv, HeldWithinLimit
<1>3. RecordedWithinLimit'
  BY DEF LimiterInv, RecordedWithinLimit
<1> QED
  BY <1>1, <1>2, <1>3 DEF WindowHeld, HeldWithinLimit

\* A request that a step moves to x, which has somebody to charge.
ReqRecord == [pc : Pc, who : Subject \cup {Nobody}, read : Nat]

Chargeable(x) ==
    /\ x \in ReqRecord
    /\ x.pc \in {"known", "allowed", "loaded"} => x.who \in Device
    /\ x.pc = "recording" => x.who \in Subject /\ x.read <= now

\* Requests at rest are in order.
LEMMA RestChargeable ==
    \A pc \in {"idle", "done", "refused"} : Chargeable(AtRest(pc))
BY DEF Chargeable, ReqRecord, AtRest, Pc

\* So are the requests of a state in order.
LEMMA ReqChargeable ==
    ASSUME LimiterInv, NEW q \in Request
    PROVE  Chargeable(req[q])
BY DEF LimiterInv, LimiterTypeOK, ChargesInOrder, Chargeable, ReqRecord

\* One request moves.
LEMMA RequestMoves ==
    ASSUME LimiterInv, now' = now, NEW q \in Request, NEW x, Chargeable(x),
           req' = [req EXCEPT ![q] = x]
    PROVE  req' \in [Request -> ReqRecord] /\ ChargesInOrder'
<1>1. req \in [Request -> ReqRecord]
  BY DEF LimiterInv, LimiterTypeOK, ReqRecord
<1>2. \A p \in Request : Chargeable(req[p])
  BY ReqChargeable
<1>3. \A p \in Request : req'[p] = IF p = q THEN x ELSE req[p]
  BY <1>1
<1>4. \A p \in Request : Chargeable(req'[p])
  BY <1>2, <1>3, Zenon
<1>5. req' \in [Request -> ReqRecord]
  BY <1>1 DEF Chargeable
<1> QED
  BY <1>4, <1>5 DEF Chargeable, ChargesInOrder

\* A step of one request that touches neither the log nor the registry.
LEMMA RequestStep ==
    ASSUME LimiterInv, UNCHANGED <<now, device, log, live>>,
           NEW q \in Request, NEW x, Chargeable(x), req' = [req EXCEPT ![q] = x]
    PROVE  LimiterInv'
<1>1. now \in Nat /\ live \in [Subject -> SUBSET Nat]
  BY DEF LimiterInv, LimiterTypeOK
<1>2. WindowHeld' /\ HeldWithinLimit' /\ RecordedWithinLimit'
  BY <1>1, NothingRecorded DEF LimiterInv, WindowHeld
<1>3. req' \in [Request -> ReqRecord] /\ ChargesInOrder'
  BY RequestMoves, Zenon
<1>4. LimiterTypeOK'
  BY <1>3 DEF LimiterInv, LimiterTypeOK, ReqRecord
<1> QED
  BY <1>2, <1>3, <1>4 DEF LimiterInv

\* The registry and the clock.
LEMMA OtherSteps ==
    ASSUME LimiterInv, (\E d \in Device : CLIEnroll(d) \/ CLIDelete(d)) \/ Tick
    PROVE  LimiterInv'
<1>1. /\ log' = log /\ live' = live /\ req' = req
      /\ now' \in Nat /\ now' >= now /\ now \in Nat
  BY DEF LimiterInv, LimiterTypeOK, CLIEnroll, CLIDelete, Tick
<1>2. WindowHeld' /\ HeldWithinLimit' /\ RecordedWithinLimit'
  BY <1>1, NothingRecorded DEF LimiterInv, LimiterTypeOK, WindowHeld
<1>3. device' \in [Device -> {"new", "enrolled", "deleted", "forgotten"}]
  <2> device \in [Device -> {"new", "enrolled", "deleted", "forgotten"}]
    BY DEF LimiterInv, LimiterTypeOK
  <2>1. ASSUME NEW d \in Device, CLIEnroll(d) \/ CLIDelete(d)
        PROVE  device' \in [Device -> {"new", "enrolled", "deleted", "forgotten"}]
    BY <2>1 DEF CLIEnroll, CLIDelete
  <2>2. CASE Tick
    BY <2>2 DEF Tick
  <2> QED
    BY <2>1, <2>2
<1>4. LimiterTypeOK'
  BY <1>1, <1>3 DEF LimiterInv, LimiterTypeOK
<1>5. ChargesInOrder'
  <2> SUFFICES ASSUME NEW q \in Request
               PROVE  /\ req'[q].pc \in {"known", "allowed", "loaded"}
                           => req'[q].who \in Device
                      /\ req'[q].pc = "recording"
                           => req'[q].who \in Subject /\ req'[q].read <= now'
    BY DEF ChargesInOrder
  <2>1. req[q].read \in Nat
    BY DEF LimiterInv, LimiterTypeOK
  <2> QED
    BY <1>1, <2>1 DEF LimiterInv, ChargesInOrder
<1> QED
  BY <1>2, <1>4, <1>5 DEF LimiterInv

\* An agent enrolment asks to be charged.
LEMMA MTLSEnrollStep ==
    ASSUME LimiterInv, NEW q \in Request, NEW s \in Source, MTLSEnroll(q, s)
    PROVE  LimiterInv'
<1> DEFINE x == [pc |-> "recording", who |-> s, read |-> now]
<1>1. Chargeable(x)
  BY DEF LimiterInv, LimiterTypeOK, Chargeable, ReqRecord, Pc, Subject
<1>2. req' = [req EXCEPT ![q] = x] /\ UNCHANGED <<now, device, log, live>>
  BY DEF MTLSEnroll
<1> QED
  BY <1>1, <1>2, RequestStep, Zenon

\* A load is for an enrolled device.
LEMMA LoadStartStep ==
    ASSUME LimiterInv, NEW q \in Request, NEW d \in Device, LoadStart(q, d)
    PROVE  LimiterInv'
<1> DEFINE x == [pc |-> "known", who |-> d, read |-> 0]
<1>1. Chargeable(x) /\ Chargeable(AtRest("refused"))
  BY RestChargeable DEF Chargeable, ReqRecord, Pc, Subject
<1>2. UNCHANGED <<now, device, log, live>>
  BY DEF LoadStart
<1>3. req' = [req EXCEPT ![q] = x] \/ req' = [req EXCEPT ![q] = AtRest("refused")]
  BY Zenon DEF LoadStart
<1> QED
  BY <1>1, <1>2, <1>3, RequestStep

\* The key is loaded or not.
LEMMA LoadKeyStep ==
    ASSUME LimiterInv, NEW q \in Request, LoadKey(q)
    PROVE  LimiterInv'
<1> DEFINE x == [req[q] EXCEPT !.pc = "loaded"]
<1>1. Chargeable(x) /\ Chargeable(AtRest("refused"))
  BY RestChargeable, ReqChargeable DEF LoadKey, Chargeable, ReqRecord, Pc
<1>2. UNCHANGED <<now, device, log, live>>
  BY DEF LoadKey
<1>3. req' = [req EXCEPT ![q] = x] \/ req' = [req EXCEPT ![q] = AtRest("refused")]
  BY DEF LoadKey
<1> QED
  BY <1>1, <1>2, <1>3, RequestStep

\* The clock reading of a charge.
LEMMA LoadRecordStep ==
    ASSUME LimiterInv, NEW q \in Request, LoadRecord(q)
    PROVE  LimiterInv'
<1> DEFINE x == [req[q] EXCEPT !.pc = "recording", !.read = now]
<1>1. now \in Nat
  BY DEF LimiterInv, LimiterTypeOK
<1>2. Chargeable(x)
  <2>1. req[q] \in ReqRecord /\ req[q].who \in Device
    BY ReqChargeable DEF LoadRecord, Chargeable
  <2>2. x \in ReqRecord /\ x.pc = "recording" /\ x.who = req[q].who /\ x.read = now
    BY <1>1, <2>1, Zenon DEF ReqRecord, Pc
  <2> HIDE DEF x
  <2> QED
    BY <1>1, <2>1, <2>2 DEF Chargeable, Subject
<1>3. UNCHANGED <<now, device, log, live>> /\ req' = [req EXCEPT ![q] = x]
  BY Zenon DEF LoadRecord
<1> QED
  BY <1>2, <1>3, RequestStep, Zenon

\* Forget empties the history of a device.
LEMMA ForgetStep ==
    ASSUME LimiterInv, NEW d \in Device, Forget(d)
    PROVE  LimiterInv'
<1>1. LimiterTypeOK' /\ ChargesInOrder'
  BY DEF LimiterInv, LimiterTypeOK, ChargesInOrder, Forget, Subject
<1>2. now' = now /\ d \in Subject
  BY DEF Forget, Subject
<1>3. log'[d] = <<>> /\ live'[d] = {}
  BY <1>2 DEF LimiterInv, LimiterTypeOK, Forget
<1>4. \A s \in Subject : s # d => log'[s] = log[s] /\ live'[s] = live[s]
  BY DEF LimiterInv, LimiterTypeOK, Forget
<1>5. 1..Len(log'[d]) = {} /\ Cardinality(live'[d]) <= Limit
  BY <1>3, FS_EmptySet, LimiterAssumption
<1>6. WindowHeld'
  BY <1>2, <1>4, <1>5 DEF LimiterInv, WindowHeld
<1>7. HeldWithinLimit'
  BY <1>4, <1>5 DEF LimiterInv, HeldWithinLimit
<1>8. RecordedWithinLimit'
  <2>1. ASSUME NEW s \in Subject, NEW j \in 1..Len(log'[s])
        PROVE  Cardinality({i \in 1..j : log'[s][i].read > log'[s][j].at - Window}) <= Limit
    <3>1. s # d /\ log'[s] = log[s]
      BY <1>4, <1>5, <2>1
    <3> QED
      BY <2>1, <3>1 DEF LimiterInv, RecordedWithinLimit
  <2> QED
    BY <2>1 DEF RecordedWithinLimit
<1> QED
  BY <1>1, <1>6, <1>7, <1>8 DEF LimiterInv

\* Allowed prunes with the clock of the moment.
LEMMA LoadAllowedStep ==
    ASSUME LimiterInv, NEW q \in Request, LoadAllowed(q)
    PROVE  LimiterInv'
<1> DEFINE s == req[q].who
<1>1. s \in Device /\ s \in Subject /\ now \in Nat /\ now' = now /\ log' = log
  BY DEF LimiterInv, LimiterTypeOK, ChargesInOrder, LoadAllowed, Subject
<1>2. live' = live \/ live' = [live EXCEPT ![s] = Pruned(s, now)]
  BY DEF LoadAllowed
<1>3. /\ Pruned(s, now) \in SUBSET live[s]
      /\ \A i \in 1..Len(log[s]) : log[s][i].read > now - Window => i \in Pruned(s, now)
  BY <1>1, PrunedFact
<1>4. ASSUME NEW x \in Subject
      PROVE  /\ live'[x] \in SUBSET live[x]
             /\ \A i \in 1..Len(log[x]) : log[x][i].read > now - Window => i \in live'[x]
  <2>1. live'[x] = live[x] \/ (x = s /\ live'[x] = Pruned(s, now))
    BY <1>1, <1>2 DEF LimiterInv, LimiterTypeOK
  <2> HIDE DEF s
  <2> QED
    BY <1>3, <2>1 DEF LimiterInv, WindowHeld
<1>5. live' \in [Subject -> SUBSET Nat]
  BY <1>1, <1>2, <1>3, Zenon DEF LimiterInv, LimiterTypeOK
<1>6. WindowHeld' /\ HeldWithinLimit' /\ RecordedWithinLimit'
  BY <1>1, <1>4, <1>5, NothingRecorded
<1>7. req' \in [Request -> ReqRecord] /\ ChargesInOrder'
  <2> DEFINE x == [req[q] EXCEPT !.pc = "allowed"]
  <2>1. Chargeable(x) /\ Chargeable(AtRest("refused"))
    BY RestChargeable, ReqChargeable DEF LoadAllowed, Chargeable, ReqRecord, Pc
  <2>2. req' = [req EXCEPT ![q] = x] \/ req' = [req EXCEPT ![q] = AtRest("refused")]
    BY DEF LoadAllowed
  <2> HIDE DEF x
  <2> QED
    BY <1>1, <2>1, <2>2, RequestMoves
<1>8. LimiterTypeOK'
  <2>1. \A x \in Subject : live'[x] \subseteq 1..Len(log'[x])
    BY <1>1, <1>4 DEF LimiterInv, LimiterTypeOK
  <2> QED
    BY <1>1, <1>5, <1>7, <2>1 DEF LimiterInv, LimiterTypeOK, LoadAllowed, ReqRecord
<1> QED
  BY <1>6, <1>7, <1>8 DEF LimiterInv

\* A charge prunes, and records if there is room.
LEMMA TryRecordSuccessStep ==
    ASSUME LimiterInv, NEW q \in Request, TryRecordSuccess(q)
    PROVE  LimiterInv'
<1> DEFINE s == req[q].who
           t == req[q].read
           n == Len(log[s])
           stamps == Pruned(s, t)
           e == [read |-> t, at |-> now]
<1>1. /\ s \in Subject /\ t \in Nat /\ t <= now /\ now \in Nat
      /\ now' = now /\ device' = device /\ Window \in Nat /\ Limit \in Nat
  BY LimiterAssumption, ReqChargeable, SMTT(20) DEF LimiterInv, LimiterTypeOK, TryRecordSuccess, Chargeable, ReqRecord
<1>2. /\ stamps \in SUBSET live[s] /\ Cardinality(stamps) \in Nat /\ Cardinality(stamps) <= Limit
      /\ \A i \in 1..n : log[s][i].read > now - Window => i \in stamps
  BY <1>1, PrunedFact, Zenon
<1>3. /\ n \in Nat /\ live[s] \in SUBSET (1..n)
      /\ \A i \in 1..n : log[s][i].read \in Nat /\ log[s][i].at \in Nat
  BY <1>1, LogTypes DEF LimiterInv
<1>4. req' \in [Request -> ReqRecord] /\ ChargesInOrder'
  <2>1. \E pc \in {"done", "refused"} : req' = [req EXCEPT ![q] = AtRest(pc)]
    BY DEF TryRecordSuccess
  <2> QED
    BY <1>1, <2>1, RestChargeable, RequestMoves, Zenon
<1>5. CASE ~HasRoom(stamps)
  <2>1. log' = log /\ live' = [live EXCEPT ![s] = stamps]
    BY <1>5 DEF TryRecordSuccess
  <2> HIDE DEF s, stamps
  <2>2. ASSUME NEW x \in Subject
        PROVE  /\ live'[x] \in SUBSET live[x]
               /\ \A i \in 1..Len(log[x]) : log[x][i].read > now - Window => i \in live'[x]
    <3>1. live'[x] = live[x] \/ (x = s /\ live'[x] = stamps)
      BY <1>1, <2>1 DEF LimiterInv, LimiterTypeOK
    <3> QED
      BY <1>2, <3>1 DEF LimiterInv, WindowHeld
  <2>3. live' \in [Subject -> SUBSET Nat]
    BY <1>1, <1>2, <2>1 DEF LimiterInv, LimiterTypeOK
  <2>4. WindowHeld' /\ HeldWithinLimit' /\ RecordedWithinLimit'
    BY <1>1, <2>1, <2>2, <2>3, NothingRecorded
  <2>5. LimiterTypeOK'
    <3>1. \A x \in Subject : live'[x] \subseteq 1..Len(log'[x])
      BY <2>1, <2>2 DEF LimiterInv, LimiterTypeOK
    <3> QED
      BY <1>1, <1>4, <2>1, <2>3, <3>1 DEF LimiterInv, LimiterTypeOK, ReqRecord
  <2> QED
    BY <1>4, <2>4, <2>5, SMTT(20) DEF LimiterInv
<1>6. CASE HasRoom(stamps)
  <2>1. /\ log' = [log EXCEPT ![s] = Append(log[s], e)]
        /\ live' = [live EXCEPT ![s] = stamps \cup {n + 1}]
    BY <1>6, SMTT(20) DEF TryRecordSuccess
  <2>2. e.read = t /\ e.at = now /\ e \in [read : Nat, at : Nat]
    BY <1>1
  <2>3. \A x \in Subject : x # s => log'[x] = log[x] /\ live'[x] = live[x]
    BY <2>1 DEF LimiterInv, LimiterTypeOK
  <2>4. log'[s] = Append(log[s], e) /\ live'[s] = stamps \cup {n + 1}
    BY <1>1, <2>1 DEF LimiterInv, LimiterTypeOK
  <2> HIDE DEF e
  <2>5. log[s] \in Seq([read : Nat, at : Nat])
    BY <1>1 DEF LimiterInv, LimiterTypeOK
  <2>6. /\ log'[s] \in Seq([read : Nat, at : Nat]) /\ Len(log'[s]) = n + 1
        /\ log'[s][n + 1] = e /\ \A i \in 1..n : log'[s][i] = log[s][i]
    <3> DEFINE Entry == [read : Nat, at : Nat]
    <3>1. e \in Entry /\ log[s] \in Seq(Entry)
      BY <2>2, <2>5
    <3> HIDE DEF Entry, s
    <3>2. /\ log'[s] \in Seq(Entry) /\ Len(log'[s]) = n + 1
          /\ log'[s][n + 1] = e /\ \A i \in 1..n : log'[s][i] = log[s][i]
      BY <2>4, <3>1
    <3> QED
      BY <3>2 DEF Entry
  <2> HIDE DEF s, n, stamps, t
  <2>7. /\ live'[s] \in SUBSET (1..(n + 1)) /\ live'[s] \in SUBSET Nat
        /\ IsFiniteSet(live'[s]) /\ Cardinality(live'[s]) \in Nat
        /\ Cardinality(live'[s]) <= Limit
    <3>1. live'[s] \in SUBSET (1..(n + 1)) /\ n + 1 \in Nat
      BY <1>2, <1>3, <2>4
    <3>2. IsFiniteSet(live'[s]) /\ Cardinality(live'[s]) \in Nat
      BY <3>1, IndexSets, Zenon
    <3>3. IsFiniteSet(stamps)
      BY <1>2, <1>3, IndexSets, Zenon
    <3>4. Cardinality(stamps \cup {n + 1}) \in {Cardinality(stamps), Cardinality(stamps) + 1}
      BY <3>3, FS_AddElement
    <3>5. Cardinality(stamps) < Limit
      BY <1>6 DEF HasRoom
    <3>6. Cardinality(live'[s]) <= Limit
      BY <1>1, <1>2, <2>4, <3>4, <3>5
    <3>7. live'[s] \in SUBSET Nat
      BY <3>1
    <3> QED
      BY <3>1, <3>2, <3>6, <3>7
  <2>8. ASSUME NEW i \in 1..(n + 1), log'[s][i].read > now - Window
        PROVE  i \in live'[s]
    <3>1. CASE i \in 1..n
      BY <1>2, <2>4, <2>6, <2>8, <3>1
    <3>2. CASE i = n + 1
      BY <2>4, <3>2
    <3> QED
      BY <1>3, <3>1, <3>2
  <2>9. WindowHeld'
    <3>1. ASSUME NEW x \in Subject, NEW i \in 1..Len(log'[x]), log'[x][i].read > now - Window
          PROVE  i \in live'[x]
      <4>1. CASE x = s
        BY <2>6, <2>8, <3>1, <4>1
      <4>2. CASE x # s
        BY <2>3, <3>1, <4>2 DEF LimiterInv, WindowHeld
      <4> QED
        BY <4>1, <4>2
    <3> QED
      BY <1>1, <3>1 DEF WindowHeld
  <2>10. HeldWithinLimit'
    BY <2>3, <2>7 DEF LimiterInv, HeldWithinLimit
  <2>11. RecordedWithinLimit'
    <3>1. ASSUME NEW x \in Subject, NEW j \in 1..Len(log'[x])
          PROVE  Cardinality({i \in 1..j : log'[x][i].read > log'[x][j].at - Window}) <= Limit
      <4>1. CASE x # s
        BY <2>3, <3>1, <4>1 DEF LimiterInv, RecordedWithinLimit
      <4>2. CASE x = s /\ j \in 1..n
        <5>1. /\ log'[x][j].at = log[x][j].at
              /\ \A i \in 1..j : log'[x][i].read = log[x][i].read
          <6>1. \A i \in 1..j : i \in 1..n
            BY <1>3, <4>2
          <6>2. \A i \in 1..j : log'[x][i] = log[x][i]
            BY <2>6, <4>2, <6>1
          <6>3. log'[x][j] = log[x][j]
            BY <2>6, <4>2
          <6> QED
            BY <6>2, <6>3
        <5>2. {i \in 1..j : log'[x][i].read > log'[x][j].at - Window}
                = {i \in 1..j : log[x][i].read > log[x][j].at - Window}
          BY <5>1
        <5>3. Cardinality({i \in 1..j : log[x][i].read > log[x][j].at - Window}) <= Limit
          BY <4>2 DEF n, LimiterInv, RecordedWithinLimit
        <5> QED
          BY <5>2, <5>3, Zenon
      <4>3. CASE x = s /\ j = n + 1
        <5> DEFINE I == {i \in 1..j : log'[x][i].read > log'[x][j].at - Window}
        <5>1. I \in SUBSET live'[s]
          BY <2>2, <2>6, <2>8, <4>3
        <5> HIDE DEF I
        <5>2. Cardinality(I) <= Cardinality(live'[s]) /\ IsFiniteSet(I)
          BY <2>7, <5>1, FS_Subset, Zenon
        <5>3. Cardinality(I) \in Nat
          BY <5>2, FS_CardinalityType, Zenon
        <5>4. Cardinality(I) <= Limit
          BY <1>1, <2>7, <5>2, <5>3
        <5> QED
          BY <5>4 DEF I
      <4> QED
        BY <1>3, <2>6, <3>1, <4>1, <4>2, <4>3
    <3> QED
      BY <3>1 DEF RecordedWithinLimit
  <2>12. LimiterTypeOK'
    <3>1. log' \in [Subject -> Seq([read : Nat, at : Nat])]
      <4>1. log' = [log EXCEPT ![s] = log'[s]] /\ log \in [Subject -> Seq([read : Nat, at : Nat])]
        BY <2>1, <2>4, Zenon DEF LimiterInv, LimiterTypeOK
      <4> QED
        BY <1>1, <2>6, <4>1, Zenon
    <3>2. live' \in [Subject -> SUBSET Nat]
      <4>1. live' = [live EXCEPT ![s] = live'[s]] /\ live \in [Subject -> SUBSET Nat]
        BY <2>1, <2>4, Zenon DEF LimiterInv, LimiterTypeOK
      <4> QED
        BY <1>1, <2>7, <4>1
    <3>3. \A x \in Subject : live'[x] \subseteq 1..Len(log'[x])
      BY <2>3, <2>6, <2>7, Zenon DEF LimiterInv, LimiterTypeOK
    <3> QED
      BY <1>1, <1>4, <3>1, <3>2, <3>3 DEF LimiterInv, LimiterTypeOK, ReqRecord
  <2> QED
    BY <1>4, <2>9, <2>10, <2>11, <2>12, SMTT(20) DEF LimiterInv
<1> QED
  BY <1>5, <1>6

-------------------------------------------------------------------------------
\* The invariant is inductive.
LEMMA LimiterInvariant == Spec => []LimiterInv
<1>1. LimiterInv /\ [Next]_vars => LimiterInv'
  <2> SUFFICES ASSUME LimiterInv, [Next]_vars PROVE LimiterInv'
    OBVIOUS
  <2>1. CASE UNCHANGED vars
    <3>1. UNCHANGED <<now, device, req, log, live>>
      BY <2>1 DEF vars
    <3>2. LimiterTypeOK' /\ ChargesInOrder'
      BY <3>1 DEF LimiterInv, LimiterTypeOK, ChargesInOrder
    <3>3. WindowHeld' /\ HeldWithinLimit' /\ RecordedWithinLimit'
      BY <3>1 DEF LimiterInv, WindowHeld, HeldWithinLimit, RecordedWithinLimit
    <3> QED
      BY <3>2, <3>3 DEF LimiterInv
  <2>2. CASE Next
    <3>1. CASE (\E d \in Device : CLIEnroll(d) \/ CLIDelete(d)) \/ Tick
      BY <3>1, OtherSteps
    <3>2. ASSUME NEW d \in Device, Forget(d) PROVE LimiterInv'
      BY <3>2, ForgetStep
    <3>3. ASSUME NEW q \in Request, NEW s \in Source, MTLSEnroll(q, s) PROVE LimiterInv'
      BY <3>3, MTLSEnrollStep
    <3>4. ASSUME NEW q \in Request, NEW d \in Device, LoadStart(q, d) PROVE LimiterInv'
      BY <3>4, LoadStartStep
    <3>5. ASSUME NEW q \in Request,
                 LoadAllowed(q) \/ LoadKey(q) \/ LoadRecord(q) \/ TryRecordSuccess(q)
          PROVE  LimiterInv'
      BY <3>5, LoadAllowedStep, LoadKeyStep, LoadRecordStep, TryRecordSuccessStep
    <3> QED
      BY <2>2, <3>1, <3>2, <3>3, <3>4, <3>5, Zenon DEF Next
  <2> QED
    BY <2>1, <2>2
<1> QED
  BY <1>1, InitLimiterInv, PTL DEF Spec

\* The limiter never records more than Limit successes of a device, or
\* enrolment attempts of an address, with clock readings inside one window, in
\* whatever order concurrent requests are charged (TryRecordSuccess).
THEOREM LimitHolds == Spec => []RecordedWithinLimit
BY LimiterInvariant, PTL DEF LimiterInv

-------------------------------------------------------------------------------
\* The approval channel

Button == [action : {"approve", "deny"}, tx : Tx, ttl : AllowedTTL \cup {0}]
Update == [user : User, data : Button, chat : {ConfiguredChat, 0}]

\* The types of the store, of the bot API's updates and of the poller's state.
ChannelTypeOK ==
    /\ decision \in [Tx -> {"none", "open", "granted", "refused"}]
    /\ known \subseteq Tx
    /\ by \in [Tx -> {"none", Telegram, Mobile}]
    /\ taps \in Seq(Update) /\ Len(taps) <= MaxTaps
    /\ confirmed \in Nat /\ offset \in Nat
    /\ batch \in Seq(Nat)
    /\ times \in [1..MaxTaps -> Nat]

\* What is left of the last answer are taps that happened, in their order, none
\* of them below the offset.
BatchAhead ==
    /\ \A i \in 1..Len(batch) : batch[i] \in 1..Len(taps) /\ batch[i] >= offset
    /\ \A i, j \in 1..Len(batch) : i < j => batch[i] < batch[j]

\* What this process has handled is below the offset, and was handled once.
HandledBelow ==
    \A n \in 1..MaxTaps : times[n] <= 1 /\ (times[n] # 0 => n < offset)

\* Only a granted request has a grantor.
GrantorGranted ==
    \A t \in Tx : by[t] # "none" => decision[t] = "granted"

ChannelInv ==
    ChannelTypeOK /\ BatchAhead /\ HandledBelow /\ GrantorGranted /\ GrantHasTap

\* The proxy starts without requests, taps and updates.
LEMMA ChannelInitInv == ChannelInit => ChannelInv
<1> SUFFICES ASSUME ChannelInit
             PROVE  ChannelInv
  OBVIOUS
<1>1. ChannelTypeOK
  BY ChannelAssumption DEF ChannelInit, ChannelTypeOK
<1>2. BatchAhead /\ HandledBelow /\ GrantorGranted /\ GrantHasTap
  BY ChannelAssumption
  DEF ChannelInit, BatchAhead, HandledBelow, GrantorGranted, GrantHasTap, Telegram
<1> QED
  BY <1>1, <1>2 DEF ChannelInv

\* A decision keeps the store well formed; only the grantor it names is new.
LEMMA DecideKeeps ==
    ASSUME ChannelTypeOK, GrantorGranted,
           NEW t \in Tx, NEW d \in {"granted", "refused"},
           NEW who \in {"none", Telegram, Mobile}, Decide(t, d, who)
    PROVE  /\ decision' \in [Tx -> {"none", "open", "granted", "refused"}]
           /\ known' \subseteq Tx
           /\ by' \in [Tx -> {"none", Telegram, Mobile}]
           /\ GrantorGranted'
           /\ \A s \in Tx : by'[s] # by[s] => s = t /\ d = "granted" /\ by'[s] = who
<1>1. CASE ~(t \in known /\ decision[t] = "open")
  BY <1>1 DEF Decide, storeVars, ChannelTypeOK, GrantorGranted
<1>2. CASE t \in known /\ decision[t] = "open" /\ d = "granted"
  <2>1. /\ decision' = [decision EXCEPT ![t] = "granted"]
        /\ by' = [by EXCEPT ![t] = who] /\ known' = known
    BY <1>2 DEF Decide
  <2> QED
    BY <1>2, <2>1 DEF ChannelTypeOK, GrantorGranted
<1>3. CASE t \in known /\ decision[t] = "open" /\ d = "refused"
  <2>1. decision' = [decision EXCEPT ![t] = "refused"] /\ by' = by /\ known' = known
    BY <1>3 DEF Decide
  <2> QED
    BY <1>3, <2>1 DEF ChannelTypeOK, GrantorGranted
<1> QED
  BY <1>1, <1>2, <1>3

\* A step that leaves the taps and the poller alone, and names no new Telegram
\* grantor, keeps the invariant if the store stays well formed.
LEMMA PollerKept ==
    ASSUME ChannelInv, UNCHANGED <<taps, confirmed, offset, batch, times>>,
           decision' \in [Tx -> {"none", "open", "granted", "refused"}],
           known' \subseteq Tx, by' \in [Tx -> {"none", Telegram, Mobile}],
           GrantorGranted', \A s \in Tx : by'[s] = Telegram => by[s] = Telegram
    PROVE  ChannelInv'
  BY Zenon DEF ChannelInv, ChannelTypeOK, BatchAhead, HandledBelow, GrantHasTap

\* A tap is one more update; the earlier ones keep their numbers.
LEMMA TapStep ==
    ASSUME ChannelInv, NEW t \in Tx, NEW user \in User, NEW chat \in {ConfiguredChat, 0},
           NEW data \in approvalKeyboard(t), Tap(t, user, data, chat)
    PROVE  ChannelInv'
<1> USE DEF ChannelInv
<1> DEFINE u == [user |-> user, data |-> data, chat |-> chat]
<1>1. data \in Button
  BY DEF approvalKeyboard, Button
<1>2. u \in Update
  BY <1>1 DEF Update
<1> HIDE DEF u
<1>3. /\ taps' = Append(taps, u) /\ Len(taps) < MaxTaps
      /\ UNCHANGED <<decision, known, by, confirmed, offset, batch, times>>
  BY DEF Tap, storeVars, pollVars, u
<1>4. /\ taps' \in Seq(Update) /\ Len(taps') = Len(taps) + 1
      /\ \A n \in 1..Len(taps) : taps'[n] = taps[n]
  BY <1>2, <1>3 DEF ChannelTypeOK
<1>5. ChannelTypeOK'
  BY <1>3, <1>4, ChannelAssumption, SMTT(20) DEF ChannelTypeOK
<1>6. BatchAhead'
  BY <1>3, <1>4 DEF ChannelTypeOK, BatchAhead
<1>7. HandledBelow' /\ GrantorGranted'
  BY <1>3 DEF HandledBelow, GrantorGranted
<1>8. GrantHasTap'
  <2> SUFFICES ASSUME NEW s \in Tx, by'[s] = Telegram
               PROVE  \E n \in 1..Len(taps') :
                          /\ taps'[n].data.tx = s /\ taps'[n].data.action = "approve"
                          /\ taps'[n].user \in AllowedUsers \cup {ConfiguredChat}
    BY Zenon DEF GrantHasTap
  <2>1. PICK n \in 1..Len(taps) :
            /\ taps[n].data.tx = s /\ taps[n].data.action = "approve"
            /\ taps[n].user \in AllowedUsers \cup {ConfiguredChat}
    BY <1>3, Zenon DEF GrantHasTap
  <2>2. Len(taps) \in Nat
    BY DEF ChannelTypeOK
  <2>3. n \in 1..Len(taps') /\ taps'[n] = taps[n]
    BY <1>4, <2>2
  <2> QED
    BY <2>1, <2>3, Zenon
<1> QED
  BY <1>5, <1>6, <1>7, <1>8

\* getUpdates returns the taps from the offset on, in their order.
LEMMA PollStep ==
    ASSUME ChannelInv, NEW answered \in BOOLEAN, Poll(answered)
    PROVE  ChannelInv'
<1> USE DEF ChannelInv
<1> DEFINE kept == IF offset > confirmed + 1 THEN offset - 1 ELSE confirmed
           rest == [i \in 1..(Len(taps) - kept) |-> kept + i]
<1>1. kept \in Nat /\ kept + 1 >= offset /\ kept < Len(taps) /\ Len(taps) \in Nat
  BY DEF Poll, ChannelTypeOK
<1>2. confirmed' = kept /\ UNCHANGED <<decision, known, by, taps, offset, times>>
  BY DEF Poll, storeVars
<1>3. batch' = rest \/ batch' = <<>>
  BY DEF Poll
<1> HIDE DEF kept
<1>4. rest \in Seq(Nat) /\ Len(rest) = Len(taps) - kept
  BY <1>1
<1>5. \A i \in 1..Len(rest) : rest[i] = kept + i
  BY <1>4, Zenon
<1> HIDE DEF rest
<1>6. /\ batch' \in Seq(Nat)
      /\ \A i \in 1..Len(batch') : batch'[i] = kept + i /\ i <= Len(taps) - kept
  <2>1. CASE batch' = <<>>
    BY <2>1
  <2>2. CASE batch' = rest
    BY <1>1, <1>4, <1>5, <2>2
  <2> QED
    BY <1>3, <2>1, <2>2
<1>7. ChannelTypeOK' /\ BatchAhead'
  BY <1>1, <1>2, <1>6, SMTT(20) DEF ChannelTypeOK, BatchAhead
<1>8. HandledBelow' /\ GrantorGranted' /\ GrantHasTap'
  BY <1>2, SMTT(20) DEF HandledBelow, GrantorGranted, GrantHasTap
<1> QED
  BY <1>7, <1>8

\* pollOnce moves the offset past the update it handles, which is the first of
\* the batch and not below the offset: this process has not handled it yet.
LEMMA HandleUpdateStep ==
    ASSUME ChannelInv, HandleUpdate
    PROVE  ChannelInv'
<1> USE DEF ChannelInv
<1> DEFINE n == Head(batch)
           u == taps[n]
           ok == ParseCallbackData(u.data) /\ ChatAllowed(u.chat) /\ TelegramUserAllowed(u.user)
           d == IF u.data.action = "approve" THEN "granted" ELSE "refused"
<1>1. /\ n \in 1..Len(taps) /\ n >= offset /\ Len(taps) \in Nat
      /\ \A i \in 1..Len(Tail(batch)) :
            /\ Tail(batch)[i] \in 1..Len(taps) /\ Tail(batch)[i] > n
            /\ Tail(batch)[i] = batch[i + 1] /\ i + 1 \in 1..Len(batch)
      /\ Tail(batch) \in Seq(Nat)
  BY DEF HandleUpdate, ChannelTypeOK, BatchAhead
<1>2. u \in Update /\ n \in 1..MaxTaps
  BY <1>1, ChannelAssumption, SMTT(20) DEF ChannelTypeOK
<1>3. /\ offset' = n + 1 /\ batch' = Tail(batch)
      /\ times' = [times EXCEPT ![n] = @ + 1]
      /\ UNCHANGED <<taps, confirmed>>
  BY <1>1, SMTT(20) DEF HandleUpdate, NextOffset, botVars, ChannelTypeOK
<1>4. (ok /\ Decide(u.data.tx, d, Telegram)) \/ UNCHANGED <<decision, known, by>>
  BY DEF HandleUpdate, storeVars
<1> HIDE DEF n
<1>5. times[n] = 0 /\ times' \in [1..MaxTaps -> Nat]
  BY <1>1, <1>2, <1>3, SMTT(20) DEF ChannelTypeOK, HandledBelow
<1>6. HandledBelow'
  BY <1>1, <1>2, <1>3, <1>5 DEF ChannelTypeOK, HandledBelow
<1>7. BatchAhead'
  <2>1. \A i \in 1..Len(batch') : batch'[i] \in 1..Len(taps') /\ batch'[i] >= offset'
    BY <1>1, <1>3, SMTT(20)
  <2>2. \A i, j \in 1..Len(batch') : i < j => batch'[i] < batch'[j]
    BY <1>1, <1>3 DEF BatchAhead, ChannelTypeOK
  <2> QED
    BY <2>1, <2>2 DEF BatchAhead
<1>8. CASE UNCHANGED <<decision, known, by>>
  <2>1. ChannelTypeOK'
    BY <1>1, <1>3, <1>5, <1>8, SMTT(20) DEF ChannelTypeOK
  <2> QED
    BY <1>3, <1>6, <1>7, <1>8, <2>1 DEF GrantorGranted, GrantHasTap
<1>9. CASE ok /\ Decide(u.data.tx, d, Telegram)
  <2>1. u.data.tx \in Tx /\ d \in {"granted", "refused"}
    BY <1>2 DEF Update, Button
  <2>2. /\ decision' \in [Tx -> {"none", "open", "granted", "refused"}]
        /\ known' \subseteq Tx
        /\ by' \in [Tx -> {"none", Telegram, Mobile}]
        /\ GrantorGranted'
        /\ \A s \in Tx : by'[s] # by[s] =>
              s = u.data.tx /\ d = "granted" /\ by'[s] = Telegram
    <3> HIDE DEF u, d, ok
    <3> QED
      BY <1>9, <2>1, DecideKeeps, SMTT(20)
  <2>3. ChannelTypeOK'
    BY <1>1, <1>3, <1>5, <2>2, SMTT(20) DEF ChannelTypeOK
  <2>4. u.user \in AllowedUsers \cup {ConfiguredChat}
    BY <1>9 DEF TelegramUserAllowed
  <2>5. GrantHasTap'
    <3> SUFFICES ASSUME NEW t \in Tx, by'[t] = Telegram
                 PROVE  \E m \in 1..Len(taps) :
                          /\ taps[m].data.tx = t /\ taps[m].data.action = "approve"
                          /\ taps[m].user \in AllowedUsers \cup {ConfiguredChat}
      BY <1>3 DEF GrantHasTap
    <3>1. CASE by[t] = Telegram
      BY <3>1 DEF GrantHasTap
    <3>2. CASE by'[t] # by[t]
      <4>1. t = u.data.tx /\ d = "granted"
        BY <2>2, <3>2
      <4>2. u.data.action = "approve"
        BY <4>1
      <4> QED
        BY <1>1, <2>4, <4>1, <4>2, SMTT(20)
    <3> QED
      BY <3>1, <3>2, SMTT(20)
  <2> QED
    BY <1>6, <1>7, <2>2, <2>3, <2>5
<1> QED
  BY <1>4, <1>8, <1>9, SMTT(20)

\* A crash forgets the requests, the offset and the batch, but no decision.
LEMMA CrashStep ==
    ASSUME ChannelInv, Crash
    PROVE  ChannelInv'
<1> USE DEF ChannelInv
<1>1. /\ offset' = 0 /\ batch' = <<>> /\ times' = [n \in 1..MaxTaps |-> 0]
      /\ known' = {} /\ UNCHANGED <<decision, by, taps, confirmed>>
  BY DEF Crash, botVars
<1>2. batch' \in Seq(Nat) /\ 1..Len(batch') = {}
  BY <1>1
<1>3. ChannelTypeOK'
  BY <1>1, <1>2 DEF ChannelTypeOK
<1>4. BatchAhead'
  BY <1>2 DEF BatchAhead
<1>5. HandledBelow' /\ GrantorGranted' /\ GrantHasTap'
  BY <1>1 DEF HandledBelow, GrantorGranted, GrantHasTap
<1> QED
  BY <1>3, <1>4, <1>5

\* Every step of the handlers, the notifier, the chat and the poller keeps the
\* invariant.
LEMMA ChannelStepInv == ChannelInv /\ [ChannelNext]_channelVars => ChannelInv'
<1> SUFFICES ASSUME ChannelInv, [ChannelNext]_channelVars
             PROVE  ChannelInv'
  OBVIOUS
<1> DEFINE Quiet == UNCHANGED <<taps, confirmed, offset, batch, times>>
<1>1. ASSUME Quiet, UNCHANGED <<decision, known, by>>
      PROVE  ChannelInv'
  BY <1>1, SMTT(20) DEF ChannelInv, ChannelTypeOK, BatchAhead, HandledBelow, GrantorGranted,
              GrantHasTap
<1>2. ASSUME NEW t \in Tx, Sign(t)
      PROVE  ChannelInv'
  <2>1. Quiet /\ UNCHANGED by /\ known' = known \cup {t}
        /\ decision[t] = "none" /\ decision' = [decision EXCEPT ![t] = "open"]
    BY <1>2 DEF Sign, botVars, pollVars
  <2>2. GrantorGranted'
    BY <2>1 DEF ChannelInv, ChannelTypeOK, GrantorGranted
  <2> QED
    BY <2>1, <2>2, PollerKept DEF ChannelInv, ChannelTypeOK
<1>3. ASSUME NEW t \in Tx, Timeout(t)
      PROVE  ChannelInv'
  <2>1. Decide(t, "refused", "none") /\ Quiet
    BY <1>3 DEF Timeout, botVars, pollVars
  <2> QED
    BY <2>1, DecideKeeps, PollerKept DEF ChannelInv
<1>4. ASSUME NEW t \in Tx, MobileApprove(t)
      PROVE  ChannelInv'
  <2>1. Decide(t, "granted", Mobile) /\ Quiet
    BY <1>4 DEF MobileApprove, botVars, pollVars
  <2>2. Mobile # Telegram
    BY DEF Mobile, Telegram
  <2> QED
    BY <2>1, <2>2, DecideKeeps, PollerKept DEF ChannelInv
<1>5. ASSUME NEW t \in Tx, NotifyMark(t) \/ NotifySend(t)
      PROVE  ChannelInv'
  BY <1>1, <1>5 DEF NotifyMark, NotifySend, storeVars, botVars, pollVars
<1>6. CASE StartPoller \/ EditResolvedMessage
  BY <1>1, <1>6, Zenon DEF StartPoller, EditResolvedMessage, storeVars
<1>7. CASE UNCHANGED channelVars
  BY <1>1, <1>7 DEF channelVars, storeVars, botVars, pollVars
<1> QED
  BY <1>2, <1>3, <1>4, <1>5, <1>6, <1>7, TapStep, PollStep, HandleUpdateStep, CrashStep, SMTT(20)
  DEF ChannelNext

\* In every reachable state: the poller's batch lies at or above its offset and
\* everything it handled below, and every grant through Telegram has its tap.
THEOREM ChannelInvariance == ChannelSpec => []ChannelInv
BY ChannelInitInv, ChannelStepInv, PTL DEF ChannelSpec

\* No process handles a tap twice, for any number of requests, users, taps,
\* lost answers and crashes.
THEOREM TapsHandledOnce == ChannelSpec => []HandledOnce
<1>1. ChannelInv => HandledOnce
  BY DEF ChannelInv, HandledBelow, HandledOnce
<1> QED
  BY <1>1, ChannelInvariance, PTL

\* Every grant through Telegram is an allowed user's approval of that request.
THEOREM GrantsTapped == ChannelSpec => []GrantHasTap
<1>1. ChannelInv => GrantHasTap
  BY DEF ChannelInv
<1> QED
  BY <1>1, ChannelInvariance, PTL

\* A decision is one step of the abstract store, or none.
LEMMA DecideRefines ==
    ASSUME ChannelInv, NEW t \in Tx, NEW d \in {"granted", "refused"},
           NEW who \in {"none", Telegram, Mobile}, d = "granted" => who \in {Telegram, Mobile},
           Decide(t, d, who)
    PROVE  Decisions!Grant(t) \/ Decisions!Refuse(t) \/ UNCHANGED <<Decided, NoneTold>>
<1> DEFINE yes == TRUE
           rec(ph, g) == [phase |-> ph, key |-> "k", reusable |-> yes, grantor |-> g,
                          until |-> 0]
<1>1. UNCHANGED NoneTold
  BY DEF NoneTold
<1>2. CASE ~(t \in known /\ decision[t] = "open")
  BY <1>1, <1>2, Zenon DEF Decide, storeVars, Decided, DecisionOf
<1>3. CASE t \in known /\ decision[t] = "open"
  <2>1. Decided[t] = rec("open", "none")
    BY <1>3, Zenon DEF Decided, DecisionOf, ChannelInv, ChannelTypeOK, GrantorGranted
  <2>2. /\ decision' = [decision EXCEPT ![t] = d]
        /\ by' = IF d = "granted" THEN [by EXCEPT ![t] = who] ELSE by
    BY <1>3 DEF Decide
  <2>3. \A s \in Tx \ {t} : DecisionOf(s)' = DecisionOf(s)
    BY <2>2 DEF DecisionOf, ChannelInv, ChannelTypeOK
  <2>4. DecisionOf(t)' = rec(d, IF d = "granted" THEN who ELSE "none")
    BY <1>3, <2>2, Zenon DEF DecisionOf, ChannelInv, ChannelTypeOK, GrantorGranted
  <2>5. Decided' = [Decided EXCEPT ![t] = rec(d, IF d = "granted" THEN who ELSE "none")]
    BY <2>3, <2>4, Zenon DEF Decided
  <2>6. CASE d = "granted"
    <3>1. Decided' = [Decided EXCEPT ![t] = rec("granted", who)] /\ Decided'[t].until = 0
      BY <2>4, <2>5, <2>6, SMTT(20) DEF Decided
    <3>2. /\ Decided[t].phase = "open" /\ Decided[t].key = "k" /\ Decided[t].reusable = TRUE
          /\ Decided'[t].until \in Nat
      BY <2>1, <3>1
    <3>3. Decided' = [Decided EXCEPT ![t] = [phase |-> "granted", key |-> Decided[t].key,
                                             reusable |-> Decided[t].reusable, grantor |-> who,
                                             until |-> Decided'[t].until]]
      BY <3>1, <3>2, Zenon
    <3> QED
      BY <1>1, <2>6, <3>2, <3>3, Zenon DEF Decisions!Grant
  <2>7. CASE d = "refused"
    <3>1. Decided' = [Decided EXCEPT ![t] = rec("refused", "none")]
      BY <2>5, <2>7
    <3>2. [Decided[t] EXCEPT !.phase = "refused"] = rec("refused", "none")
      <4>1. [rec("open", "none") EXCEPT !.phase = "refused"] = rec("refused", "none")
        <5> HIDE DEF yes
        <5> QED OBVIOUS
      <4> HIDE DEF rec
      <4> QED
        BY <2>1, <4>1
    <3>3. Decided' = [Decided EXCEPT ![t] = [Decided[t] EXCEPT !.phase = "refused"]]
      BY <3>1, <3>2, Zenon
    <3>4. Decided' = [Decided EXCEPT ![t].phase = "refused"] /\ Decided[t].phase = "open"
      BY <2>1, <3>3, SMTT(20)
    <3> QED
      BY <1>1, <3>4 DEF Decisions!Refuse
  <2> QED
    BY <2>6, <2>7
<1> QED
  BY <1>2, <1>3

\* The first states of the channel are first states of the abstract store.
LEMMA ChannelInitDecides == ChannelInit => Decisions!Init
BY DEF ChannelInit, Decided, DecisionOf, NoneTold, Decisions!Init, Decisions!Unmade

\* Every step of the channel is a step of the abstract store, or none.
LEMMA ChannelStepDecides ==
    ChannelInv /\ [ChannelNext]_channelVars => [Decisions!Next]_<<Decided, NoneTold>>
<1> SUFFICES ASSUME ChannelInv, [ChannelNext]_channelVars
             PROVE  [Decisions!Next]_<<Decided, NoneTold>>
  OBVIOUS
<1>1. ASSUME UNCHANGED <<decision, by>>
      PROVE  UNCHANGED <<Decided, NoneTold>>
  BY <1>1 DEF Decided, DecisionOf, NoneTold
<1>2. ASSUME NEW t \in Tx, Sign(t)
      PROVE  Decisions!Open(t)
  <2>1. decision[t] = "none" /\ decision' = [decision EXCEPT ![t] = "open"] /\ by' = by
    BY <1>2 DEF Sign
  <2>2. by[t] = "none"
    BY <2>1, SMTT(20) DEF ChannelInv, ChannelTypeOK, GrantorGranted
  <2>3. Decided[t] = Decisions!Unmade
    BY <2>1, SMTT(20) DEF Decided, DecisionOf, Decisions!Unmade
  <2>4. \A s \in Tx \ {t} : DecisionOf(s)' = DecisionOf(s)
    BY <2>1 DEF DecisionOf, ChannelInv, ChannelTypeOK
  <2>5. DecisionOf(t)' = [phase |-> "open", key |-> "k", reusable |-> TRUE,
                          grantor |-> "none", until |-> 0]
    BY <2>1, <2>2 DEF DecisionOf, ChannelInv, ChannelTypeOK
  <2>6. Decided' = [Decided EXCEPT ![t] = [phase |-> "open", key |-> "k", reusable |-> TRUE,
                                           grantor |-> "none", until |-> 0]]
    BY <2>4, <2>5, Zenon DEF Decided
  <2> QED
    BY <2>3, <2>6, Zenon DEF Decisions!Open, NoneTold
<1>3. ASSUME NEW t \in Tx, Timeout(t) \/ MobileApprove(t)
      PROVE  Decisions!Grant(t) \/ Decisions!Refuse(t) \/ UNCHANGED <<Decided, NoneTold>>
  BY <1>3, DecideRefines, SMTT(20) DEF Timeout, MobileApprove
<1>4. CASE HandleUpdate
  <2> DEFINE u == taps[Head(batch)]
             d == IF u.data.action = "approve" THEN "granted" ELSE "refused"
  <2>1. CASE UNCHANGED <<decision, by>>
    BY <1>1, <2>1
  <2>2. CASE Decide(u.data.tx, d, Telegram)
    <3>1. Head(batch) \in 1..Len(taps)
      BY <1>4 DEF HandleUpdate, ChannelInv, ChannelTypeOK, BatchAhead
    <3>2. u \in Update
      BY <3>1 DEF ChannelInv, ChannelTypeOK
    <3>3. u.data.tx \in Tx /\ d \in {"granted", "refused"}
      BY <3>2 DEF Update, Button
    <3> HIDE DEF u, d
    <3> QED
      BY <2>2, <3>3, DecideRefines, SMTT(20) DEF Decisions!Next
  <2> QED
    BY <1>4, <2>1, <2>2 DEF HandleUpdate, storeVars
<1>5. CASE \/ \E t \in Tx : NotifyMark(t) \/ NotifySend(t)
           \/ \E t \in Tx, user \in User, chat \in {ConfiguredChat, 0} :
                \E data \in approvalKeyboard(t) : Tap(t, user, data, chat)
           \/ StartPoller \/ (\E answered \in BOOLEAN : Poll(answered))
           \/ EditResolvedMessage \/ Crash \/ UNCHANGED channelVars
  BY <1>1, <1>5, Zenon
  DEF NotifyMark, NotifySend, Tap, StartPoller, Poll, EditResolvedMessage, Crash,
      channelVars, storeVars
<1> QED
  BY <1>2, <1>3, <1>4, <1>5 DEF ChannelNext, Decisions!Next

\* What taps, devices and the timer do to the store refines ApprovalDecision:
\* a request is decided at most once, whichever comes first, and a restart
\* decides nothing again.
THEOREM ChannelRefinement == ChannelSpec => DecidedOnce
BY ChannelInitDecides, ChannelStepDecides, ChannelInvariance, PTL
DEF ChannelSpec, DecidedOnce, Decisions!Spec
===============================================================================
