---------------------------- MODULE ClientProofs ----------------------------
(***************************************************************************)
(* Proofs about the client's host: the calls of the SDK with the proxy's   *)
(* handlers (SignClient, SignChecks), for any number of calls, hosts,      *)
(* sessions and keys, and the setup of the agent (AgentSetup), for any     *)
(* number of runs, faults and generations of the proxy's PKI and whatever  *)
(* options the runs are given.                                             *)
(*                                                                         *)
(* Every step concerns one call, so the invariant is one of each call      *)
(* (CallInv): which of its POSTs made the transaction, and that it waits   *)
(* for no other.                                                           *)
(***************************************************************************)
EXTENDS SignClient, AgentSetup, FiniteSetTheorems, TLAPS

-------------------------------------------------------------------------------
\* The checks of SignChecks

\* A payload bound to a session by the host's own signature proves the host at
\* the other end, and only such a payload may use a lease.
LEMMA LeaseProves ==
    ASSUME NEW pool \in SUBSET Key, NEW r \in Requests, Verdict(pool, r).ok,
           Verdict(pool, r).lease
    PROVE  Proven(pool, r, Verdict(pool, r))
<1> DEFINE key == resolveHostKeyFingerprint(pool, r.hint)
           v == Verdict(pool, r)
<1>1. /\ key \in pool /\ r.binding.host # NoHost
      /\ ValidateLocalKeySignData(r.binding, r.data, key)
      /\ v = [ok |-> TRUE, host |-> r.binding.host, key |-> key, lease |-> TRUE]
  BY DEF Verdict, Refused
<1>2. /\ r.binding.sig \in HostSignature /\ r.binding.session \in Session
      /\ r.binding.sig.by = r.binding.host /\ r.binding.sig.over = r.binding.session
      /\ r.data.session = r.binding.session /\ r.data.key = key
  BY <1>1 DEF ValidateLocalKeySignData, Verify, validateParsedUserAuth, Requests, SessionBinding
<1>3. r.binding.host = HostOf[r.binding.session]
  BY <1>2 DEF HostSignature
<1> HIDE DEF key
<1> QED
  BY <1>1, <1>2, <1>3 DEF Proven

\* The proxy takes every genuine request that the SDK sends.
LEMMA GenuinePasses ==
    ASSUME NEW pool \in SUBSET Key, NEW r \in Requests, Genuine(pool, r), ClientAccepts(r)
    PROVE  Verdict(pool, r).ok
<1>1. PICK s \in Session, k \in pool :
        /\ r.hint = k /\ GenuinePayload(r.data, s, k)
        /\ \/ r.dest = HostOf[s]
           \/ r.binding = [host |-> HostOf[s], session |-> s,
                           sig |-> [by |-> HostOf[s], over |-> s],
                           forwarding |-> FALSE]
  BY Zenon DEF Genuine
<1>2. HostOf[s] # NoHost /\ s # NoSession
  BY ChecksAssumption
<1>3. resolveHostKeyFingerprint(pool, r.hint) = k /\ pool # {}
  BY <1>1, ChecksAssumption DEF resolveHostKeyFingerprint
<1>4. validateParsedUserAuth(r.data, k, HostOf[s]) /\ Parses(r.data)
  BY <1>1, <1>2 DEF GenuinePayload, validateParsedUserAuth, Parses
<1>5. CASE r.dest = HostOf[s]
  <2>1. r.binding.host = NoHost
    BY <1>2, <1>5 DEF ClientAccepts
  <2>2. ValidateDirectLocalKeySignData(r.dest, r.data, k)
    BY <1>2, <1>4, <1>5 DEF ValidateDirectLocalKeySignData
  <2> QED
    BY <1>3, <2>1, <2>2 DEF Verdict
<1>6. CASE r.binding = [host |-> HostOf[s], session |-> s,
                        sig |-> [by |-> HostOf[s], over |-> s], forwarding |-> FALSE]
  <2>1. /\ r.binding.host = HostOf[s] /\ r.binding.session = s /\ ~r.binding.forwarding
        /\ r.binding.sig = [by |-> HostOf[s], over |-> s]
    BY <1>6
  <2>2. r.binding.sig # NoSignature /\ Verify(HostOf[s], s, r.binding.sig)
    BY <1>2, <2>1 DEF NoSignature, Verify
  <2>3. r.data.session = s
    BY <1>1 DEF GenuinePayload
  <2>4. ValidateLocalKeySignData(r.binding, r.data, k)
    BY <1>2, <1>4, <2>1, <2>2, <2>3 DEF ValidateLocalKeySignData
  <2> QED
    BY <1>2, <1>3, <2>1, <2>4 DEF Verdict
<1> QED
  BY <1>1, <1>5, <1>6

\* What the handlers may rely on of every body, local-key or certificate.
LEMMA BodyFacts ==
    ASSUME NEW v \in Bodies
    PROVE  /\ v.ok \in BOOLEAN /\ v.lease \in BOOLEAN
           /\ v.lease => v.proven
           /\ v.sdk /\ v.genuine => v.ok
<1>1. CASE v \in CertificateBodies
  BY <1>1 DEF CertificateBodies
<1>2. CASE v \in LocalKeyBodies
  <2>1. PICK pool \in SUBSET Key, r \in Requests : v = BodyOf(pool, r)
    BY <1>2 DEF LocalKeyBodies
  <2>2. /\ v.ok = Verdict(pool, r).ok
        /\ v.lease = (Verdict(pool, r).ok /\ Verdict(pool, r).lease)
        /\ v.proven = Proven(pool, r, Verdict(pool, r))
        /\ v.sdk = ClientAccepts(r) /\ v.genuine = Genuine(pool, r)
    BY <2>1 DEF BodyOf
  <2>3. Verdict(pool, r).ok \in BOOLEAN
    BY DEF Verdict, Refused
  <2> QED
    BY <2>2, <2>3, LeaseProves, GenuinePasses, Zenon
<1> QED
  BY <1>1, <1>2 DEF Bodies

-------------------------------------------------------------------------------
\* The call and its handlers

ClientState ==
    [pc : {"idle", "post", "wait", "ok", "failed", "gaveup"},
     attempt : Attempt \cup {None}, tx : Attempt \cup {None}]
PostState == {"none", "sent", "accepted", "refused", "invalid"}
GetState == {"none", "sent", "blocked", "granted", "refused", "notfound", "canceled"}
TxState ==
    [state : {"none", "open", "granted", "refused"}, held : BOOLEAN, ch : BOOLEAN,
     waiters : Int, lease : BOOLEAN]

\* The types of the calls, the requests on the wire and the transactions.
ClientTypeOK ==
    /\ client \in [Call -> ClientState]
    /\ body \in [Call -> Bodies]
    /\ post \in [Call -> [Attempt -> PostState]]
    /\ get \in [Call -> [Attempt -> GetState]]
    /\ seen \subseteq Call
    /\ tx \in [Call -> [Attempt -> TxState]]

\* A transaction is there for each accepted POST; its channel and its lease are
\* what its decision and its body allow.
TxOfPost(c) ==
    \A a \in Attempt :
        /\ tx[c][a].state # "none" <=> post[c][a] = "accepted"
        /\ tx[c][a].ch => tx[c][a].state \in {"granted", "refused"}
        /\ tx[c][a].lease => body[c].lease
        /\ post[c][a] = "invalid" => ~body[c].ok

\* The replay cache lets one POST of a body through.
OnePostPasses(c) ==
    /\ \A a \in Attempt : post[c][a] = "accepted" => c \in seen
    /\ \A a, b \in Attempt : post[c][a] = "accepted" /\ post[c][b] = "accepted" => a = b

\* postSign sends the first POST when the call starts and the second only after
\* the first.
PostsInOrder(c) ==
    /\ client[c].pc = "idle" => \A a \in Attempt : post[c][a] = "none"
    /\ client[c].pc \in {"post", "wait"} => client[c].attempt \in Attempt
    /\ client[c].pc = "post" /\ client[c].attempt = 1 => post[c][2] = "none"

\* The transaction a call waits for is its own, and the call or a GET of it is
\* told "granted" only after that one was.
WaitsForOwn(c) ==
    /\ client[c].pc \in {"idle", "post"} => client[c].tx = None
    /\ client[c].pc \in {"wait", "ok"} => client[c].tx # None
    /\ client[c].tx # None => post[c][client[c].tx] = "accepted"
    /\ client[c].pc = "ok" => tx[c][client[c].tx].state = "granted"
    /\ \A b \in Attempt :
          /\ client[c].tx = None => get[c][b] = "none"
          /\ get[c][b] = "granted" => tx[c][client[c].tx].state = "granted"

CallInv(c) == TxOfPost(c) /\ OnePostPasses(c) /\ PostsInOrder(c) /\ WaitsForOwn(c)

ClientInv == ClientTypeOK /\ \A c \in Call : CallInv(c)

\* At first nothing is sent.
LEMMA ClientInitInv == ClientInit => ClientInv
<1> SUFFICES ASSUME ClientInit
             PROVE  ClientInv
  OBVIOUS
<1>1. ClientTypeOK
  BY DEF ClientInit, ClientTypeOK, ClientState, PostState, GetState, TxState, NoTx, None
<1>2. ASSUME NEW c \in Call
      PROVE  CallInv(c)
  BY DEF ClientInit, CallInv, TxOfPost, OnePostPasses, PostsInOrder, WaitsForOwn, NoTx, None
<1> QED
  BY <1>1, <1>2 DEF ClientInv

\* The attempts are 1 and 2, and None is neither.
LEMMA Attempts == 1 \in Attempt /\ 2 \in Attempt /\ None \notin Attempt
BY DEF Attempt, None

\* A step of call c, seen from the others.
StepOf(c) ==
    /\ UNCHANGED body
    /\ \A d \in Call \ {c} :
         /\ client'[d] = client[d] /\ post'[d] = post[d] /\ get'[d] = get[d] /\ tx'[d] = tx[d]
         /\ d \in seen' <=> d \in seen

\* It is enough to look at the call that makes the step.
LEMMA OneCallSteps ==
    ASSUME ClientInv, NEW c \in Call, StepOf(c), ClientTypeOK', CallInv(c)'
    PROVE  ClientInv'
<1> SUFFICES ASSUME NEW d \in Call \ {c}
             PROVE  CallInv(d)'
  BY DEF ClientInv
<1>1. CallInv(d)
  BY DEF ClientInv
<1>2. /\ client'[d] = client[d] /\ post'[d] = post[d] /\ get'[d] = get[d] /\ tx'[d] = tx[d]
      /\ body' = body /\ (d \in seen' <=> d \in seen)
  BY DEF StepOf
<1>3. TxOfPost(d)' /\ OnePostPasses(d)'
  <2>1. TxOfPost(d)'
    BY <1>1, <1>2 DEF CallInv, TxOfPost
  <2>2. OnePostPasses(d)'
    BY <1>1, <1>2 DEF CallInv, OnePostPasses
  <2> QED
    BY <2>1, <2>2
<1>4. PostsInOrder(d)'
  BY <1>1, <1>2 DEF CallInv, PostsInOrder
<1>5. WaitsForOwn(d)'
  <2>1. WaitsForOwn(d)
    BY <1>1 DEF CallInv
  <2> QED
    BY <1>2, <2>1, Zenon DEF WaitsForOwn
<1> QED
  BY <1>3, <1>4, <1>5 DEF CallInv

\* Setting one element of a table changes its row only.
LEMMA RowSet ==
    ASSUME NEW S, NEW T, NEW V, NEW f \in [S -> [T -> V]], NEW s \in S, NEW t \in T, NEW v \in V,
           NEW g, g = [f EXCEPT ![s][t] = v]
    PROVE  /\ g \in [S -> [T -> V]]
           /\ \A x \in S \ {s} : g[x] = f[x]
           /\ g[s][t] = v /\ \A y \in T \ {t} : g[s][y] = f[s][y]
OBVIOUS

\* A call ends without success.
LEMMA CallEnds ==
    ASSUME ClientInv, NEW c \in Call, NEW pc \in {"failed", "gaveup"},
           client' = [client EXCEPT ![c].pc = pc], UNCHANGED <<body, post, get, seen, tx>>
    PROVE  ClientInv'
<1>1. ClientTypeOK /\ CallInv(c)
  BY DEF ClientInv
<1>2. /\ client' \in [Call -> ClientState]
      /\ client'[c].pc = pc /\ client'[c].tx = client[c].tx
      /\ \A d \in Call \ {c} : client'[d] = client[d]
  BY <1>1, Zenon DEF ClientTypeOK, ClientState
<1>3. ClientTypeOK' /\ StepOf(c)
  <2>1. ClientTypeOK'
    BY <1>1, <1>2 DEF ClientTypeOK
  <2>2. StepOf(c)
    BY <1>1, <1>2 DEF StepOf
  <2> QED
    BY <2>1, <2>2
<1>4. CallInv(c)'
  BY <1>1, <1>2 DEF CallInv, TxOfPost, OnePostPasses, PostsInOrder, WaitsForOwn
<1> QED
  BY <1>3, <1>4, OneCallSteps

\* The call starts: the first POST is sent, or the SDK refuses the body.
LEMMA RequestSignatureStep ==
    ASSUME ClientInv, NEW c \in Call, RequestSignature(c)
    PROVE  ClientInv'
<1>1. ClientTypeOK /\ CallInv(c)
  BY DEF ClientInv
<1>2. client[c].pc = "idle" /\ UNCHANGED <<body, get, seen, tx>>
  BY DEF RequestSignature
<1>3. CASE /\ client' = [client EXCEPT ![c] = [pc |-> "post", attempt |-> 1, tx |-> None]]
           /\ post' = [post EXCEPT ![c][1] = "sent"]
  <2>1. /\ post' \in [Call -> [Attempt -> PostState]]
        /\ \A d \in Call \ {c} : post'[d] = post[d]
        /\ post'[c][1] = "sent" /\ \A a \in Attempt \ {1} : post'[c][a] = post[c][a]
    BY <1>1, <1>3, Attempts, RowSet DEF ClientTypeOK, PostState
  <2>2. /\ client' \in [Call -> ClientState]
        /\ client'[c] = [pc |-> "post", attempt |-> 1, tx |-> None]
        /\ \A d \in Call \ {c} : client'[d] = client[d]
    BY <1>1, <1>3, Attempts DEF ClientTypeOK, ClientState
  <2>3. ClientTypeOK' /\ StepOf(c)
    <3>1. ClientTypeOK'
      BY <1>1, <1>2, <2>1, <2>2 DEF ClientTypeOK
    <3>2. StepOf(c)
      BY <1>1, <1>2, <2>1, <2>2 DEF StepOf
    <3> QED
      BY <3>1, <3>2
  <2>4. TxOfPost(c)' /\ OnePostPasses(c)'
    <3>1. TxOfPost(c)'
      BY <1>1, <1>2, <2>1 DEF CallInv, PostsInOrder, TxOfPost
    <3>2. OnePostPasses(c)'
      BY <1>1, <1>2, <2>1 DEF CallInv, PostsInOrder, OnePostPasses
    <3> QED
      BY <3>1, <3>2
  <2>5. PostsInOrder(c)' /\ WaitsForOwn(c)'
    <3>1. PostsInOrder(c)'
      BY <1>1, <1>2, <2>1, <2>2, Attempts DEF CallInv, PostsInOrder
    <3>2. WaitsForOwn(c)'
      BY <1>1, <1>2, <2>1, <2>2, Attempts DEF CallInv, WaitsForOwn
    <3> QED
      BY <3>1, <3>2
  <2> QED
    BY <2>3, <2>4, <2>5, OneCallSteps DEF CallInv
<1>4. CASE client' = [client EXCEPT ![c].pc = "failed"] /\ UNCHANGED post
  BY <1>2, <1>4, CallEnds, Zenon
<1> QED
  BY <1>3, <1>4 DEF RequestSignature

\* postSignOnce returns.
LEMMA ReceivePostStep ==
    ASSUME ClientInv, NEW c \in Call, ReceivePost(c)
    PROVE  ClientInv'
<1> DEFINE a == client[c].attempt
<1>1. ClientTypeOK /\ CallInv(c)
  BY DEF ClientInv
<1>2. client[c].pc = "post" /\ UNCHANGED <<body, post, seen, tx>>
  BY DEF ReceivePost
<1>3. CASE /\ post[c][a] = "accepted"
           /\ client' = [client EXCEPT ![c] = [pc |-> "wait", attempt |-> 1, tx |-> a]]
           /\ get' = [get EXCEPT ![c][1] = "sent"]
  <2>1. /\ get' \in [Call -> [Attempt -> GetState]]
        /\ \A d \in Call \ {c} : get'[d] = get[d]
        /\ get'[c][1] = "sent" /\ \A b \in Attempt \ {1} : get'[c][b] = get[c][b]
    BY <1>1, <1>3, Attempts, RowSet DEF ClientTypeOK, GetState
  <2>2. a \in Attempt
    BY <1>1, <1>2 DEF CallInv, PostsInOrder
  <2>3. /\ client' \in [Call -> ClientState]
        /\ client'[c] = [pc |-> "wait", attempt |-> 1, tx |-> a]
        /\ \A d \in Call \ {c} : client'[d] = client[d]
    BY <1>1, <1>3, <2>2, Attempts DEF ClientTypeOK, ClientState
  <2>4. ClientTypeOK' /\ StepOf(c)
    <3>1. ClientTypeOK'
      BY <1>1, <1>2, <2>1, <2>3 DEF ClientTypeOK
    <3>2. StepOf(c)
      BY <1>1, <1>2, <2>1, <2>3 DEF StepOf
    <3> QED
      BY <3>1, <3>2
  <2>5. TxOfPost(c)' /\ OnePostPasses(c)' /\ PostsInOrder(c)'
    <3>1. TxOfPost(c)'
      BY <1>1, <1>2, <2>3, Attempts DEF CallInv, TxOfPost
    <3>2. OnePostPasses(c)'
      BY <1>1, <1>2, <2>3, Attempts DEF CallInv, OnePostPasses
    <3>3. PostsInOrder(c)'
      BY <1>1, <1>2, <2>3, Attempts DEF CallInv, PostsInOrder
    <3> QED
      BY <3>1, <3>2, <3>3
  <2>6. WaitsForOwn(c)'
    <3>1. \A b \in Attempt : get'[c][b] # "granted"
      BY <1>1, <1>2, <2>1 DEF CallInv, WaitsForOwn
    <3> QED
      BY <1>2, <1>3, <2>2, <2>3, <3>1, Attempts DEF WaitsForOwn
  <2> QED
    BY <2>4, <2>5, <2>6, OneCallSteps DEF CallInv
<1>4. CASE client' = [client EXCEPT ![c].pc = "failed"] /\ UNCHANGED get
  BY <1>2, <1>4, CallEnds, Zenon
<1> QED
  BY <1>3, <1>4 DEF ReceivePost

\* postSign sends the body again.
LEMMA BreakPostStep ==
    ASSUME ClientInv, NEW c \in Call, BreakPost(c)
    PROVE  ClientInv'
<1>1. ClientTypeOK /\ CallInv(c)
  BY DEF ClientInv
<1>2. client[c].pc = "post" /\ client[c].attempt = 1 /\ UNCHANGED <<body, get, seen, tx>>
  BY DEF BreakPost
<1>3. /\ post' \in [Call -> [Attempt -> PostState]]
      /\ \A d \in Call \ {c} : post'[d] = post[d]
      /\ post'[c][2] = "sent" /\ \A a \in Attempt \ {2} : post'[c][a] = post[c][a]
  BY <1>1, Attempts, RowSet DEF ClientTypeOK, PostState, BreakPost
<1>4. /\ client' \in [Call -> ClientState]
      /\ client'[c].pc = "post" /\ client'[c].attempt = 2 /\ client'[c].tx = client[c].tx
      /\ \A d \in Call \ {c} : client'[d] = client[d]
  BY <1>1, <1>2, Attempts, Zenon DEF ClientTypeOK, ClientState, BreakPost
<1>5. ClientTypeOK' /\ StepOf(c)
  <2>1. ClientTypeOK'
    BY <1>1, <1>2, <1>3, <1>4 DEF ClientTypeOK
  <2>2. StepOf(c)
    BY <1>1, <1>2, <1>3, <1>4 DEF StepOf
  <2> QED
    BY <2>1, <2>2
<1>6. post[c][2] = "none"
  BY <1>1, <1>2 DEF CallInv, PostsInOrder
<1>7. TxOfPost(c)' /\ OnePostPasses(c)'
  <2>1. TxOfPost(c)'
    BY <1>1, <1>2, <1>3, <1>6, Attempts DEF CallInv, TxOfPost
  <2>2. OnePostPasses(c)'
    BY <1>1, <1>2, <1>3, <1>6, Attempts DEF CallInv, OnePostPasses
  <2> QED
    BY <2>1, <2>2
<1>8. PostsInOrder(c)' /\ WaitsForOwn(c)'
  <2>1. PostsInOrder(c)'
    BY <1>1, <1>2, <1>4, Attempts DEF CallInv, PostsInOrder
  <2>2. WaitsForOwn(c)'
    BY <1>1, <1>2, <1>4, Attempts DEF CallInv, WaitsForOwn
  <2> QED
    BY <2>1, <2>2
<1> QED
  BY <1>5, <1>7, <1>8, OneCallSteps DEF CallInv

\* getWait returns: with success only for a granted transaction.
LEMMA ReceiveWaitStep ==
    ASSUME ClientInv, NEW c \in Call, ReceiveWait(c)
    PROVE  ClientInv'
<1> DEFINE b == client[c].attempt
<1>1. ClientTypeOK /\ CallInv(c)
  BY DEF ClientInv
<1>2. client[c].pc = "wait" /\ UNCHANGED <<body, post, get, seen, tx>>
  BY DEF ReceiveWait
<1>3. CASE get[c][b] = "granted" /\ client' = [client EXCEPT ![c].pc = "ok"]
  <2>1. /\ client' \in [Call -> ClientState]
        /\ client'[c].pc = "ok" /\ client'[c].tx = client[c].tx
        /\ \A d \in Call \ {c} : client'[d] = client[d]
    BY <1>1, <1>3, ZenonT(30) DEF ClientTypeOK, ClientState
  <2>2. ClientTypeOK' /\ StepOf(c)
    <3>1. ClientTypeOK'
      BY <1>1, <1>2, <2>1 DEF ClientTypeOK
    <3>2. StepOf(c)
      BY <1>1, <1>2, <2>1 DEF StepOf
    <3> QED
      BY <3>1, <3>2
  <2>3. TxOfPost(c)' /\ OnePostPasses(c)' /\ PostsInOrder(c)'
    <3>1. TxOfPost(c)'
      BY <1>1, <1>2, <2>1 DEF CallInv, TxOfPost
    <3>2. OnePostPasses(c)'
      BY <1>1, <1>2, <2>1 DEF CallInv, OnePostPasses
    <3>3. PostsInOrder(c)'
      BY <1>1, <1>2, <2>1 DEF CallInv, PostsInOrder
    <3> QED
      BY <3>1, <3>2, <3>3
  <2>4. b \in Attempt
    BY <1>1, <1>2 DEF CallInv, PostsInOrder
  <2>5. WaitsForOwn(c)'
    BY <1>1, <1>2, <1>3, <2>1, <2>4 DEF CallInv, WaitsForOwn
  <2> QED
    BY <2>2, <2>3, <2>5, OneCallSteps DEF CallInv
<1>4. CASE client' = [client EXCEPT ![c].pc = "failed"]
  BY <1>2, <1>4, CallEnds, Zenon
<1> QED
  BY <1>3, <1>4, Zenon DEF ReceiveWait

\* getWait asks again.
LEMMA BreakWaitStep ==
    ASSUME ClientInv, NEW c \in Call, BreakWait(c)
    PROVE  ClientInv'
<1>1. ClientTypeOK /\ CallInv(c)
  BY DEF ClientInv
<1>2. client[c].pc = "wait" /\ UNCHANGED <<body, post, seen, tx>>
  BY DEF BreakWait
<1>3. /\ get' \in [Call -> [Attempt -> GetState]]
      /\ \A d \in Call \ {c} : get'[d] = get[d]
      /\ get'[c][2] = "sent" /\ \A a \in Attempt \ {2} : get'[c][a] = get[c][a]
  BY <1>1, Attempts, RowSet DEF ClientTypeOK, GetState, BreakWait
<1>4. /\ client' \in [Call -> ClientState]
      /\ client'[c].pc = "wait" /\ client'[c].attempt = 2 /\ client'[c].tx = client[c].tx
      /\ \A d \in Call \ {c} : client'[d] = client[d]
  BY <1>1, <1>2, Attempts, Zenon DEF ClientTypeOK, ClientState, BreakWait
<1>5. ClientTypeOK' /\ StepOf(c)
  <2>1. ClientTypeOK'
    BY <1>1, <1>2, <1>3, <1>4 DEF ClientTypeOK
  <2>2. StepOf(c)
    BY <1>1, <1>2, <1>3, <1>4 DEF StepOf
  <2> QED
    BY <2>1, <2>2
<1>6. TxOfPost(c)' /\ OnePostPasses(c)' /\ PostsInOrder(c)'
  <2>1. TxOfPost(c)'
    BY <1>1, <1>2, <1>4, Attempts DEF CallInv, TxOfPost
  <2>2. OnePostPasses(c)'
    BY <1>1, <1>2, <1>4, Attempts DEF CallInv, OnePostPasses
  <2>3. PostsInOrder(c)'
    BY <1>1, <1>2, <1>4, Attempts, SMTT(20) DEF CallInv, PostsInOrder
  <2> QED
    BY <2>1, <2>2, <2>3
<1>7. WaitsForOwn(c)'
  BY <1>1, <1>2, <1>3, <1>4 DEF CallInv, WaitsForOwn
<1> QED
  BY <1>5, <1>6, <1>7, OneCallSteps DEF CallInv

\* handleSign refuses the POST, or lets the body through and makes at most one
\* transaction of it.
LEMMA HandleSignStep ==
    ASSUME ClientInv, NEW c \in Call, NEW a \in Attempt, HandleSign(c, a)
    PROVE  ClientInv'
<1>1. ClientTypeOK /\ CallInv(c) /\ body[c] \in Bodies
  BY DEF ClientInv, ClientTypeOK
<1>2. post[c][a] = "sent" /\ UNCHANGED <<client, body, get>>
  BY DEF HandleSign
<1>3. client[c].tx # a /\ client[c].pc # "idle"
  BY <1>1, <1>2, Attempts DEF CallInv, WaitsForOwn, PostsInOrder
<1>4. tx[c][a].state = "none"
  BY <1>1, <1>2 DEF CallInv, TxOfPost
<1>5. ASSUME NEW p \in {"accepted", "refused", "invalid"}, post' = [post EXCEPT ![c][a] = p]
      PROVE  /\ post' \in [Call -> [Attempt -> PostState]]
             /\ \A d \in Call \ {c} : post'[d] = post[d]
             /\ post'[c][a] = p /\ \A e \in Attempt \ {a} : post'[c][e] = post[c][e]
  BY <1>1, <1>5, RowSet DEF ClientTypeOK, PostState
<1>6. CASE post' = [post EXCEPT ![c][a] = "refused"] /\ UNCHANGED <<seen, tx>>
  <2>1. ClientTypeOK' /\ StepOf(c)
    <3>1. ClientTypeOK'
      BY <1>1, <1>2, <1>5, <1>6 DEF ClientTypeOK
    <3>2. StepOf(c)
      BY <1>1, <1>2, <1>5, <1>6 DEF StepOf
    <3> QED
      BY <3>1, <3>2
  <2>2. TxOfPost(c)' /\ OnePostPasses(c)'
    <3>1. TxOfPost(c)'
      BY <1>1, <1>2, <1>5, <1>6 DEF CallInv, TxOfPost
    <3>2. OnePostPasses(c)'
      BY <1>1, <1>2, <1>5, <1>6 DEF CallInv, OnePostPasses
    <3> QED
      BY <3>1, <3>2
  <2>3. PostsInOrder(c)' /\ WaitsForOwn(c)'
    <3>1. PostsInOrder(c)'
      BY <1>1, <1>2, <1>3, <1>5, <1>6, SMTT(20) DEF CallInv, PostsInOrder
    <3>2. WaitsForOwn(c)'
      BY <1>1, <1>2, <1>3, <1>5, <1>6 DEF CallInv, WaitsForOwn
    <3> QED
      BY <3>1, <3>2
  <2> QED
    BY <2>1, <2>2, <2>3, OneCallSteps DEF CallInv
<1>7. CASE ~body[c].ok /\ seen' = seen \cup {c} /\ post' = [post EXCEPT ![c][a] = "invalid"]
           /\ UNCHANGED tx
  <2>1. ClientTypeOK' /\ StepOf(c)
    <3>1. ClientTypeOK'
      BY <1>1, <1>2, <1>5, <1>7 DEF ClientTypeOK
    <3>2. StepOf(c)
      BY <1>1, <1>2, <1>5, <1>7 DEF StepOf
    <3> QED
      BY <3>1, <3>2
  <2>2. TxOfPost(c)' /\ OnePostPasses(c)'
    <3>1. TxOfPost(c)'
      BY <1>1, <1>2, <1>5, <1>7 DEF CallInv, TxOfPost
    <3>2. OnePostPasses(c)'
      BY <1>1, <1>2, <1>5, <1>7 DEF CallInv, OnePostPasses
    <3> QED
      BY <3>1, <3>2
  <2>3. PostsInOrder(c)' /\ WaitsForOwn(c)'
    <3>1. PostsInOrder(c)'
      BY <1>1, <1>2, <1>3, <1>5, <1>7, SMTT(20) DEF CallInv, PostsInOrder
    <3>2. WaitsForOwn(c)'
      BY <1>1, <1>2, <1>3, <1>5, <1>7 DEF CallInv, WaitsForOwn
    <3> QED
      BY <3>1, <3>2
  <2> QED
    BY <2>1, <2>2, <2>3, OneCallSteps DEF CallInv
<1>8. ASSUME c \notin seen, body[c].ok, seen' = seen \cup {c},
             post' = [post EXCEPT ![c][a] = "accepted"],
             NEW s \in {"open", "granted"},
             tx' = [tx EXCEPT ![c][a] = [state |-> s, held |-> TRUE, ch |-> s = "granted",
                                         waiters |-> 0, lease |-> body[c].lease]]
      PROVE  ClientInv'
  <2> DEFINE new == [state |-> s, held |-> TRUE, ch |-> s = "granted",
                     waiters |-> 0, lease |-> body[c].lease]
  <2>1. new \in TxState
    BY <1>1, BodyFacts DEF TxState
  <2>2. /\ new.state \in {"open", "granted"} /\ new.lease = body[c].lease
        /\ new.ch => new.state = "granted"
    BY Zenon
  <2> HIDE DEF new
  <2>3. tx' = [tx EXCEPT ![c][a] = new]
    BY <1>8 DEF new
  <2>4. /\ tx' \in [Call -> [Attempt -> TxState]]
        /\ \A d \in Call \ {c} : tx'[d] = tx[d]
        /\ tx'[c][a] = new /\ \A e \in Attempt \ {a} : tx'[c][e] = tx[c][e]
    BY <1>1, <2>1, <2>3, RowSet DEF ClientTypeOK
  <2>5. ClientTypeOK' /\ StepOf(c)
    <3>1. ClientTypeOK'
      BY <1>1, <1>2, <1>5, <1>8, <2>4 DEF ClientTypeOK
    <3>2. StepOf(c)
      BY <1>1, <1>2, <1>5, <1>8, <2>4 DEF StepOf
    <3> QED
      BY <3>1, <3>2
  <2>6. \A e \in Attempt : post[c][e] # "accepted"
    BY <1>1, <1>8 DEF CallInv, OnePostPasses
  <2>7. TxOfPost(c)'
    BY <1>1, <1>2, <1>5, <1>8, <2>2, <2>4 DEF CallInv, TxOfPost
  <2>8. OnePostPasses(c)'
    BY <1>5, <1>8, <2>6 DEF OnePostPasses
  <2>9. client[c].tx = None
    BY <1>1, <2>6 DEF CallInv, WaitsForOwn, ClientTypeOK, ClientState
  <2>10. PostsInOrder(c)' /\ WaitsForOwn(c)'
    <3>1. PostsInOrder(c)'
      BY <1>1, <1>2, <1>3, <1>5, <1>8, <2>9, SMTT(20) DEF CallInv, PostsInOrder
    <3>2. WaitsForOwn(c)'
      BY <1>1, <1>2, <1>3, <1>5, <1>8, <2>9 DEF CallInv, WaitsForOwn
    <3> QED
      BY <3>1, <3>2
  <2> QED
    BY <2>5, <2>7, <2>8, <2>10, OneCallSteps DEF CallInv
<1> QED
  BY <1>6, <1>7, <1>8 DEF HandleSign, Replayed

\* A step on a transaction of call c that is there already, and on the GETs of
\* that call: the transaction stays, a grant stays one, and a GET that is told
\* "granted" waits for a granted transaction.
TxMove(c, a) ==
    /\ UNCHANGED <<client, body, post, seen>>
    /\ get' \in [Call -> [Attempt -> GetState]] /\ tx' \in [Call -> [Attempt -> TxState]]
    /\ \A d \in Call \ {c} : tx'[d] = tx[d] /\ get'[d] = get[d]
    /\ \A e \in Attempt \ {a} : tx'[c][e] = tx[c][e]
    /\ tx'[c][a].state = "none" <=> tx[c][a].state = "none"
    /\ tx[c][a].state = "granted" => tx'[c][a].state = "granted"
    /\ tx'[c][a].ch => tx'[c][a].state \in {"granted", "refused"}
    /\ tx'[c][a].lease = tx[c][a].lease
    /\ \A b \in Attempt :
          get'[c][b] = get[c][b]
            \/ (client[c].tx = a /\ (get'[c][b] = "granted" => tx[c][a].state = "granted"))

\* Such a step keeps the invariant.
LEMMA TxMoves ==
    ASSUME ClientInv, NEW c \in Call, NEW a \in Attempt, TxMove(c, a)
    PROVE  ClientInv'
<1>1. ClientTypeOK /\ CallInv(c)
  BY DEF ClientInv
<1>2. ClientTypeOK' /\ StepOf(c)
  <2>1. ClientTypeOK'
    BY <1>1 DEF TxMove, ClientTypeOK
  <2>2. StepOf(c)
    BY <1>1, Zenon DEF TxMove, StepOf
  <2> QED
    BY <2>1, <2>2
<1>3. TxOfPost(c)'
  <2> SUFFICES ASSUME NEW e \in Attempt
               PROVE  /\ tx'[c][e].state # "none" <=> post'[c][e] = "accepted"
                      /\ tx'[c][e].ch => tx'[c][e].state \in {"granted", "refused"}
                      /\ tx'[c][e].lease => body'[c].lease
                      /\ post'[c][e] = "invalid" => ~body'[c].ok
    BY DEF TxOfPost
  <2>1. post' = post /\ body' = body
    BY DEF TxMove
  <2>2. /\ tx[c][e].state # "none" <=> post[c][e] = "accepted"
        /\ tx[c][e].ch => tx[c][e].state \in {"granted", "refused"}
        /\ tx[c][e].lease => body[c].lease
        /\ post[c][e] = "invalid" => ~body[c].ok
    BY <1>1 DEF CallInv, TxOfPost
  <2>3. CASE e = a
    BY <2>1, <2>2, <2>3 DEF TxMove
  <2>4. CASE e # a
    <3>1. tx'[c][e] = tx[c][e]
      BY <2>4 DEF TxMove
    <3> QED
      BY <2>1, <2>2, <3>1
  <2> QED
    BY <2>3, <2>4
<1>4. OnePostPasses(c)' /\ PostsInOrder(c)'
  <2>1. OnePostPasses(c)'
    BY <1>1 DEF CallInv, TxMove, OnePostPasses
  <2>2. PostsInOrder(c)'
    BY <1>1 DEF CallInv, TxMove, PostsInOrder
  <2> QED
    BY <2>1, <2>2
<1>5. \A e \in Attempt : tx[c][e].state = "granted" => tx'[c][e].state = "granted"
  BY DEF TxMove
<1>6. client[c].tx \in Attempt \/ client[c].tx = None
  BY <1>1 DEF ClientTypeOK, ClientState
<1>7. WaitsForOwn(c)'
  <2>1. CASE client[c].tx = None
    BY <1>1, <2>1, Attempts, Zenon DEF CallInv, WaitsForOwn, TxMove
  <2>2. CASE client[c].tx \in Attempt
    BY <1>1, <1>5, <2>2, Attempts, Zenon DEF CallInv, WaitsForOwn, TxMove
  <2> QED
    BY <1>6, <2>1, <2>2
<1> QED
  BY <1>2, <1>3, <1>4, <1>7, OneCallSteps DEF CallInv

\* Transaction a of call c becomes r, and the other transactions stay.
TxRow(c, a, r) ==
    /\ tx' \in [Call -> [Attempt -> TxState]]
    /\ \A d \in Call \ {c} : tx'[d] = tx[d]
    /\ tx'[c][a] = r /\ \A e \in Attempt \ {a} : tx'[c][e] = tx[c][e]

\* The state of GET b of call c becomes g, and the other GETs stay.
GetRow(c, b, g) ==
    /\ get' \in [Call -> [Attempt -> GetState]]
    /\ \A d \in Call \ {c} : get'[d] = get[d]
    /\ get'[c][b] = g /\ \A e \in Attempt \ {b} : get'[c][e] = get[c][e]

\* Setting fields of one transaction.
LEMMA TxSet ==
    ASSUME ClientTypeOK, NEW c \in Call, NEW a \in Attempt, NEW r \in TxState,
           tx' = [tx EXCEPT ![c][a] = r]
    PROVE  TxRow(c, a, r)
BY RowSet DEF ClientTypeOK, TxRow

\* Setting the state of one GET.
LEMMA GetSet ==
    ASSUME ClientTypeOK, NEW c \in Call, NEW b \in Attempt, NEW g \in GetState,
           get' = [get EXCEPT ![c][b] = g]
    PROVE  GetRow(c, b, g)
BY RowSet DEF ClientTypeOK, GetRow

\* Approve, Deny and expire decide an open transaction.
LEMMA ResolveStep ==
    ASSUME ClientInv, NEW c \in Call, NEW a \in Attempt, Resolve(c, a)
    PROVE  ClientInv'
<1>1. ClientTypeOK /\ tx[c][a] \in TxState
  BY DEF ClientInv, ClientTypeOK
<1>2. PICK s \in {"granted", "refused"} :
        tx' = [tx EXCEPT ![c][a].state = s, ![c][a].ch = TRUE]
  BY Zenon DEF Resolve
<1> DEFINE r == [tx[c][a] EXCEPT !.state = s, !.ch = TRUE]
<1>3. r \in TxState /\ r.state = s /\ r.lease = tx[c][a].lease
  BY <1>1, Zenon DEF TxState
<1>4. tx' = [tx EXCEPT ![c][a] = r]
  BY <1>1, <1>2, Zenon DEF ClientTypeOK
<1> HIDE DEF r
<1>5. TxRow(c, a, r)
  BY <1>1, <1>3, <1>4, TxSet, Zenon
<1>6. tx[c][a].state = "open" /\ UNCHANGED <<client, body, post, get, seen>>
  BY DEF Resolve
<1>7. get' \in [Call -> [Attempt -> GetState]]
  BY <1>1, <1>6 DEF ClientTypeOK
<1>8. /\ tx'[c][a].state = s /\ s # "none"
      /\ tx'[c][a].lease = tx[c][a].lease
  BY <1>3, <1>5 DEF TxRow
<1>9. TxMove(c, a)
  BY <1>5, <1>6, <1>7, <1>8 DEF TxMove, TxRow, GetRow
<1> QED
  BY <1>9, TxMoves

\* handleWait answers a GET at once, or blocks it.
LEMMA HandleWaitStep ==
    ASSUME ClientInv, NEW c \in Call, NEW a \in Attempt, NEW b \in Attempt, HandleWait(c, a, b)
    PROVE  ClientInv'
<1>1. ClientTypeOK /\ tx[c][a] \in TxState /\ TxOfPost(c)
  BY DEF ClientInv, ClientTypeOK, CallInv
<1>2. get[c][b] = "sent" /\ client[c].tx = a /\ UNCHANGED <<client, body, post, seen>>
  BY DEF HandleWait
<1>3. CASE get' = [get EXCEPT ![c][b] = "notfound"] /\ UNCHANGED tx
  <2>1. "notfound" \in GetState
    BY DEF GetState
  <2>2. GetRow(c, b, "notfound")
    BY <1>1, <1>3, <2>1, GetSet, Zenon
  <2>3. tx' \in [Call -> [Attempt -> TxState]]
    BY <1>1, <1>3 DEF ClientTypeOK
  <2>4. tx[c][a].ch => tx[c][a].state \in {"granted", "refused"}
    BY <1>1 DEF TxOfPost
  <2>5. TxMove(c, a)
    BY <1>2, <1>3, <2>2, <2>3, <2>4 DEF TxMove, TxRow, GetRow
  <2> QED
    BY <2>5, TxMoves
<1>4. CASE /\ tx[c][a].state # "open"
           /\ get' = [get EXCEPT ![c][b] = tx[c][a].state]
           /\ tx' = [tx EXCEPT ![c][a].held = FALSE]
  <2> DEFINE r == [tx[c][a] EXCEPT !.held = FALSE]
             g == tx[c][a].state
  <2>1. r \in TxState /\ r.state = tx[c][a].state /\ r.ch = tx[c][a].ch /\ r.lease = tx[c][a].lease
    BY <1>1, Zenon DEF TxState
  <2>2. tx' = [tx EXCEPT ![c][a] = r]
    BY <1>1, <1>4 DEF ClientTypeOK
  <2>3. g \in GetState /\ get' = [get EXCEPT ![c][b] = g]
    BY <1>1, <1>4 DEF TxState, GetState
  <2>4. GetRow(c, b, g)
    BY <1>1, <2>3, GetSet, Zenon
  <2> HIDE DEF r
  <2>5. TxRow(c, a, r)
    BY <1>1, <2>1, <2>2, TxSet, Zenon
  <2>6. TxMove(c, a)
    BY <1>1, <1>2, <2>1, <2>4, <2>5, ZenonT(30) DEF TxMove, TxRow, GetRow, TxOfPost
  <2> QED
    BY <2>6, TxMoves
<1>5. CASE /\ get' = [get EXCEPT ![c][b] = "blocked"]
           /\ tx' = [tx EXCEPT ![c][a].waiters = @ + 1]
  <2> DEFINE r == [tx[c][a] EXCEPT !.waiters = @ + 1]
  <2>1. r \in TxState /\ r.state = tx[c][a].state /\ r.ch = tx[c][a].ch /\ r.lease = tx[c][a].lease
    BY <1>1 DEF TxState
  <2>2. tx' = [tx EXCEPT ![c][a] = r]
    BY <1>1, <1>5 DEF ClientTypeOK
  <2>3. "blocked" \in GetState
    BY DEF GetState
  <2>4. GetRow(c, b, "blocked")
    BY <1>1, <1>5, <2>3, GetSet, Zenon
  <2> HIDE DEF r
  <2>5. TxRow(c, a, r)
    BY <1>1, <2>1, <2>2, TxSet, Zenon
  <2>6. TxMove(c, a)
    BY <1>1, <1>2, <2>1, <2>4, <2>5 DEF TxMove, TxRow, GetRow, TxOfPost
  <2> QED
    BY <2>6, TxMoves
<1> QED
  BY <1>3, <1>4, <1>5 DEF HandleWait

\* A blocked GET takes the result from the channel.
LEMMA WaitResultStep ==
    ASSUME ClientInv, NEW c \in Call, NEW a \in Attempt, NEW b \in Attempt, WaitResult(c, a, b)
    PROVE  ClientInv'
<1> DEFINE r == [tx[c][a] EXCEPT !.held = FALSE, !.ch = FALSE]
           g == tx[c][a].state
<1>1. ClientTypeOK /\ tx[c][a] \in TxState /\ TxOfPost(c)
  BY DEF ClientInv, ClientTypeOK, CallInv
<1>2. client[c].tx = a /\ tx[c][a].ch /\ UNCHANGED <<client, body, post, seen>>
  BY DEF WaitResult
<1>3. g \in GetState /\ get' = [get EXCEPT ![c][b] = g]
  BY <1>1, <1>2 DEF TxOfPost, GetState, WaitResult
<1>4. GetRow(c, b, g)
  BY <1>1, <1>3, GetSet, Zenon
<1>5. r \in TxState
  BY <1>1, Zenon DEF TxState
<1>6. tx' = [tx EXCEPT ![c][a] = r]
  BY <1>1, Zenon DEF ClientTypeOK, WaitResult
<1>7. r.state = g /\ ~r.ch /\ r.lease = tx[c][a].lease
  BY <1>1 DEF TxState
<1> HIDE DEF r
<1>8. TxRow(c, a, r)
  BY <1>1, <1>5, <1>6, TxSet, Zenon
<1>9. /\ tx'[c][a].state = tx[c][a].state /\ ~tx'[c][a].ch
      /\ tx'[c][a].lease = tx[c][a].lease
  BY <1>7, <1>8 DEF TxRow
<1>10. \A e \in Attempt :
          get'[c][e] = get[c][e]
            \/ (client[c].tx = a /\ (get'[c][e] = "granted" => tx[c][a].state = "granted"))
  BY <1>2, <1>4, SMTT(20) DEF GetRow
<1> HIDE DEF g
<1>11. TxMove(c, a)
  BY <1>2, <1>4, <1>8, <1>9, <1>10 DEF TxMove, TxRow, GetRow
<1> QED
  BY <1>11, TxMoves

\* A blocked GET is canceled.
LEMMA CancelWaitStep ==
    ASSUME ClientInv, NEW c \in Call, NEW a \in Attempt, NEW b \in Attempt, CancelWait(c, a, b)
    PROVE  ClientInv'
<1> DEFINE h == tx[c][a].waiters > 1
           q == [tx[c][a] EXCEPT !.waiters = @ - 1]
           r == [q EXCEPT !.held = h]
<1>1. ClientTypeOK /\ tx[c][a] \in TxState /\ TxOfPost(c)
  BY DEF ClientInv, ClientTypeOK, CallInv
<1>2. client[c].tx = a /\ UNCHANGED <<client, body, post, seen>>
  BY DEF CancelWait
<1>3. "canceled" \in GetState /\ get' = [get EXCEPT ![c][b] = "canceled"]
  BY DEF GetState, CancelWait
<1>4. GetRow(c, b, "canceled")
  BY <1>1, <1>3, GetSet, Zenon
<1>5. tx[c][a].ch => tx[c][a].state \in {"granted", "refused"}
  BY <1>1 DEF TxOfPost
<1>6. CASE UNCHANGED tx
  <2>1. tx' \in [Call -> [Attempt -> TxState]]
    BY <1>1, <1>6, SMTT(20) DEF ClientTypeOK
  <2>2. TxMove(c, a)
    BY <1>2, <1>4, <1>5, <1>6, <2>1 DEF TxMove, TxRow, GetRow
  <2> QED
    BY <2>2, TxMoves
<1>7. CASE tx' = [tx EXCEPT ![c][a].waiters = @ - 1, ![c][a].held = tx[c][a].waiters > 1]
  <2>1. r \in TxState /\ r.state = tx[c][a].state /\ r.ch = tx[c][a].ch /\ r.lease = tx[c][a].lease
    <3>1. q \in TxState /\ q.state = tx[c][a].state /\ q.ch = tx[c][a].ch /\ q.lease = tx[c][a].lease
      BY <1>1 DEF TxState
    <3>2. h \in BOOLEAN
      OBVIOUS
    <3> HIDE DEF h, q
    <3> QED
      BY <3>1, <3>2 DEF TxState
  <2>2. tx' = [tx EXCEPT ![c][a] = r]
    BY <1>1, <1>7, Zenon DEF ClientTypeOK
  <2> HIDE DEF r
  <2>3. TxRow(c, a, r)
    BY <1>1, <2>1, <2>2, TxSet, Zenon
  <2>4. TxMove(c, a)
    BY <1>2, <1>4, <1>5, <2>1, <2>3 DEF TxMove, TxRow, GetRow
  <2> QED
    BY <2>4, TxMoves
<1> QED
  BY <1>6, <1>7 DEF CancelWait

\* Every step of a call, a handler or an approver keeps the invariant.
LEMMA ClientStepInv == ClientInv /\ [ClientNext]_clientVars => ClientInv'
<1> SUFFICES ASSUME ClientInv, [ClientNext]_clientVars
             PROVE  ClientInv'
  OBVIOUS
<1>1. ASSUME NEW c \in Call, GiveUp(c)
      PROVE  ClientInv'
  BY <1>1, CallEnds, ZenonT(30) DEF GiveUp
<1>2. CASE UNCHANGED clientVars
  BY <1>2 DEF clientVars, ClientInv, ClientTypeOK, CallInv, TxOfPost, OnePostPasses,
              PostsInOrder, WaitsForOwn
<1> QED
  BY <1>1, <1>2, RequestSignatureStep, ReceivePostStep, BreakPostStep, ReceiveWaitStep,
     BreakWaitStep, HandleSignStep, ResolveStep, HandleWaitStep, WaitResultStep, CancelWaitStep
  DEF ClientNext

\* In every reachable state of any number of concurrent calls: the replay cache
\* let at most one POST of each body through, and a call is told only what was
\* decided on its own transaction.
THEOREM ClientInvariance == ClientSpec => []ClientInv
BY ClientInitInv, ClientStepInv, PTL DEF ClientSpec

\* A call makes at most one transaction, however its POSTs break, arrive late
\* and overtake each other.
THEOREM OneTx == ClientSpec => []OneTxPerCall
<1>1. ClientInv => OneTxPerCall
  <2> SUFFICES ASSUME ClientInv, NEW c \in Call
               PROVE  Cardinality({a \in Attempt : tx[c][a].state # "none"}) <= 1
    BY SMTT(20) DEF OneTxPerCall
  <2> DEFINE A == {a \in Attempt : tx[c][a].state # "none"}
  <2>1. ASSUME NEW a \in A, NEW b \in A
        PROVE  a = b
    <3>1. TxOfPost(c) /\ OnePostPasses(c)
      BY DEF ClientInv, CallInv
    <3>2. post[c][a] = "accepted" /\ post[c][b] = "accepted"
      BY <3>1 DEF TxOfPost
    <3> QED
      BY <3>1, <3>2 DEF OnePostPasses
  <2>2. CASE A = {}
    BY <2>2, FS_EmptySet
  <2>3. ASSUME NEW a \in A
        PROVE  Cardinality(A) <= 1
    <3>1. A = {a}
      BY <2>1
    <3>2. Cardinality({a}) = 1
      BY FS_Singleton, Zenon
    <3> QED
      BY <3>1, <3>2
  <2> QED
    BY <2>2, <2>3
<1> QED
  BY <1>1, ClientInvariance, PTL

\* A call that succeeds was granted: its own transaction, not another attempt's.
THEOREM SuccessWasGranted == ClientSpec => []OkMeansGranted
<1>1. ClientInv => OkMeansGranted
  BY DEF ClientInv, CallInv, WaitsForOwn, OkMeansGranted
<1> QED
  BY <1>1, ClientInvariance, PTL

\* A transaction that may use a lease names the host the session is really with,
\* for any hosts, sessions, keys and loaded pools.
THEOREM LeasesProven == ClientSpec => []LeaseDestinationProven
<1>1. ClientInv => LeaseDestinationProven
  BY BodyFacts DEF ClientInv, ClientTypeOK, CallInv, TxOfPost, LeaseDestinationProven
<1> QED
  BY <1>1, ClientInvariance, PTL

\* No genuine request that the SDK sends is refused by the proxy's checks.
THEOREM GenuineNotRefused == ClientSpec => []GenuineAccepted
<1>1. ClientInv => GenuineAccepted
  BY BodyFacts DEF ClientInv, ClientTypeOK, CallInv, TxOfPost, GenuineAccepted
<1> QED
  BY <1>1, ClientInvariance, PTL

-----------------------------------------------------------------------------
(* Setup *)

Files ==
    [ca : Nat, cakey : Nat, key : Int, csr : Int, crt : [ca : Nat, key : Int],
     cfg : BOOLEAN]

(* The types of what setup finds and leaves on disk *)
SetupTypeOK ==
    /\ files \in Files
    /\ gen \in Nat \ {0}
    /\ opt.src \in Nat \ {0}
    /\ keys \in Nat

(* As long as client.key was not copied from elsewhere, the request is for *)
(* it, and so is a certificate that was made here.  (Before the first key  *)
(* there is neither.)                                                      *)
MadeForKey ==
    files.key >= 0 =>
        /\ files.csr # 0 => files.csr = files.key
        /\ files.crt.key > 0 => files.crt.key = files.key

(* A certificate is for some key, made here or shipped. *)
CrtHasKey == files.crt.key = 0 => files.crt = NoCrt

SetupInv == SetupTypeOK /\ MadeForKey /\ CrtHasKey /\ ConfigNamesMaterial

(* On a fresh host there are no files. *)
LEMMA SetupInitInv == Init => SetupInv
  BY DEF Init, SetupInv, SetupTypeOK, MadeForKey, CrtHasKey, ConfigNamesMaterial,
         Files, Absent, NoCrt

(* A step that leaves the files alone keeps the invariant. *)
LEMMA FilesKept ==
  ASSUME SetupInv, UNCHANGED files, gen' \in Nat \ {0}, opt'.src \in Nat \ {0}, keys' \in Nat
  PROVE  SetupInv'
  BY DEF SetupInv, SetupTypeOK, MadeForKey, CrtHasKey, ConfigNamesMaterial,
         ClientMaterialReady, Has

(* Every step of a run, a fault or a new PKI keeps the invariant. *)
LEMMA SetupStepInv == SetupInv /\ [Next]_vars => SetupInv'
  <1> SUFFICES ASSUME SetupInv, [Next]_vars PROVE SetupInv'
    OBVIOUS
  <1> DEFINE Others == UNCHANGED <<gen, opt>> /\ keys' \in Nat
  <1> USE DEF SetupInv
  <1>1. ASSUME NEW o \in RunSetupAll, NEW src \in 1..MaxGen, Start(o, src)
        PROVE  SetupInv'
    <2>1. UNCHANGED <<files, gen, keys>> /\ opt'.src \in Nat \ {0}
      BY <1>1 DEF Start, SetupTypeOK
    <2> QED
      BY <2>1, FilesKept DEF SetupTypeOK
  <1>2. ASSUME Skip \/ Fail, Others PROVE SetupInv'
    BY <1>2, FilesKept DEF Skip, Fail, SetupTypeOK
  <1>3. ASSUME NEW f \in {"ca", "crt", "key", "cakey"}, InstallFile(f) PROVE SetupInv'
    <2>1. Others
      BY <1>3 DEF InstallFile, SetupTypeOK
    <2>2. CASE Skip
      BY <1>2, <2>1, <2>2
    <2>3. CASE Write(f, Shipped(f, opt.src))
      <3>1. SetupTypeOK'
        BY <2>1, <2>3 DEF Write, Shipped, SetupTypeOK, Files
      <3>2. MadeForKey' /\ CrtHasKey'
        BY <2>3 DEF Write, Shipped, SetupTypeOK, Files, MadeForKey, CrtHasKey, NoCrt
      <3>3. ConfigNamesMaterial'
        BY <2>3 DEF Write, Shipped, SetupTypeOK, Files, ConfigNamesMaterial,
                    ClientMaterialReady, Has, NoCrt
      <3> QED
        BY <3>1, <3>2, <3>3
    <2> QED
      BY <1>3, <2>2, <2>3 DEF InstallFile
  <1>4. CASE FetchCA
    <2>1. Others
      BY <1>4 DEF FetchCA, SetupTypeOK
    <2>2. CASE Fail
      BY <1>2, <2>1, <2>2
    <2>3. CASE Write("ca", gen)
      BY <2>1, <2>3
      DEF Write, SetupTypeOK, Files, MadeForKey, CrtHasKey, ConfigNamesMaterial,
          ClientMaterialReady, Has
    <2> QED
      BY <1>4, <2>2, <2>3 DEF FetchCA
  <1>5. CASE GenerateKey
    <2>1. Others
      BY <1>5 DEF GenerateKey, SetupTypeOK
    <2>2. CASE Skip
      BY <1>2, <2>1, <2>2
    <2>3. CASE ~Has("key") /\ Write("key", keys + 1)
      <3>1. files.key = 0 /\ files.csr = 0 /\ files.crt.key <= 0
        BY <2>3 DEF Has, SetupTypeOK, Files, MadeForKey
      <3> QED
        BY <2>1, <2>3, <3>1
        DEF Write, SetupTypeOK, Files, MadeForKey, CrtHasKey, ConfigNamesMaterial,
            ClientMaterialReady, Has
    <2> QED
      BY <1>5, <2>2, <2>3 DEF GenerateKey, KeyWanted
  <1>6. CASE GenerateCSR
    <2>1. Others /\ files' = [files EXCEPT !.csr = files.key]
      BY <1>6, Zenon DEF GenerateCSR, Write, SetupTypeOK
    <2>2. SetupTypeOK'
      BY <2>1 DEF SetupTypeOK, Files
    <2>3. MadeForKey' /\ CrtHasKey'
      BY <2>1 DEF SetupTypeOK, Files, MadeForKey, CrtHasKey
    <2>4. ConfigNamesMaterial'
      BY <2>1, SMTT(20) DEF SetupTypeOK, Files, ConfigNamesMaterial, ClientMaterialReady, Has
    <2> QED
      BY <2>2, <2>3, <2>4
  <1>7. CASE ProvideCrt
    <2>1. Others
      BY <1>7 DEF ProvideCrt, SetupTypeOK
    <2>2. CASE Skip \/ Fail
      BY <1>2, <2>1, <2>2
    <2>3. ASSUME NEW ca \in Nat, ~Has("crt"), Has("csr"),
                 Write("crt", [ca |-> ca, key |-> files.csr])
          PROVE  SetupInv'
      <3> DEFINE crt == [ca |-> ca, key |-> files.csr]
      <3>1. files \in Files /\ files.csr \in Int /\ files.csr # 0
        BY <2>3 DEF SetupTypeOK, Files, Has
      <3>2. files' = [files EXCEPT !.crt = crt]
        BY <2>3, Zenon DEF Write
      <3>3. crt \in [ca : Nat, key : Int] /\ crt.key = files.csr /\ crt # NoCrt
        BY <2>3, <3>1 DEF NoCrt
      <3> HIDE DEF crt
      <3>4. SetupTypeOK'
        BY <2>1, <3>1, <3>2, <3>3 DEF SetupTypeOK, Files
      <3>5. MadeForKey' /\ CrtHasKey'
        BY <3>1, <3>2, <3>3 DEF Files, MadeForKey, CrtHasKey
      <3>6. ConfigNamesMaterial'
        BY <3>1, <3>2, <3>3 DEF Files, ConfigNamesMaterial, ClientMaterialReady, Has
      <3> QED
        BY <3>4, <3>5, <3>6
    <2>4. files.ca \in Nat /\ gen \in Nat
      BY DEF SetupTypeOK, Files
    <2> QED
      BY <1>7, <2>2, <2>3, <2>4
      DEF ProvideCrt, SignsHere, Enrolls, SignClientCSR, EnrollClientCSR
  <1>8. CASE WriteAgentConfig
    <2>1. Others
      BY <1>8 DEF WriteAgentConfig, SetupTypeOK
    <2>2. CASE Fail
      BY <1>2, <2>1, <2>2
    <2>3. CASE Ready /\ files' = [files EXCEPT !.cfg = TRUE]
      BY <2>1, <2>3, Zenon
      DEF Ready, SetupTypeOK, Files, MadeForKey, CrtHasKey, ConfigNamesMaterial,
          ClientMaterialReady, Has
    <2> QED
      BY <1>8, <2>2, <2>3 DEF WriteAgentConfig
  <1>9. CASE VerifyProxy
    BY <1>2, <1>9 DEF VerifyProxy, SetupTypeOK
  <1>10. CASE Fault
    BY <1>2, <1>10 DEF Fault, SetupTypeOK
  <1>11. CASE Regenerate
    BY <1>11, FilesKept DEF Regenerate, SetupTypeOK
  <1>12. CASE UNCHANGED vars
    BY <1>12, FilesKept DEF vars, SetupTypeOK
  <1> QED
    BY <1>1, <1>3, <1>4, <1>5, <1>6, <1>7, <1>8, <1>9, <1>10, <1>11, <1>12, SMTT(20)
    DEF Next, Step

(* In every reachable state of the host, whatever options the runs have    *)
(* and wherever they stop: what was made here belongs to the key on disk,  *)
(* and agent.yml stands beside the material it names.                      *)
THEOREM SetupInvariance == Spec => []SetupInv
  BY SetupInitInv, SetupStepInv, PTL DEF Spec

(* The request and the certificate that setup made are for the key that is *)
(* on disk, for any mix of runs, faults, --force and new PKIs.             *)
THEOREM CertificateFits == Spec => []CrtFitsKey
  <1>1. SetupInv => CrtFitsKey
    BY DEF SetupInv, SetupTypeOK, Files, MadeForKey, CrtHasKey, CrtFitsKey,
           OwnMaterial, Has
  <1> QED
    BY <1>1, SetupInvariance, PTL

(* agent.yml is on disk only together with the CA, the certificate and the *)
(* key it names.                                                           *)
THEOREM ConfigComplete == Spec => []ConfigNamesMaterial
  <1>1. SetupInv => ConfigNamesMaterial
    BY DEF SetupInv
  <1> QED
    BY <1>1, SetupInvariance, PTL
=============================================================================
