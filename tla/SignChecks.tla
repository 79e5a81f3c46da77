------------------------------- MODULE SignChecks -------------------------------
(***************************************************************************)
(* The checks a local-key request passes before it becomes a transaction:  *)
(* those of the SDK (sdk/sign RequestSignature) and those of the proxy     *)
(* (handleSign, auth/session_binding.go, keystore/resolve.go).             *)
(*                                                                         *)
(* A session is an SSH connection, identified by its exchange hash, to     *)
(* HostOf[s].  A host signs the exchange hashes of its own sessions and no *)
(* others; that is all a binding can prove.  The checks are functions of   *)
(* the request and the loaded keys; SignClient has the calls and handlers  *)
(* that make them.                                                         *)
(***************************************************************************)
CONSTANTS
    Host,     \* SSH servers, by their host key
    Session,  \* SSH sessions, by their exchange hash
    HostOf,   \* the server of each session
    Key,      \* hosted signing keys
    NoHost, NoSession, NoKey,
    Malformed \* a fingerprint hint that does not parse

ASSUME ChecksAssumption ==
    /\ HostOf \in [Session -> Host]
    /\ NoHost \notin Host /\ NoSession \notin Session /\ NoKey \notin Key
    /\ Malformed \notin Key \cup {NoKey}

\* What hosts have signed: their own key over their own exchange hash.
HostSignature == {[by |-> HostOf[s], over |-> s] : s \in Session}
NoSignature == [by |-> NoHost, over |-> NoSession]

SessionBinding ==
    [host : Host \cup {NoHost}, session : Session \cup {NoSession},
     sig : HostSignature \cup {NoSignature}, forwarding : BOOLEAN]

\* The payload of a user-auth request; "fields" are user, service and the
\* signature flag, and rest is what follows the key.
UserAuth ==
    [session : Session \cup {NoSession}, fields : BOOLEAN, key : Key,
     method : {"publickey", "hostbound", "other"}, rest : Host \cup {NoHost}]

Requests ==
    [binding : SessionBinding, dest : Host \cup {NoHost}, data : UserAuth,
     hint : Key \cup {NoKey, Malformed}]

Refused == [ok |-> FALSE, host |-> NoHost, key |-> NoKey, lease |-> FALSE]

-------------------------------------------------------------------------------
(***************************************************************************)
(* The SDK                                                                 *)
(***************************************************************************)

\* RequestSignature: a complete binding or a destination key, not both, and no
\* forwarding.
ClientAccepts(r) ==
    LET b == r.binding
        complete == b.host # NoHost /\ b.session # NoSession /\ b.sig # NoSignature
        empty == b.host = NoHost /\ b.session = NoSession /\ b.sig = NoSignature
    IN  /\ complete \/ empty
        /\ complete # (r.dest # NoHost)
        /\ ~b.forwarding

-------------------------------------------------------------------------------
(***************************************************************************)
(* The proxy                                                               *)
(***************************************************************************)

\* SoleFingerprint: the key of a pool of one, or none.
SoleFingerprint(pool) == IF \E k \in pool : pool = {k} THEN CHOOSE k \in pool : TRUE ELSE NoKey

\* resolveHostKeyFingerprint with the fingerprint the SDK sends.
resolveHostKeyFingerprint(pool, hint) ==
    IF hint = Malformed THEN NoKey ELSE IF hint # NoKey THEN hint ELSE SoleFingerprint(pool)

\* hostKey.Verify(sessionID, sig)
Verify(host, session, sig) == sig.by = host /\ sig.over = session

\* A payload without a session stands for every one that is missing, too long,
\* not base64 or refused by parseUserAuthSignData.
Parses(data) == data.session # NoSession

\* validateParsedUserAuth
validateParsedUserAuth(data, key, boundHost) ==
    /\ data.fields /\ data.key = key
    /\ \/ data.method = "publickey" /\ data.rest = NoHost
       \/ data.method = "hostbound" /\ data.rest = boundHost

\* Mutated form of ValidateLocalKeySignData: the payload may be for another
\* session than the one bound.
ValidateAnySession(b, data, key) ==
    /\ ~b.forwarding
    /\ b.host # NoHost /\ b.session # NoSession /\ b.sig # NoSignature
    /\ Verify(b.host, b.session, b.sig)
    /\ Parses(data)
    /\ validateParsedUserAuth(data, key, b.host)

\* Mutated form of ValidateLocalKeySignData: only hostbound payloads pass.
ValidateHostbound(b, data, key) ==
    /\ ~b.forwarding
    /\ b.host # NoHost /\ b.session # NoSession /\ b.sig # NoSignature
    /\ Verify(b.host, b.session, b.sig)
    /\ Parses(data) /\ data.session = b.session /\ data.method = "hostbound"
    /\ validateParsedUserAuth(data, key, b.host)

ValidateLocalKeySignData(b, data, key) ==
    /\ ~b.forwarding
    /\ b.host # NoHost /\ b.session # NoSession /\ b.sig # NoSignature
    /\ Verify(b.host, b.session, b.sig)
    /\ Parses(data) /\ data.session = b.session
    /\ validateParsedUserAuth(data, key, b.host)

ValidateDirectLocalKeySignData(dest, data, key) ==
    /\ dest # NoHost
    /\ Parses(data)
    /\ validateParsedUserAuth(data, key, dest)

\* handleSign after authentication: a sealed keystore, an unresolved or absent
\* key and an invalid binding refuse the request; a host key only reported by
\* the client disables leases.  pool is the set of loaded keys.
Verdict(pool, r) ==
    LET key == resolveHostKeyFingerprint(pool, r.hint)
    IN  IF pool = {} \/ key \notin pool THEN Refused
        ELSE IF r.binding.host # NoHost
        THEN IF ValidateLocalKeySignData(r.binding, r.data, key)
             THEN [ok |-> TRUE, host |-> r.binding.host, key |-> key, lease |-> TRUE]
             ELSE Refused
        ELSE IF ValidateDirectLocalKeySignData(r.dest, r.data, key)
             THEN [ok |-> TRUE, host |-> r.dest, key |-> key, lease |-> FALSE]
             ELSE Refused

-------------------------------------------------------------------------------
(***************************************************************************)
(* What is true of a request, whatever the checks say                      *)
(***************************************************************************)

\* The verdict names the host at the other end of the session the payload
\* authenticates, and the payload is for the loaded key that will sign.
Proven(pool, r, v) ==
    /\ r.data.session \in Session
    /\ v.host = HostOf[r.data.session]
    /\ v.key = r.data.key /\ v.key \in pool

\* What an unmodified ssh client produces for session s and key k.
GenuinePayload(d, s, k) ==
    /\ d.session = s /\ d.fields /\ d.key = k
    /\ \/ d.method = "publickey" /\ d.rest = NoHost
       \/ d.method = "hostbound" /\ d.rest = HostOf[s]

\* A request with the payload and the binding, or the host key, of one session,
\* and the fingerprint of a loaded key.
Genuine(pool, r) ==
    \E s \in Session, k \in pool :
        /\ r.hint = k /\ GenuinePayload(r.data, s, k)
        /\ \/ r.dest = HostOf[s]
           \/ r.binding = [host |-> HostOf[s], session |-> s,
                           sig |-> [by |-> HostOf[s], over |-> s],
                           forwarding |-> FALSE]

\* All that a call and its handlers tell apart of a body: what the SDK and the
\* proxy decide on it, and what is true of it.
BodyOf(pool, r) ==
    LET v == Verdict(pool, r)
    IN  [sdk |-> ClientAccepts(r), ok |-> v.ok, lease |-> v.ok /\ v.lease,
         genuine |-> Genuine(pool, r), proven |-> Proven(pool, r, v)]

\* The bodies of local-key requests, and those of RequestCertificate, which have
\* no session to bind and are refused only by a sealed keystore.
LocalKeyBodies == {BodyOf(pool, r) : pool \in SUBSET Key, r \in Requests}
CertificateBodies ==
    {[sdk |-> TRUE, ok |-> open, lease |-> open, genuine |-> open, proven |-> TRUE] : open \in BOOLEAN}
===============================================================================
