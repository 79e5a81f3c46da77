------------------------------- MODULE LunaAgent -------------------------------
(***************************************************************************)
(* The ssh-agent daemon: agent/agent.go, session_bind.go, identities.go,   *)
(* and runAgent of agent/cmd/luna-agent/root.go.  Every connection of the  *)
(* socket has a goroutine that serves its requests in order and keeps its  *)
(* own session binding; all of them share one mutex, which signWithBinding *)
(* holds while it waits for the proxy.  The identities are fetched from    *)
(* the proxy once, when the daemon starts; the keys loaded at the proxy    *)
(* change while it runs.                                                   *)
(***************************************************************************)
EXTENDS Naturals, FiniteSets

CONSTANTS
    Conn,       \* connections of the agent's socket
    Key,        \* hosted keys that may be loaded at the proxy
    Session,    \* SSH sessions: host key and exchange hash
    Mode,       \* signer mode, of the proxy and in the agent's configuration
    HostKeyFingerprint, \* host_key_fingerprint: the only key wanted, or None
    None,
    Ephemeral,  \* the key generated at start in local-ca mode
    MaxStarts, MaxChanges \* bounds: starts of the daemon, changes of the loaded keys

ASSUME AgentAssumption ==
    /\ None \notin Conn
    /\ HostKeyFingerprint \in Key \cup {None}
    /\ Mode \in {"local-ca", "local-key"}

VARIABLES
    loaded,     \* keys loaded at the proxy
    changes,
    starts,
    up,         \* whether the daemon runs
    identities, \* LunaAgent.identities
    locked,     \* LunaAgent.locked
    holder,     \* the connection that holds LunaAgent.mu, or None
    conn,       \* each connection: its request and its binding
    presented,  \* history: the session last presented on each connection
    answer      \* history: the last signature returned on each connection

agentVars == <<loaded, changes, starts, up, identities, locked, holder, conn, presented, answer>>

Closed == [pc |-> "closed", binding |-> None, pub |-> None, sent |-> None]
NoAnswer == [asked |-> None, key |-> None]

AgentInit ==
    /\ loaded \in SUBSET Key /\ changes = 0
    /\ starts = 0 /\ up = FALSE
    /\ identities = {} /\ locked = FALSE /\ holder = None
    /\ conn = [c \in Conn |-> Closed]
    /\ presented = [c \in Conn |-> None]
    /\ answer = [c \in Conn |-> NoAnswer]

-------------------------------------------------------------------------------
(***************************************************************************)
(* Start and stop                                                          *)
(***************************************************************************)

\* resolveLocalKeyIdentities: the loaded keys, or the configured one of them.
LocalKeyIdentities ==
    {k \in loaded : HostKeyFingerprint # None => k = HostKeyFingerprint}

\* ResolveIdentities with the capabilities of the proxy.
ResolveIdentities == IF Mode = "local-key" THEN LocalKeyIdentities ELSE {Ephemeral}

\* runAgent: without identities (a sealed proxy, or no matching key) it exits.
RunAgent ==
    /\ ~up /\ starts < MaxStarts
    /\ starts' = starts + 1
    /\ up' = (ResolveIdentities # {})
    /\ identities' = ResolveIdentities
    /\ locked' = FALSE
    /\ UNCHANGED <<loaded, changes, holder, conn, presented, answer>>

\* SIGTERM, or a crash: requests in progress end without an answer.
Stop ==
    /\ up
    /\ up' = FALSE
    /\ identities' = {} /\ holder' = None
    /\ conn' = [c \in Conn |-> Closed]
    /\ presented' = [c \in Conn |-> None]
    /\ UNCHANGED <<loaded, changes, starts, locked, answer>>

Accept(c) ==
    /\ up /\ conn[c].pc = "closed"
    /\ conn' = [conn EXCEPT ![c].pc = "open"]
    /\ UNCHANGED <<loaded, changes, starts, up, identities, locked, holder, presented, answer>>

\* An operator loads or removes a key at the proxy.
ChangeLoaded(k) ==
    /\ changes < MaxChanges
    /\ changes' = changes + 1
    /\ loaded' = IF k \in loaded THEN loaded \ {k} ELSE loaded \cup {k}
    /\ UNCHANGED <<starts, up, identities, locked, holder, conn, presented, answer>>

-------------------------------------------------------------------------------
(***************************************************************************)
(* Requests of a connection                                                *)
(***************************************************************************)

\* Mutated form of Bind: the binding is the agent's, not the connection's.
BindAll(c, s) == [x \in Conn |-> [conn[x] EXCEPT !.binding = s]]

Bind(c, s) == [conn EXCEPT ![c].binding = s]

\* Extension with a session binding whose host-key signature verifies; others,
\* and forwarded ones, are refused and change nothing.
Extension(c, s) ==
    /\ conn[c].pc = "open"
    /\ conn' = Bind(c, s)
    /\ presented' = [presented EXCEPT ![c] = s]
    /\ UNCHANGED <<loaded, changes, starts, up, identities, locked, holder, answer>>

\* SignWithFlags copies the binding and goes for the mutex.
SignWithFlags(c, k) ==
    /\ conn[c].pc = "open"
    /\ conn' = [conn EXCEPT ![c].pc = "sign", ![c].pub = k, ![c].sent = conn[c].binding]
    /\ UNCHANGED <<loaded, changes, starts, up, identities, locked, holder, presented, answer>>

\* List, Lock and Unlock go for the mutex.
Call(c, op) ==
    /\ conn[c].pc = "open"
    /\ conn' = [conn EXCEPT ![c].pc = op]
    /\ UNCHANGED <<loaded, changes, starts, up, identities, locked, holder, presented, answer>>

Done(c) == [conn EXCEPT ![c].pc = "open", ![c].pub = None, ![c].sent = None]

\* List answers with the identities; Lock and Unlock set the flag.
Serve(c) ==
    /\ conn[c].pc \in {"list", "lock", "unlock"}
    /\ holder = None
    /\ locked' = CASE conn[c].pc = "lock" -> TRUE
                   [] conn[c].pc = "unlock" -> FALSE
                   [] OTHER -> locked
    /\ conn' = Done(c)
    /\ UNCHANGED <<loaded, changes, starts, up, identities, holder, presented, answer>>

\* Mutated form of Held: the mutex is released before the request.
HeldBriefly(c) == None

Held(c) == c

\* signWithBinding under the mutex: a locked agent and a missing binding are
\* errors; otherwise the request goes to the proxy and the mutex stays held.
SignWithBinding(c) ==
    /\ conn[c].pc = "sign"
    /\ holder = None
    /\ IF locked \/ (Mode = "local-key" /\ conn[c].sent = None)
       THEN conn' = Done(c) /\ UNCHANGED holder
       ELSE conn' = [conn EXCEPT ![c].pc = "remote"] /\ holder' = Held(c)
    /\ UNCHANGED <<loaded, changes, starts, up, identities, locked, presented, answer>>

\* Mutated form of SigningKey: the fingerprint is not sent, and the proxy takes
\* the only key it has.
SigningKeySole(k) == IF Cardinality(loaded) = 1 THEN CHOOSE x \in loaded : TRUE ELSE None

\* The proxy signs with the hosted key of the fingerprint the agent sent; in
\* local-ca mode the SDK signs with a fresh key of its own.
SigningKey(k) == IF Mode = "local-key" THEN k ELSE None

\* Mutated form of Released: the mutex stays locked on return.
ReleasedNever == holder

\* The deferred Unlock of signWithBinding.
Released == None

\* RequestSignature and RequestCertificate return within approvalTimeout: with
\* a signature, if the key is still loaded, or with an error.
SignReturn(c) ==
    /\ conn[c].pc = "remote"
    /\ conn' = Done(c)
    /\ holder' = Released
    /\ \/ UNCHANGED answer
       \/ /\ IF Mode = "local-key" THEN SigningKey(conn[c].pub) \in loaded ELSE loaded # {}
          /\ answer' = [answer EXCEPT ![c] = [asked |-> conn[c].pub,
                                              key |-> SigningKey(conn[c].pub)]]
    /\ UNCHANGED <<loaded, changes, starts, up, identities, locked, presented>>

AgentNext ==
    \/ RunAgent \/ Stop
    \/ \E k \in Key : ChangeLoaded(k)
    \/ \E c \in Conn :
         \/ Accept(c) \/ Serve(c) \/ SignWithBinding(c) \/ SignReturn(c)
         \/ \E s \in Session : Extension(c, s)
         \/ \E k \in identities : SignWithFlags(c, k)
         \/ \E op \in {"list", "lock", "unlock"} : Call(c, op)

AgentSpec == AgentInit /\ [][AgentNext]_agentVars

\* approvalTimeout ends every request to the proxy; Go's mutex does not starve
\* a goroutine that waits for it.
AgentFairSpec ==
    AgentSpec /\ \A c \in Conn :
        WF_agentVars(SignReturn(c)) /\ SF_agentVars(SignWithBinding(c)) /\ SF_agentVars(Serve(c))

-------------------------------------------------------------------------------
(***************************************************************************)
(* Properties                                                              *)
(***************************************************************************)

\* A request at the proxy carries the session last presented on its own
\* connection, whatever other connections presented meanwhile
\* (ConnectionAgent.binding, SignWithFlags).
BoundToOwnSession ==
    \A c \in Conn : conn[c].pc = "remote" => conn[c].sent = presented[c]

\* Once Lock has returned, no request is at the proxy and none will go there
\* before Unlock (the mutex is held during the request).
LockHolds == locked => \A c \in Conn : conn[c].pc # "remote"

\* Every request on a connection is answered, however long the approvals of
\* other connections take (signWithBinding, approvalTimeout).
EveryRequestAnswered ==
    \A c \in Conn : (conn[c].pc \in {"sign", "remote", "list", "lock", "unlock"})
                        ~> (conn[c].pc \in {"open", "closed"})

\* In local-key mode a signature is made with the key the client asked for, so
\* that ssh can use it, also when other keys were loaded or removed since the
\* identities were listed (signWithBinding, ResolveIdentities).
SignatureByOfferedKey ==
    Mode = "local-key" => \A c \in Conn : answer[c].key = answer[c].asked
===============================================================================
