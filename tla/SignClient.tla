------------------------------- MODULE SignClient -------------------------------
(***************************************************************************)
(* A call of the SDK (sdk/sign RequestCertificate, RequestSignature) and   *)
(* the proxy's handlers for it (handleSign, handleWait), over connections  *)
(* that break.  The client posts the signed body at most twice and then    *)
(* waits for the decision with at most two GETs; the proxy may still be    *)
(* handling an attempt the client has given up.                            *)
(*                                                                         *)
(* A body is known by what the checks make of it (SignChecks).  The keys   *)
(* loaded when it is handled are part of its choice: the replay cache lets *)
(* a body through once.                                                    *)
(*                                                                         *)
(* The approval store appears here as handleWait sees it: an entry with    *)
(* its waiter count and a channel that holds one result.  ApprovalStore    *)
(* has its locks and its approvers in full.                                *)
(***************************************************************************)
EXTENDS SignChecks, Integers, FiniteSets

CONSTANT Call  \* calls of the SDK, each with a body of its own

Attempt == 1..2
None == 0
NoTx == [state |-> "none", held |-> FALSE, ch |-> FALSE, waiters |-> 0, lease |-> FALSE]
Bodies == LocalKeyBodies \cup CertificateBodies

VARIABLES
    client,    \* each call: pc, attempt, and the attempt whose tx_id it was given
    body,      \* the body of each call, built once
    post,      \* each POST: "none", "sent", "accepted", "refused", or "invalid" for
               \* a refusal by the checks of SignChecks
    get,       \* each GET: "none", "sent", "blocked", or its outcome
    seen,      \* bodies in the replay cache
    tx         \* the transaction each POST created

clientVars == <<client, body, post, get, seen, tx>>

ClientInit ==
    /\ client = [c \in Call |-> [pc |-> "idle", attempt |-> None, tx |-> None]]
    /\ body \in [Call -> Bodies]
    /\ post = [c \in Call |-> [a \in Attempt |-> "none"]]
    /\ get = [c \in Call |-> [a \in Attempt |-> "none"]]
    /\ seen = {}
    /\ tx = [c \in Call |-> [a \in Attempt |-> NoTx]]

-------------------------------------------------------------------------------
(***************************************************************************)
(* The client                                                              *)
(***************************************************************************)

\* A body that fails the SDK's checks is not sent; one of a client that does
\* not use the SDK is.
RequestSignature(c) ==
    /\ client[c].pc = "idle"
    /\ \/ /\ client' = [client EXCEPT ![c] = [pc |-> "post", attempt |-> 1, tx |-> None]]
          /\ post' = [post EXCEPT ![c][1] = "sent"]
       \/ /\ ~body[c].sdk
          /\ client' = [client EXCEPT ![c].pc = "failed"]
          /\ UNCHANGED post
    /\ UNCHANGED <<body, get, seen, tx>>

\* postSignOnce returns: the transaction to wait for, or a status error.
ReceivePost(c) ==
    LET a == client[c].attempt
    IN  /\ client[c].pc = "post"
        /\ \/ /\ post[c][a] = "accepted"
              /\ client' = [client EXCEPT ![c] = [pc |-> "wait", attempt |-> 1, tx |-> a]]
              /\ get' = [get EXCEPT ![c][1] = "sent"]
           \/ /\ post[c][a] \in {"refused", "invalid"}
              /\ client' = [client EXCEPT ![c].pc = "failed"]
              /\ UNCHANGED get
        /\ UNCHANGED <<body, post, seen, tx>>

\* A retryable connection error (isRetryableConnErr): postSign sends the same
\* body once more on a new connection.
BreakPost(c) ==
    /\ client[c].pc = "post"
    /\ client[c].attempt = 1
    /\ client' = [client EXCEPT ![c].attempt = 2]
    /\ post' = [post EXCEPT ![c][2] = "sent"]
    /\ UNCHANGED <<body, get, seen, tx>>

\* Mutated form of ReceiveWait: a status other than 200 is not an error.
ReceiveWaitAnyStatus(c) ==
    LET b == client[c].attempt
    IN  /\ client[c].pc = "wait"
        /\ get[c][b] \in {"granted", "refused", "notfound"}
        /\ client' = [client EXCEPT ![c].pc = "ok"]
        /\ UNCHANGED <<body, post, get, seen, tx>>

\* getWait returns: the answer of a 200, or a status error.
ReceiveWait(c) ==
    LET b == client[c].attempt
    IN  /\ client[c].pc = "wait"
        /\ get[c][b] \in {"granted", "refused", "notfound"}
        /\ client' = [client EXCEPT ![c].pc = IF get[c][b] = "granted" THEN "ok" ELSE "failed"]
        /\ UNCHANGED <<body, post, get, seen, tx>>

\* getWait asks once more for the same transaction.
BreakWait(c) ==
    /\ client[c].pc = "wait"
    /\ client[c].attempt = 1
    /\ client' = [client EXCEPT ![c].attempt = 2]
    /\ get' = [get EXCEPT ![c][2] = "sent"]
    /\ UNCHANGED <<body, post, seen, tx>>

\* Any other error, a second connection error, or the end of the context.
GiveUp(c) ==
    /\ client[c].pc \in {"post", "wait"}
    /\ client' = [client EXCEPT ![c].pc = "gaveup"]
    /\ UNCHANGED <<body, post, get, seen, tx>>

-------------------------------------------------------------------------------
(***************************************************************************)
(* The proxy                                                               *)
(***************************************************************************)

\* Mutated form of Replayed: the cache is not consulted.
ReplayedNever(c) == FALSE

\* AddIfNew of ValidateSignRequest finds the body in the cache.
Replayed(c) == c \in seen

\* handleSign: authentication may fail before the body is entered in the replay
\* cache; the keystore and the remaining fields are looked at after that, and
\* then a lease, where the body allows one, answers at once or a pending
\* transaction is created.
HandleSign(c, a) ==
    /\ post[c][a] = "sent"
    /\ \/ /\ post' = [post EXCEPT ![c][a] = "refused"]
          /\ UNCHANGED <<seen, tx>>
       \/ /\ ~Replayed(c) /\ ~body[c].ok
          /\ seen' = seen \cup {c}
          /\ post' = [post EXCEPT ![c][a] = "invalid"]
          /\ UNCHANGED tx
       \/ /\ ~Replayed(c) /\ body[c].ok
          /\ seen' = seen \cup {c}
          /\ post' = [post EXCEPT ![c][a] = "accepted"]
          /\ \E s \in {"open"} \cup (IF body[c].lease THEN {"granted"} ELSE {}) :
               tx' = [tx EXCEPT ![c][a] = [state |-> s, held |-> TRUE, ch |-> s = "granted",
                                           waiters |-> 0, lease |-> body[c].lease]]
    /\ UNCHANGED <<client, body, get>>

\* Mutated form of Resolve: blocked requests are not told.
ResolveSilently(c, a) ==
    /\ tx[c][a].held /\ tx[c][a].state = "open"
    /\ \E s \in {"granted", "refused"} : tx' = [tx EXCEPT ![c][a].state = s]
    /\ UNCHANGED <<client, body, post, get, seen>>

\* Approve, Deny and expire: the first decision of a held open entry.
Resolve(c, a) ==
    /\ tx[c][a].held /\ tx[c][a].state = "open"
    /\ \E s \in {"granted", "refused"} :
         tx' = [tx EXCEPT ![c][a].state = s, ![c][a].ch = TRUE]
    /\ UNCHANGED <<client, body, post, get, seen>>

\* handleWait for the transaction of POST a; b is the caller's GET.  An absent
\* entry is refused, a decided one is answered and removed, and otherwise the
\* request blocks.
HandleWait(c, a, b) ==
    /\ get[c][b] = "sent" /\ client[c].tx = a
    /\ IF ~tx[c][a].held
       THEN get' = [get EXCEPT ![c][b] = "notfound"] /\ UNCHANGED tx
       ELSE IF tx[c][a].state # "open"
       THEN /\ get' = [get EXCEPT ![c][b] = tx[c][a].state]
            /\ tx' = [tx EXCEPT ![c][a].held = FALSE]
       ELSE /\ get' = [get EXCEPT ![c][b] = "blocked"]
            /\ tx' = [tx EXCEPT ![c][a].waiters = @ + 1]
    /\ UNCHANGED <<client, body, post, seen>>

\* A blocked request takes the one result from the channel, whether or not its
\* client is still there.
WaitResult(c, a, b) ==
    /\ get[c][b] = "blocked" /\ client[c].tx = a /\ tx[c][a].ch
    /\ get' = [get EXCEPT ![c][b] = tx[c][a].state]
    /\ tx' = [tx EXCEPT ![c][a].held = FALSE, ![c][a].ch = FALSE]
    /\ UNCHANGED <<client, body, post, seen>>

\* Whether the client of GET b has left.
Gone(c, b) == client[c].pc # "wait" \/ client[c].attempt # b

\* The server notices that the client of a blocked request left (cancelWait).
CancelWait(c, a, b) ==
    /\ get[c][b] = "blocked" /\ client[c].tx = a /\ Gone(c, b)
    /\ get' = [get EXCEPT ![c][b] = "canceled"]
    /\ tx' = IF tx[c][a].held
             THEN [tx EXCEPT ![c][a].waiters = @ - 1, ![c][a].held = tx[c][a].waiters > 1]
             ELSE tx
    /\ UNCHANGED <<client, body, post, seen>>

ClientNext ==
    \/ \E c \in Call :
         \/ RequestSignature(c) \/ ReceivePost(c) \/ BreakPost(c) \/ ReceiveWait(c)
         \/ BreakWait(c) \/ GiveUp(c)
    \/ \E c \in Call, a \in Attempt : HandleSign(c, a) \/ Resolve(c, a)
    \/ \E c \in Call, a, b \in Attempt :
         HandleWait(c, a, b) \/ WaitResult(c, a, b) \/ CancelWait(c, a, b)

ClientSpec == ClientInit /\ [][ClientNext]_clientVars

\* Connections deliver and handlers run; nothing obliges a connection to break,
\* a client to give up or an approver to decide.
ClientFairSpec ==
    /\ ClientSpec
    /\ \A c \in Call :
         /\ WF_clientVars(ReceivePost(c)) /\ WF_clientVars(ReceiveWait(c))
         /\ \A a \in Attempt :
              /\ WF_clientVars(HandleSign(c, a))
              /\ \A b \in Attempt :
                   /\ WF_clientVars(HandleWait(c, a, b)) /\ WF_clientVars(WaitResult(c, a, b))
                   /\ WF_clientVars(CancelWait(c, a, b))
-------------------------------------------------------------------------------
(***************************************************************************)
(* Properties                                                              *)
(***************************************************************************)

\* A call creates at most one transaction, and so at most one prompt, although
\* postSign sends the body again while the first POST may still be on its way
\* or being handled (ValidateSignRequest, handleSign).
OneTxPerCall ==
    \A c \in Call : Cardinality({a \in Attempt : tx[c][a].state # "none"}) <= 1

\* A transaction that may use or create a lease has as its destination the host
\* that really is at the other end of the session its payload authenticates,
\* and signs with the key that payload names (handleSign,
\* ValidateLocalKeySignData).
LeaseDestinationProven ==
    \A c \in Call, a \in Attempt : tx[c][a].lease => body[c].proven

\* The checks of the SDK and of the proxy agree: neither refuses a request with
\* the genuine payload and the binding, or else the host key, of a session
\* (RequestSignature, handleSign).
GenuineAccepted ==
    \A c \in Call, a \in Attempt :
        (post[c][a] = "invalid" /\ body[c].sdk) => ~body[c].genuine

\* A call succeeds only with the granted decision of its own transaction
\* (getWait after retries, handleWait after the entry was removed).
OkMeansGranted ==
    \A c \in Call : client[c].pc = "ok" => tx[c][client[c].tx].state = "granted"

\* Once its transaction is granted, a call whose wait connection holds returns
\* with the grant, whether the decision came before or after the GET
\* (waitResult, finishLocked).
GrantReturned ==
    \A c \in Call :
        LET waiting == client[c].pc = "wait" /\ client[c].attempt = 1
        IN  (waiting /\ tx[c][client[c].tx].state = "granted")
                ~> (client[c].pc \in {"ok", "gaveup"} \/ client[c].attempt = 2)
===============================================================================
