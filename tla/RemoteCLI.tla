------------------------------ MODULE RemoteCLI ------------------------------
(***************************************************************************)
(* An operator's laptop that enrols as a CLI device and then loads keys    *)
(* into the proxy: luna-proxy cli init, csr, enroll and key load           *)
(* (proxy/cmd/luna-proxy and proxy/internal/cli/httpclient), the enrolment *)
(* handlers and the CSR signer of the proxy, and the proxy host of         *)
(* ProxySetup, on which the PKI may be replaced and the service restarted  *)
(* at any time.                                                            *)
(*                                                                         *)
(* The proxy reads its CA, server certificate and signer when it starts,   *)
(* but serves ca.crt from disk; its registry of devices is in memory.      *)
(* devs has the devices whose certificate the laptop has or is being sent: *)
(* the others stay registered, and nobody can use them.  The operator      *)
(* works through the documented commands in order and starts over when one *)
(* fails.                                                                  *)
(***************************************************************************)
EXTENDS ProxySetup

CONSTANTS MaxMishaps,  \* bound on lost answers, deleted devices, new cli.keys
          ProfileCA    \* whether cli.yaml (or --ca) names a copied ca.crt

VARIABLES lap, devs, pc, reply, last, mishaps

laptop == <<lap, devs, pc, reply, last, mishaps>>

NoCrt == [by |-> 0, key |-> 0, sn |-> 0]

RemoteInit ==
    /\ Init
    /\ lap = [key |-> 1, csr |-> 0, crt |-> NoCrt, ca |-> 0, acrt |-> NoFile, akey |-> 0]
    /\ devs = {}
    /\ pc = "copy"
    /\ reply = NoCrt
    /\ last = "none"
    /\ mishaps = 0

Up == svc.st = "up"
Failed == last' = "failed" /\ pc' = "copy"

(* A step of the proxy host.  The registry goes with the process. *)
HostStep ==
    /\ Next
    /\ devs' = IF svc'.st = "off" THEN {} ELSE devs
    /\ UNCHANGED <<lap, pc, reply, last, mishaps>>

(* The admin pair, and with ProfileCA ca.crt, are copied from the proxy's  *)
(* directory as they are there.                                            *)
CopyAdmin ==
    /\ pc = "copy"
    /\ \A f \in {"admin-client.crt", "admin-client.key", "ca.crt"} : Exists(f)
    /\ lap' = [lap EXCEPT !.acrt = disk["admin-client.crt"],
                          !.akey = disk["admin-client.key"].key,
                          !.ca = IF ProfileCA THEN disk["ca.crt"].key ELSE @]
    /\ pc' = "csr"
    /\ UNCHANGED <<vars, devs, reply, last, mishaps>>

(* cli init --force: a new cli.key; the request and certificate stay *)
RunCLIInit ==
    /\ mishaps < MaxMishaps
    /\ mishaps' = mishaps + 1
    /\ lap' = [lap EXCEPT !.key = CHOOSE k \in 1..4 : k \notin {lap.key, lap.csr, lap.crt.key}]
    /\ UNCHANGED <<vars, devs, pc, reply, last>>

(* cli csr *)
RunCLICSR ==
    /\ pc = "csr"
    /\ lap' = [lap EXCEPT !.csr = lap.key]
    /\ pc' = "enroll"
    /\ UNCHANGED <<vars, devs, reply, last, mishaps>>

(* the mutated form: a ca.crt that was downloaded once is kept *)
CAAfterFetchOnce == IF ProfileCA \/ lap.ca # 0 THEN lap.ca ELSE disk["ca.crt"].key

(* FetchCA, answered by handleMTLSCA from the disk *)
CAAfterFetch == IF ProfileCA THEN lap.ca ELSE disk["ca.crt"].key

(* ensureProfileCA, the first step of a remote enroll or load *)
EnsureProfileCA(at, next) ==
    /\ pc = at
    /\ IF Up \/ ProfileCA
         THEN /\ lap' = [lap EXCEPT !.ca = CAAfterFetch]
              /\ pc' = next
              /\ UNCHANGED last
         ELSE Failed /\ UNCHANGED lap
    /\ UNCHANGED <<vars, devs, reply, mishaps>>

(* The TLS handshake with a client certificate: each side verifies the     *)
(* other's against the CA it has.                                          *)
Handshake(crt, key) ==
    /\ crt.key = key
    /\ Up
    /\ svc.crt = lap.ca
    /\ crt.by = svc.ca

(* VerifyClientCertAgainstCA, before anything is sent *)
AdminVerifies == lap.acrt.by = lap.ca

(* CSRSigner.Sign: CreateCertificate wants the key of the CA certificate *)
Signs == svc.sca = svc.skey

NewCrt ==
    [by |-> svc.sca, key |-> lap.csr,
     sn |-> CHOOSE n \in {1, 2} : lap.crt.sn # n]

(* The enrolment handlers: the device is registered before the answer is   *)
(* on its way.                                                             *)
HandleCLIEnroll ==
    /\ devs' = devs \cup {NewCrt}
    /\ reply' = NewCrt
    /\ pc' = "issued"
    /\ UNCHANGED last

(* httpclient.Enroll over admin mTLS *)
EnrollRequest ==
    /\ pc = "request"
    /\ IF AdminVerifies /\ Handshake(lap.acrt, lap.akey) /\ Signs
         THEN HandleCLIEnroll
         ELSE Failed /\ UNCHANGED <<devs, reply>>
    /\ UNCHANGED <<vars, lap, mishaps>>

(* cli enroll on the proxy host, over the control socket *)
EnrollSocket ==
    /\ pc = "enroll"
    /\ IF Up /\ Signs THEN HandleCLIEnroll ELSE Failed /\ UNCHANGED <<devs, reply>>
    /\ UNCHANGED <<vars, lap, mishaps>>

(* runCLIEnroll writes cli.crt *)
WriteCert ==
    /\ pc = "issued"
    /\ lap' = [lap EXCEPT !.crt = reply]
    /\ devs' = devs \cap {reply}
    /\ reply' = NoCrt
    /\ pc' = "load"
    /\ UNCHANGED <<vars, last, mishaps>>

(* The answer is lost, or the laptop stops before the write. *)
LoseReply ==
    /\ pc = "issued"
    /\ mishaps < MaxMishaps
    /\ mishaps' = mishaps + 1
    /\ devs' = devs \ {reply}
    /\ reply' = NoCrt
    /\ Failed
    /\ UNCHANGED <<vars, lap>>

(* httpclient.Load, and handleCLIKeysLoad as far as the device lookup *)
LoadRequest ==
    /\ pc = "dial"
    /\ IF Handshake(lap.crt, lap.key) /\ lap.crt \in devs
         THEN last' = "loaded" /\ pc' = "load"
         ELSE Failed
    /\ UNCHANGED <<vars, lap, devs, reply, mishaps>>

(* cli delete *)
CLIDelete ==
    /\ Up
    /\ mishaps < MaxMishaps
    /\ mishaps' = mishaps + 1
    /\ \E d \in devs : devs' = devs \ {d}
    /\ UNCHANGED <<vars, lap, pc, reply, last>>

LaptopStep ==
    \/ CopyAdmin
    \/ RunCLICSR
    \/ EnsureProfileCA("enroll", "request")
    \/ EnrollRequest
    \/ EnrollSocket
    \/ WriteCert
    \/ EnsureProfileCA("load", "dial")
    \/ LoadRequest

RemoteNext ==
    \/ HostStep
    \/ LaptopStep
    \/ RunCLIInit
    \/ LoseReply
    \/ CLIDelete

RemoteSpec == RemoteInit /\ [][RemoteNext]_<<vars, laptop>>

(* The operator keeps going through the commands. *)
RemoteFairSpec == RemoteSpec /\ WF_<<vars, laptop>>(LaptopStep)

-----------------------------------------------------------------------------
(* The admin pair in the proxy's directory is a pair of the CA there. *)
AdminFresh ==
    /\ CAUsable
    /\ disk["admin-client.crt"].key = disk["admin-client.key"].key
    /\ disk["admin-client.crt"].by = disk["ca.crt"].key

(* The running proxy was started from the PKI that is on disk. *)
RunsCurrentPKI ==
    /\ Up
    /\ \A c \in {svc.ca, svc.crt, svc.sca, svc.skey} : c = disk["ca.crt"].key

(* Once the PKI is no longer replaced and the proxy runs with it, the      *)
(* documented commands succeed: whatever was regenerated, restarted, lost  *)
(* or deleted before, the laptop enrols and loads keys again and again     *)
(* (runCLIEnroll, ensureProfileCA, httpclient.Enroll and Load).            *)
LoadsInTheEnd == <>[](AdminFresh /\ RunsCurrentPKI) => []<>(last = "loaded")
=============================================================================
