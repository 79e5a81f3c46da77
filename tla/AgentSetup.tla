----------------------------- MODULE AgentSetup -----------------------------
(***************************************************************************)
(* luna-agent setup (agent/internal/setup): one run of Run, and what a     *)
(* crash, a failed request or a second run finds on disk.                  *)
(*                                                                         *)
(* Every file is written by writeFile, a temporary file and a rename, so   *)
(* one write is one step and a run can stop between any two.  What matters *)
(* of a file is which PKI and which key it belongs to:                     *)
(*   ca, cakey   the generation of the proxy's CA, 0 when absent;          *)
(*   key, csr    the key, 0 when absent: a positive number for a key made  *)
(*               here, -g for the one shipped with generation g;           *)
(*   crt         the CA that signed and the key that is certified;         *)
(*   cfg         whether agent.yml exists.                                 *)
(* The proxy's PKI is at generation gen; `luna-proxy setup --force' makes  *)
(* the next one.                                                           *)
(***************************************************************************)
EXTENDS Integers, Sequences

CONSTANTS MaxGen,     \* bound on the generations of the proxy's PKI
          MaxKeys,    \* bound on the keys one host generates
          MaxFaults,  \* bound on crashes and failed requests
          Scripts,    \* the option records of the --non-interactive runs
          Script      \* the one of them that enrols and is run again and again

VARIABLES files, gen, todo, opt, wrote, outcome, faults, keys

vars == <<files, gen, todo, opt, wrote, outcome, faults, keys>>

NoCrt == [ca |-> 0, key |-> 0]
Absent == [ca |-> 0, cakey |-> 0, key |-> 0, csr |-> 0, crt |-> NoCrt, cfg |-> FALSE]

(* os.Stat succeeds *)
Has(f) == IF f = "crt" THEN files.crt # NoCrt ELSE files[f] # 0

(* clientMaterialReady *)
ClientMaterialReady == Has("ca") /\ Has("crt") /\ Has("key")

-----------------------------------------------------------------------------
(* The options of one run.  src is the generation the operator's copies    *)
(* (directory, files, fingerprint) come from; fp says that a fingerprint   *)
(* was given.  The flag sets of scripts and the answers of the wizard are  *)
(* both made of these.                                                     *)

Blank == [from |-> FALSE, ca |-> FALSE, fetch |-> FALSE, fp |-> FALSE,
          crt |-> FALSE, key |-> FALSE, cakey |-> FALSE, token |-> FALSE,
          force |-> FALSE, verify |-> TRUE]

(* RunInteractive's applyCertStrategy: the four ways to provide material *)
CertStrategies ==
    {[Blank EXCEPT !.from = TRUE]}
    \cup {[Blank EXCEPT !.ca = TRUE, !.cakey = TRUE, !.force = TRUE]}
    \cup {[Blank EXCEPT !.ca = ~f, !.fetch = f, !.fp = p, !.token = TRUE, !.force = TRUE] :
              f \in BOOLEAN, p \in BOOLEAN}
    \cup {[Blank EXCEPT !.ca = a, !.crt = c, !.key = k] :
              a \in BOOLEAN, c \in BOOLEAN, k \in BOOLEAN}

(* needsEnrollResume *)
NeedsEnrollResume == Has("key") /\ Has("csr") /\ ~Has("crt")

(* What the wizard passes on, given what it finds in the directory *)
RunInteractive ==
    LET found ==
          IF NeedsEnrollResume
            THEN {[Blank EXCEPT !.fetch = TRUE, !.fp = p, !.token = TRUE, !.force = TRUE] :
                      p \in BOOLEAN}
            ELSE IF ClientMaterialReady
                   THEN {Blank} \cup {[o EXCEPT !.force = TRUE] : o \in CertStrategies}
                   ELSE CertStrategies
    IN  {[o EXCEPT !.verify = v] : o \in found, v \in BOOLEAN}

(* runSetupAll: the wizard's options or those of the flags *)
RunSetupAll == Scripts \cup RunInteractive

-----------------------------------------------------------------------------
(* The steps of Run in their order, those that the options ask for *)
Plan(o) ==
    (IF o.from THEN <<"ca", "crt", "key">> ELSE <<>>)
    \o (IF o.ca THEN <<"ca">> ELSE IF o.fetch THEN <<"fetch">> ELSE <<>>)
    \o (IF o.crt THEN <<"crt">> ELSE <<>>)
    \o (IF o.key THEN <<"key">> ELSE <<>>)
    \o (IF o.cakey THEN <<"cakey">> ELSE <<>>)
    \o <<"genkey", "gencsr", "sign", "config", "verify">>

Running == todo # <<>>
At(step) == Running /\ Head(todo) = step

Proceed == todo' = Tail(todo) /\ UNCHANGED outcome
Fail == todo' = <<>> /\ outcome' = "failed" /\ UNCHANGED <<files, wrote>>

Write(f, value) ==
    /\ files' = [files EXCEPT ![f] = value]
    /\ wrote' = wrote \cup {f}

Skip == UNCHANGED <<files, wrote>>

Init ==
    /\ files = Absent
    /\ gen = 1
    /\ todo = <<>>
    /\ opt = [o |-> Blank, src |-> 1]
    /\ wrote = {}
    /\ outcome = "none"
    /\ faults = 0
    /\ keys = 0

(* Run is entered once ProbeProxyURL has answered *)
Start(o, src) ==
    /\ ~Running
    /\ src \in 1..gen
    /\ todo' = Plan(o)
    /\ opt' = [o |-> o, src |-> src]
    /\ wrote' = {}
    /\ outcome' = "running"
    /\ UNCHANGED <<files, gen, faults, keys>>

(* The operator's copy of a file, from generation g *)
Shipped(f, g) ==
    CASE f = "crt" -> [ca |-> g, key |-> -g]
      [] f = "key" -> -g
      [] OTHER -> g

(* InstallFile: an existing file is kept unless force is set *)
InstallFile(f) ==
    /\ At(f)
    /\ IF Has(f) /\ ~opt.o.force THEN Skip ELSE Write(f, Shipped(f, opt.src))
    /\ Proceed
    /\ UNCHANGED <<gen, opt, faults, keys>>

(* verifyCAFingerprint: an absent fingerprint is an error, not a wildcard *)
VerifyCAFingerprint == opt.o.fp /\ opt.src = gen

(* FetchCA always replaces ca.crt *)
FetchCA ==
    /\ At("fetch")
    /\ IF VerifyCAFingerprint THEN Write("ca", gen) /\ Proceed ELSE Fail
    /\ UNCHANGED <<gen, opt, faults, keys>>

(* the mutated form: force makes a new key over an existing one *)
KeyWantedOnForce == ~Has("key") \/ opt.o.force

(* Run generates a key only when there is none, whatever force says *)
KeyWanted == ~Has("key")

(* GenerateClientKey, first write *)
GenerateKey ==
    /\ At("genkey")
    /\ IF KeyWanted
         THEN /\ keys < MaxKeys
              /\ Write("key", keys + 1)
              /\ keys' = keys + 1
              /\ Proceed
         ELSE /\ Skip
              /\ todo' = Tail(Tail(todo))
              /\ UNCHANGED <<outcome, keys>>
    /\ UNCHANGED <<gen, opt, faults>>

(* GenerateClientKey, second write *)
GenerateCSR ==
    /\ At("gencsr")
    /\ Write("csr", files.key)
    /\ Proceed
    /\ UNCHANGED <<gen, opt, faults, keys>>

SignsHere == Has("cakey") /\ Has("csr")

(* the mutated form: a request left by an earlier run is not taken up *)
EnrollsNewRequest == ~SignsHere /\ Has("ca") /\ Has("csr") /\ "csr" \in wrote

Enrolls == ~SignsHere /\ Has("ca") /\ Has("csr")

(* SignClientCSR: loadCA needs ca.crt, and the certificate is made only    *)
(* when the key is the one of that certificate.                            *)
SignClientCSR ==
    IF Has("ca") /\ files.ca = files.cakey
      THEN Write("crt", [ca |-> files.ca, key |-> files.csr]) /\ Proceed
      ELSE Fail

(* EnrollClientCSR: the server must be trusted by ca.crt as it is on disk; *)
(* Run never sets RefreshCA.  The proxy signs with its current CA.         *)
EnrollClientCSR ==
    IF opt.o.token /\ files.ca = gen
      THEN Write("crt", [ca |-> gen, key |-> files.csr]) /\ Proceed
      ELSE Fail

(* Step 3 of Run *)
ProvideCrt ==
    /\ At("sign")
    /\ IF Has("crt") THEN Skip /\ Proceed
       ELSE IF SignsHere THEN SignClientCSR
       ELSE IF Enrolls THEN EnrollClientCSR
       ELSE Fail
    /\ UNCHANGED <<gen, opt, faults, keys>>

(* the mutated form: agent.yml is written whatever material there is *)
ReadyUnchecked == TRUE

Ready == ClientMaterialReady

(* Step 4: WriteAgentConfig, after the check for complete material *)
WriteAgentConfig ==
    /\ At("config")
    /\ IF Ready
         THEN /\ files' = [files EXCEPT !.cfg = TRUE]
              /\ wrote' = wrote \cup {"cfg"}
              /\ Proceed
         ELSE Fail
    /\ UNCHANGED <<gen, opt, faults, keys>>

(* The mutual handshake of VerifyProxy succeeds *)
HandshakeOK ==
    /\ files.crt.key = files.key
    /\ files.ca = gen
    /\ files.crt.ca = gen

(* Step 5 *)
VerifyProxy ==
    /\ At("verify")
    /\ IF opt.o.verify => HandshakeOK
         THEN todo' = <<>> /\ outcome' = "ok" /\ Skip
         ELSE Fail
    /\ UNCHANGED <<gen, opt, faults, keys>>

(* The process is killed, or a request to the proxy fails *)
Fault ==
    /\ Running
    /\ faults < MaxFaults
    /\ faults' = faults + 1
    /\ Fail
    /\ UNCHANGED <<gen, opt, keys>>

(* luna-proxy setup --force on the proxy host *)
Regenerate ==
    /\ gen < MaxGen
    /\ gen' = gen + 1
    /\ UNCHANGED <<files, todo, opt, wrote, outcome, faults, keys>>

Step ==
    \/ \E f \in {"ca", "crt", "key", "cakey"} : InstallFile(f)
    \/ FetchCA
    \/ GenerateKey
    \/ GenerateCSR
    \/ ProvideCrt
    \/ WriteAgentConfig
    \/ VerifyProxy

Next ==
    \/ \E o \in RunSetupAll, src \in 1..MaxGen : Start(o, src)
    \/ Step
    \/ Fault
    \/ Regenerate

Spec == Init /\ [][Next]_vars

(* A started run goes on, and the operator runs the script again and       *)
(* again, time after time with the proxy's current fingerprint.            *)
FairSpec ==
    /\ Spec
    /\ WF_vars(Step)
    /\ SF_vars(Start(Script, gen))

-----------------------------------------------------------------------------
(* The key and the certificate on disk were made for this host *)
OwnMaterial == files.key >= 0 /\ files.crt.key >= 0

(* However runs are killed, repeated, mixed and forced, the certificate on *)
(* disk is for the key on disk unless an operator's copy of either was     *)
(* installed: Run makes a key only when there is none, and the request is  *)
(* always for that key (setup.go, steps 2 and 3).                          *)
CrtFitsKey ==
    OwnMaterial =>
        /\ Has("csr") => files.csr = files.key
        /\ Has("crt") => files.crt.key = files.key

(* agent.yml never names material that is not there, whichever of the four *)
(* ways the operator chose and wherever earlier runs stopped: Run checks   *)
(* clientMaterialReady before WriteAgentConfig.                            *)
ConfigNamesMaterial == files.cfg => ClientMaterialReady

(* A run was killed between client.key and client.csr.pem *)
Stranded == ~Running /\ Has("key") /\ ~Has("csr") /\ ~Has("crt")

(* A certificate or a CA key is from a PKI the proxy no longer uses *)
Stale == (Has("crt") /\ files.crt.ca # gen) \/ (Has("cakey") /\ files.cakey # gen)

(* A provisioning script that enrols through the proxy and is run again    *)
(* until it succeeds does succeed, wherever earlier runs and the wizard    *)
(* were killed or refused, unless a key was left without its request, a    *)
(* file is of an older PKI or a copy was installed (setup.go: Run resumes  *)
(* from the files it finds).                                               *)
RerunCompletes ==
    <>[](OwnMaterial /\ ~Stranded /\ ~Stale) => []<>(outcome = "ok")
=============================================================================
