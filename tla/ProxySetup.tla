----------------------------- MODULE ProxySetup -----------------------------
(***************************************************************************)
(* The proxy host: luna-proxy setup with its subcommands mtls,             *)
(* admin-client and config (proxy/internal/setup), luna-proxy install      *)
(* systemd (proxy/internal/install), and the start of luna-proxy serve     *)
(* from what these leave on disk.                                          *)
(*                                                                         *)
(* A command is a list of steps; it can be killed between any two, and     *)
(* inside a write, which then leaves its temporary file behind.  A file is *)
(* what tells its contents apart and whether the service user may read it: *)
(*   by    the CA that signed it (certificates), named by the generation   *)
(*         of the PKI;                                                     *)
(*   key   the key it holds or certifies, 0 when the file is absent;       *)
(*   rd    whether the service may read it.                                *)
(***************************************************************************)
EXTENDS Integers, Sequences

CONSTANTS Commands,  \* the command lines the operator uses
          Root,      \* whether they are run as root
          HasUser,   \* whether the host already has the service user luna
          MaxGen,    \* bound on the generations of the PKI
          MaxKills   \* bound on killed commands

VARIABLES disk, tmp, user, unit, gen, run, todo, outcome, kills, svc

hostvars == <<disk, tmp, user, unit, gen, run, todo, outcome, kills>>
vars == <<hostvars, svc>>

Certs == {"ca.crt", "server.crt", "admin-client.crt", "client.crt"}
Keys == {"ca.key", "server.key", "admin-client.key", "client.key"}
Files == Certs \cup Keys \cup {"proxy.yml"}
NoFile == [by |-> 0, key |-> 0, rd |-> FALSE]

(* os.Stat succeeds *)
Exists(f) == disk[f].key # 0

-----------------------------------------------------------------------------
(* A command line.  systemd: also install the service; enable: enable and  *)
(* start it; skip: do not create the service user.  Once it runs, ca and   *)
(* id are the CA it signs with and the keys it makes.                      *)
Command(cmd, force) ==
    [cmd |-> cmd, force |-> force, systemd |-> FALSE, enable |-> FALSE, skip |-> FALSE,
     ca |-> 0, id |-> 0]

NoRun == Command("none", FALSE)

Subcommands == {"setup", "wizard", "mtls", "samples", "admin-client", "config", "install"}

(* Only setup, by its flag or in the wizard, also installs the service. *)
ASSUME CommandsAssumption ==
    /\ Commands \subseteq [cmd : Subcommands, force : BOOLEAN, systemd : BOOLEAN,
                           enable : BOOLEAN, skip : BOOLEAN, ca : {0}, id : {0}]
    /\ \A c \in Commands : c.systemd => c.cmd \in {"setup", "wizard"}
    /\ Root \in BOOLEAN /\ HasUser \in BOOLEAN

(* the outputs of GenerateMTLS, in the order of its writes; the samples    *)
(* are left out by setup and by mtls --skip-samples                        *)
MTLSFiles == <<"ca.crt", "ca.key", "server.crt", "server.key",
               "admin-client.crt", "admin-client.key">>
AdminFiles == <<"admin-client.crt", "admin-client.key">>
SampleFiles == <<"client.crt", "client.key">>

GeneratesCA(c) == c.cmd \in {"setup", "wizard", "mtls", "samples"}

Outputs(c) ==
    (IF GeneratesCA(c) THEN MTLSFiles ELSE IF c.cmd = "admin-client" THEN AdminFiles ELSE <<>>)
    \o (IF c.cmd = "samples" THEN SampleFiles ELSE <<>>)

(* InstallProxySystemd *)
InstallProxySystemd == <<"user", "perms", "unit">>

(* Run: the PKI, proxy.yml, and on request the service, which is prepared  *)
(* by a pass over the permissions of its own                               *)
Plan(c) ==
    Outputs(c)
    \o (IF c.cmd \in {"setup", "wizard", "config"} THEN <<"proxy.yml">> ELSE <<>>)
    \o (IF c.systemd THEN <<"perms">> \o InstallProxySystemd ELSE <<>>)
    \o (IF c.cmd = "install" THEN InstallProxySystemd ELSE <<>>)

(* force := opts.Force || opts.RewriteConfig, and the wizard sets the latter *)
Forced(c) == c.force \/ c.cmd = "wizard"

Running == todo # <<>>
At(step) == Running /\ Head(todo) = step

Proceed ==
    /\ todo' = Tail(todo)
    /\ outcome' = IF Len(todo) = 1 THEN "ok" ELSE outcome

Fail == todo' = <<>> /\ outcome' = "failed"

Init ==
    /\ disk = [f \in Files |-> NoFile]
    /\ tmp = {}
    /\ user = HasUser
    /\ unit = "none"
    /\ gen = 0
    /\ run = NoRun
    /\ todo = <<>>
    /\ outcome = "none"
    /\ kills = 0
    /\ svc = [st |-> "off", ca |-> 0, crt |-> 0, sca |-> 0, skey |-> 0]

-----------------------------------------------------------------------------
(* the mutated form: only a complete set of files is refused *)
RefusedIfComplete(c) ==
    ~Forced(c) /\ Outputs(c) # <<>> /\ \A i \in DOMAIN Outputs(c) : Exists(Outputs(c)[i])

(* Without force GenerateMTLS and GenerateAdminClient refuse if any of     *)
(* their outputs exists.                                                   *)
Refused(c) == ~Forced(c) /\ \E i \in DOMAIN Outputs(c) : Exists(Outputs(c)[i])

(* loadCAKeyPair and CreateCertificate: the CA key is that of the CA *)
CAUsable == Exists("ca.crt") /\ Exists("ca.key") /\ disk["ca.crt"].key = disk["ca.key"].key

(* The id of a new admin key made outside a generation: any that no file   *)
(* of the pair has.                                                        *)
FreshAdminKey ==
    CHOOSE i \in {-1, -2, -3} : \A n \in DOMAIN AdminFiles : disk[AdminFiles[n]].key # i

(* A command line is started.  One operator works on the host, so commands *)
(* do not overlap.                                                         *)
Begin(c) ==
    /\ ~Running
    /\ c.systemd \/ c.cmd = "install" => Root
    /\ IF Refused(c) \/ (c.cmd = "admin-client" /\ ~CAUsable)
         THEN /\ outcome' = IF Refused(c) THEN "refused" ELSE "failed"
              /\ run' = c
              /\ UNCHANGED <<todo, gen>>
         ELSE /\ GeneratesCA(c) => gen < MaxGen
              /\ gen' = IF GeneratesCA(c) THEN gen + 1 ELSE gen
              /\ run' = IF GeneratesCA(c)
                          THEN [c EXCEPT !.ca = gen + 1, !.id = gen + 1]
                          ELSE [c EXCEPT !.ca = disk["ca.crt"].key, !.id = FreshAdminKey]
              /\ todo' = Plan(c)
              /\ outcome' = "running"
    /\ UNCHANGED <<disk, tmp, user, unit, kills, svc>>

(* the mutated form: the temporary file must not be there yet *)
WritableNew(f) == f \notin tmp

(* os.WriteFile on a temporary file that a killed run left: its mode is    *)
(* that of the file, 0400 for the two server keys, and only root may open  *)
(* it for writing.                                                         *)
Writable(f) == f \in tmp /\ f \in {"ca.key", "server.key"} => Root

(* the mutated form: a key that is there is kept *)
WrittenKeepingKeys(f) ==
    IF f \in Keys /\ Exists(f) THEN disk[f]
    ELSE [by |-> IF f \in Certs THEN run.ca ELSE 0, key |-> run.id, rd |-> f \in Certs \/ ~Root]

(* what writePair writes; the keys of root are for root alone *)
Written(f) ==
    [by |-> IF f \in Certs THEN run.ca ELSE 0, key |-> run.id, rd |-> f \in Certs \/ ~Root]

(* writeFileAtomic: one file of writePair *)
WriteFileAtomic(f) ==
    /\ At(f)
    /\ IF Writable(f)
         THEN /\ disk' = [disk EXCEPT ![f] = Written(f)]
              /\ tmp' = tmp \ {f}
              /\ Proceed
         ELSE Fail /\ UNCHANGED <<disk, tmp>>
    /\ UNCHANGED <<user, unit, gen, run, kills, svc>>

(* WriteProxyConfig: mode 0600, then chownProxyConfig, which does nothing  *)
(* while the service user does not exist and fails for others than root.   *)
WriteProxyConfig ==
    /\ At("proxy.yml")
    /\ IF Exists("proxy.yml") /\ ~Forced(run)
         THEN Fail /\ UNCHANGED <<disk, tmp>>
         ELSE /\ disk' = [disk EXCEPT !["proxy.yml"] =
                             [by |-> 0, key |-> 1, rd |-> ~Root \/ (user /\ run.cmd # "config")]]
              /\ tmp' = tmp \ {"proxy.yml"}
              /\ IF user /\ ~Root /\ run.cmd # "config" THEN Fail ELSE Proceed
    /\ UNCHANGED <<user, unit, gen, run, kills, svc>>

(* the mutated form: ca.key is left as it is *)
ReadableServerKey(f) == disk[f].rd \/ f = "server.key"

(* the modes that EnsureCertPermissions sets *)
ReadableKeys(f) == disk[f].rd \/ f \in {"ca.key", "server.key"}

(* EnsureCertPermissions: an error while the group does not exist *)
EnsureCertPermissions ==
    /\ At("perms")
    /\ IF user
         THEN /\ disk' = [f \in Files |->
                            IF Exists(f) THEN [disk[f] EXCEPT !.rd = ReadableKeys(f)] ELSE disk[f]]
              /\ Proceed
         ELSE Fail /\ UNCHANGED disk
    /\ UNCHANGED <<tmp, user, unit, gen, run, kills, svc>>

(* prepareServiceUser, its first part *)
PrepareServiceUser ==
    /\ At("user")
    /\ IF ~user /\ run.skip THEN Fail /\ UNCHANGED user
       ELSE Proceed /\ user' = TRUE
    /\ UNCHANGED <<disk, tmp, unit, gen, run, kills, svc>>

(* EnsureDefaultProxyConfig, then the unit file and systemctl *)
WriteUnit ==
    /\ At("unit")
    /\ IF Exists("proxy.yml")
         THEN /\ unit' = IF run.enable \/ unit = "enabled" THEN "enabled" ELSE "written"
              /\ Proceed
         ELSE Fail /\ UNCHANGED unit
    /\ UNCHANGED <<disk, tmp, user, gen, run, kills, svc>>

(* The command is killed; inside a write its temporary file stays. *)
Kill ==
    /\ Running
    /\ kills < MaxKills
    /\ kills' = kills + 1
    /\ todo' = <<>>
    /\ outcome' = "killed"
    /\ \E t \in SUBSET ({Head(todo)} \cap Files) : tmp' = tmp \cup t
    /\ UNCHANGED <<disk, user, unit, gen, run, svc>>

-----------------------------------------------------------------------------
(* luna-proxy serve under systemd, as the service user *)

(* os.ReadFile succeeds *)
Readable(f) == Exists(f) /\ disk[f].rd

(* config.Load: a missing proxy.yml is no error, an unreadable one is *)
ConfigLoads == Exists("proxy.yml") => disk["proxy.yml"].rd

(* LoadTLSConfig: LoadX509KeyPair wants the key of the certificate *)
TLSLoads ==
    /\ \A f \in {"ca.crt", "server.crt", "server.key"} : Readable(f)
    /\ disk["server.crt"].key = disk["server.key"].key

(* runServe, up to LoadTLSConfig; Restart=on-failure tries again *)
ServeTLS ==
    /\ unit = "enabled" /\ user
    /\ svc.st = "off"
    /\ ConfigLoads /\ TLSLoads
    /\ svc' = [svc EXCEPT !.st = "tls", !.ca = disk["ca.crt"].key, !.crt = disk["server.crt"].by]
    /\ UNCHANGED hostvars

(* NewCSRSignerFromConfig reads ca.crt again, and ca.key; it does not      *)
(* compare them.  Then the proxy listens.                                  *)
ServeCSRSigner ==
    /\ svc.st = "tls"
    /\ svc' = IF Readable("ca.crt") /\ Readable("ca.key")
                THEN [svc EXCEPT !.st = "up", !.sca = disk["ca.crt"].key,
                                 !.skey = disk["ca.key"].key]
                ELSE [svc EXCEPT !.st = "off"]
    /\ UNCHANGED hostvars

(* The process ends: systemctl restart, or a crash *)
ServeEnds ==
    /\ svc.st # "off"
    /\ svc' = [svc EXCEPT !.st = "off"]
    /\ UNCHANGED hostvars

Step ==
    \/ \E f \in Certs \cup Keys : WriteFileAtomic(f)
    \/ WriteProxyConfig
    \/ EnsureCertPermissions
    \/ PrepareServiceUser
    \/ WriteUnit

Next ==
    \/ \E c \in Commands : Begin(c)
    \/ Step
    \/ Kill
    \/ ServeTLS
    \/ ServeCSRSigner
    \/ ServeEnds

Spec == Init /\ [][Next]_vars

(* A started command goes on, and systemd starts the service again and     *)
(* again until it is up.                                                   *)
FairSpec == Spec /\ WF_vars(Step) /\ WF_vars(ServeTLS) /\ SF_vars(ServeCSRSigner)

-----------------------------------------------------------------------------
(* After a command that generates a PKI has succeeded, whatever runs were  *)
(* killed before it and whatever they left, every pair on disk is a pair   *)
(* and every certificate is signed by the CA on disk (GenerateMTLS).       *)
CompletePKI ==
    outcome = "ok" /\ GeneratesCA(run) =>
        /\ CAUsable
        /\ disk["server.crt"].key = disk["server.key"].key
        /\ disk["admin-client.crt"].key = disk["admin-client.key"].key
        /\ \A f \in {"server.crt", "admin-client.crt"} : disk[f].by = disk["ca.crt"].key

(* A command that was not told to overwrite never replaces a file, however *)
(* far earlier commands got: GenerateMTLS, GenerateAdminClient and         *)
(* WriteProxyConfig refuse instead, also part of a set.                    *)
NothingOverwritten ==
    [][~Forced(run) /\ Running =>
         \A f \in Files : Exists(f) =>
             disk'[f].by = disk[f].by /\ disk'[f].key = disk[f].key]_vars

(* With --force the PKI is always generated anew, wherever earlier runs    *)
(* were killed (GenerateMTLS and writeFileAtomic): such a run is not       *)
(* refused and does not fail.                                              *)
ForceCompletes ==
    run.force /\ run.cmd \in {"mtls", "samples"} => outcome \notin {"refused", "failed"}

(* A setup that installed and enabled the service leaves files the service *)
(* user can read and that fit together, so the service comes up (Run, then *)
(* EnsureCertPermissions and InstallProxySystemd, then runServe).          *)
EnabledBySetup == outcome = "ok" /\ run.systemd /\ run.enable
ServiceComesUp == EnabledBySetup ~> (svc.st = "up" \/ ~EnabledBySetup)
=============================================================================
