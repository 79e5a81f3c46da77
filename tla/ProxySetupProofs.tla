-------------------------- MODULE ProxySetupProofs --------------------------
(***************************************************************************)
(* Proofs about the proxy host (ProxySetup), for any command lines, any    *)
(* number of them and of kills, run as root or not.                        *)
(*                                                                         *)
(* A command is the list of steps it has still to make.  Of every list     *)
(* that Plan makes two things matter: which files it writes, and that it   *)
(* writes each of them once.  The invariant says what follows for the      *)
(* files no longer on the list (they belong to the new PKI) and for those  *)
(* still on it (without force they are not there yet).                     *)
(***************************************************************************)
EXTENDS ProxySetup, SequenceTheorems, TLAPS

Pairs == Certs \cup Keys
Steps == Files \cup {"user", "perms", "unit"}

(* The steps of a list, and that it has no file of a pair twice *)
Elems(s) == {s[i] : i \in 1..Len(s)}
NoRepeat(s) == \A i, j \in 1..Len(s) : i < j /\ s[i] = s[j] => s[i] \notin Pairs

-----------------------------------------------------------------------------
(* Lists of steps *)

(* The first step is done, the others remain. *)
LEMMA TailSteps ==
  ASSUME NEW s \in Seq(Steps), s # <<>>, NoRepeat(s)
  PROVE  /\ Tail(s) \in Seq(Steps) /\ NoRepeat(Tail(s)) /\ Head(s) \in Steps
         /\ Elems(s) = {Head(s)} \cup Elems(Tail(s))
         /\ Head(s) \in Pairs => Head(s) \notin Elems(Tail(s))
         /\ Len(s) = 1 => Elems(Tail(s)) = {}
  <1>1. /\ Tail(s) \in Seq(Steps) /\ Len(Tail(s)) = Len(s) - 1 /\ Len(s) \in Nat \ {0}
        /\ Head(s) = s[1] /\ Head(s) \in Steps
        /\ \A i \in 1..Len(Tail(s)) : Tail(s)[i] = s[i + 1] /\ i + 1 \in 1..Len(s)
    OBVIOUS
  <1>2. NoRepeat(Tail(s))
    BY <1>1 DEF NoRepeat
  <1>3. ASSUME NEW x \in Elems(s) PROVE x = Head(s) \/ x \in Elems(Tail(s))
    <2>1. PICK i \in 1..Len(s) : x = s[i]
      BY DEF Elems
    <2>2. CASE i = 1
      BY <1>1, <2>1, <2>2
    <2>3. CASE i # 1
      <3>1. i - 1 \in 1..Len(Tail(s)) /\ Tail(s)[i - 1] = x
        BY <1>1, <2>1, <2>3
      <3> QED
        BY <3>1 DEF Elems
    <2> QED
      BY <2>2, <2>3
  <1>4. Head(s) \in Elems(s) /\ Elems(Tail(s)) \subseteq Elems(s)
    BY <1>1 DEF Elems
  <1>5. Elems(s) = {Head(s)} \cup Elems(Tail(s))
    BY <1>3, <1>4
  <1>6. Head(s) \in Pairs => Head(s) \notin Elems(Tail(s))
    BY <1>1 DEF Elems, NoRepeat
  <1>7. Len(s) = 1 => Elems(Tail(s)) = {}
    BY <1>1 DEF Elems
  <1> QED
    BY <1>1, <1>2, <1>5, <1>6, <1>7

(* One list after another *)
LEMMA ConcatSteps ==
  ASSUME NEW s \in Seq(Steps), NEW t \in Seq(Steps), NoRepeat(s), NoRepeat(t),
         Elems(s) \cap Elems(t) \cap Pairs = {}
  PROVE  /\ s \o t \in Seq(Steps) /\ NoRepeat(s \o t)
         /\ Elems(s \o t) = Elems(s) \cup Elems(t)
  <1>1. /\ s \o t \in Seq(Steps) /\ Len(s \o t) = Len(s) + Len(t)
        /\ Len(s) \in Nat /\ Len(t) \in Nat
        /\ \A i \in 1..Len(s) : (s \o t)[i] = s[i]
        /\ \A i \in 1..Len(t) : (s \o t)[Len(s) + i] = t[i]
    OBVIOUS
  <1> DEFINE u == s \o t
  <1> HIDE DEF u
  <1>2. ASSUME NEW i \in 1..Len(u)
        PROVE  \/ i \in 1..Len(s) /\ u[i] = s[i]
               \/ i > Len(s) /\ i - Len(s) \in 1..Len(t) /\ u[i] = t[i - Len(s)]
    <2>1. CASE i <= Len(s)
      BY <1>1, <2>1 DEF u
    <2>2. CASE i > Len(s)
      <3>1. i - Len(s) \in 1..Len(t) /\ i = Len(s) + (i - Len(s))
        BY <1>1, <2>2 DEF u
      <3> QED
        BY <1>1, <2>2, <3>1 DEF u
    <2> QED
      BY <1>1, <2>1, <2>2 DEF u
  <1>3. Elems(u) \subseteq Elems(s) \cup Elems(t)
    BY <1>2 DEF Elems
  <1>4. Elems(s) \cup Elems(t) \subseteq Elems(u)
    <2>1. \A i \in 1..Len(s) : i \in 1..Len(u) /\ u[i] = s[i]
      BY <1>1 DEF u
    <2>2. \A i \in 1..Len(t) : Len(s) + i \in 1..Len(u) /\ u[Len(s) + i] = t[i]
      BY <1>1 DEF u
    <2> QED
      BY <2>1, <2>2 DEF Elems
  <1>5. ASSUME NEW i \in 1..Len(u), NEW j \in 1..Len(u), i < j, u[i] = u[j]
        PROVE  u[i] \notin Pairs
    <2>1. CASE j \in 1..Len(s) /\ u[j] = s[j]
      <3>1. i \in 1..Len(s) /\ u[i] = s[i]
        BY <1>1, <1>5, <2>1 DEF u
      <3> QED
        BY <1>5, <2>1, <3>1 DEF NoRepeat
    <2>2. CASE j > Len(s) /\ j - Len(s) \in 1..Len(t) /\ u[j] = t[j - Len(s)]
      <3>1. CASE i \in 1..Len(s) /\ u[i] = s[i]
        BY <1>5, <2>2, <3>1 DEF Elems
      <3>2. CASE i > Len(s) /\ i - Len(s) \in 1..Len(t) /\ u[i] = t[i - Len(s)]
        <4>1. i - Len(s) < j - Len(s)
          BY <1>1, <1>5
        <4> QED
          BY <1>5, <2>2, <3>2, <4>1, SMTT(20) DEF NoRepeat
      <3> QED
        BY <1>2, <3>1, <3>2
    <2> QED
      BY <1>2, <2>1, <2>2
  <1>6. NoRepeat(u)
    BY <1>5 DEF NoRepeat
  <1> QED
    BY <1>1, <1>3, <1>4, <1>6 DEF u

(* The lists that Plan puts together *)
LEMMA PartSteps ==
  /\ <<>> \in Seq(Steps) /\ NoRepeat(<<>>) /\ Elems(<<>>) = {}
  /\ MTLSFiles \in Seq(Steps) /\ NoRepeat(MTLSFiles)
  /\ Elems(MTLSFiles) = {"ca.crt", "ca.key", "server.crt", "server.key",
                         "admin-client.crt", "admin-client.key"}
  /\ AdminFiles \in Seq(Steps) /\ NoRepeat(AdminFiles)
  /\ Elems(AdminFiles) = {"admin-client.crt", "admin-client.key"}
  /\ SampleFiles \in Seq(Steps) /\ NoRepeat(SampleFiles)
  /\ Elems(SampleFiles) = {"client.crt", "client.key"}
  /\ <<"proxy.yml">> \in Seq(Steps) /\ NoRepeat(<<"proxy.yml">>)
  /\ Elems(<<"proxy.yml">>) = {"proxy.yml"}
  /\ <<"perms">> \in Seq(Steps) /\ NoRepeat(<<"perms">>) /\ Elems(<<"perms">>) = {"perms"}
  /\ InstallProxySystemd \in Seq(Steps) /\ NoRepeat(InstallProxySystemd)
  /\ Elems(InstallProxySystemd) = {"user", "perms", "unit"}
  <1> USE DEF NoRepeat, Elems, Steps, Files, Pairs, Certs, Keys
  <1>1. <<>> \in Seq(Steps) /\ NoRepeat(<<>>) /\ Elems(<<>>) = {}
    OBVIOUS
  <1>2. MTLSFiles \in Seq(Steps) /\ NoRepeat(MTLSFiles)
    BY DEF MTLSFiles
  <1>3. Elems(MTLSFiles) = {"ca.crt", "ca.key", "server.crt", "server.key",
                            "admin-client.crt", "admin-client.key"}
    BY DEF MTLSFiles
  <1>4. AdminFiles \in Seq(Steps) /\ NoRepeat(AdminFiles)
        /\ Elems(AdminFiles) = {"admin-client.crt", "admin-client.key"}
    BY DEF AdminFiles
  <1>5. SampleFiles \in Seq(Steps) /\ NoRepeat(SampleFiles)
        /\ Elems(SampleFiles) = {"client.crt", "client.key"}
    BY DEF SampleFiles
  <1>6. <<"proxy.yml">> \in Seq(Steps) /\ NoRepeat(<<"proxy.yml">>)
        /\ Elems(<<"proxy.yml">>) = {"proxy.yml"}
    OBVIOUS
  <1>7. <<"perms">> \in Seq(Steps) /\ NoRepeat(<<"perms">>) /\ Elems(<<"perms">>) = {"perms"}
    OBVIOUS
  <1>8. InstallProxySystemd \in Seq(Steps) /\ NoRepeat(InstallProxySystemd)
        /\ Elems(InstallProxySystemd) = {"user", "perms", "unit"}
    BY DEF InstallProxySystemd
  <1> QED
    BY <1>1, <1>2, <1>3, <1>4, <1>5, <1>6, <1>7, <1>8, Zenon
-----------------------------------------------------------------------------
(* What a command writes *)

Lines == [cmd : Subcommands, force : BOOLEAN, systemd : BOOLEAN, enable : BOOLEAN,
          skip : BOOLEAN, ca : Int, id : Int]
PKIFiles == {"ca.crt", "ca.key", "server.crt", "server.key",
             "admin-client.crt", "admin-client.key"}

(* The outputs are files of pairs, a whole PKI among them when one is made. *)
LEMMA OutputSteps ==
  ASSUME NEW c \in Lines
  PROVE  /\ Outputs(c) \in Seq(Steps) /\ NoRepeat(Outputs(c))
         /\ Elems(Outputs(c)) \subseteq Pairs
         /\ GeneratesCA(c) => PKIFiles \subseteq Elems(Outputs(c))
  <1> DEFINE s == IF GeneratesCA(c) THEN MTLSFiles
                  ELSE IF c.cmd = "admin-client" THEN AdminFiles ELSE <<>>
             t == IF c.cmd = "samples" THEN SampleFiles ELSE <<>>
  <1>1. /\ s \in Seq(Steps) /\ NoRepeat(s) /\ Elems(s) \subseteq PKIFiles
        /\ GeneratesCA(c) => Elems(s) = PKIFiles
    BY PartSteps DEF PKIFiles
  <1>2. t \in Seq(Steps) /\ NoRepeat(t) /\ Elems(t) \subseteq {"client.crt", "client.key"}
    BY PartSteps
  <1>3. Outputs(c) = s \o t
    BY DEF Outputs
  <1> HIDE DEF s, t
  <1>4. Elems(s) \cap Elems(t) \cap Pairs = {}
    BY <1>1, <1>2 DEF PKIFiles
  <1>5. Outputs(c) \in Seq(Steps) /\ NoRepeat(Outputs(c)) /\ Elems(Outputs(c)) = Elems(s) \cup Elems(t)
    BY <1>1, <1>2, <1>3, <1>4, ConcatSteps
  <1> QED
    BY <1>1, <1>2, <1>5 DEF PKIFiles, Pairs, Certs, Keys

(* A command writes each of its outputs once and no other file of a pair,  *)
(* and mtls writes nothing else.                                           *)
LEMMA PlanSteps ==
  ASSUME NEW c \in Lines, c.systemd => c.cmd \in {"setup", "wizard"}
  PROVE  /\ Plan(c) \in Seq(Steps) /\ NoRepeat(Plan(c))
         /\ Elems(Plan(c)) \cap Pairs = Elems(Outputs(c))
         /\ c.cmd \in {"mtls", "samples"} => Elems(Plan(c)) \subseteq Pairs
  <1> DEFINE s == Outputs(c)
             t == IF c.cmd \in {"setup", "wizard", "config"} THEN <<"proxy.yml">> ELSE <<>>
             u == IF c.systemd THEN <<"perms">> \o InstallProxySystemd ELSE <<>>
             v == IF c.cmd = "install" THEN InstallProxySystemd ELSE <<>>
             Rest == {"proxy.yml", "user", "perms", "unit"}
             Extra(x) == x \in Seq(Steps) /\ NoRepeat(x) /\ Elems(x) \subseteq Rest
                         /\ (c.cmd \in {"mtls", "samples"} => Elems(x) = {})
  <1>1. Rest \cap Pairs = {}
    BY DEF Pairs, Certs, Keys
  <1>2. Extra(t) /\ Extra(v)
    BY PartSteps
  <1>3. Extra(u)
    <2>1. Elems(<<"perms">>) \cap Elems(InstallProxySystemd) \cap Pairs = {}
      BY PartSteps DEF Pairs, Certs, Keys
    <2>2. LET x == <<"perms">> \o InstallProxySystemd
          IN  x \in Seq(Steps) /\ NoRepeat(x) /\ Elems(x) = {"perms"} \cup {"user", "perms", "unit"}
      BY <2>1, PartSteps, ConcatSteps, ZenonT(30)
    <2> QED
      BY <2>2, PartSteps
  <1>4. Plan(c) = ((s \o t) \o u) \o v
    BY DEF Plan
  <1> HIDE DEF s, t, u, v
  <1>5. s \in Seq(Steps) /\ NoRepeat(s) /\ Elems(s) \subseteq Pairs
    BY OutputSteps DEF s
  <1>6. s \o t \in Seq(Steps) /\ NoRepeat(s \o t) /\ Elems(s \o t) = Elems(s) \cup Elems(t)
    BY <1>1, <1>2, <1>5, ConcatSteps
  <1>7. /\ (s \o t) \o u \in Seq(Steps) /\ NoRepeat((s \o t) \o u)
        /\ Elems((s \o t) \o u) = Elems(s) \cup Elems(t) \cup Elems(u)
    <2>1. Elems(s \o t) \cap Elems(u) \cap Pairs = {}
      BY <1>1, <1>3
    <2> QED
      BY <1>3, <1>6, <2>1, ConcatSteps, Zenon
  <1>8. /\ Plan(c) \in Seq(Steps) /\ NoRepeat(Plan(c))
        /\ Elems(Plan(c)) = Elems(s) \cup Elems(t) \cup Elems(u) \cup Elems(v)
    <2> DEFINE w == (s \o t) \o u
    <2>1. w \in Seq(Steps) /\ NoRepeat(w) /\ Plan(c) = w \o v
      BY <1>4, <1>7
    <2>2. Elems(w) = Elems(s) \cup Elems(t) \cup Elems(u)
      BY <1>7
    <2> HIDE DEF w
    <2>3. Elems(w) \cap Elems(v) \cap Pairs = {}
      BY <1>1, <1>2
    <2>4. /\ w \o v \in Seq(Steps) /\ NoRepeat(w \o v)
          /\ Elems(w \o v) = Elems(w) \cup Elems(v)
      BY <1>2, <2>1, <2>3, ConcatSteps
    <2> QED
      BY <2>1, <2>2, <2>4
  <1>9. Elems(Plan(c)) \cap Pairs = Elems(s)
    BY <1>1, <1>2, <1>3, <1>5, <1>8
  <1>10. c.cmd \in {"mtls", "samples"} => Elems(Plan(c)) \subseteq Pairs
    BY <1>2, <1>3, <1>5, <1>8
  <1> QED
    BY <1>8, <1>9, <1>10 DEF s
-----------------------------------------------------------------------------
(* The invariant *)

Contents == [by : Int, key : Int, rd : BOOLEAN]
Runs == [cmd : Subcommands \cup {"none"}, force : BOOLEAN, systemd : BOOLEAN,
         enable : BOOLEAN, skip : BOOLEAN, ca : Int, id : Int]

TypeOK ==
    /\ disk \in [Files -> Contents]
    /\ gen \in Nat
    /\ run \in Runs
    /\ todo \in Seq(Steps)

(* The steps that remain are those of a running command. *)
ListInv ==
    /\ NoRepeat(todo)
    /\ Running => outcome = "running"
    /\ outcome = "ok" => Elems(todo) = {}

(* A file of the PKI has still to be written, or is the new one. *)
NewPKI ==
    GeneratesCA(run) /\ outcome \in {"running", "ok"} =>
        /\ run.ca = run.id /\ run.id # 0
        /\ \A f \in PKIFiles :
              f \in Elems(todo) \/ (disk[f].key = run.id /\ (f \in Certs => disk[f].by = run.id))

(* Without force, the files of pairs still to be written are not there. *)
NotThereYet == Running /\ ~Forced(run) => \A f \in Elems(todo) \cap Pairs : ~Exists(f)

(* A forced PKI is all that its command writes, and it does not fail. *)
ForcedPKI ==
    run.force /\ run.cmd \in {"mtls", "samples"} =>
        Elems(todo) \subseteq Pairs /\ (Root => outcome \notin {"refused", "failed"})

HostInv == TypeOK /\ ListInv /\ NewPKI /\ NotThereYet /\ ForcedPKI

Keeps(f) == disk'[f].by = disk[f].by /\ disk'[f].key = disk[f].key
IsForcedPKI(c) == c.force /\ c.cmd \in {"mtls", "samples"}

(* A step that ends well: of the files of pairs it changes at most the one *)
(* it is about, which then belongs to the run.                             *)
LEMMA ProceedInv ==
  ASSUME HostInv, Running, Proceed, run' = run, gen' = gen, disk' \in [Files -> Contents],
         \A f \in Pairs : f # Head(todo) => Keeps(f),
         \A f \in Pairs : f = Head(todo) =>
             disk'[f].key = run.id /\ (f \in Certs => disk'[f].by = run.ca)
  PROVE  HostInv'
  <1>1. /\ Tail(todo) \in Seq(Steps) /\ NoRepeat(Tail(todo))
        /\ Elems(todo) = {Head(todo)} \cup Elems(Tail(todo))
        /\ Head(todo) \in Pairs => Head(todo) \notin Elems(Tail(todo))
        /\ Len(todo) = 1 => Elems(Tail(todo)) = {}
    BY TailSteps DEF HostInv, TypeOK, ListInv, Running
  <1>2. /\ todo' = Tail(todo) /\ outcome = "running"
        /\ \/ outcome' = "ok" /\ Len(todo) = 1
           \/ outcome' = "running" /\ Len(todo) # 1
    BY DEF Proceed, HostInv, ListInv
  <1>3. TypeOK'
    BY <1>1, <1>2 DEF HostInv, TypeOK
  <1>4. ListInv'
    <2>1. Len(todo) = 1 => Tail(todo) = <<>>
      <3>1. todo \in Seq(Steps) /\ todo # <<>>
        BY DEF HostInv, TypeOK, Running
      <3>2. Len(Tail(todo)) = Len(todo) - 1
        BY <3>1, HeadTailProperties
      <3>3. Tail(todo) # <<>> => Len(Tail(todo)) # 0
        <4> DEFINE rest == Tail(todo)
        <4>1. rest \in Seq(Steps)
          BY <1>1
        <4> HIDE DEF rest
        <4>2. rest # <<>> => Len(rest) \in Nat \ {0}
          BY <4>1, EmptySeq, Zenon
        <4>3. rest # <<>> => Len(rest) # 0
          BY <4>2
        <4> QED
          BY <4>3 DEF rest
      <3> DEFINE n == Len(Tail(todo))
      <3>4. Len(todo) = 1 => n = 0
        BY <3>2
      <3> QED
        BY <3>3, <3>4, Zenon
    <2>2. Running' => outcome' = "running"
      BY <1>2, <2>1 DEF Running
    <2>3. NoRepeat(todo')
      BY <1>1, <1>2
    <2>4. outcome' = "ok" => Elems(todo') = {}
      BY <1>1, <1>2
    <2> QED
      BY <2>2, <2>3, <2>4 DEF ListInv, NoRepeat, Elems, Running
  <1>5. NewPKI'
    <2> SUFFICES ASSUME GeneratesCA(run)
                 PROVE  /\ run.ca = run.id /\ run.id # 0
                        /\ \A f \in PKIFiles :
                              \/ f \in Elems(todo')
                              \/ disk'[f].key = run.id /\ (f \in Certs => disk'[f].by = run.id)
      BY DEF NewPKI, GeneratesCA, Elems
    <2>1. /\ run.ca = run.id /\ run.id # 0
          /\ \A f \in PKIFiles :
                \/ f \in Elems(todo)
                \/ disk[f].key = run.id /\ (f \in Certs => disk[f].by = run.id)
      BY <1>2 DEF HostInv, NewPKI
    <2>2. PKIFiles \subseteq Pairs
      BY DEF PKIFiles, Pairs, Certs, Keys
    <2> QED
      BY <1>1, <1>2, <2>1, <2>2 DEF Keeps
  <1>6. NotThereYet'
    <2> SUFFICES ASSUME ~Forced(run), NEW f \in Elems(todo') \cap Pairs
                 PROVE  disk'[f].key = 0
      BY DEF NotThereYet, Forced, Exists, Elems
    <2>1. f \in Elems(todo) /\ f # Head(todo)
      BY <1>1, <1>2
    <2>2. disk[f].key = 0
      BY <2>1 DEF HostInv, NotThereYet, Exists
    <2> QED
      BY <2>1, <2>2 DEF Keeps
  <1>7. ForcedPKI'
    <2>1. Elems(todo') \subseteq Elems(todo) /\ outcome' \notin {"refused", "failed"}
      BY <1>1, <1>2
    <2> QED
      BY <2>1 DEF HostInv, ForcedPKI, Elems
  <1> QED
    BY <1>3, <1>4, <1>5, <1>6, <1>7 DEF HostInv

(* A step that fails, and a killed command, leave no steps; the files of   *)
(* pairs no longer matter.                                                 *)
LEMMA StopInv ==
  ASSUME HostInv, todo' = <<>>, outcome' \in {"failed", "killed"}, run' = run, gen' = gen,
         disk' \in [Files -> Contents],
         Root /\ IsForcedPKI(run) => outcome' # "failed"
  PROVE  HostInv'
  <1>1. Elems(<<>>) = {} /\ NoRepeat(<<>>) /\ <<>> \in Seq(Steps)
    BY PartSteps
  <1>2. TypeOK'
    BY <1>1 DEF HostInv, TypeOK
  <1>3. ListInv'
    BY <1>1 DEF ListInv, Running, NoRepeat, Elems
  <1>4. NewPKI' /\ NotThereYet'
    BY DEF NewPKI, NotThereYet, Running
  <1>5. ForcedPKI'
    <2>1. Elems(todo') = {}
      BY <1>1
    <2> QED
      BY <2>1 DEF ForcedPKI, IsForcedPKI, Elems
  <1> QED
    BY <1>2, <1>3, <1>4, <1>5 DEF HostInv

(* The head of the list of a forced PKI is a file of a pair. *)
LEMMA ForcedHead ==
  ASSUME HostInv, Running, IsForcedPKI(run)
  PROVE  Head(todo) \in Pairs
  <1>1. Head(todo) \in Elems(todo)
    BY TailSteps DEF HostInv, TypeOK, ListInv, Running
  <1> QED
    BY <1>1 DEF HostInv, ForcedPKI, IsForcedPKI
-----------------------------------------------------------------------------
(* Every step keeps it *)

(* On a fresh host nothing runs and nothing is there. *)
LEMMA InitHost == Init => HostInv
  <1> SUFFICES ASSUME Init PROVE HostInv
    OBVIOUS
  <1>1. Elems(<<>>) = {} /\ NoRepeat(<<>>) /\ <<>> \in Seq(Steps)
    BY PartSteps
  <1>2. TypeOK
    BY <1>1 DEF Init, TypeOK, NoFile, Contents, NoRun, Command, Runs
  <1>3. ListInv /\ NotThereYet
    BY <1>1 DEF Init, ListInv, NotThereYet, Running
  <1>4. NewPKI /\ ForcedPKI
    BY <1>1 DEF Init, NewPKI, ForcedPKI, NoRun, Command
  <1> QED
    BY <1>2, <1>3, <1>4 DEF HostInv

(* The id of a new admin key: two files take at most two of the three. *)
LEMMA FreshKey == FreshAdminKey \in {-1, -2, -3}
  <1> DEFINE P(i) == \A n \in DOMAIN AdminFiles : disk[AdminFiles[n]].key # i
             a == disk["admin-client.crt"].key
             b == disk["admin-client.key"].key
  <1>1. \A i : P(i) <=> a # i /\ b # i
    BY DEF AdminFiles
  <1> HIDE DEF P
  <1>2. \E i \in {-1, -2, -3} : P(i)
    <2> HIDE DEF a, b
    <2>1. CASE a # -1 /\ b # -1
      BY <1>1, <2>1
    <2>2. CASE a # -2 /\ b # -2
      BY <1>1, <2>2
    <2>3. CASE a # -3 /\ b # -3
      BY <1>1, <2>3
    <2> QED
      BY <2>1, <2>2, <2>3
  <1>3. FreshAdminKey = CHOOSE i \in {-1, -2, -3} : P(i)
    BY DEF FreshAdminKey, P
  <1> QED
    BY <1>2, <1>3

(* A command that starts has all its files still to write: the new PKI is  *)
(* on its list, and without force none of its outputs is there.            *)
LEMMA BeginInv ==
  ASSUME HostInv, NEW c \in Commands, Begin(c)
  PROVE  HostInv'
  <1>1. /\ c \in Lines /\ c \in Runs
        /\ c.systemd => c.cmd \in {"setup", "wizard"}
    BY CommandsAssumption DEF Lines, Runs
  <1>2. todo = <<>> /\ disk' = disk
    BY DEF Begin, Running
  <1>3. Elems(<<>>) = {} /\ NoRepeat(<<>>) /\ <<>> \in Seq(Steps)
    BY PartSteps
  <1>4. CASE Refused(c) \/ (c.cmd = "admin-client" /\ ~CAUsable)
    <2>1. run' = c /\ todo' = <<>> /\ gen' = gen /\ outcome' \in {"refused", "failed"}
      BY <1>2, <1>4 DEF Begin
    <2>2. ~IsForcedPKI(c)
      BY <1>4 DEF Refused, Forced, IsForcedPKI
    <2>3. TypeOK'
      BY <1>1, <1>2, <1>3, <2>1 DEF HostInv, TypeOK
    <2>4. ListInv' /\ NotThereYet' /\ NewPKI'
      BY <1>3, <2>1 DEF ListInv, NotThereYet, NewPKI, Running, NoRepeat, Elems
    <2>5. ForcedPKI'
      BY <2>1, <2>2 DEF ForcedPKI, IsForcedPKI
    <2> QED
      BY <2>3, <2>4, <2>5 DEF HostInv
  <1>5. CASE ~(Refused(c) \/ (c.cmd = "admin-client" /\ ~CAUsable))
    <2> DEFINE ca == IF GeneratesCA(c) THEN gen + 1 ELSE disk["ca.crt"].key
               id == IF GeneratesCA(c) THEN gen + 1 ELSE FreshAdminKey
    <2>1. /\ run' = [c EXCEPT !.ca = ca, !.id = id]
          /\ todo' = Plan(c) /\ outcome' = "running"
          /\ gen' = IF GeneratesCA(c) THEN gen + 1 ELSE gen
      BY <1>5, Zenon DEF Begin
    <2>2. gen \in Nat /\ ca \in Int /\ id \in Int
      <3>1. disk["ca.crt"].key \in Int /\ gen \in Nat
        BY DEF HostInv, TypeOK, Files, Certs, Contents
      <3> QED
        BY <3>1, FreshKey
    <2>3. GeneratesCA(c) => ca = id /\ id # 0
      BY <2>2
    <2> HIDE DEF ca, id
    <2>4. /\ run' \in Runs /\ run'.cmd = c.cmd /\ run'.force = c.force
          /\ run'.ca = ca /\ run'.id = id
      BY <1>1, <2>1, <2>2, Zenon DEF Runs
    <2>5. /\ todo' \in Seq(Steps) /\ NoRepeat(todo')
          /\ Elems(todo') \cap Pairs = Elems(Outputs(c))
          /\ c.cmd \in {"mtls", "samples"} => Elems(todo') \subseteq Pairs
          /\ GeneratesCA(c) => PKIFiles \subseteq Elems(todo')
      BY <1>1, <2>1, PlanSteps, OutputSteps
    <2>6. TypeOK'
      <3>1. gen' \in Nat
        BY <2>1, <2>2
      <3> QED
        BY <1>2, <2>4, <2>5, <3>1 DEF HostInv, TypeOK
    <2>7. ListInv'
      <3>1. outcome' # "ok"
        BY <2>1
      <3> QED
        BY <2>1, <2>5, <3>1 DEF ListInv, Running, NoRepeat
    <2>8. NewPKI'
      <3> SUFFICES ASSUME GeneratesCA(c)
                   PROVE  run'.ca = run'.id /\ run'.id # 0 /\ PKIFiles \subseteq Elems(todo')
        BY <2>4 DEF NewPKI, GeneratesCA, Elems
      <3> QED
        BY <2>3, <2>4, <2>5
    <2>9. NotThereYet'
      <3> SUFFICES ASSUME ~Forced(c), NEW f \in Elems(Outputs(c)) PROVE disk[f].key = 0
        BY <1>2, <2>4, <2>5 DEF NotThereYet, Forced, Exists, Elems
      <3>1. PICK i \in DOMAIN Outputs(c) : f = Outputs(c)[i]
        BY <1>1, OutputSteps DEF Elems
      <3> QED
        BY <1>5, <3>1 DEF Refused, Exists
    <2>10. ForcedPKI'
      <3>1. c.cmd \in {"mtls", "samples"} => Elems(todo') \subseteq Pairs
        BY <2>5
      <3>2. outcome' \notin {"refused", "failed"}
        BY <2>1
      <3> QED
        BY <2>4, <3>1, <3>2 DEF ForcedPKI, Elems
    <2> QED
      BY <2>6, <2>7, <2>8, <2>9, <2>10 DEF HostInv
  <1> QED
    BY <1>4, <1>5

(* writeFileAtomic writes the file the run is at, or fails for others than *)
(* root.                                                                   *)
LEMMA WriteFileInv ==
  ASSUME HostInv, NEW f \in Pairs, WriteFileAtomic(f)
  PROVE  HostInv'
  <1>1. Running /\ Head(todo) = f /\ run' = run /\ gen' = gen
    BY DEF WriteFileAtomic, At
  <1>2. disk \in [Files -> Contents] /\ f \in Files
    BY DEF HostInv, TypeOK, Files, Pairs
  <1>3. CASE Writable(f)
    <2>1. disk' = [disk EXCEPT ![f] = Written(f)] /\ Proceed
      BY <1>3 DEF WriteFileAtomic
    <2>2. /\ Written(f) \in Contents /\ Written(f).key = run.id
          /\ f \in Certs => Written(f).by = run.ca
      <3>1. run.ca \in Int /\ run.id \in Int
        BY DEF HostInv, TypeOK, Runs
      <3> DEFINE by == IF f \in Certs THEN run.ca ELSE 0
                 rd == f \in Certs \/ ~Root
      <3>2. by \in Int /\ rd \in BOOLEAN /\ Written(f) = [by |-> by, key |-> run.id, rd |-> rd]
        BY <3>1 DEF Written
      <3>3. f \in Certs => by = run.ca
        OBVIOUS
      <3> HIDE DEF by, rd
      <3> QED
        BY <3>1, <3>2, <3>3 DEF Contents
    <2>3. /\ disk' \in [Files -> Contents] /\ disk'[f] = Written(f)
          /\ \A g \in Files : g # f => disk'[g] = disk[g]
      <3> DEFINE new == Written(f)
      <3>1. new \in Contents /\ disk' = [disk EXCEPT ![f] = new]
        BY <2>1, <2>2
      <3> HIDE DEF new
      <3>2. /\ disk' \in [Files -> Contents] /\ disk'[f] = new
            /\ \A g \in Files : g # f => disk'[g] = disk[g]
        BY <1>2, <3>1
      <3> QED
        BY <3>2 DEF new
    <2>4. \A g \in Pairs : g # Head(todo) => Keeps(g)
      BY <1>1, <2>3 DEF Keeps, Files, Pairs
    <2>5. \A g \in Pairs : g = Head(todo) =>
             disk'[g].key = run.id /\ (g \in Certs => disk'[g].by = run.ca)
      BY <1>1, <2>2, <2>3
    <2> QED
      BY <1>1, <2>1, <2>3, <2>4, <2>5, ProceedInv
  <1>4. CASE ~Writable(f)
    <2>1. todo' = <<>> /\ outcome' = "failed" /\ disk' = disk /\ ~Root
      BY <1>4 DEF WriteFileAtomic, Fail, Writable
    <2> QED
      BY <1>1, <1>2, <2>1, StopInv
  <1> QED
    BY <1>3, <1>4

(* WriteProxyConfig touches no file of a pair. *)
LEMMA WriteProxyConfigInv ==
  ASSUME HostInv, WriteProxyConfig
  PROVE  HostInv'
  <1>1. Running /\ Head(todo) = "proxy.yml" /\ run' = run /\ gen' = gen
    BY DEF WriteProxyConfig, At
  <1>2. disk \in [Files -> Contents] /\ "proxy.yml" \in Files /\ "proxy.yml" \notin Pairs
    BY DEF HostInv, TypeOK, Files, Pairs, Certs, Keys
  <1>3. ~IsForcedPKI(run)
    BY <1>1, <1>2, ForcedHead
  <1>4. CASE Exists("proxy.yml") /\ ~Forced(run)
    <2>1. todo' = <<>> /\ outcome' = "failed" /\ disk' = disk
      BY <1>4 DEF WriteProxyConfig, Fail
    <2> QED
      BY <1>1, <1>2, <1>3, <2>1, StopInv
  <1>5. CASE ~(Exists("proxy.yml") /\ ~Forced(run))
    <2> DEFINE rd == ~Root \/ (user /\ run.cmd # "config")
               new == [by |-> 0, key |-> 1, rd |-> rd]
    <2>1. disk' = [disk EXCEPT !["proxy.yml"] = new] /\ (Fail \/ Proceed)
      BY <1>5 DEF WriteProxyConfig
    <2>2. rd \in BOOLEAN
      OBVIOUS
    <2> HIDE DEF rd
    <2>3. new \in Contents
      BY <2>2 DEF Contents
    <2> HIDE DEF new
    <2>4. /\ disk' \in [Files -> Contents]
          /\ \A g \in Files : g # "proxy.yml" => disk'[g] = disk[g]
      BY <1>2, <2>1, <2>3
    <2>5. \A g \in Pairs : g # Head(todo) => Keeps(g)
      BY <1>1, <2>4 DEF Keeps, Files, Pairs
    <2>6. CASE Proceed
      BY <1>1, <1>2, <2>4, <2>5, <2>6, ProceedInv
    <2>7. CASE Fail
      BY <1>1, <1>3, <2>4, <2>7, StopInv DEF Fail
    <2> QED
      BY <2>1, <2>6, <2>7
  <1> QED
    BY <1>4, <1>5

(* EnsureCertPermissions changes modes only. *)
LEMMA PermissionsKeep ==
  ASSUME disk \in [Files -> Contents],
         disk' = [f \in Files |->
                    IF Exists(f) THEN [disk[f] EXCEPT !.rd = ReadableKeys(f)] ELSE disk[f]]
  PROVE  disk' \in [Files -> Contents] /\ \A f \in Files : Keeps(f)
  <1>1. ASSUME NEW f \in Files
        PROVE  disk'[f] \in Contents /\ Keeps(f)
    <2> DEFINE rd == ReadableKeys(f)
               old == disk[f]
    <2>1. rd \in BOOLEAN /\ old \in Contents /\ disk'[f] \in {old, [old EXCEPT !.rd = rd]}
      BY DEF ReadableKeys, Contents
    <2> HIDE DEF rd, old
    <2>2. disk'[f] \in Contents /\ disk'[f].by = old.by /\ disk'[f].key = old.key
      BY <2>1 DEF Contents
    <2> QED
      BY <2>2 DEF Keeps, old
  <1> QED
    BY <1>1, Zenon

(* Permissions, the service user and the unit *)
LEMMA OtherStepInv ==
  ASSUME HostInv, EnsureCertPermissions \/ PrepareServiceUser \/ WriteUnit
  PROVE  HostInv'
  <1>1. PICK x \in {"perms", "user", "unit"} : Running /\ Head(todo) = x
    BY DEF EnsureCertPermissions, PrepareServiceUser, WriteUnit, At
  <1>2. run' = run /\ gen' = gen /\ (Proceed \/ Fail)
    BY DEF EnsureCertPermissions, PrepareServiceUser, WriteUnit
  <1>3. disk \in [Files -> Contents] /\ Head(todo) \notin Pairs /\ Pairs \subseteq Files
    BY <1>1 DEF HostInv, TypeOK, Files, Pairs, Certs, Keys
  <1>4. ~IsForcedPKI(run)
    BY <1>1, <1>3, ForcedHead
  <1>5. disk' \in [Files -> Contents] /\ \A g \in Pairs : Keeps(g)
    <2>1. CASE disk' = disk
      BY <1>3, <2>1 DEF Keeps
    <2>2. CASE disk' # disk
      <3>1. disk' = [f \in Files |->
                      IF Exists(f) THEN [disk[f] EXCEPT !.rd = ReadableKeys(f)] ELSE disk[f]]
        BY <2>2 DEF EnsureCertPermissions, PrepareServiceUser, WriteUnit
      <3> QED
        BY <1>3, <3>1, PermissionsKeep
    <2> QED
      BY <2>1, <2>2
  <1>6. CASE Proceed
    BY <1>1, <1>2, <1>3, <1>5, <1>6, ProceedInv
  <1>7. CASE Fail
    BY <1>2, <1>4, <1>5, <1>7, StopInv DEF Fail
  <1> QED
    BY <1>2, <1>6, <1>7

(* Every step keeps the invariant; serve changes nothing on the host. *)
LEMMA NextHost == HostInv /\ [Next]_vars => HostInv'
  <1> SUFFICES ASSUME HostInv, [Next]_vars PROVE HostInv'
    OBVIOUS
  <1>1. ASSUME NEW c \in Commands, Begin(c) PROVE HostInv'
    BY <1>1, BeginInv
  <1>2. CASE Step
    <2>1. ASSUME NEW f \in Certs \cup Keys, WriteFileAtomic(f) PROVE HostInv'
      BY <2>1, WriteFileInv DEF Pairs
    <2>2. CASE WriteProxyConfig
      BY <2>2, WriteProxyConfigInv
    <2>3. CASE EnsureCertPermissions \/ PrepareServiceUser \/ WriteUnit
      BY <2>3, OtherStepInv
    <2> QED
      BY <1>2, <2>1, <2>2, <2>3 DEF Step
  <1>3. CASE Kill
    <2>1. todo' = <<>> /\ outcome' = "killed" /\ run' = run /\ gen' = gen /\ disk' = disk
      BY <1>3 DEF Kill
    <2> QED
      BY <2>1, StopInv DEF HostInv, TypeOK
  <1>4. CASE UNCHANGED <<disk, gen, run, todo, outcome>>
    BY <1>4 DEF HostInv, TypeOK, ListInv, NewPKI, NotThereYet, ForcedPKI, Running, Exists,
                Elems, NoRepeat
  <1>5. ServeTLS \/ ServeCSRSigner \/ ServeEnds \/ UNCHANGED vars
        => UNCHANGED <<disk, gen, run, todo, outcome>>
    BY DEF ServeTLS, ServeCSRSigner, ServeEnds, vars, hostvars
  <1> QED
    BY <1>1, <1>2, <1>3, <1>4, <1>5 DEF Next

-----------------------------------------------------------------------------
(* The properties *)

(* The invariant holds throughout. *)
THEOREM HostInvariance == Spec => []HostInv
  BY InitHost, NextHost, PTL DEF Spec

(* Whatever was killed before, a PKI whose command succeeded fits together *)
(* (GenerateMTLS): every file of it is off the list, so of this run.       *)
THEOREM PKIFitsTogether == Spec => []CompletePKI
  <1>1. HostInv => CompletePKI
    <2> SUFFICES ASSUME HostInv, outcome = "ok", GeneratesCA(run)
                 PROVE  /\ CAUsable
                        /\ disk["server.crt"].key = disk["server.key"].key
                        /\ disk["admin-client.crt"].key = disk["admin-client.key"].key
                        /\ \A f \in {"server.crt", "admin-client.crt"} :
                              disk[f].by = disk["ca.crt"].key
      BY DEF CompletePKI
    <2>1. Elems(todo) = {} /\ run.id # 0
      BY DEF HostInv, ListInv, NewPKI
    <2>2. \A f \in PKIFiles : disk[f].key = run.id /\ (f \in Certs => disk[f].by = run.id)
      BY <2>1 DEF HostInv, NewPKI
    <2> QED
      BY <2>1, <2>2 DEF CAUsable, Exists, PKIFiles, Certs
  <1> QED
    BY <1>1, HostInvariance, PTL

(* Run as root, a forced PKI is neither refused nor stopped by what killed *)
(* runs left (GenerateMTLS, writeFileAtomic).  Others than root are: they  *)
(* cannot open the temporary file of a key, of mode 0400, once more.       *)
THEOREM ForcedRunCompletes ==
  ASSUME Root
  PROVE  Spec => []ForceCompletes
  <1>1. HostInv => ForceCompletes
    BY DEF HostInv, ForcedPKI, ForceCompletes
  <1> QED
    BY <1>1, HostInvariance, PTL

(* Without force no step replaces a file (GenerateMTLS,                    *)
(* GenerateAdminClient, WriteProxyConfig): what Begin looked at has not    *)
(* changed when the file is written.                                       *)
THEOREM ForceIsNeeded == Spec => NothingOverwritten
  <1> DEFINE Safe == ~Forced(run) /\ Running =>
                         \A f \in Files : Exists(f) =>
                             disk'[f].by = disk[f].by /\ disk'[f].key = disk[f].key
  <1>1. HostInv /\ [Next]_vars => [Safe]_vars
    <2> SUFFICES ASSUME HostInv, [Next]_vars, ~Forced(run), Running
                 PROVE  \A f \in Files : Exists(f) => Keeps(f)
      BY DEF Keeps
    <2>1. disk \in [Files -> Contents]
      BY DEF HostInv, TypeOK
    <2>2. CASE disk' = disk
      BY <2>2 DEF Keeps
    <2>3. ASSUME NEW g \in Certs \cup Keys, WriteFileAtomic(g)
          PROVE  \A f \in Files : Exists(f) => Keeps(f)
      <3>1. Head(todo) = g /\ Head(todo) \in Elems(todo)
        BY <2>3, TailSteps DEF WriteFileAtomic, At, Running, HostInv, TypeOK, ListInv
      <3>2. ~Exists(g)
        BY <3>1 DEF HostInv, NotThereYet, Pairs
      <3>3. disk' = disk \/ disk' = [disk EXCEPT ![g] = Written(g)]
        BY <2>3 DEF WriteFileAtomic
      <3> DEFINE new == Written(g)
      <3> HIDE DEF new
      <3>4. disk' = disk \/ disk' = [disk EXCEPT ![g] = new]
        BY <3>3 DEF new
      <3>5. \A f \in Files : f # g => disk'[f] = disk[f]
        BY <2>1, <3>4
      <3> QED
        BY <3>2, <3>5 DEF Keeps
    <2>4. CASE WriteProxyConfig
      <3>1. CASE Exists("proxy.yml")
        BY <2>4, <3>1, <2>2 DEF WriteProxyConfig
      <3>2. CASE ~Exists("proxy.yml")
        <4> DEFINE rd == ~Root \/ (user /\ run.cmd # "config")
                   new == [by |-> 0, key |-> 1, rd |-> rd]
        <4>1. disk' = [disk EXCEPT !["proxy.yml"] = new]
          BY <2>4, <3>2 DEF WriteProxyConfig
        <4> HIDE DEF new
        <4>2. \A f \in Files : f # "proxy.yml" => disk'[f] = disk[f]
          BY <2>1, <4>1
        <4> QED
          BY <3>2, <4>2 DEF Keeps
      <3> QED
        BY <3>1, <3>2
    <2>5. CASE EnsureCertPermissions
      <3>1. CASE disk' # disk
        BY <2>1, <2>5, <3>1, PermissionsKeep DEF EnsureCertPermissions
      <3> QED
        BY <2>2, <3>1
    <2>6. ASSUME NEW c \in Commands, Begin(c) PROVE FALSE
      BY <2>6 DEF Begin
    <2>7. PrepareServiceUser \/ WriteUnit \/ Kill \/ ServeTLS \/ ServeCSRSigner \/ ServeEnds
            \/ UNCHANGED vars
          => disk' = disk
      BY DEF PrepareServiceUser, WriteUnit, Kill, ServeTLS, ServeCSRSigner, ServeEnds,
             vars, hostvars
    <2> QED
      BY <2>2, <2>3, <2>4, <2>5, <2>6, <2>7 DEF Next, Step
  <1>2. Spec => [][Safe]_vars
    BY <1>1, HostInvariance, PTL DEF Spec
  <1> QED
    BY <1>2 DEF NothingOverwritten
=============================================================================
