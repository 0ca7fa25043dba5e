-------------------------- MODULE ReleaseProofs --------------------------
(***************************************************************************)
(* Proofs about Release: what a package holds, what a verdict is about,    *)
(* and what a conformance report may claim, for any hosts, models,         *)
(* behaviours and series of commands.                                      *)
(***************************************************************************)
EXTENDS Release, TLAPS

USE ReleaseAssumption

Vendors == {"paddle", "xpuctl"}
Acts == {"agrees", "differs", "raises"}
Entries == [made : Nat, by : {"user", "paddle", "xpuctl", "stub"}, does : [Devices -> Acts]]
Made(a) == [made |-> compiles, by |-> a.adapter, does |-> a.does]

(* A model file was written by an adapter, and files of one compile do the  *)
(* same.                                                                    *)
DiskInv ==
    /\ disk \in [Files -> Entries \union {Absent}] /\ compiles \in Nat
    /\ \A f \in Files : disk[f] # Absent =>
          disk[f].made <= compiles /\ (f # "onnx" => disk[f].by \in Vendors)
    /\ \A f, g \in Files :
          disk[f] # Absent /\ disk[g] # Absent /\ disk[f].made = disk[g].made => disk[f] = disk[g]

(* The names an adapter gives to its format and files.                      *)
Described(format, adapter, files) ==
    \/ /\ adapter = "paddle" /\ format = "paddle_static_graph"
       /\ \E p \in Programs : files = <<p, "pdiparams">>
    \/ adapter = "xpuctl" /\ format = "xpu_native" /\ files = <<"xpu">>
    \/ adapter = "stub" /\ format = "stub" /\ files = <<"onnx">>

Working == {"params", "metadata", "validate", "benchmark", "package"}

(* The artifact in the memory of a command is the one on the disk.          *)
ArtInv ==
    pc \in Working =>
        /\ Described(art.format, art.adapter, art.files) /\ art.path = art.files[1]
        /\ art.does \in [Devices -> Acts]
        /\ disk[art.path] = Made(art)
        /\ art.adapter = "paddle" /\ pc # "params" => disk["pdiparams"] = Made(art)
        /\ pc = "params" => art.adapter = "paddle"

CmdInv ==
    /\ pc \in {"idle", "compile"} \union Working
    /\ pc \in {"validate", "benchmark", "package"} => cmd.name = "convert"
    /\ pc # "idle" /\ cmd.name = "convert" => Supported(cmd.model)

MetaInv == meta = NoMeta \/ Described(meta.format, meta.adapter, meta.files)

(* Where json is not used as a program, an undisturbed pair is one compile. *)
PairInv ==
    ~torn /\ pc # "params" /\ disk["json"] = Absent /\ disk["pdmodel"] # Absent =>
        disk["pdmodel"] = disk["pdiparams"]

DiskAndCommand == DiskInv /\ ArtInv /\ CmdInv /\ MetaInv /\ PairInv
-----------------------------------------------------------------------------
(* An entry is not the mark of an absent file.                              *)
LEMMA EntryFacts == Absent \notin Entries
BY DEF Absent, Entries

(* What an adapter is called fits what it writes.                           *)
LEMMA AdapterFacts ==
    ASSUME NEW a \in {"paddle", "xpuctl", "stub"}, host \in Hosts
    PROVE  /\ Described(FormatOf(a), a, FilesOf(a))
           /\ FilesOf(a)[1] \in Files /\ (FilesOf(a)[1] = "onnx" <=> a = "stub")
           /\ Len(FilesOf(a)) = 2 <=> a = "paddle"
           /\ a = "paddle" => FilesOf(a)[1] = host.program /\ host.program \in Programs
<1>1. host.program \in Programs
  BY DEF ReleaseAssumption
<1> QED BY <1>1 DEF Described, FormatOf, FilesOf, Files, Programs

(* The chosen adapter is one of the three.                                  *)
LEMMA Resolved ==
    ASSUME NEW asked \in Adapters, NEW allow \in BOOLEAN, Resolve(asked, allow) # "none"
    PROVE  Resolve(asked, allow) \in {"paddle", "xpuctl", "stub"}
BY DEF Resolve, Adapters

(* At the start there is nothing but, perhaps, an ONNX file.                *)
LEMMA InitDisk == Init => host \in Hosts /\ DiskAndCommand
<1> SUFFICES ASSUME Init PROVE host \in Hosts /\ DiskAndCommand
  OBVIOUS
<1> DEFINE user == [made |-> 0, by |-> "user", does |-> [d \in Devices |-> "agrees"]]
<1>1. PICK have \in {{}, {"onnx"}} : disk = [f \in Files |-> IF f \in have THEN user ELSE Absent]
  BY DEF Init
<1>2. user \in Entries
  BY DEF Entries, Acts
<1>3. user.made = 0 /\ compiles = 0
  BY DEF Init
<1> HIDE DEF user
<1>4. \A f \in Files : disk[f] # Absent => f = "onnx" /\ disk[f] = user
  BY <1>1
<1>5. disk \in [Files -> Entries \union {Absent}]
  BY <1>1, <1>2
<1>6. DiskInv
  BY <1>3, <1>4, <1>5 DEF DiskInv
<1>7. PairInv
  BY <1>4 DEF PairInv, Files
<1>8. pc = "idle" /\ meta = NoMeta /\ host \in Hosts
  BY DEF Init
<1> QED BY <1>6, <1>7, <1>8 DEF DiskAndCommand, ArtInv, CmdInv, MetaInv, Working

(* A compile writes the first file.                                         *)
LEMMA CompileDisk ==
    ASSUME host \in Hosts, DiskAndCommand,
           NEW asked \in Adapters, NEW allow \in BOOLEAN, NEW does \in Behaviours,
           Compile(asked, allow, does)
    PROVE  DiskAndCommand'
<1> USE DEF DiskAndCommand
<1> DEFINE a == Resolve(asked, allow)
           files == FilesOf(a)
           new == [made |-> compiles + 1, by |-> a, does |-> does]
           made == [path |-> files[1], adapter |-> a, format |-> FormatOf(a), files |-> files, does |-> does]
<1>1. a \in {"paddle", "xpuctl", "stub"}
  BY Resolved DEF Compile
<1>2. /\ Described(FormatOf(a), a, files) /\ files[1] \in Files
      /\ (files[1] = "onnx" <=> a = "stub") /\ (Len(files) = 2 <=> a = "paddle")
      /\ a = "paddle" => files[1] \in Programs
  BY <1>1, AdapterFacts
<1>3. does \in [Devices -> Acts]
  BY DEF ReleaseAssumption, Acts
<1>4. /\ pc = "compile" /\ pc' = (IF Len(files) = 2 THEN "params" ELSE "metadata")
      /\ art' = made /\ compiles' = compiles + 1 /\ disk' = [disk EXCEPT ![files[1]] = new]
      /\ UNCHANGED <<host, meta, cmd, torn>>
  BY DEF Compile
<1>5. new \in Entries /\ new.made = compiles + 1 /\ new.by = a
  BY <1>1, <1>3 DEF Entries, DiskInv
<1>6. /\ made.path = files[1] /\ made.adapter = a /\ made.format = FormatOf(a)
      /\ made.files = files /\ made.does = does
  OBVIOUS
<1>7. new = Made(art)'
  BY <1>4, <1>6 DEF Made
<1> HIDE DEF a, files, new, made
<1>8. disk'[files[1]] = new /\ \A f \in Files \ {files[1]} : disk'[f] = disk[f]
  BY <1>2, <1>4 DEF DiskInv
<1>9. DiskInv'
  <2>1. disk' \in [Files -> Entries \union {Absent}] /\ compiles' \in Nat
    BY <1>2, <1>4, <1>5 DEF DiskInv
  <2>2. \A f \in Files : disk'[f] # Absent =>
          disk'[f].made <= compiles' /\ (f # "onnx" => disk'[f].by \in Vendors)
    <3> SUFFICES ASSUME NEW f \in Files, disk'[f] # Absent
                 PROVE  disk'[f].made <= compiles' /\ (f # "onnx" => disk'[f].by \in Vendors)
      OBVIOUS
    <3>1. CASE f = files[1]
      BY <1>1, <1>2, <1>4, <1>5, <1>8, <3>1 DEF DiskInv, Vendors
    <3>2. CASE f # files[1]
      <4>1. disk[f] \in Entries /\ disk[f].made <= compiles
        BY <1>8, <3>2 DEF DiskInv
      <4>2. disk[f].made \in Nat
        BY <4>1 DEF Entries
      <4> QED BY <1>4, <1>8, <3>2, <4>1, <4>2 DEF DiskInv
    <3> QED BY <3>1, <3>2
  <2>3. \A f \in Files \ {files[1]} : disk[f] # Absent => disk[f].made # compiles + 1
    <3> SUFFICES ASSUME NEW f \in Files, disk[f] # Absent PROVE disk[f].made # compiles + 1
      OBVIOUS
    <3>1. disk[f] \in Entries /\ disk[f].made <= compiles /\ compiles \in Nat
      BY DEF DiskInv
    <3>2. disk[f].made \in Nat
      BY <3>1 DEF Entries
    <3> QED BY <3>1, <3>2
  <2>4. \A f, g \in Files :
          disk'[f] # Absent /\ disk'[g] # Absent /\ disk'[f].made = disk'[g].made => disk'[f] = disk'[g]
    BY <1>5, <1>8, <2>3 DEF DiskInv
  <2> QED BY <2>1, <2>2, <2>4 DEF DiskInv
<1>10. ArtInv'
  BY <1>1, <1>2, <1>3, <1>4, <1>6, <1>7, <1>8 DEF ArtInv
<1>11. CmdInv'
  BY <1>4 DEF CmdInv, Working, Supported
<1>12. PairInv'
  <2>1. CASE a = "paddle"
    BY <1>2, <1>4, <2>1 DEF PairInv
  <2>2. CASE a # "paddle"
    <3>1. files[1] \notin {"json", "pdmodel", "pdiparams"}
      BY <1>1, <1>2, <2>2 DEF Described, Files
    <3>2. disk'["json"] = disk["json"] /\ disk'["pdmodel"] = disk["pdmodel"] /\ disk'["pdiparams"] = disk["pdiparams"]
      BY <1>8, <3>1 DEF Files
    <3> QED BY <1>4, <3>2 DEF PairInv
  <2> QED BY <2>1, <2>2
<1> QED BY <1>4, <1>9, <1>10, <1>11, <1>12 DEF MetaInv

(* The weights become those of the program.                                 *)
LEMMA CopyDisk == DiskAndCommand /\ CopyParams => DiskAndCommand'
<1> SUFFICES ASSUME DiskAndCommand, CopyParams PROVE DiskAndCommand'
  OBVIOUS
<1> USE DEF DiskAndCommand
<1> DEFINE new == Made(art)
<1>1. /\ pc = "params" /\ pc' = "metadata" /\ torn' = FALSE
      /\ disk' = [disk EXCEPT !["pdiparams"] = new]
      /\ UNCHANGED <<host, meta, compiles, cmd, art>>
  BY DEF CopyParams, Made
<1>2. PICK p \in Programs : art.adapter = "paddle" /\ art.files = <<p, "pdiparams">> /\ art.path = p
  BY <1>1 DEF ArtInv, Working, Described
<1>3. disk[p] = new /\ p \in Files /\ p # "pdiparams" /\ p # "onnx"
  BY <1>1, <1>2 DEF ArtInv, Working, Programs, Files
<1>4. Made(art)' = new
  BY <1>1 DEF Made
<1>5. new # Absent
  BY DEF Made, Absent
<1> HIDE DEF new
<1>6. disk'["pdiparams"] = new /\ \A f \in Files \ {"pdiparams"} : disk'[f] = disk[f]
  BY <1>1 DEF DiskInv, Files
<1>7. disk' \in [Files -> Entries \union {Absent}]
  BY <1>1, <1>3 DEF DiskInv, Files
<1>8. DiskInv'
  <2>1. new.made <= compiles /\ new.by \in Vendors
    BY <1>3, <1>5 DEF DiskInv
  <2>2. \A f \in Files : \E g \in Files : disk'[f] = disk[g]
    BY <1>3, <1>6
  <2> QED BY <1>1, <1>6, <1>7, <2>1, <2>2 DEF DiskInv
<1>9. ArtInv'
  BY <1>1, <1>2, <1>3, <1>4, <1>6 DEF ArtInv, Working
<1>10. PairInv'
  <2>1. p = "json" \/ p = "pdmodel"
    BY DEF Programs
  <2>2. disk'[p] = new
    BY <1>3, <1>6
  <2> QED BY <1>5, <1>6, <2>1, <2>2 DEF PairInv
<1> QED BY <1>1, <1>8, <1>9, <1>10 DEF CmdInv, MetaInv, Working

(* The steps that leave the model files alone.                              *)
LEMMA QuietDisk ==
    ASSUME host \in Hosts, DiskAndCommand, [Next]_vars, UNCHANGED <<disk, compiles>>,
           ~CopyParams
    PROVE  DiskAndCommand'
<1> USE DEF DiskAndCommand
<1>1. DiskInv'
  BY DEF DiskInv
<1>2. CASE WriteMetadata
  BY <1>1, <1>2 DEF WriteMetadata, ArtInv, CmdInv, MetaInv, PairInv, Working, Made
<1>3. CASE CutOff
  BY <1>1, <1>3 DEF CutOff, ArtInv, CmdInv, MetaInv, PairInv, Working
<1>4. CASE ValidateStep \/ BenchmarkStep \/ \E dev \in BOOLEAN : PackageStep(dev)
  BY <1>1, <1>4 DEF ValidateStep, BenchmarkStep, PackageStep, ArtInv, CmdInv, MetaInv, PairInv, Working, Made
<1>5. CASE \E h \in Hosts : Provision(h)
  BY <1>1, <1>5 DEF Provision, ArtInv, CmdInv, MetaInv, PairInv, Working, Made
<1>6. CASE \E m \in Models, wanted \in Wanted : Convert(m, wanted)
  BY <1>1, <1>6 DEF Convert, Command, ArtInv, CmdInv, MetaInv, PairInv, Working, Supported
<1>7. CASE \E wanted \in Wanted : CompileOnly(wanted)
  BY <1>1, <1>7 DEF CompileOnly, Command, ArtInv, CmdInv, MetaInv, PairInv, Working
<1>8. CASE \E path \in Files, m \in Models, dev \in BOOLEAN : PackageOnly(path, m, dev)
  BY <1>1, <1>8 DEF PackageOnly, Command, ArtInv, CmdInv, MetaInv, PairInv, Working
<1>9. CASE \E path \in Files, wanted \in Wanted : ValidateOnly(path, wanted)
  BY <1>1, <1>9 DEF ValidateOnly, Command, ArtInv, CmdInv, MetaInv, PairInv, Working
<1>10. CASE \E chain \in Chains, samples \in 0..1 : Conform(chain, samples)
  BY <1>1, <1>10 DEF Conform, Command, ArtInv, CmdInv, MetaInv, PairInv, Working
<1>11. CASE UNCHANGED vars
  BY <1>1, <1>11 DEF vars, ArtInv, CmdInv, MetaInv, PairInv, Made
<1>12. CASE \E asked \in Adapters, allow \in BOOLEAN, does \in Behaviours : Compile(asked, allow, does)
  BY <1>12 DEF Compile, DiskInv
<1> QED BY <1>2, <1>3, <1>4, <1>5, <1>6, <1>7, <1>8, <1>9, <1>10, <1>11, <1>12 DEF Next

(* The host is one of the hosts and the files and the command fit.          *)
Base == host \in Hosts /\ DiskAndCommand

(* Every step keeps the host, the files and the command in order.           *)
LEMMA BaseStep == Base /\ [Next]_vars => Base'
<1> SUFFICES ASSUME Base, [Next]_vars PROVE Base'
  OBVIOUS
<1>1. host' \in Hosts
  BY DEF Base, Next, vars, Provision, Convert, CompileOnly, Command, Compile, CopyParams, WriteMetadata,
         CutOff, ValidateStep, BenchmarkStep, PackageStep, PackageOnly, ValidateOnly, Conform
<1>2. CASE CopyParams
  BY <1>1, <1>2, CopyDisk DEF Base
<1>3. CASE \E asked \in Adapters, allow \in BOOLEAN, does \in Behaviours : Compile(asked, allow, does)
  BY <1>1, <1>3, CompileDisk DEF Base
<1>4. ASSUME ~CopyParams,
             ~\E asked \in Adapters, allow \in BOOLEAN, does \in Behaviours : Compile(asked, allow, does)
      PROVE  UNCHANGED <<disk, compiles>>
  BY <1>4 DEF Next, vars, Provision, Convert, CompileOnly, Command, WriteMetadata,
         CutOff, ValidateStep, BenchmarkStep, PackageStep, PackageOnly, ValidateOnly, Conform
<1> QED BY <1>1, <1>2, <1>3, <1>4, QuietDisk DEF Base
-----------------------------------------------------------------------------
(* A session on the card reads files that an adapter has compiled, and what *)
(* agrees there is of one compile.                                          *)
OnCard(session) ==
    /\ host.card
    /\ \A c \in Contents(session.files) : c.by \in Vendors
    /\ Outcome(session) = "agrees" =>
          \A c, d \in Contents(session.files) : c.made = d.made /\ c.does["xpu"] = "agrees"

(* Such is every session that create_runtime opens on the card.             *)
LEMMA SessionFacts ==
    ASSUME DiskInv, NEW a, NEW wanted,
           CreateRuntime(a, wanted) # Refused, CreateRuntime(a, wanted).device = "xpu"
    PROVE  OnCard(CreateRuntime(a, wanted))
<1> DEFINE s == CreateRuntime(a, wanted)
<1>1. host.card /\ s.files # {} /\ s.files \subseteq Files \ {"onnx"} /\ \A f \in s.files : disk[f] # Absent
  <2>1. disk[a.path] # Absent
    BY DEF CreateRuntime
  <2>2. CASE a.adapter = "paddle"
    <3>1. s = PaddleXpuRuntimeSession(a.path, wanted)
      BY <2>1, <2>2 DEF CreateRuntime
    <3>2. a.path \in Programs /\ disk["pdiparams"] # Absent
      BY <3>1 DEF PaddleXpuRuntimeSession
    <3>3. host.card /\ s.files = {a.path, "pdiparams"}
      BY <3>1 DEF PaddleXpuRuntimeSession, Session
    <3> QED BY <2>1, <3>2, <3>3 DEF Programs, Files
  <2>3. CASE a.adapter = "xpuctl"
    <3>1. s = XpuToolkitRuntimeSession(a.path)
      BY <2>1, <2>3 DEF CreateRuntime
    <3>2. host.card /\ a.path = "xpu" /\ s.files = {a.path}
      BY <3>1 DEF XpuToolkitRuntimeSession, Session
    <3> QED BY <2>1, <3>2 DEF Files
  <2>4. CASE a.adapter \notin Vendors
    BY <2>1, <2>4 DEF CreateRuntime, OnnxRuntimeSession, Session, Vendors
  <2> QED BY <2>2, <2>3, <2>4 DEF Vendors
<1>2. s.device = "xpu"
  OBVIOUS
<1> HIDE DEF s
<1>3. \A c \in Contents(s.files) : c.by \in Vendors
  BY <1>1 DEF Contents, DiskInv
<1>4. ASSUME Outcome(s) = "agrees"
      PROVE  \A c, d \in Contents(s.files) : c.made = d.made /\ c.does["xpu"] = "agrees"
  <2> DEFINE e == CHOOSE c \in Contents(s.files) : TRUE
  <2>1. \A c, d \in Contents(s.files) : c.made = d.made
    BY <1>4 DEF Outcome
  <2>2. \A c, d \in Contents(s.files) : c = d
    BY <1>1, <2>1 DEF Contents, DiskInv
  <2>3. e \in Contents(s.files)
    BY <1>1 DEF Contents
  <2>4. e.does[s.device] = "agrees"
    BY <1>4, <2>1 DEF Outcome
  <2> HIDE DEF e
  <2> QED BY <1>2, <2>1, <2>2, <2>3, <2>4
<1>5. OnCard(s)
  BY <1>1, <1>3, <1>4 DEF OnCard
<1> QED BY <1>5 DEF s

(* What validate opens for an ONNX file never is on the card.               *)
LEMMA TargetFacts ==
    ASSUME DiskInv, NEW a, NEW wanted,
           TargetSession(a, wanted) # Refused, TargetSession(a, wanted).device = "xpu"
    PROVE  OnCard(TargetSession(a, wanted))
<1>1. CASE a.path = "onnx"
  BY <1>1 DEF TargetSession, OnnxRuntimeSession, Session
<1>2. CASE a.path # "onnx"
  <2>1. TargetSession(a, wanted) = CreateRuntime(a, wanted)
    BY <1>2 DEF TargetSession
  <2> QED BY <2>1, SessionFacts
<1> QED BY <1>1, <1>2

(* A verdict carries the session it was given.                              *)
LEMMA Judgement ==
    ASSUME NEW by, NEW session, NEW accuracy, NEW benchmark, NEW graph, Judge(by, session, accuracy, benchmark, graph) = judged'
    PROVE  /\ judged'.accuracy = accuracy /\ judged'.benchmark = benchmark /\ judged'.graph = graph
           /\ judged'.device = session.device /\ judged'.card = host.card /\ judged'.chip = host.chip
           /\ judged'.contents = Contents(session.files)
BY DEF Judge

(* What the gates of the two verdicts let through.                          *)
LEMMA Gates ==
    ASSUME NEW session, NEW agree, NEW chip
    PROVE  /\ AccuracyStatus(session, agree) = "PASS" => session.device = "xpu" /\ agree
           /\ BenchmarkStatus(session, chip) = "OK" => session.device = "xpu" /\ chip
BY DEF AccuracyStatus, BenchmarkStatus

(* Between the steps of convert, a verdict is about the files and the host  *)
(* as they are.                                                             *)
JudgeInv ==
    /\ (pc = "benchmark" /\ judged # Nothing /\ judged.accuracy = "PASS") =>
          LET session == CreateRuntime(art, cmd.device) IN
          cmd.graph /\ session.device = "xpu" /\ Outcome(session) = "agrees"
    /\ (pc = "package" /\ art.adapter \in Vendors) => judged.contents = Contents(ToSet(art.files))

(* Validation and benchmark judge what is there, and nothing comes between. *)
LEMMA JudgeStep == Base /\ JudgeInv /\ [Next]_vars => JudgeInv'
<1> SUFFICES ASSUME Base, JudgeInv, [Next]_vars PROVE JudgeInv'
  OBVIOUS
<1> DEFINE session == CreateRuntime(art, cmd.device)
<1>1. CASE ValidateStep
  <2>1. pc' = "benchmark" /\ UNCHANGED <<host, disk, art, cmd>>
    BY <1>1 DEF ValidateStep
  <2>2. session' = session /\ Outcome(session)' = Outcome(session)
    BY <2>1 DEF CreateRuntime, PaddleXpuRuntimeSession, XpuToolkitRuntimeSession, OnnxRuntimeSession,
               Outcome, Contents
  <2>3. judged' # Nothing =>
          judged' = Judge("convert", session,
                          AccuracyStatus(session, cmd.graph /\ Outcome(session) = "agrees"),
                          "none", cmd.graph)
    BY <1>1 DEF ValidateStep
  <2>4. judged' # Nothing => judged'.accuracy = AccuracyStatus(session, cmd.graph /\ Outcome(session) = "agrees")
    BY <2>3, Judgement
  <2> DEFINE agree == cmd.graph /\ Outcome(session) = "agrees"
  <2>8. AccuracyStatus(session, agree) = "PASS" => session.device = "xpu" /\ agree
    BY Gates
  <2> HIDE DEF session
  <2>5. (judged' # Nothing /\ judged'.accuracy = "PASS") =>
           cmd.graph /\ session.device = "xpu" /\ Outcome(session) = "agrees"
    BY <2>4, <2>8, Zenon
  <2>6. CreateRuntime(art, cmd.device)' = session
    BY <2>2 DEF session
  <2>7. Outcome(CreateRuntime(art, cmd.device))' = Outcome(session)
    BY <2>2 DEF session
  <2> QED BY <2>1, <2>5, <2>6, <2>7 DEF JudgeInv
<1>2. CASE BenchmarkStep
  <2>1. pc' = "package" /\ UNCHANGED <<host, disk, art, cmd>> /\ session # Refused /\ pc = "benchmark"
    BY <1>2 DEF BenchmarkStep
  <2>2. judged'.contents = Contents(session.files)
    BY <1>2, Judgement DEF BenchmarkStep
  <2>3. art.adapter \in Vendors => session.files = ToSet(art.files)
    <3>1. CASE art.adapter = "paddle"
      <4>1. PICK p \in Programs : art.files = <<p, "pdiparams">> /\ art.path = p
        BY <2>1, <3>1 DEF Base, DiskAndCommand, ArtInv, Working, Described
      <4>2. session.files = {p, "pdiparams"}
        BY <2>1, <3>1, <4>1 DEF CreateRuntime, PaddleXpuRuntimeSession, Session
      <4>3. ToSet(art.files) = {p, "pdiparams"}
        BY <4>1 DEF ToSet
      <4> QED BY <4>2, <4>3
    <3>2. CASE art.adapter = "xpuctl"
      <4>1. art.files = <<"xpu">> /\ art.path = "xpu"
        BY <2>1, <3>2 DEF Base, DiskAndCommand, ArtInv, Working, Described
      <4>2. session.files = {"xpu"}
        BY <2>1, <3>2, <4>1 DEF CreateRuntime, XpuToolkitRuntimeSession, Session
      <4>3. ToSet(art.files) = {"xpu"}
        BY <4>1 DEF ToSet
      <4> QED BY <4>2, <4>3
    <3> QED BY <3>1, <3>2 DEF Vendors
  <2>4. Contents(ToSet(art.files))' = Contents(ToSet(art.files))
    BY <2>1 DEF Contents
  <2> HIDE DEF session
  <2> QED BY <2>1, <2>2, <2>3, <2>4 DEF JudgeInv
<1>3. CASE UNCHANGED vars
  <2>1. UNCHANGED <<host, disk, art, cmd, pc, judged>>
    BY <1>3 DEF vars
  <2>2. session' = session /\ Outcome(session)' = Outcome(session)
    BY <2>1 DEF CreateRuntime, PaddleXpuRuntimeSession, XpuToolkitRuntimeSession, OnnxRuntimeSession,
               Outcome, Contents
  <2>3. Contents(ToSet(art.files))' = Contents(ToSet(art.files))
    BY <2>1 DEF Contents
  <2> QED BY <2>1, <2>2, <2>3 DEF JudgeInv
<1>4. ASSUME ~ValidateStep, ~BenchmarkStep, ~UNCHANGED vars
      PROVE  pc' \notin {"benchmark", "package"}
  BY <1>4 DEF Next, Base, DiskAndCommand, CmdInv, Working, Provision, Convert, CompileOnly, Command, Compile,
              CopyParams, WriteMetadata, CutOff, PackageStep, PackageOnly, ValidateOnly, Conform
<1> QED BY <1>1, <1>2, <1>3, <1>4 DEF JudgeInv

(* A verdict that keeps to its gates is earned.                             *)
LEMMA Earned ==
    ASSUME NEW by, NEW session, NEW accuracy, NEW benchmark, NEW graph,
           judged' = Judge(by, session, accuracy, benchmark, graph),
           session.device = "xpu" => OnCard(session),
           accuracy = "PASS" => session.device = "xpu" /\ Outcome(session) = "agrees",
           accuracy = "PASS" => graph,
           benchmark = "OK" => session.device = "xpu" /\ host.chip
    PROVE  VerdictEarned'
<1>1. /\ judged'.accuracy = accuracy /\ judged'.benchmark = benchmark
      /\ judged'.device = session.device /\ judged'.contents = Contents(session.files)
  BY Judgement
<1>2. judged'.graph = graph /\ judged'.card = host.card /\ judged'.chip = host.chip
  BY Judgement
<1>3. accuracy = "PASS" => judged'.graph
  BY <1>2, Zenon
<1>4. OnCard(session) => judged'.card
  BY <1>2, Zenon DEF OnCard
<1>5. benchmark = "OK" => judged'.chip
  BY <1>2, Zenon
<1>6. OnCard(session) =>
        /\ \A c \in judged'.contents : c.by \in {"paddle", "xpuctl"}
        /\ Outcome(session) = "agrees" =>
              \A c, d \in judged'.contents : c.made = d.made /\ c.does["xpu"] = "agrees"
  BY <1>1 DEF OnCard, Vendors
<1>7. accuracy = "PASS" => \A c, d \in judged'.contents : c.made = d.made /\ c.does["xpu"] = "agrees"
  BY <1>6
<1>8. (accuracy = "PASS" \/ benchmark = "OK") =>
        judged'.card /\ judged'.device = "xpu" /\ \A c \in judged'.contents : c.by \in {"paddle", "xpuctl"}
  BY <1>1, <1>4, <1>6, Zenon
<1> QED BY <1>1, <1>3, <1>5, <1>7, <1>8, Zenon DEF VerdictEarned

(* A new verdict is earned.                                                 *)
LEMMA VerdictStep == Base /\ JudgeInv /\ VerdictEarned /\ [Next]_vars => VerdictEarned'
<1> SUFFICES ASSUME Base, JudgeInv, VerdictEarned, [Next]_vars, judged' # judged, judged' # Nothing
             PROVE  VerdictEarned'
  BY DEF VerdictEarned
<1>0. DiskInv
  BY DEF Base, DiskAndCommand
<1>1. CASE ValidateStep
  <2> DEFINE session == CreateRuntime(art, cmd.device)
             agree == cmd.graph /\ Outcome(session) = "agrees"
  <2>1. session # Refused /\ judged' = Judge("convert", session, AccuracyStatus(session, agree), "none", cmd.graph)
    BY <1>1 DEF ValidateStep
  <2>2. session.device = "xpu" => OnCard(session)
    BY <1>0, <2>1, SessionFacts
  <2>3. AccuracyStatus(session, agree) = "PASS" => session.device = "xpu" /\ agree
    BY Gates
  <2> QED BY <2>1, <2>2, <2>3, Earned
<1>2. CASE BenchmarkStep
  <2> DEFINE session == CreateRuntime(art, cmd.device)
             status == BenchmarkStatus(session, host.chip)
             accuracy == IF judged = Nothing THEN "none" ELSE judged.accuracy
  <2>1. session # Refused /\ judged' = Judge("convert", session, accuracy, status, cmd.graph) /\ pc = "benchmark"
    BY <1>2 DEF BenchmarkStep
  <2>2. session.device = "xpu" => OnCard(session)
    BY <1>0, <2>1, SessionFacts
  <2>3. accuracy = "PASS" => judged # Nothing /\ judged.accuracy = "PASS"
    OBVIOUS
  <2>4. accuracy = "PASS" => session.device = "xpu" /\ Outcome(session) = "agrees"
    BY <2>1, <2>3 DEF JudgeInv
  <2>5. accuracy = "PASS" => cmd.graph
    BY <2>1, <2>3, Zenon DEF JudgeInv
  <2>6. status = "OK" => session.device = "xpu" /\ host.chip
    BY Gates
  <2> QED BY <2>1, <2>2, <2>4, <2>5, <2>6, Earned
<1>3. CASE \E path \in Files, wanted \in Wanted : ValidateOnly(path, wanted)
  <2>1. PICK path \in Files, wanted \in Wanted : ValidateOnly(path, wanted)
    BY <1>3
  <2> DEFINE session == TargetSession(ArtifactFromModel(path), wanted)
             agree == Outcome(session) = "agrees"
             status == BenchmarkStatus(session, FALSE)
  <2>2. session # Refused /\ judged' = Judge("validate", session, AccuracyStatus(session, agree), status, TRUE)
    BY <2>1 DEF ValidateOnly
  <2>3. session.device = "xpu" => OnCard(session)
    BY <1>0, <2>2, TargetFacts
  <2>4. AccuracyStatus(session, agree) = "PASS" => session.device = "xpu" /\ agree
    BY Gates
  <2>5. status # "OK"
    BY Gates
  <2> QED BY <2>2, <2>3, <2>4, <2>5, Earned
<1>4. ASSUME ~ValidateStep, ~BenchmarkStep, ~\E path \in Files, wanted \in Wanted : ValidateOnly(path, wanted)
      PROVE  judged' = judged
  BY <1>4 DEF Next, vars, Provision, Convert, CompileOnly, Command, Compile,
              CopyParams, WriteMetadata, CutOff, PackageStep, PackageOnly, Conform
<1> QED BY <1>1, <1>2, <1>3, <1>4
-----------------------------------------------------------------------------
(* What an adapter has described, with all its files there, is compiled     *)
(* from end to end.                                                         *)
Whole(format, files) ==
    /\ \A c \in Contents(ToSet(files)) : c.by \in Vendors
    /\ \/ format = "xpu_native" /\ ToSet(files) = {"xpu"}
       \/ /\ format = "paddle_static_graph" /\ files[1] \in Programs
          /\ ToSet(files) = {files[1], "pdiparams"}

(* A described artifact whose files are all there is whole.                 *)
LEMMA DescribedWhole ==
    ASSUME DiskInv, NEW format, NEW adapter, NEW files,
           Described(format, adapter, files), format # "stub",
           \A f \in ToSet(files) : disk[f] # Absent
    PROVE  Whole(format, files)
<1>1. CASE adapter = "paddle"
  <2>1. PICK p \in Programs : files = <<p, "pdiparams">> /\ format = "paddle_static_graph"
    BY <1>1 DEF Described
  <2>2. ToSet(files) = {p, "pdiparams"} /\ files[1] = p
    BY <2>1 DEF ToSet
  <2> HIDE DEF Whole
  <2> QED BY <2>1, <2>2 DEF Whole, Contents, DiskInv, Programs, Files
<1>2. CASE adapter = "xpuctl"
  <2>1. files = <<"xpu">> /\ format = "xpu_native"
    BY <1>2 DEF Described
  <2>2. ToSet(files) = {"xpu"}
    BY <2>1 DEF ToSet
  <2> QED BY <2>1, <2>2 DEF Whole, Contents, DiskInv, Files
<1> QED BY <1>1, <1>2 DEF Described

(* The fields of a package.                                                 *)
LEMMA Packed ==
    ASSUME NEW by, NEW model, NEW artifact, Export(by, model, artifact)
    PROVE  /\ package'.by = by /\ package'.model = model /\ package'.format = artifact.format
           /\ package'.degraded <=> Degraded(artifact)
           /\ package'.main = artifact.files[1] /\ package'.files = ToSet(artifact.files)
           /\ package'.torn = torn /\ package'.contents = Contents(ToSet(artifact.files))
           /\ by = "convert" => package'.judged = judged.contents
BY DEF Export

(* The two properties of a package.                                         *)
GoodPackage == NoFakeRelease /\ OneCompile

(* A package of whole files of one compile is a good one.                   *)
LEMMA PackedWell ==
    ASSUME NEW by, NEW model, NEW artifact, Export(by, model, artifact),
           model.status # "planned", Whole(artifact.format, artifact.files),
           by = "convert" => Contents(ToSet(artifact.files)) = judged.contents,
           \/ \A c, d \in Contents(ToSet(artifact.files)) : c.made = d.made
           \/ by = "package" /\ torn
    PROVE  GoodPackage'
<1>1. /\ package'.by = by /\ package'.model = model /\ package'.format = artifact.format
      /\ package'.main = artifact.files[1] /\ package'.files = ToSet(artifact.files)
      /\ package'.contents = Contents(ToSet(artifact.files))
      /\ by = "convert" => package'.judged = judged.contents
  BY Packed
<1>2. package'.torn = torn
  BY Packed
<1>3. NoFakeRelease'
  BY <1>1 DEF NoFakeRelease, Whole, Vendors
<1>4. torn => package'.torn
  BY <1>2, Zenon
<1>5. OneCompile'
  BY <1>1, <1>4 DEF OneCompile
<1> QED BY <1>3, <1>5 DEF GoodPackage

(* What package restores and does not call a placeholder was described by   *)
(* a compile, and json is not used as a program.                            *)
LEMMA Restored ==
    ASSUME Base, NEW path \in Files, ~Degraded(ArtifactFromModel(path))
    PROVE  LET a == ArtifactFromModel(path) IN
           /\ disk["json"] = Absent /\ a.format # "stub"
           /\ \E adapter : Described(a.format, adapter, a.files)
<1> DEFINE a == ArtifactFromModel(path)
           format == IF path = "onnx" THEN "stub"
                     ELSE IF LoadSidecarMetadata.format = "" THEN "placeholder"
                     ELSE LoadSidecarMetadata.format
<1>1. a.format = format
  BY DEF ArtifactFromModel
<1>2. format \notin {"stub", "placeholder"}
  BY <1>1 DEF Degraded
<1>3. LoadSidecarMetadata.format # "" /\ format = LoadSidecarMetadata.format
  BY <1>2
<1>4. disk["json"] = Absent /\ LoadSidecarMetadata = meta /\ meta # NoMeta
  <2>1. NoMeta.format = ""
    BY DEF NoMeta
  <2>2. LoadSidecarMetadata # NoMeta
    BY <1>3, <2>1
  <2> QED BY <2>2 DEF LoadSidecarMetadata
<1>5. Described(meta.format, meta.adapter, meta.files) /\ meta.files # <<>>
  BY <1>4 DEF Base, DiskAndCommand, MetaInv, Described
<1>6. a.files = meta.files
  BY <1>4, <1>5 DEF ArtifactFromModel
<1>7. a.format = meta.format
  BY <1>1, <1>3, <1>4
<1> HIDE DEF a
<1>8. /\ disk["json"] = Absent /\ a.format # "stub"
      /\ \E adapter : Described(a.format, adapter, a.files)
  BY <1>1, <1>2, <1>4, <1>5, <1>6, <1>7
<1> QED BY <1>8 DEF a

(* A new package is a good one, from convert or from package.               *)
LEMMA PackageHolds == Base /\ JudgeInv /\ GoodPackage /\ [Next]_vars => GoodPackage'
<1> SUFFICES ASSUME Base, JudgeInv, GoodPackage, [Next]_vars,
                    package' # package, ~package'.degraded
             PROVE  GoodPackage'
  BY DEF GoodPackage, NoFakeRelease, OneCompile
<1>0. DiskInv
  BY DEF Base, DiskAndCommand
<1>1. CASE \E dev \in BOOLEAN : PackageStep(dev)
  <2>1. PICK dev \in BOOLEAN : PackageStep(dev)
    BY <1>1
  <2>2. pc = "package" /\ MayExport(art, dev) /\ Export("convert", cmd.model, art)
    BY <2>1 DEF PackageStep
  <2>3. ~Degraded(art)
    BY <2>2, Packed
  <2>4. /\ Described(art.format, art.adapter, art.files) /\ art.path = art.files[1]
        /\ disk[art.path] = Made(art) /\ (art.adapter = "paddle" => disk["pdiparams"] = Made(art))
    BY <2>2 DEF Base, DiskAndCommand, ArtInv, Working
  <2>5. art.format # "stub" /\ art.adapter \in Vendors
    BY <2>3, <2>4 DEF Degraded, Described, Vendors
  <2>6. Whole(art.format, art.files)
    BY <1>0, <2>2, <2>4, <2>5, DescribedWhole DEF MayExport
  <2>7. \A c \in Contents(ToSet(art.files)) : c = Made(art)
    <3>1. \A f \in ToSet(art.files) : f = art.path \/ (f = "pdiparams" /\ art.adapter = "paddle")
      BY <2>4, <2>5 DEF Described, ToSet
    <3> QED BY <2>4, <3>1 DEF Contents
  <2>8. \A c, d \in Contents(ToSet(art.files)) : c.made = d.made
    BY <2>7
  <2>9. Contents(ToSet(art.files)) = judged.contents
    BY <2>2, <2>5 DEF JudgeInv
  <2>10. cmd.model.status # "planned"
    BY <2>2 DEF Base, DiskAndCommand, CmdInv, Supported
  <2> QED BY <2>2, <2>6, <2>8, <2>9, <2>10, PackedWell
<1>2. CASE \E path \in Files, m \in Models, dev \in BOOLEAN : PackageOnly(path, m, dev)
  <2>1. PICK path \in Files, m \in Models, dev \in BOOLEAN : PackageOnly(path, m, dev)
    BY <1>2
  <2> DEFINE a == ArtifactFromModel(path)
  <2>2. MayExport(a, dev) /\ Export("package", m, a) /\ pc = "idle" /\ m.status # "planned"
    BY <2>1 DEF PackageOnly, Command, Supported
  <2>3. ~Degraded(a)
    BY <2>2, Packed
  <2>4. disk["json"] = Absent /\ a.format # "stub" /\ \E adapter : Described(a.format, adapter, a.files)
    BY <2>3, Restored
  <2> HIDE DEF a
  <2>5. PICK adapter : Described(a.format, adapter, a.files)
    BY <2>4
  <2>6. \A f \in ToSet(a.files) : disk[f] # Absent
    BY <2>2 DEF MayExport
  <2>7. Whole(a.format, a.files)
    BY <1>0, <2>4, <2>5, <2>6, DescribedWhole
  <2>8. ASSUME ~torn PROVE \A c, d \in Contents(ToSet(a.files)) : c.made = d.made
    <3>1. \A f, g \in ToSet(a.files) : disk[f] = disk[g]
      <4>1. \A f \in ToSet(a.files) : f # "json"
        BY <2>4, <2>6
      <4>2. ToSet(a.files) \subseteq {"xpu"} \/ (ToSet(a.files) = {a.files[1], "pdiparams"} /\ a.files[1] \in Programs)
        BY <2>7 DEF Whole
      <4>3. CASE ToSet(a.files) = {a.files[1], "pdiparams"} /\ a.files[1] \in Programs
        <5>1. a.files[1] = "pdmodel"
          BY <4>1, <4>3 DEF Programs
        <5>2. disk["pdmodel"] = disk["pdiparams"]
          BY <2>2, <2>4, <2>6, <2>8, <4>3, <5>1 DEF Base, DiskAndCommand, PairInv
        <5> QED BY <4>3, <5>1, <5>2
      <4> QED BY <4>2, <4>3
    <3> QED BY <3>1 DEF Contents
  <2> QED BY <2>2, <2>7, <2>8, PackedWell
<1>3. ASSUME ~\E dev \in BOOLEAN : PackageStep(dev),
             ~\E path \in Files, m \in Models, dev \in BOOLEAN : PackageOnly(path, m, dev)
      PROVE  package' = package
  BY <1>3 DEF Next, vars, Provision, Convert, CompileOnly, Command, Compile, CopyParams, WriteMetadata,
              CutOff, ValidateStep, BenchmarkStep, ValidateOnly, Conform
<1> QED BY <1>1, <1>2, <1>3

(* A stage that ran is ok only if it agrees, and a required one that did    *)
(* not run is an error.                                                     *)
LEMMA StageFacts ==
    ASSUME NEW stage, NEW samples
    PROVE  LET r == StageResult(stage, samples) IN
           /\ r.outcome \in {"agrees", "differs"} => r.status = "ok"
           /\ (r.outcome \notin {"agrees", "differs"} /\ r.required) => r.status = "error"
           /\ r.ok <=> r.outcome = "agrees"
<1> DEFINE session == CreateRuntime([path |-> stage.path, adapter |-> stage.adapter], stage.device)
           outcome == IF session = Refused THEN "refused"
                      ELSE IF samples = 0 THEN "agrees" ELSE Outcome(session)
           ran == outcome \in {"agrees", "differs"}
           r == StageResult(stage, samples)
<1>1. r = [required |-> stage.required, status |-> IF ran THEN "ok" ELSE Unavailable(stage),
           ok |-> outcome = "agrees", outcome |-> outcome]
  BY DEF StageResult
<1> HIDE DEF r, outcome
<1>2. r.required = stage.required
  BY <1>1
<1>3. r.outcome = outcome /\ r.status = (IF ran THEN "ok" ELSE Unavailable(stage)) /\ r.ok = (outcome = "agrees")
  BY <1>1
<1>4. stage.required => Unavailable(stage) = "error"
  BY DEF Unavailable
<1>5. r.required => stage.required
  BY <1>2, Zenon
<1>6. r.ok <=> outcome = "agrees"
  BY <1>3, Zenon
<1>7. /\ r.outcome \in {"agrees", "differs"} => r.status = "ok"
      /\ (r.outcome \notin {"agrees", "differs"} /\ r.required) => r.status = "error"
      /\ r.ok <=> r.outcome = "agrees"
  BY <1>3, <1>4, <1>5, <1>6
<1> QED BY <1>7 DEF r

(* A new report passes only if it may.                                      *)
LEMMA ConformStep == ConformanceEarned /\ [Next]_vars => ConformanceEarned'
<1> SUFFICES ASSUME ConformanceEarned, [Next]_vars, conformed' # conformed, conformed' # Nothing, conformed'.passed
             PROVE  ConformanceEarned'
  BY DEF ConformanceEarned
<1>1. CASE \E chain \in Chains, samples \in 0..1 : Conform(chain, samples)
  <2>1. PICK chain \in Chains, samples \in 0..1 : Conform(chain, samples)
    BY <1>1
  <2> DEFINE results == [i \in DOMAIN chain |-> StageResult(chain[i], samples)]
  <2>2. conformed' = [name |-> "report", results |-> results, samples |-> samples, passed |-> Passed(results)]
    BY <2>1 DEF Conform
  <2>3. \A r \in ToSet(results) : \E i \in DOMAIN chain : r = StageResult(chain[i], samples)
    BY DEF ToSet
  <2> HIDE DEF results
  <2>4. conformed'.results = results
    BY <2>2
  <2>5. Passed(results)
    <3>1. conformed'.passed = Passed(results)
      BY <2>2
    <3> QED BY <3>1, Zenon
  <2>6. ASSUME NEW r \in ToSet(results)
        PROVE  r.outcome # "differs" /\ (r.required => r.outcome = "agrees")
    <3>1. /\ r.outcome \in {"agrees", "differs"} => r.status = "ok"
          /\ (r.outcome \notin {"agrees", "differs"} /\ r.required) => r.status = "error"
          /\ r.ok <=> r.outcome = "agrees"
      BY <2>3, StageFacts
    <3>2. (r.status = "ok" => r.ok) /\ (r.status = "error" => ~r.required)
      BY <2>5 DEF Passed
    <3> QED BY <3>1, <3>2
  <2> QED BY <2>4, <2>6 DEF ConformanceEarned
<1>2. ASSUME ~\E chain \in Chains, samples \in 0..1 : Conform(chain, samples)
      PROVE  conformed' = conformed
  BY <1>2 DEF Next, vars, Provision, Convert, CompileOnly, Command, Compile, CopyParams, WriteMetadata,
              CutOff, ValidateStep, BenchmarkStep, PackageStep, PackageOnly, ValidateOnly
<1> QED BY <1>1, <1>2
-----------------------------------------------------------------------------
(* The invariant behind the theorems, and what holds of it at the start.    *)
ReleaseInv == Base /\ JudgeInv /\ VerdictEarned /\ GoodPackage /\ ConformanceEarned

(* The invariant holds on every host and in every series of commands.       *)
THEOREM ReleaseInvariant == Spec => []ReleaseInv
<1>1. Init => ReleaseInv
  <2> SUFFICES ASSUME Init PROVE ReleaseInv
    OBVIOUS
  <2>1. judged = Nothing /\ package = Nothing /\ conformed = Nothing /\ pc = "idle"
    BY DEF Init
  <2> QED BY <2>1, InitDisk DEF ReleaseInv, Base, JudgeInv, VerdictEarned, GoodPackage, NoFakeRelease,
                               OneCompile, ConformanceEarned
<1>2. ReleaseInv /\ [Next]_vars => ReleaseInv'
  BY BaseStep, JudgeStep, VerdictStep, PackageHolds, ConformStep DEF ReleaseInv
<1> QED BY <1>1, <1>2, PTL DEF Spec

(* Every package that does not call itself a placeholder holds complete     *)
(* compiled files of a supported model (DockerExporter.export).             *)
THEOREM ReleasesAreReal == Spec => []NoFakeRelease
<1>1. ReleaseInv => NoFakeRelease
  BY DEF ReleaseInv, GoodPackage
<1> QED BY <1>1, ReleaseInvariant, PTL

(* A package holds the files of one compile unless the last compile was cut *)
(* off, and convert's the files its verdicts are about.                     *)
THEOREM PackagesAreWhole == Spec => []OneCompile
<1>1. ReleaseInv => OneCompile
  BY DEF ReleaseInv, GoodPackage
<1> QED BY <1>1, ReleaseInvariant, PTL

(* Passes and benchmarks are earned on a card (AccuracyValidator, Benchmark).*)
THEOREM VerdictsAreEarned == Spec => []VerdictEarned
<1>1. ReleaseInv => VerdictEarned
  BY DEF ReleaseInv
<1> QED BY <1>1, ReleaseInvariant, PTL

(* A conformance report passes only if its required stages ran and nothing  *)
(* that ran differed (ConformanceRunner).                                   *)
THEOREM ConformanceIsEarned == Spec => []ConformanceEarned
<1>1. ReleaseInv => ConformanceEarned
  BY DEF ReleaseInv
<1> QED BY <1>1, ReleaseInvariant, PTL
=============================================================================
