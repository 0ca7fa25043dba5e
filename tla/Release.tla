------------------------------ MODULE Release ------------------------------
(***************************************************************************)
(* From a compiled file to a delivery package.  One output directory is    *)
(* used by a series of commands of the converter: convert (the pipeline    *)
(* from the model to the package), compile, validate, package, and the     *)
(* conformance runner.  What they leave on the disk is what the next one   *)
(* finds: the model files of compiler.py, all with the stem "model", and   *)
(* the metadata.json beside them, from which cli/common.py restores an     *)
(* artifact.                                                               *)
(*                                                                         *)
(* A model file carries the number of the compile that wrote it, the       *)
(* adapter, and what happens when it runs on a device: its output agrees   *)
(* with the model's, differs from it, or the run raises.  That a session   *)
(* cannot be opened on a card that is not there is the vendors' doing and  *)
(* assumed.  A command may be cut off between any two of its steps.        *)
(* Operators named Bug... are the next definition with a plausible bug and *)
(* are not used by the specification.                                      *)
(***************************************************************************)
EXTENDS Integers, Sequences, SequencesExt, FiniteSets

CONSTANTS Hosts,        \* the software and the card a host may have
          Models,       \* lifecycle declarations of the models asked for
          Behaviours,   \* what a compiled model may do on the devices
          Chains,       \* the stages a conformance run may be given
          MaxCompiles,  \* bound: compiles that write a file
          MaxCommands   \* bound: commands

Files    == {"onnx", "pdmodel", "json", "pdiparams", "xpu"}
Programs == {"pdmodel", "json"}
Devices  == {"cpu", "cuda:0", "xpu"}
Wanted   == {"auto", "cpu", "xpu"}         \* --exec-device
Adapters == {"auto", "paddle", "xpuctl", "stub"}
Absent   == [made |-> -1]
Refused  == [backend |-> "none"]
NoMeta   == [format |-> "", adapter |-> "", files |-> <<>>]
Nothing  == [name |-> "none"]

ASSUME ReleaseAssumption ==
    /\ \A h \in Hosts :
        /\ h.paddle \in {"none", "cpu", "xpu"} /\ h.x2paddle \in BOOLEAN
        /\ h.program \in Programs /\ h.toolkit \in {"none", "empty", "full"}
        /\ h.card \in BOOLEAN /\ h.cuda \in BOOLEAN
        /\ h.chip \in BOOLEAN /\ h.sdk \in BOOLEAN
    /\ \A m \in Models : m.registered \in BOOLEAN
                         /\ m.status \in {"stable", "experimental", "deprecated", "planned"}
    /\ Behaviours \subseteq [Devices -> {"agrees", "differs", "raises"}]
    /\ MaxCompiles \in Nat /\ MaxCommands \in Nat

VARIABLES
    host,       \* the machine, which is provisioned between commands
    disk, meta, \* the model files and metadata.json
    compiles, commands,
    pc, cmd,    \* the command that runs and its step
    art,        \* the BackendArtifact in its memory
    package,    \* the zip that was delivered last
    judged,     \* the last verdicts and what they were about
    conformed,  \* the last conformance report
    torn        \* history: a compile was cut off between its two files

vars == <<host, disk, meta, compiles, commands, pc, cmd, art, package, judged,
          conformed, torn>>

----------------------------------------------------------------------------
(* The adapters and their sessions. *)

Available(a) == \/ a = "paddle" /\ host.paddle # "none" /\ host.x2paddle
                \/ a = "xpuctl" /\ host.toolkit # "none"
                \/ a = "stub"

\* The adapter a compile uses, or "none": a placeholder is only made for those who
\* ask for it, and a named adapter is not replaced by another one.
Resolve(asked, allow) ==
    IF asked = "auto" THEN IF Available("paddle") THEN "paddle"
                           ELSE IF Available("xpuctl") THEN "xpuctl"
                           ELSE IF allow THEN "stub" ELSE "none"
    ELSE IF asked = "stub" THEN IF allow THEN "stub" ELSE "none"
    ELSE IF Available(asked) THEN asked ELSE "none"

FormatOf(a) == CASE a = "paddle" -> "paddle_static_graph"
                 [] a = "xpuctl" -> "xpu_native"
                 [] OTHER        -> "stub"

FilesOf(a) == CASE a = "paddle" -> <<host.program, "pdiparams">>
                [] a = "xpuctl" -> <<"xpu">>
                [] OTHER        -> <<"onnx">>

Degraded(artifact) == artifact.format \in {"stub", "placeholder"}

Session(backend, device, mode, files) ==
    [backend |-> backend, device |-> device, mode |-> mode, files |-> files]

OnnxRuntimeSession(path, wanted) ==
    LET cuda == host.cuda /\ wanted # "cpu" IN
    IF path # "onnx" THEN Refused
    ELSE Session("onnxruntime", IF cuda THEN "cuda:0" ELSE "cpu",
                 IF cuda THEN "hardware" ELSE "simulated", {path})

XpuToolkitRuntimeSession(path) ==
    IF path # "xpu" \/ host.toolkit # "full" \/ ~host.card THEN Refused
    ELSE Session("kunlun-xpu", "xpu", "hardware", {path})

PaddleXpuRuntimeSession(path, wanted) ==
    LET usable == host.paddle = "xpu" /\ host.card
        actual == IF wanted = "xpu" \/ (wanted = "auto" /\ usable) THEN "xpu" ELSE "cpu"
    IN  IF \/ path \notin Programs \/ disk["pdiparams"] = Absent
           \/ host.paddle = "none" \/ (actual = "xpu" /\ ~usable) THEN Refused
        ELSE Session("paddle-xpu", actual,
                     IF actual = "xpu" THEN "hardware"
                     ELSE IF wanted = "cpu" THEN "cpu" ELSE "fallback_cpu",
                     {path, "pdiparams"})

CreateRuntime(artifact, wanted) ==
    IF disk[artifact.path] = Absent THEN Refused
    ELSE CASE artifact.adapter = "paddle" -> PaddleXpuRuntimeSession(artifact.path, wanted)
           [] artifact.adapter = "xpuctl" -> XpuToolkitRuntimeSession(artifact.path)
           [] OTHER                       -> OnnxRuntimeSession(artifact.path, wanted)

TargetSession(artifact, wanted) ==
    IF artifact.path = "onnx" THEN OnnxRuntimeSession("onnx", wanted)
    ELSE CreateRuntime(artifact, wanted)

Contents(files) == {disk[f] : f \in files}

\* What a run of the session gives; a program with the weights of another compile
\* computes something else.
Outcome(session) ==
    LET contents == Contents(session.files) IN
    IF \E c, d \in contents : c.made # d.made THEN "differs"
    ELSE (CHOOSE c \in contents : TRUE).does[session.device]

----------------------------------------------------------------------------
(* An artifact that is restored from the files of the directory. *)

\* The metadata of model.x: model.json if there is one, be it the program that a
\* newer Paddle writes, else metadata.json.
LoadSidecarMetadata == IF disk["json"] # Absent THEN NoMeta ELSE meta

\* A restore that takes files nobody has described for a compiled program.
BugRestore(path) ==
    LET metadata == LoadSidecarMetadata IN
    [path |-> path,
     adapter |-> IF metadata.adapter = "" THEN "stub" ELSE metadata.adapter,
     format |-> IF metadata.format = "" THEN "paddle_static_graph" ELSE metadata.format,
     files |-> IF metadata.files # <<>> THEN metadata.files ELSE <<path>>]

ArtifactFromModel(path) ==
    LET metadata == LoadSidecarMetadata
        sibling == IF disk["pdiparams"] # Absent THEN <<path, "pdiparams">> ELSE <<path>>
    IN  [path |-> path,
         adapter |-> IF metadata.adapter = "" THEN "stub" ELSE metadata.adapter,
         format |-> IF path = "onnx" THEN "stub"
                    ELSE IF metadata.format = "" THEN "placeholder" ELSE metadata.format,
         files |-> IF metadata.files # <<>> THEN metadata.files ELSE sibling]

----------------------------------------------------------------------------
(* Verdicts. *)

\* The status without the gate on the device.
BugAccuracyStatus(session, agree) == IF agree THEN "PASS" ELSE "FAIL"

\* Only what ran on an XPU is a pass or a failure, and it fails if either the
\* optimised graph or the compiled file differs.
AccuracyStatus(session, agree) ==
    IF session.device # "xpu" THEN "NOT_AVAILABLE" ELSE IF agree THEN "PASS" ELSE "FAIL"

\* Timings of a simulation, of an unnamed chip or of a CPU are not available.
BenchmarkStatus(session, chip) ==
    IF \/ session.backend = "onnxruntime" \/ ~chip
       \/ session.device # "xpu" \/ session.mode # "hardware" THEN "NOT_AVAILABLE" ELSE "OK"

Judge(by, session, accuracy, benchmark, graph) ==
    [by |-> by, accuracy |-> accuracy, benchmark |-> benchmark, graph |-> graph,
     device |-> session.device, card |-> host.card, chip |-> host.chip,
     contents |-> Contents(session.files)]

----------------------------------------------------------------------------
Init ==
    /\ host \in Hosts
    /\ disk \in {[f \in Files |-> IF f \in have THEN [made |-> 0, by |-> "user",
                                                      does |-> [d \in Devices |-> "agrees"]]
                                  ELSE Absent] : have \in {{}, {"onnx"}}}
    /\ meta = NoMeta
    /\ compiles = 0 /\ commands = 0
    /\ pc = "idle" /\ cmd = Nothing /\ art = Nothing
    /\ package = Nothing /\ judged = Nothing /\ conformed = Nothing
    /\ torn = FALSE

\* Software is installed and cards are plugged in between two commands.
Provision(h) ==
    /\ pc = "idle" /\ h # host
    /\ commands < MaxCommands
    /\ commands' = commands + 1
    /\ host' = h
    /\ UNCHANGED <<disk, meta, compiles, pc, cmd, art, package, judged, conformed, torn>>

\* A model type is known if an adapter is registered for it, and refused if it is
\* only planned.
Supported(m) == m.registered /\ m.status # "planned"

Command(step, c) ==
    /\ pc = "idle" /\ commands < MaxCommands
    /\ commands' = commands + 1
    /\ pc' = step /\ cmd' = c /\ art' = Nothing

\* convert: the model is identified, loaded, exported, checked and optimised; the
\* optimised graph may differ from the exported one.
Convert(m, wanted) ==
    /\ Supported(m)
    /\ compiles < MaxCompiles
    /\ \E graph \in BOOLEAN :
        Command("compile", [name |-> "convert", model |-> m, device |-> wanted, graph |-> graph])
    /\ UNCHANGED <<host, disk, meta, compiles, package, judged, conformed, torn>>

\* compile: an ONNX file alone, with no consent to a placeholder.
CompileOnly(wanted) ==
    /\ compiles < MaxCompiles
    /\ Command("compile", [name |-> "compile", device |-> wanted])
    /\ UNCHANGED <<host, disk, meta, compiles, package, judged, conformed, torn>>

\* KunlunBackend.compile: the adapter writes its files, the program before the
\* weights, and then metadata.json.
Compile(asked, allow, does) ==
    LET adapter == Resolve(asked, allow)
        files == FilesOf(adapter)
    IN  /\ pc = "compile"
        /\ allow => cmd.name = "convert"
        /\ adapter # "none"
        /\ adapter = "xpuctl" => host.toolkit = "full"
        /\ adapter = "stub" => \A d \in Devices : does[d] = "agrees"
        /\ compiles' = compiles + 1
        /\ art' = [path |-> files[1], adapter |-> adapter, format |-> FormatOf(adapter),
                   files |-> files, does |-> does]
        /\ disk' = [disk EXCEPT ![files[1]] =
                       [made |-> compiles', by |-> adapter, does |-> does]]
        /\ pc' = IF Len(files) = 2 THEN "params" ELSE "metadata"
        /\ UNCHANGED <<host, meta, commands, cmd, package, judged, conformed, torn>>

\* The weights are not written again where a file has their name.
BugCopyParams ==
    /\ pc = "params"
    /\ disk' = IF disk["pdiparams"] # Absent THEN disk
               ELSE [disk EXCEPT !["pdiparams"] =
                        [made |-> compiles, by |-> art.adapter, does |-> art.does]]
    /\ torn' = FALSE
    /\ pc' = "metadata"
    /\ UNCHANGED <<host, meta, compiles, commands, cmd, art, package, judged, conformed>>

CopyParams ==
    /\ pc = "params"
    /\ disk' = [disk EXCEPT !["pdiparams"] =
                   [made |-> compiles, by |-> art.adapter, does |-> art.does]]
    /\ torn' = FALSE
    /\ pc' = "metadata"
    /\ UNCHANGED <<host, meta, compiles, commands, cmd, art, package, judged, conformed>>

WriteMetadata ==
    /\ pc = "metadata"
    /\ meta' = [format |-> art.format, adapter |-> art.adapter, files |-> art.files]
    /\ pc' = IF cmd.name = "convert" THEN "validate" ELSE "idle"
    /\ UNCHANGED <<host, disk, compiles, commands, cmd, art, package, judged, conformed, torn>>

\* A step raises or the user stops the command: what was written stays.
CutOff ==
    /\ pc # "idle"
    /\ pc' = "idle"
    /\ torn' = (torn \/ pc = "params")
    /\ UNCHANGED <<host, disk, meta, compiles, commands, cmd, art, package, judged, conformed>>

\* Step 08: a mismatch is reported and does not end the conversion; --no-validate
\* skips the step.
ValidateStep ==
    LET session == CreateRuntime(art, cmd.device) IN
    /\ pc = "validate"
    /\ \/ /\ session # Refused
          /\ Outcome(session) # "raises"
          /\ judged' = Judge("convert", session,
                             AccuracyStatus(session, cmd.graph /\ Outcome(session) = "agrees"),
                             "none", cmd.graph)
       \/ judged' = Nothing
    /\ pc' = "benchmark"
    /\ UNCHANGED <<host, disk, meta, compiles, commands, cmd, art, package, conformed, torn>>

\* Step 09, in a session of its own; only an available benchmark runs the model.
BenchmarkStep ==
    LET session == CreateRuntime(art, cmd.device)
        status == BenchmarkStatus(session, host.chip)
        accuracy == IF judged = Nothing THEN "none" ELSE judged.accuracy
    IN  /\ pc = "benchmark"
        /\ session # Refused
        /\ status = "OK" => Outcome(session) # "raises"
        /\ judged' = Judge("convert", session, accuracy, status, cmd.graph)
        /\ pc' = "package"
        /\ UNCHANGED <<host, disk, meta, compiles, commands, cmd, art, package, conformed, torn>>

\* DockerExporter.export: a placeholder needs --dev-package, every file must be
\* there; the package says whether it is a placeholder.
MayExport(artifact, dev) ==
    /\ disk[artifact.path] # Absent
    /\ Degraded(artifact) => dev
    /\ \A f \in ToSet(artifact.files) : disk[f] # Absent

Export(by, model, artifact) ==
    package' = [by |-> by, model |-> model, format |-> artifact.format,
                degraded |-> Degraded(artifact), main |-> artifact.files[1],
                files |-> ToSet(artifact.files), torn |-> torn,
                judged |-> IF by = "convert" THEN judged.contents ELSE {},
                contents |-> Contents(ToSet(artifact.files))]

\* Step 10, or --no-docker; with --dev-package a placeholder is packed as well.
PackageStep(dev) ==
    /\ pc = "package"
    /\ \/ MayExport(art, dev) /\ Export("convert", cmd.model, art)
       \/ UNCHANGED package
    /\ pc' = "idle"
    /\ UNCHANGED <<host, disk, meta, compiles, commands, cmd, art, judged, conformed, torn>>

\* package: an artifact that is restored from a file of the directory.
PackageOnly(path, m, dev) ==
    LET artifact == ArtifactFromModel(path) IN
    /\ disk[path] # Absent
    /\ Supported(m)
    /\ MayExport(artifact, dev)
    /\ Command("idle", Nothing)
    /\ Export("package", m, artifact)
    /\ UNCHANGED <<host, disk, meta, compiles, judged, conformed, torn>>

\* validate: the exit code is 0 for a pass, 2 if the target did not run on an XPU.
\* Its benchmark is handed the backend's description, which names no chip.
ValidateOnly(path, wanted) ==
    LET artifact == ArtifactFromModel(path)
        session == TargetSession(artifact, wanted)
    IN  /\ disk[path] # Absent
        /\ session # Refused
        /\ Outcome(session) # "raises"
        /\ Command("idle", Nothing)
        /\ judged' = Judge("validate", session,
                           AccuracyStatus(session, Outcome(session) = "agrees"),
                           BenchmarkStatus(session, FALSE), TRUE)
        /\ UNCHANGED <<host, disk, meta, compiles, package, conformed, torn>>

----------------------------------------------------------------------------
(* The conformance runner. *)

\* A run that mistakes a required stage for an optional one.
BugUnavailable(stage) == "skipped"

Unavailable(stage) == IF stage.required THEN "error" ELSE "skipped"

\* ConformanceRunner._run_stage: a stage that cannot be opened or raises is an error
\* if it is required, else skipped; with no sample nothing can differ.
StageResult(stage, samples) ==
    LET session == CreateRuntime([path |-> stage.path, adapter |-> stage.adapter], stage.device)
        outcome == IF session = Refused THEN "refused"
                   ELSE IF samples = 0 THEN "agrees" ELSE Outcome(session)
        ran == outcome \in {"agrees", "differs"}
    IN  [required |-> stage.required, status |-> IF ran THEN "ok" ELSE Unavailable(stage),
         ok |-> outcome = "agrees", outcome |-> outcome]

Passed(results) ==
    \A r \in ToSet(results) : /\ r.status = "ok" => r.ok
                              /\ r.status = "error" => ~r.required

Conform(chain, samples) ==
    LET results == [i \in DOMAIN chain |-> StageResult(chain[i], samples)] IN
    /\ Command("idle", Nothing)
    /\ conformed' = [name |-> "report", results |-> results, samples |-> samples,
                     passed |-> Passed(results)]
    /\ UNCHANGED <<host, disk, meta, compiles, package, judged, torn>>

----------------------------------------------------------------------------
Next ==
    \/ \E h \in Hosts : Provision(h)
    \/ \E m \in Models, wanted \in Wanted : Convert(m, wanted)
    \/ \E wanted \in Wanted : CompileOnly(wanted)
    \/ \E asked \in Adapters, allow \in BOOLEAN, does \in Behaviours : Compile(asked, allow, does)
    \/ CopyParams
    \/ WriteMetadata
    \/ CutOff
    \/ ValidateStep
    \/ BenchmarkStep
    \/ \E dev \in BOOLEAN : PackageStep(dev)
    \/ \E path \in Files, m \in Models, dev \in BOOLEAN : PackageOnly(path, m, dev)
    \/ \E path \in Files, wanted \in Wanted : ValidateOnly(path, wanted)
    \/ \E chain \in Chains, samples \in 0..1 : Conform(chain, samples)

Spec == Init /\ [][Next]_vars

----------------------------------------------------------------------------
(* Properties. *)

\* README.md "stub ... 禁止对外交付": a package that does not call itself a placeholder
\* is of a model that is supported and holds what an adapter compiled, complete: the
\* native file, or a program with its weights; never an ONNX file, whichever commands
\* have left which files and metadata behind.
NoFakeRelease ==
    (package # Nothing /\ ~package.degraded) =>
        /\ package.model.status # "planned"
        /\ \A c \in package.contents : c.by \in {"paddle", "xpuctl"}
        /\ \/ package.format = "xpu_native" /\ package.files = {"xpu"}
           \/ /\ package.format = "paddle_static_graph"
              /\ package.main \in Programs /\ "pdiparams" \in package.files

\* A package that convert has made holds the files its verdicts are about, from one
\* compile; one that package has made mixes two compiles only if the last compile was
\* cut off between the program and the weights.
OneCompile ==
    (package # Nothing /\ ~package.degraded) =>
        /\ package.by = "convert" => package.contents = package.judged
        /\ \/ \A c, d \in package.contents : c.made = d.made
           \/ package.by = "package" /\ package.torn

\* "禁止把 CPU 执行误当成目标 XPU 执行": a pass, and a benchmark that counts, is about a file
\* that an adapter compiled, in one piece, and that ran on a card; a pass means
\* that it agreed there and that the optimised graph did.
VerdictEarned ==
    judged # Nothing =>
        /\ (judged.accuracy = "PASS" \/ judged.benchmark = "OK") =>
               /\ judged.card /\ judged.device = "xpu"
               /\ \A c \in judged.contents : c.by \in {"paddle", "xpuctl"}
        /\ judged.accuracy = "PASS" =>
               /\ judged.graph
               /\ \A c, d \in judged.contents : c.made = d.made /\ c.does["xpu"] = "agrees"
        /\ judged.benchmark = "OK" => judged.chip

\* A conformance report passes only if every required stage ran and no stage that ran
\* differed on a sample.
ConformanceEarned ==
    (conformed # Nothing /\ conformed.passed) =>
        \A r \in ToSet(conformed.results) :
            /\ r.required => r.outcome \in {"agrees", "differs"}
            /\ conformed.samples > 0 => r.outcome # "differs"

\* package's own help, "由已有 XPU 产物生成 Docker 交付包": what a compile has finished is not
\* taken for a placeholder.
CompiledIsNoPlaceholder ==
    (pc = "idle" /\ meta.format = "paddle_static_graph" /\ ~torn) =>
        \A f \in ToSet(meta.files) :
            disk[f] # Absent => ~Degraded(ArtifactFromModel(f))

============================================================================
