------------------------------ MODULE Serving ------------------------------
(***************************************************************************)
(* The serving runtime that is shipped with a converted model: the gunicorn*)
(* master with its pool of XPU cards and its hooks (nwai_devices.py,       *)
(* nwai_settings.py), the worker processes that load the model at their    *)
(* first request (nwai_backend.py, nwai_detector.py), the requests they    *)
(* serve (nwai_webserver.py), and the log server of the container          *)
(* (nwai_logging.py, send_log_webserver.py).                               *)
(*                                                                         *)
(* A sync worker serves one request at a time.  What the network computes  *)
(* is whether it finds something.  The pool's hooks and the fork are one   *)
(* step: the master is one thread and the child works on a copy.           *)
(* Operators named Bug... are the next definition with a plausible bug and *)
(* are not used by the specification.                                      *)
(***************************************************************************)
EXTENDS Integers, Sequences, FiniteSets, SequencesExt

CONSTANTS Deployments,   \* the settings a container may be started with
          Pids,          \* process numbers the kernel may give to workers
          Requests,      \* requests, each sent once
          MaxWorkers,    \* bound: no deployment asks for more workers
          MaxSpawns,     \* bound: workers the master starts
          MaxKills       \* bound: workers that time out or crash

NoCard  == -1            \* None in the pool's table, or no entry
NoPid   == 0
Booting == -1            \* the "[booting]" of a gunicorn worker before its fork
Modes   == {"auto", "cpu", "xpu"}
Formats == {"xpu_native", "paddle_static_graph", "onnx", "stub"}
Routes  == {"predict", "predict_image", "setflag"}
Images  == {"original", "result"}
Saved   == {{}, {"original"}, Images}   \* what may get stored, in this order

ASSUME ServingAssumption ==
    /\ \A d \in Deployments :
        /\ d.mode \in Modes /\ d.format \in Formats
        /\ d.cards \in Nat /\ d.workers \in Nat
        /\ d.wanted \in Seq(Nat)
        /\ d.bootPid \in {NoPid, Booting}
        /\ d.toolkit \in BOOLEAN /\ d.contract \in BOOLEAN
        /\ d.task \in {"detection", "boxes"}
        /\ d.uploadEmpty \in BOOLEAN /\ d.logging \in BOOLEAN
    /\ Pids \subseteq Nat \ {0}
    /\ MaxWorkers \in Nat /\ MaxSpawns \in Nat /\ MaxKills \in Nat

VARIABLES
    deploy,            \* the settings, read once by the master
    cards,             \* the number of cards the driver shows now
    pool, table,       \* DevicePool._available, _WORKER_DEVICES
    spawned, kills,
    pid, env,          \* workers by slot: process, environment after post_fork
    engine, place,     \* workers: backend of the loaded engine, where it runs
    detector,          \* workers: is the detector built?
    phase, req, found, \* workers: the request in hand
    current,           \* requests of /setflag: the settings to be written
    flags,             \* the content of setflag.json, a set of settings
    disk,              \* image files saved for requests
    posts,             \* logs on their way to the log server
    srv,               \* the log the server holds its lock for
    objects, records,  \* what MinIO and Kafka have received
    outcome, worked,   \* history: the answer of each request; inference succeeded
    tangled            \* history: two /setflag overlapped or one was cut off

master  == <<deploy, cards, pool, table, spawned, kills>>
process == <<pid, env>>
model   == <<engine, place, detector>>
hand    == <<phase, req, found>>
setflag == <<current, flags, tangled>>
logging == <<disk, posts, srv, objects, records>>
history == <<outcome, worked>>
vars    == <<master, process, model, hand, setflag, logging, history>>

---------------------------------------------------------------------------
\* The pool of cards.

DetectDevices(d) ==
    LET every  == [i \in 1..d.cards |-> i - 1]
        chosen == SelectSeq(d.wanted, LAMBDA c : c < d.cards)
    IN  IF d.mode = "cpu" \/ d.cards = 0 THEN <<>>
        ELSE IF chosen = <<>> THEN every ELSE chosen

\* No card is configured twice; what is left of the list is a list of cards.
ASSUME CardsAssumption ==
    \A d \in Deployments : DetectDevices(d) \in Seq(Nat) /\ IsInjective(DetectDevices(d))

WorkerCount(d) ==
    LET devices == Len(DetectDevices(d))
        wished  == IF d.workers = 0 THEN 1 ELSE d.workers
    IN  IF devices = 0 THEN 1 ELSE IF wished < devices THEN wished ELSE devices

Slots == 1..MaxWorkers
InUse == 1..WorkerCount(deploy)

Acquired(p) == IF p = <<>> THEN NoCard ELSE Head(p)
Rest(p)     == IF p = <<>> THEN p ELSE Tail(p)

Released(p, c) == IF c = NoCard \/ Contains(p, c) THEN p ELSE Append(p, c)

WorkerDeviceKey(p, age) == IF p # NoPid THEN p ELSE age

Keys == Pids \cup (1..MaxSpawns) \cup {Booting}

---------------------------------------------------------------------------
\* What a worker loads.

RequiresXpu(format) == format \in {"xpu_native", "paddle_static_graph"}

XpuDeviceId(e) == IF e.gpu # NoCard THEN e.gpu ELSE 0

BugEngineDevice(w) == env[w].device

\* settings.DEVICE was computed when the master imported nwai_settings; the
\* child inherits the module, so what post_fork writes to DEVICE is not read.
EngineDevice(w) == deploy.mode

Load(device, format, count, toolkit) ==
    IF RequiresXpu(format)
    THEN IF device = "cpu"
         THEN IF format = "xpu_native" THEN "refused" ELSE "paddle"
         ELSE IF count = 0 THEN "refused"
         ELSE IF format = "paddle_static_graph" THEN "paddle-xpu"
         ELSE IF toolkit THEN "kunlun-xpu" ELSE "refused"
    ELSE IF device = "xpu" /\ count = 0 THEN "refused" ELSE "onnxruntime"

PlaceOf(backend, e) ==
    CASE backend = "paddle-xpu" -> XpuDeviceId(e)
      [] backend = "kunlun-xpu" -> 0
      [] OTHER                  -> NoCard

Degraded(format, count) == format = "stub" \/ count = 0

---------------------------------------------------------------------------
Init ==
    /\ deploy \in Deployments
    /\ cards = deploy.cards
    /\ pool = DetectDevices(deploy)
    /\ table = [k \in Keys |-> NoCard]
    /\ spawned = 0 /\ kills = 0
    /\ pid = [w \in Slots |-> NoPid]
    /\ env = [w \in Slots |-> [device |-> "unset", gpu |-> NoCard]]
    /\ engine = [w \in Slots |-> "none"]
    /\ place = [w \in Slots |-> NoCard]
    /\ detector = [w \in Slots |-> FALSE]
    /\ phase = [w \in Slots |-> "idle"]
    /\ req = [w \in Slots |-> {}]
    /\ found = [w \in Slots |-> FALSE]
    /\ current = [w \in Slots |-> {}]
    /\ flags = {} /\ tangled = FALSE
    /\ disk = {} /\ posts = {} /\ srv = {} /\ objects = {} /\ records = {}
    /\ outcome = [r \in Requests |-> "unsent"]
    /\ worked = {}

\* pre_fork takes a card and files it under the worker's key; the child looks
\* its card up under the key it has now, in the copy the fork made.
Spawn(w) ==
    /\ w \in InUse /\ pid[w] = NoPid /\ spawned < MaxSpawns
    /\ spawned' = spawned + 1
    /\ \E p \in Pids \ {pid[v] : v \in Slots} :
        LET card   == Acquired(pool)
            key    == WorkerDeviceKey(deploy.bootPid, spawned + 1)
            table1 == [table EXCEPT ![key] = card]
            mine   == table1[WorkerDeviceKey(p, spawned + 1)]
        IN  /\ pool' = Rest(pool)
            /\ table' = table1
            /\ pid' = [pid EXCEPT ![w] = p]
            /\ env' = [env EXCEPT ![w] =
                          IF mine # NoCard
                          THEN [device |-> "xpu", gpu |-> mine]
                          ELSE [device |-> "cpu",
                                gpu |-> IF Len(deploy.wanted) = 1
                                        THEN deploy.wanted[1] ELSE NoCard]]
    /\ UNCHANGED <<deploy, cards, kills, model, hand, setflag, logging, history>>

BugChildExit(w) ==
    /\ pool' = Released(pool, table[pid[w]])
    /\ UNCHANGED table

ChildExit(w) ==
    /\ pool' = Released(pool, table[pid[w]])
    /\ table' = [table EXCEPT ![pid[w]] = NoCard]

\* The worker exceeds gunicorn's timeout or crashes, with what it was doing;
\* the master reaps it.
Kill(w) ==
    /\ pid[w] # NoPid /\ kills < MaxKills
    /\ kills' = kills + 1
    /\ ChildExit(w)
    /\ pid' = [pid EXCEPT ![w] = NoPid]
    /\ env' = [env EXCEPT ![w] = [device |-> "unset", gpu |-> NoCard]]
    /\ engine' = [engine EXCEPT ![w] = "none"]
    /\ place' = [place EXCEPT ![w] = NoCard]
    /\ detector' = [detector EXCEPT ![w] = FALSE]
    /\ phase' = [phase EXCEPT ![w] = "idle"]
    /\ req' = [req EXCEPT ![w] = {}]
    /\ found' = [found EXCEPT ![w] = FALSE]
    /\ outcome' = [r \in Requests |-> IF r \in req[w] THEN "dropped" ELSE outcome[r]]
    /\ current' = [current EXCEPT ![w] = {}]
    /\ tangled' = (tangled \/ phase[w] = "dump")
    /\ UNCHANGED <<deploy, cards, spawned, flags, logging, worked>>

\* The driver loses its cards, as when the container is moved.
CardsVanish ==
    /\ cards > 0 /\ cards' = 0
    /\ UNCHANGED <<deploy, pool, table, spawned, kills, process, model, hand,
                   setflag, logging, history>>

---------------------------------------------------------------------------
\* Requests.

Answer(w, code) ==
    /\ outcome' = [r \in Requests |-> IF r \in req[w] THEN code ELSE outcome[r]]
    /\ phase' = [phase EXCEPT ![w] = "idle"]
    /\ req' = [req EXCEPT ![w] = {}]
    /\ found' = [found EXCEPT ![w] = FALSE]

Goto(w, p) ==
    /\ phase' = [phase EXCEPT ![w] = p]
    /\ UNCHANGED <<req, outcome>>

\* get_request_data: upload, then urlpath, then base64; whatever cannot be
\* fetched, decoded or parsed is a parameter error.
Receive(w, r, route) ==
    /\ pid[w] # NoPid /\ phase[w] = "idle" /\ outcome[r] = "unsent"
    /\ req' = [req EXCEPT ![w] = {r}]
    /\ phase' = [phase EXCEPT ![w] = IF route = "setflag" THEN "read" ELSE route]
    /\ outcome' = [outcome EXCEPT ![r] = "pending"]
    /\ UNCHANGED <<master, process, model, found, setflag, logging, worked>>

RefuseRequest(w, r) ==
    /\ pid[w] # NoPid /\ phase[w] = "idle" /\ outcome[r] = "unsent"
    /\ outcome' = [outcome EXCEPT ![r] = "param"]
    /\ UNCHANGED <<master, process, model, hand, setflag, logging, worked>>

BugGetDetector(w) ==
    /\ phase[w] \in {"predict", "predict_image"} /\ ~detector[w]
    /\ LET backend == Load(EngineDevice(w), deploy.format, cards, deploy.toolkit)
       IN  /\ backend # "refused" /\ deploy.contract
           /\ engine' = [engine EXCEPT ![w] = backend]
           /\ place' = [place EXCEPT ![w] = PlaceOf(backend, env[w])]
           /\ detector' = [detector EXCEPT ![w] = TRUE]
    /\ UNCHANGED <<master, process, hand, setflag, logging, history>>

\* The first inference loads the engine and builds the detector; both stay.
\* A failure answers the request and is tried again at the next one.
GetDetector(w) ==
    /\ phase[w] \in {"predict", "predict_image"} /\ ~detector[w]
    /\ LET backend == IF engine[w] # "none" THEN engine[w]
                      ELSE Load(EngineDevice(w), deploy.format, cards, deploy.toolkit)
       IN  IF backend = "refused"
           THEN Answer(w, "internal") /\ UNCHANGED model
           ELSE /\ engine' = [engine EXCEPT ![w] = backend]
                /\ place' = [place EXCEPT ![w] = IF engine[w] # "none" THEN @
                                                ELSE PlaceOf(backend, env[w])]
                /\ detector' = [detector EXCEPT ![w] = deploy.contract]
                /\ IF deploy.contract THEN UNCHANGED <<hand, outcome>>
                                      ELSE Answer(w, "internal")
    /\ UNCHANGED <<master, process, setflag, logging, worked>>

\* The network runs and the result is formatted.  A task result without boxes
\* has no array to format (an AttributeError), a detection result is a list.
Infer(w) ==
    /\ phase[w] \in {"predict", "predict_image"} /\ detector[w]
    /\ \E some \in BOOLEAN :
        IF some \/ deploy.task = "detection"
        THEN /\ found' = [found EXCEPT ![w] = some]
             /\ worked' = worked \cup req[w]
             /\ Goto(w, IF phase[w] = "predict" THEN "persist" ELSE "persist_image")
        ELSE Answer(w, "internal") /\ UNCHANGED worked
    /\ UNCHANGED <<master, process, model, setflag, logging>>

\* The engine or the table of confidences fails.
InferFails(w) ==
    /\ phase[w] \in {"predict", "predict_image"} /\ detector[w]
    /\ Answer(w, "internal")
    /\ UNCHANGED <<master, process, model, setflag, logging, worked>>

\* _persist_images swallows every error.
Persist(w) ==
    /\ phase[w] = "persist"
    /\ \E saved \in Saved : disk' = disk \cup (req[w] \X saved)
    /\ Goto(w, "report")
    /\ UNCHANGED <<master, process, model, found, setflag, posts, srv, objects,
                   records, worked>>

PersistImage(w) ==
    /\ phase[w] = "persist_image"
    /\ \E saved \in Saved :
        /\ disk' = disk \cup (req[w] \X saved)
        /\ Answer(w, IF "result" \in saved THEN "ok" ELSE "internal")
    /\ UNCHANGED <<master, process, model, setflag, posts, srv, objects, records,
                   worked>>

\* The log sent to the log server: LogDetailFormat and the paths.
Payload(w, r) == [task_id |-> r, detail |-> found[w]]

BugReport(w) ==
    /\ phase[w] = "report"
    /\ \E r \in req[w] :
        \/ /\ posts' = posts \cup {Payload(w, r)}
           /\ Answer(w, "ok")
        \/ UNCHANGED posts /\ Answer(w, "internal")
    /\ UNCHANGED <<master, process, model, setflag, disk, srv, objects, records,
                   worked>>

\* report: nothing is sent when reporting is off; the sender waits 10 ms and
\* ignores what comes of it, so that a log may arrive or be lost.
Report(w) ==
    /\ phase[w] = "report"
    /\ \/ /\ deploy.logging
          /\ \E r \in req[w] : posts' = posts \cup {Payload(w, r)}
       \/ UNCHANGED posts
    /\ Answer(w, "ok")
    /\ UNCHANGED <<master, process, model, setflag, disk, srv, objects, records,
                   worked>>

\* set_flag reads setflag.json, merges the payload (here the request's own
\* setting), opens the file for writing, which empties it, and dumps.
Setting(w) == req[w]

BugMerged(w) == Setting(w)

Merged(w) == flags \cup Setting(w)

Elsewhere(w) == \E v \in Slots \ {w} : phase[v] \in {"truncate", "dump"}

SetRead(w) ==
    /\ phase[w] = "read"
    /\ current' = [current EXCEPT ![w] = Merged(w)]
    /\ tangled' = (tangled \/ Elsewhere(w))
    /\ Goto(w, "truncate")
    /\ UNCHANGED <<master, process, model, found, flags, logging, worked>>

SetTruncate(w) ==
    /\ phase[w] = "truncate"
    /\ flags' = {}
    /\ Goto(w, "dump")
    /\ UNCHANGED <<master, process, model, found, current, tangled, logging, worked>>

SetDump(w) ==
    /\ phase[w] = "dump"
    /\ flags' = current[w]
    /\ current' = [current EXCEPT ![w] = {}]
    /\ Answer(w, "saved")
    /\ UNCHANGED <<master, process, model, tangled, logging, worked>>

---------------------------------------------------------------------------
\* The log server.

BugUploadFile(r, i, stored) == <<r, i>>  \in disk

\* upload_file names an object only if the file exists and MinIO took it.
UploadFile(r, i, stored) == <<r, i>> \in disk /\ i \in stored

\* receive_log, under its lock: both files go to MinIO first ...
Collect(p) ==
    /\ p \in posts /\ srv = {}
    /\ posts' = posts \ {p}
    /\ \E stored \in Saved :
        /\ objects' = objects \cup {<<p.task_id, i>> :
                          i \in {j \in stored : <<p.task_id, j>> \in disk}}
        /\ srv' = {[log |-> p,
                    named |-> {i \in Images : UploadFile(p.task_id, i, stored)}]}
    /\ UNCHANGED <<master, process, model, hand, setflag, disk, records, history>>

\* The log is looked up under "data", a key the runtime does not send.
HasData(log) == "data" \in DOMAIN log /\ log.data # {}

UploadFlag == deploy.uploadEmpty

\* ... and Kafka gets the log, with the files only if the log has data or
\* the flag says so.  Kafka may fail, then the log is gone.
Forward ==
    /\ \E job \in srv :
        \/ records' = records \cup
              {[log |-> job.log,
                named |-> IF ~HasData(job.log) /\ ~UploadFlag THEN {} ELSE job.named]}
        \/ UNCHANGED records
    /\ srv # {} /\ srv' = {}
    /\ UNCHANGED <<master, process, model, hand, setflag, disk, posts, objects, history>>

Next ==
    \/ \E w \in Slots :
        \/ Spawn(w) \/ Kill(w)
        \/ \E r \in Requests : RefuseRequest(w, r)
        \/ \E r \in Requests, route \in Routes : Receive(w, r, route)
        \/ GetDetector(w) \/ Infer(w) \/ InferFails(w)
        \/ Persist(w) \/ PersistImage(w) \/ Report(w)
        \/ SetRead(w) \/ SetTruncate(w) \/ SetDump(w)
    \/ CardsVanish
    \/ \E p \in posts : Collect(p)
    \/ Forward

Spec == Init /\ [][Next]_vars

\* A worker goes on with the request it has; gunicorn replaces its workers.
Serve(w) ==
    \/ GetDetector(w) \/ Infer(w) \/ InferFails(w)
    \/ Persist(w) \/ PersistImage(w) \/ Report(w)
    \/ SetRead(w) \/ SetTruncate(w) \/ SetDump(w)

FairSpec == Spec /\ \A w \in Slots : WF_vars(Serve(w))

---------------------------------------------------------------------------
\* Every variable has its type (all of the modelled code).
TypeOK ==
    /\ deploy \in Deployments
    /\ cards \in Nat
    /\ pool \in Seq(Nat)
    /\ table \in [Keys -> Nat \cup {NoCard}]
    /\ spawned \in 0..MaxSpawns /\ kills \in 0..MaxKills
    /\ pid \in [Slots -> Pids \cup {NoPid}]
    /\ env \in [Slots -> [device : {"unset", "cpu", "xpu"}, gpu : Nat \cup {NoCard}]]
    /\ engine \in [Slots -> {"none", "paddle", "paddle-xpu", "kunlun-xpu", "onnxruntime"}]
    /\ place \in [Slots -> Nat \cup {NoCard}]
    /\ detector \in [Slots -> BOOLEAN]
    /\ phase \in [Slots -> {"idle", "predict", "predict_image", "persist",
                             "persist_image", "report", "read", "truncate", "dump"}]
    /\ req \in [Slots -> SUBSET Requests]
    /\ found \in [Slots -> BOOLEAN]
    /\ current \in [Slots -> SUBSET Requests]
    /\ flags \in SUBSET Requests /\ tangled \in BOOLEAN
    /\ disk \in SUBSET (Requests \X Images)
    /\ posts \in SUBSET [task_id : Requests, detail : BOOLEAN]
    /\ srv \in SUBSET [log : [task_id : Requests, detail : BOOLEAN], named : SUBSET Images]
    /\ objects \in SUBSET (Requests \X Images)
    /\ records \in SUBSET [log : [task_id : Requests, detail : BOOLEAN],
                           named : SUBSET Images]
    /\ outcome \in [Requests -> {"unsent", "pending", "ok", "saved", "param",
                                 "internal", "dropped"}]
    /\ worked \in SUBSET Requests

Taken(k) == table[k] # NoCard

\* A card is free once or recorded for one key, never both: whatever forks,
\* exits and reused process numbers do to the keys, the hooks of
\* nwai_settings.py never hand out a card that they still count as taken.
NoDoubleCard ==
    /\ IsInjective(pool)
    /\ \A k \in Keys : Taken(k) => ~Contains(pool, table[k])
    /\ \A k, l \in Keys : Taken(k) /\ table[k] = table[l] => k = l

\* A model compiled for XPU cards runs on the CPU only where the operator
\* configured DEVICE=cpu (nwai_backend.py), although post_fork writes that
\* very value into the environment of workers it finds no card for.
NoSilentCpu ==
    \A w \in Slots :
        engine[w] # "none" /\ RequiresXpu(deploy.format) /\ place[w] = NoCard
            => deploy.mode = "cpu"

\* A request is answered ok exactly when the model worked on it and, for
\* predict_image, the picture was saved: neither the loss of a log nor of a
\* picture changes the answer of predict (nwai_webserver.py, nwai_logging.py).
AnswersTruthful ==
    \A r \in Requests :
        /\ outcome[r] = "ok" => r \in worked
        /\ r \in worked /\ outcome[r] = "internal" => <<r, "result">> \notin disk

\* A record that reached Kafka is about a request the model worked on, is the
\* only one about it, and names only objects that are in MinIO (receive_log).
RecordsPointToObjects ==
    \A e \in records :
        /\ e.log.task_id \in worked
        /\ \A i \in e.named : <<e.log.task_id, i>> \in objects
        /\ \A f \in records : f.log.task_id = e.log.task_id => f = e

\* As long as no two /setflag requests overlap and none is cut off, the file
\* holds every setting that was answered with success (set_flag).
FlagsAccumulate ==
    ~tangled /\ (\A w \in Slots : phase[w] # "dump")
        => flags = {r \in Requests : outcome[r] = "saved"}

\* A request a worker has taken gets an answer or dies with the worker.
RequestsEnd ==
    \A r \in Requests : outcome[r] = "pending" ~> outcome[r] # "pending"

\* Workers that run on cards run on different ones (gunicorn hooks).
OneCardPerWorker ==
    \A v, w \in Slots : v # w /\ place[v] # NoCard => place[v] # place[w]

\* With reporting of empty results off, the log of a request that found
\* something keeps the names of the files that were uploaded (receive_log).
ResultsKeepFiles ==
    \A e \in records : e.log.detail /\ <<e.log.task_id, "result">> \in objects
                        => e.named # {}
=============================================================================
