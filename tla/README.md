# Verification of xpu-model-converter

The repository converts PyTorch and Paddle models for Kunlun XPU cards. It has
four parts: a conversion engine (`xpu_converter`), a platform around it
(`xpu_platform`: HTTP API, PostgreSQL, Redis queue, workers), a serving runtime
that is shipped with the converted model (`runtime`), and a web console
(`frontend`). This directory holds TLA+ models of the parts whose correctness
depends on order, concurrency, failure or arithmetic that is easy to get wrong,
the TLC runs that check them, and TLAPS proofs of what matters most.

`tlc -config X.cfg M` repeats a run, `tlapm M.tla` a proof; `PROJECT.json` lists
the runs with their modules, maps every definition to the lines it stands for,
and lists the hazards and findings.

## 1. Inventory

| Component | State it keeps | Operations | What is hard | What makes it correct | Module |
|---|---|---|---|---|---|
| Job queue (`worker/queue.py`) | list of ids, processing set | enqueue, dequeue, ack, requeue | dequeue and requeue are two Redis commands; the in-memory one drops known ids | an id is handed to one worker, none is dropped, no lease is leaked | `JobQueue` |
| Jobs API (`api/routers/jobs.py`) | the `conversion_jobs` row | create, retry, cancel, delete | each handler is several statements and decides by a status it read earlier | a job that waits can be found by a worker; a settled status stays | `JobPlatform` |
| Worker scheduler (`worker/scheduler.py`) | attempts per job, worker row | poll, heartbeat, register, retry, give up | exceptions at any call, kills, restarts | bounded attempts, truthful heartbeats, every job reaches an end | `JobPlatform` |
| Executor (`worker/executor.py`) | job, stage, artifact and event rows | claim, run, persist, report | several commits, alarm timeout, row deleted under the run | exclusive execution, SUCCESS only with its rows | `JobPlatform` |
| Events and SSE (`repositories/artifacts.py`, `routers/events.py`, `frontend/src/lib/sse.ts`) | event rows with a sequence per job, the client's last id | append, stream, reconnect | read-then-insert sequence, resume after a lost connection, end of stream | each event seen, in order, without gaps | `EventStream` |
| Engine (`xpu_converter/engine`, `pipeline.py`) | job and stage machines, saved artifacts | ten steps, save, report | failure or alarm at any step, swallowed errors | SUCCESS takes ten good steps, rows name what was stored | `EngineRun` |
| Artifact store and download gate (`engine/artifact_store.py`, `routers/artifacts.py`) | objects by key | put, get, download | keys shared by jobs, the gate looks at the present status | a download returns what a SUCCESS run of that job wrote | `EngineRun` |
| Accounts (`api/ratelimit.py`, `routers/auth.py`, `routers/security.py`, `frontend/src/lib/crypto.ts`) | windows, failure counts, the RSA key, the browser's copy of it | login, register, public key | boundaries of time windows, check and count apart, racing registrations, a key that changes at a restart | bounded guesses and bursts, unique accounts, one key | `LoginGuard` |
| Cards and workers (`runtime/common/nwai_devices.py`, `runtime/detection/nwai_settings.py`, `nwai_backend.py`) | free cards, card of each worker, the loaded engine | gunicorn hooks, engine loading | the worker's key changes at the fork; cards vanish between fork and first request | a card is counted once; no silent run on the CPU | `Serving` |
| Requests and logs (`nwai_webserver.py`, `nwai_logging.py`, `send_log_webserver.py`) | setflag.json, pictures, logs on their way | predict, predict_image, setflag, report, forward | five things that may fail in their own way, an unlocked read-modify-write, a log that may be lost | truthful answers, records that name what exists, settings that add up, an answer to every request | `Serving` |
| Detector and decoders (`nwai_detector.py`, `nwai_decoders.py`, `nwai_utils.py`, `contract/output.py`) | none between requests, but the confidence table | letterbox, decode, NMS, map back, format | counting columns, rounding at both ends, order of ties, classes sorted together before a cut | what is answered is in the picture, what is asked for is answered | `Detection` |
| Graph passes and rewrites (`optimizer`, `rewrite`, `ir`, `capability`) | the graph | four passes with roll-back, four rewrites, gate, freeze | other readers of a tensor, shared constants, changes that are not reported | the graph computes what was exported, stays legal, and is not made worse | `GraphPasses` |
| Evaluators (`validator/application.py`) | records of the samples run | decode, match, score | ties, annotations found twice, empty samples | average precision is what it is defined to be; scores are bounded | `Scoring` |
| Release path (`backend`, `registry`, `cli`, `validator`, `conformance`, `exporter`) | model files and metadata on disk, an artifact, verdicts | convert, compile, validate, package, conformance | files and metadata of earlier commands, commands cut off, software and cards that come and go | no placeholder released unmarked, one compile in a package, verdicts earned on the card | `Release` |
| Projects and uploads, front ends, console, templates | rows, files | insert, copy, render | - | - | not modelled (section 6) |

How they interact. The API inserts a job row and pushes its id; the worker pops
the id, claims the row with one conditional UPDATE, runs the engine in process,
writes stage, artifact and event rows, writes the final status and acknowledges
the id. API and workers share only the database, the queue and the artifact
store. The SSE stream polls event rows and the status. The console polls the
API and reads the stream. Inside a run the engine calls the front end, the graph
passes, the contract detection, the backend, the validators and the exporter in
order; the command line calls the same functions one at a time, on a directory
they share. The package it makes contains the serving runtime, which reads the
contract the converter wrote and is separate from everything else.

## 2. Plan

| Step | Modules | Abstract specification | Theorems |
|---|---|---|---|
| 1 | `JobQueue`, `JobPlatform` on top of it | - | rows behind SUCCESS, leases, runners, settled jobs, exclusivity, the hand-over, bounded attempts, heartbeats |
| 2 | `EventStream`: append, poll, resume, reconnecting client | `EventFeed`: numbers 1, 2, 3, ... read in order without gaps | refinement of the feed, complete ends, nothing shown twice |
| 3 | `EngineRun`: pipeline, saving, alarm, rows, downloads | `Delivery`: a job's artifacts are offered at once, from one run, for good | an earned SUCCESS, rows with objects, good downloads, refinement of the delivery |
| 4 | `LoginGuard`: windows, counts and locks against a clock, registration, keys | - | bounded guessing, bounded bursts, unique accounts, one key |
| 5 | `Serving`: hooks, engine loading, requests, logs | - | cards, no silent CPU, answers, records, settings |
| 6 | `GraphPasses`, `Detection`, `Scoring`: the algorithms, against reference definitions | the meaning of a graph; the picture; the definition of average precision | sound NMS, true and complete answers, legal graphs, the arithmetic of a fusion, the average precision against its definition, bounded scores; the rest is model-checked |
| 7 | `Release`: from a compile to a package | - | packages, verdicts, conformance |

All steps are done. What could follow is `PlacesFit` for pictures that are scaled
(which boxes a given scale keeps apart), and larger instances of step 6.

Modules that are proved about hold no RECURSIVE operator; parameters are
CONSTANTS with named assumptions; there is one action per statement that other
processes can observe.

## 3. What is modelled

### JobQueue

`queue` is the Redis list (or the deque), its head the entry dequeued next;
`processing` is the set of leased ids. `Backend` chooses the implementation. In
memory, `Enqueue` ignores an id that is queued or in processing and `Pop` leases
it; on Redis `Pop` and `Lease`, and `Release` and `PushBack`, are separate
actions because they are separate commands.

### JobPlatform

Every request is a thread: `rpc` is the statement it is about to execute, `rop`
and `rjob` what it does to which job. The status it decided by is not kept:
after the check the handler only writes, so the counter carries the decision
(`CancelCheck` chooses `setCancelled` or `setFlag`). Every worker is a thread
with its counter `wpc`, in the order of `poll_once` and `run_job`:

```
idle -> lease -> busy -> claim -> confirm -> convert -> persist -> report -> ack -> ready -> idle
                           |         |          |          |          |       |
                           +-> ack   +-> ack    +----------+----------+-------+ exception
                                                     |
                               reset -> requeue -> push -> ready      (attempts left)
                               fail  -> drop           -> ready      (none left)
```

The database is PostgreSQL, as deployed: a statement is atomic, and a job row
with child rows cannot be deleted (the foreign keys of stages, artifacts and
events have no cascade). SQLAlchemy writes the status by primary key whatever
the row holds now; where it reads the row first and sees no difference it
writes nothing, which is the same as writing at the moment of the read.
`Confirm` is therefore one step. If the row is gone, the write of a job loaded
earlier raises (`RowVanished`), and a freshly loaded one does nothing
(`WriteStatus`).

`children` keeps what rows exist: `complete` (stage rows of a run that
succeeded), `broken` (stage rows with a failed step), `other` (events,
artifacts). A timed-out run leaves no stage rows and perhaps no events; a failed
one may have failed before its first step.

Faults, bounded by `MaxFaults`: a database or Redis error inside the `try` of
`poll_once` (`InfraError`, which takes the except branch), the end of a worker
process anywhere (`Crash`: kill, an error outside the `try` or inside the except
branch, an interrupt whose `finally` still writes READY), and a request that
dies between two statements (`RequestDies`). A crash applies to Redis only: the
in-memory queue lives in the process.

Abstractions: what the pipeline does is an outcome (`ok`, `failed`, `timeout` or
an exception before it starts); timestamps, fingerprint, worker_id, messages and
the audit log are left out; the order of event rows is left to `EventStream`.
`started`, `cancelled` and `raised` are history: nothing in the model reads them
but the properties (`started` is the column `started_at`, set by the claim).

### EventStream

Three parties and their shared state: the runs (`run`, `next`) append to `rows`
and write `status`; the generator of `events.py` (`srv`, `pos`, `batch`) reads
both and puts frames on the `wire`; the client (`cli`, `lastId`) takes them off
it, notes the highest id and connects again after every end.

```
generator:  list -> send* -> status -> list          (not terminal)
                                |
                               more -> closed | list (terminal, rows left)
client:     first -> open -> ended | broken -> open ...   stopped
```

`append` is two actions because it is two statements, and so are the
generator's three reads. `Overlap` says whether executions of the job may
overlap, which `JobPlatform` shows to be possible after racing retries and
impossible otherwise (`ExclusiveWithoutRetry`). `SendsHeader` chooses between
the console's client, whose query parameter the server does not read, and a
client that sends `Last-Event-ID`. Any status an API request may write at any
time is `ApiWrite`. `at`, `closing`, `shown` and `twice` are history.

Abstractions: what an event says is left out, a row is its run and sequence;
statuses are `open` or `terminal`, which is all the generator distinguishes.
A generator whose connection is gone only reads rows, so it ends with its
connection and there is one connection at a time. A refused or failed request
is a connection that breaks at once. The page component that owns the client
keeps what it was given (`shown`).

`EventFeed` is the abstract specification: a number of published events, the
position of the present connection, the highest event ever read. Its `Resume`
allows a new connection to start at 0 or after the highest. `ImplementsFeed`
maps `last` to the highest sequence, `pos` to `at` and `high` to `lastId`.

### EngineRun

One run of a job, between the claim and the final status, and the artifact
store that outlives it. `JobPlatform` treats this stretch as one outcome; here
it is opened, and in exchange a job has one run at a time (`Begin` again after
a failure).

```
idle -> steps -> save -> conclude -> return -> rows -> idle
          |        |         |          |        ^
          |        +---------+----------+--------+  TimeoutError reaches run_job
          +-> save                                  a step raises, or the alarm
any -> idle                                         any other exception, a kill
```

`done`, `failed` and `error` are what `run_pipeline` computes its verdict from:
how many records say ok, whether the last says failed, and whether
`pipeline.run` raised. `made` is the set of files the result names; `tried` how
far the first pass of `run_pipeline` has come in saving them, `saved` the
manifest's `artifacts`. That is a dict by kind, so the optimised model replaces
the raw one and the compiler's last file its main one (`Record`). `store` holds
objects by directory and file name, each with the job and run that wrote it;
`Shared` says whether all jobs use one bucket (MinIO) or each its own directory
under the workspace. `parts` fixes which optional files a job produces.

The alarm (`Timeouts`) is a timer that raises `TimeoutError` once, wherever the
run is. In a step it fails the step or, in work the step treats as optional, is
swallowed; between two steps it leaves no record (`CutBetweenSteps`); in a save
it is logged like an error of the store (`LoseFile`); in the sending of an event
it is swallowed (`Conclude`); elsewhere it ends `run_pipeline` (`TimeOut`), which
forgets stages and manifest. `losses` and `fired` are history.

Abstractions: what steps compute; the second copy each save puts under a key of
its own, which no row names; stage and event rows (`JobPlatform`,
`EventStream`); a file that a failed copy leaves half written, which
`DownloadsAreGood` excludes with `losses[j] = 0`. A step raises before or after
it has set its file; both are allowed for every step, a superset of the code.

`Delivery` is the abstract specification: `wanted`, the kinds of file each job
is to deliver, and `offered`, the files on offer with the run that wrote them.
`ImplementsDelivery` maps `offered` to what `download_artifact` would return for
the job's rows, nothing after a lost save.

### LoginGuard

Every browser is a thread of the API process with one request at a time;
`call[c].at` is where it is:

```
idle -> fetch -> load -> post -> window -> decrypt -> query -> failure | success -> idle     login
idle -> fetch -> load -> post ---------->  decrypt -> query -> create            -> idle     register
```

A critical section of `LoginGuard` (the mutex of `ratelimit.py`) is one step, so
`check_account` and `hit` are two, and the failure is counted in a third, after
the password was tested. `windows` and `failures` are its two dictionaries;
`clock` ticks between steps. `keyFile` and `privateKey` are the key on disk and
in the `lru_cache`, `cachedKey` the browser's. `Restart` empties what lives in
the process (windows, failure counts, the loaded key), drops the requests under
way, and may find the key file removed. It leaves `passed` alone, so that a span
of time over a restart is counted: the windows forgotten, each process lets in its
own limit.
Registration looks a name up in one statement and inserts in another; the unique
columns decide a race.

Abstractions: a password is right or not, strong or not; a ciphertext is the
password with the key it was made with; tokens, audit rows and `is_active` only
depend on what is modelled and are left out. `guesses`, `since`, `passed` and
`handed` are history; `passed` has a record for each request let in: when, by which
process (`run`, the restarts before it), in which window, and how many were before
it. `guesses` starts again with the failure count, after a right password or a
restart: `GuessBound` is about the time between two such moments. Assumed (`GuardAssumption`): finitely many clients, each
with an address.

### Serving

The master (`pool`, `table`: the free cards and the card on file for a worker's
key), the worker processes (`pid`, `env`, `engine`, `place`, `detector`, and the
request in hand: `phase`, `req`, `found`), `setflag.json` (`flags`, `current`),
and the log server (`posts`, `srv`, `objects`, `records`). A hook and the fork
are one step: the master is one thread, the child works on a copy. What the
worker is filed under before and after its fork is `WorkerDeviceKey`; whether
gunicorn shows a pid before the fork depends on its version (`bootPid`).

```
predict        -> (load engine, build detector) -> infer -> persist -> report -> idle
predict_image  -> (load engine, build detector) -> infer -> persist_image     -> idle
setflag        -> read -> truncate -> dump -> idle
log            -> posts -> srv (MinIO done) -> records (Kafka) | lost
```

A worker serves one request at a time (gunicorn's sync worker); it may be killed
anywhere (`Kill`, a timeout or a crash) and is replaced under any free pid. The
cards may vanish once (`CardsVanish`). `outcome`, `worked` and `tangled` are
history.

Abstractions: a picture is whether it was saved, a prediction whether it found
something; parameters, drawing, log files and rotation are left out. Assumed:
`MaxWorkers` bounds what a deployment asks for, and `CardsAssumption`, that no
card is configured twice: `GPU_ID=0,0` puts a card into the pool twice,
and two workers on one card is then what was asked for.

### GraphPasses

Steps 04 to 07 of the pipeline on one graph: analysis, the four optimisation
passes each with snapshot, check and roll-back (`Take`), the rewrites as one
transaction, the capability gate, topological order, freezing and the Resize
patch for X2Paddle. Tensors hold one integer, so a graph has a meaning
(`Meaning`) that can be compared before and after: `Conv` is w*x + b, `BN` is
s*(x - m) + b, `Resize` multiplies by its scale, and the activations are fixed
integer functions that are different from each other. `Legal` is what
`onnx.checker` looks at in the wiring; types are not. `Accepted` adds that it
refuses operators without a valid schema (`Unregistered`), so that every pass over
a graph with a Silu is rolled back until the rewrites have replaced it. Assumed
(`GraphsAssumption`): an exported model has the parts of a graph.

`Classify` leaves out the limits on opset and data types. The outputs of the
instance's graphs are the last tensor, alone or, in a chain of three, with any one
earlier. `MeaningKept` has one exception, `Overwritten`, which is a bug of the
code (section 4): where a fused convolution makes an output, that output carries
the value of the normalisation. The property says that it carries exactly this and
that no other output changes.

### Detection

One picture through the serving runtime: the letterbox, the head (`Row`: what
columns the network emits, in which order), the contract as the converter
detects it (`DetectForTask`), the decoder it selects, NMS class by class, the way
back to the picture, the confidence table and the reply. Lengths are quarters of
a pixel, scores thousandths. `Suppress` is one round of `_nms_single`; where
scores are equal, `argsort` may give any order. `Nearest` is `int(round())`, with
which the letterbox takes the sides of the shrunk picture and the detector whole
pixels.

Assumed: a network emits what `Row` says of its layout, more candidates than
columns, sees a box on the nearest pixels of its input, and gives integers where
the code has floats. The converter never writes the number of mask coefficients, so the runtime's default
is the constant `NumMasks` (32 in the code). `InputsAssumption` says what heads,
pictures and scenes are: numbers where the code has arrays, classes and dense
maps with heads of their own, and a segmentation head with the coefficients the
runtime counts on. `cand`, `rest` and `kept` hold row numbers, as `_nms_single`
holds indices; a reply keeps its objects at their places in the result.

The runtime counts columns and never checks what they are, so what it answers is
right only of some networks. `HeadsFit` says of which: the decoder of the contract
finds box, objectness, classes and the rest where it counts them. `ScenesFit`: a
network finds objects of its own classes. `PlacesFit`, of detection heads, whose
boxes go back to the picture before NMS: rounding leaves an object of two pixels
in sight and makes no two boxes overlap that the network saw apart. `TablesFit`:
thresholds in hundredths, because a detection's confidence is rounded before it is
compared. `InstanceFits` has TLC evaluate the four on the instance.

### Scoring

An evaluation of annotated samples: `Ask` (availability), `Run` (decode one
sample, or raise), and a score per task. How alike a prediction and an annotation
are is part of the sample (`sim`), a percentage for each annotation; NMS is given
the pairs that overlap. Fractions are in units of 1/`Unit`, 432 on the instance,
which divides every denominator there evenly.

`Ranked` is `np.argsort(-scores)`; it is a choice of the one permutation that an
order allows, so that what is needed of it is that it exists. `Match` goes through
the predictions of a class in that order; `Found` is where the tasks differ: a
detection goes for its best annotation, taken or not, a rotated box or a pose for
the best one that is left, a segmentation for its one annotation whatever the
class. `ComputeAp` is the code's function with its brackets, its envelope and its
sum over the steps of recall. Assumed (`ScoringAssumption`): `Unit` and `TopK` are
positive and samples are what `SamplesOf` says: a similarity per annotation, one
annotation with a mask, arrays of scores, pixels or a class otherwise. Of depth,
`ScorePixels` counts the pixels of all samples within the ratio of `d1`, where the
code takes the mean of each sample's share; the other errors of depth and the
intersections of classes are left out.

### Release

One output directory over a series of commands. `disk` holds the files a compile
writes (`onnx`, `pdmodel` or `json`, `pdiparams`, `xpu`), each with the compile
that wrote it, the adapter, and what happens when it runs on a device; `meta` is
`metadata.json`. `host` is the software and the card of the machine, which may
change between commands (`Provision`).

```
convert:  compile -> [params ->] metadata -> validate -> benchmark -> package -> idle
compile:  compile -> [params ->] metadata -> idle
validate, package, conformance:  one step on the artifact restored from the directory
any step -> idle                                          the command ends (CutOff)
```

`Resolve` is the choice of adapter, `CreateRuntime` and `TargetSession` open a
session and decide its device, `ArtifactFromModel` restores an artifact from
metadata that may be another compile's. `judged`, `conformed` and `package` are
the last verdicts, report and archive; `torn` is history.

Abstractions: an output agrees, differs, or the run raises; that a session on a
card that is not there fails is the vendors' doing and assumed, and so is that an
open session can name its inputs: `model_conformance.py:253` asks outside its `try`,
so that an error there would end the report, where `StageResult` has a stage that
raised. A command runs
alone in its directory. `convert` writes the same files through the same code as
the engine, whose swallowed errors belong to `EngineRun`.

Operators named `Bug...` are the next definition with a plausible bug. The
specification never uses them; each property is tested by checking that it fails
when the definition is replaced by its bug.

## 4. What the runs check

`CHECK_DEADLOCK FALSE` is right everywhere here: the platform rests when no
request is left and the queue is empty, the stream when the runs are over and
the reader has left, the engine when all jobs have had their runs, the runtime
when every request was sent, and the others when the picture is answered, the
graph compiled, the samples scored, or the bound on requests or commands is
reached.

| Run | Instance | Shows |
|---|---|---|
| `PlatformRedis` | 1 job, 2 workers, 3 requests, 1 retry, 1 fault | `ExclusiveWithoutRetry`, `SuccessHasRows`, `ReadyMeansIdle` with a fault anywhere; `NoLostJob`, `NoLeakedLease`, `RunningHasRunner`, `AttemptsBounded`, `SettledStable` where none has happened |
| `PlatformLive` | the same without faults, fair | `WaitingSettles`: a job that waits or runs reaches an end |
| `StreamConsole` | 2 successive runs of 2 events, 1 status write, 1 break, the console's client, fair | `StrictSequence`, `CompleteAtEnd`, `ImplementsFeed`, `EventuallyShown` |
| `EngineRun` | 1 job with any optional files, own directory, 2 runs, 1 lost save besides the alarm | `TypeOK`, `SuccessIsEarned`, `RowsHaveObjects`, `DownloadsAreGood`, `ImplementsDelivery` |
| `LoginGuard` | 2 browsers with an address each, 1 name, 2 emails, 2 failures to a lock of 2 ticks, windows of 2 ticks, clock to 2, 4 requests, 1 restart | `GuessBound`, `WindowBurst`, `AccountsUnique`, `KeysAgree` |
| `Serving` | 32 deployments (every mode and format with and without a card, two workers on two cards, one setting changed at a time), 2 requests, 3 spawns, 1 kill, 2 pids | `NoDoubleCard`, `NoSilentCpu`, `AnswersTruthful`, `RecordsPointToObjects`, `FlagsAccumulate`, and under fairness `RequestsEnd` |
| `GraphPasses` | every chain of up to 3 pieces out of 17, the output of the last and, of 3, of any other piece besides being outputs, levels 0 to 2, input size known, unknown or asked for, Silu and Upsample refused by the checker | `MeaningKept`, `StaysLegal`, `NeverWorse` |
| `Detection` | network of 8 by 8, 13 heads of every layout, 3 pictures (shrunk, framed with odd margins, enlarged, the first and last with rounded sides), up to 3 objects that overlap in a chain, 3 tables, `MaxDet` 2 | `NmsSound`, `Truthful`, `NothingLost` |
| `Scoring` | every task, 2 samples, up to 3 predictions and 2 annotations, ties, missing annotations | `ApSound`, `ScoresBounded` |
| `Release` | 3 commands with 2 compiles on 7 hosts, 3 models, 3 behaviours, chains of 3 stages | `NoFakeRelease`, `OneCompile`, `VerdictEarned`, `ConformanceEarned` |

Bounds. Three requests on one job are a create and any two of retry, cancel and
delete: two requests that act on the same stale status. Two workers are the
fewest that can meet on one job. `MaxRetries = 1` lets a job take both branches
of the except clause; the deployed 2 adds a repetition. One fault is enough to
separate any two statements. Two runs of two events let a run start after a
stream has ended and a row arrive between any two reads of the generator. Two
runs of the engine let a failed run leave rows and objects that the next one
meets; with a directory for each job, jobs share nothing, so one job is enough.

Two browsers race on every pair of statements; the clock reaches the end of a
lock and of a window while a thread is past the check; four requests lock a name
and try again; a restart falls between the fetch of a key and its use. Three
spawns with one kill let a process number and a card be used again while another
worker lives; two requests overlap in `setflag.json`, and each has a log on its
way while the other is answered. Three pieces put a reader, a second reader and an
output around every pass and rewrite: the tensor before it, the one it makes and
the one behind it are each an output in some chain. Three objects in a chain are the fewest
where the order of NMS matters, two classes with `MaxDet` 2 the fewest where the
cut does. Three predictions on two annotations let one annotation be found twice
with something in between. Three commands with two compiles let a command find
what two others have left, one of them cut off.

The in-memory queue, any number of jobs and workers, and a client that sends
`Last-Event-ID` have no run of their own: the theorems of section 5 cover them
for all constants (`Backend`, `SendsHeader`).

Fairness. In `JobPlatform`, `FairSpec` makes each request, once started, each live
worker and the restart of a dead worker (`restart: unless-stopped` in the compose
files) weakly fair. It requires no request to be made and no fault to happen. In
`EventStream` the generator, the client's timer and the arrival of frames on a
live connection are weakly fair (event loop, browser, TCP); runs, status writes,
breaks and the reader's leaving are not. In `Serving` a worker goes on with the
request in its hands; nothing makes a request arrive, a worker be started, or a
log be collected.

Each property was also checked against a plausible bug: `PROJECT.json` names the
definition, and the `Bug...` operator that breaks the property in its place.

### Where code and documentation disagree

Two runs check a statement of the repository that TLC finds broken;
`PROJECT.json` quotes the lines.

| Run | Statement | What happens |
|---|---|---|
| `DocExclusive` | claiming keeps two workers from running a job | two retries queue it twice; the second entry is claimed after a late QUEUED write |
| `DocClasses` | classes and thresholds of every reply come from confidence.json | the classification path never reads the file, so its reply is always empty |

The next were found in the same way. They have no run in the list; add the
property to the named configuration to repeat them (the modules keep the
properties and instances).

| Property | Run to repeat | Statement | What happens |
|---|---|---|---|
| `JobPlatform!SuccessIsFinal` | `PlatformRedis` | the status follows the engine's machine, where SUCCESS is final (`db/models/job.py:2`) | `create_job` writes QUEUED after the run has finished |
| `JobPlatform!LeaseRecovers` | `PlatformLive` with one fault | the processing set is a lease | nothing takes a dead worker's job back |
| `EventStream!ShownOnce` | `StreamConsole` | the client resumes with `Last-Event-ID` (`sse.ts`) | it sends a query parameter the server ignores; everything is shown again |
| `EngineRun!DownloadsAreGood` | `EngineRun`, 2 jobs, `Shared = TRUE` | only artifacts of successful jobs are downloaded | keys have no part for the job: on one bucket a failed job overwrites what a SUCCESS job's row names |
| `EngineRun!TimeoutFails` | `EngineRun` | a job that exceeds its time is FAILED | an alarm inside a save is logged as a lost file and the job ends as SUCCESS |
| `Serving!OneCardPerWorker` | `Serving` | workers run on different cards (`nwai_devices.py:4`, `nwai_gunicorn.py:5`) | filed under "[booting]", a worker's card is not found after the fork, and it loads on card 0 |
| `Serving!ResultsKeepFiles` | `Serving` | an uploaded log keeps its files (`send_log_webserver.py:126`) | the log is asked for a key `data` that the runtime does not send |
| `GraphPasses!OutputsSurvive` | `GraphPasses`, `Graphs <- FusedOutput` | fusion leaves external outputs as they are (`fusion.py:60`) and the numbers too (`test_optimizer.py:45`) | only the normalisation's output is looked for among the graph's (`fusion.py:59`); when the convolution's own result is an output, it silently becomes the normalised value. `MeaningKept` states this exception; Level 1 of step 08 (`pipeline.py:401`), which only reports, is where it would show |
| `GraphPasses!GateIsSound` | `GraphPasses`, `Graphs <- TwoResizes` | no unsupported node passes the gate (`operators.py:5`, `pipeline.py:325`) | a decision is made per operator type, on its first node |
| `GraphPasses!SanitizedMeaning` | `GraphPasses`, `Graphs <- SizedGraphs` | the X2Paddle patch keeps the model (`compiler.py:404`) | a Resize by sizes has its sizes taken for scales |
| `Detection!LayoutRight` | `Detection`, `Heads <- SixColumns` | the contract makes the semantics of the output explicit (`contract/output.py:4`) | a head with six columns is announced as finished detections |
| `Scoring!DetectionScored` | `Scoring`, `Deployments <- DetectionModels`, `Datasets <- FewData` | bcn, bnc, bnc6 and pair are scored (`application.py:8`) | the float labels of bcn, bnc and a pair of several classes cannot index, and the evaluator answers "not available" |
| `Release!CompiledIsNoPlaceholder` | `Release` | `package` packs what a compile has made (`package.py:2`) | newer Paddle's program is `model.json`, which is read as the metadata; the artifact is then a placeholder and refused |

Smaller ones, met while modelling:

* `api/routers/jobs.py:114` says the worker will check `cancel_requested`;
  nothing reads it, so a RUNNING job whose cancellation was accepted goes on.
* The worker writes RUNNING once more after its claim (`executor.py:119`), over a
  CANCELLED that a request has decided on an earlier status; the job then runs on.
* `worker/queue.py:15` has `enqueue` put the job into the queue; the in-memory
  queue ignores an id that is in processing, so a retry between the final
  FAILED and the ack leaves the job QUEUED with no entry.
* `pipeline.py:200` says a skipped step is marked SKIPPED and not passed off as
  ok; its record has `ok: True` too, which is all `converter.py:90` looks at.
* The manifest has one artifact per kind (`converter.py:79`), so of several
  compiled files only the last gets a row, not the main one.
* `scheduler.py:8` has a job FAILED after `max_retries` retries; each worker
  process counts for itself, so the bound is per worker (`AttemptsBounded`).
* `db/models/stage.py:2` speaks of the 10 stages of a job; each run appends ten
  more (`executor.py:165`), and those of a failed run stay.
* `repositories/artifacts.py:47` promises strictly increasing sequences; read
  and insert are two statements, so overlapping executions insert the same
  number twice (`StrictSequence` with `Overlap = TRUE`).
* `sse.ts:66` reconnects after an interruption; the client also does so, every
  1.5 s, after a regular end, and then appends all events to the page again.
* An expired login lock does not reset the count, so the first wrong password
  after it locks again (`ratelimit.py:97`). A restart forgets windows and counts:
  in the span of one window it lets an address in almost three times the limit.
* `child_exit` looks a card up under the pid, `pre_fork` files it under the key
  before the fork: with "[booting]" the card of a worker that ends is not given
  back, and the pool runs dry. Nothing reads `setflag.json` (`nwai_logging.py`).
* A `boxes` task without a detection is an internal error
  (`nwai_detector.py:147`), not an empty answer.
* A rewrite rule that raises leaves its edits in the graph and reports no change
  (`rewrite/registry.py:96`), and only a reported change is checked.
* Unnamed Silu and Mish nodes get one name for their inner tensors
  (`rewrite/base.py:82`); the roll-back of all rewrites is what saves the graph,
  and the operators left over pass the gate as "to be rewritten".
* Fusion names a missing bias after the convolution (`fusion.py:69`), so two
  unnamed convolutions share one; so do two unnamed Resizes their scales
  (`compiler.py:417`).
* `compute_ap` announces 101 points and uses all of them; the evaluators of
  segmentation, pose, depth and classes skip samples they cannot decode; NMS
  ignores the class there and not in the runtime.
* `kunlun.yaml` says a missing SDK degrades to a stub; `compile` refuses one,
  `convert` needs `--allow-degraded`. `probe_kunlun` never finds a driver
  version, and `validate --benchmark` names no chip, so both never credit a
  benchmark.
* A required conformance stage that falls back to the CPU counts as run, and a
  report on no samples passes (`ConformanceEarned` states what is left).

## 5. What is proved

`JobPlatformProofs` proves, for every set of jobs, workers and requests, every
`MaxRetries` and `MaxFaults` and both queues, from the assumptions
`BackendAssumption` and `PlatformAssumption` (workers are finitely many) only:

* `TypeCorrect`: `Spec => []TypeOK`. The conjunct that a worker holds a job
  exactly when it is neither idle nor down makes it inductive.
* `SuccessIsBacked`: `Spec => []SuccessHasRows`. The strengthening `RowsInv`
  adds that a worker about to report success has persisted the rows; child rows
  only grow.
* `LeasesAreHeld`: `Spec => []NoLeakedLease`. `LeaseInv` says at which counters
  (`LeasePC`) the holder of a lease may be: `NoLeakedLease` alone is lost when
  the holder goes idle.
* `NoOrphanedRun`: `Spec => []RunningHasRunner`, inductive as it stands.
* `SettledJobsStay`: `Spec => SettledStable`, from the types: each action that
  writes a status is a blind writer in flight, excluded by `Settled`, or a
  claim, whose condition excludes SUCCESS and CANCELLED.

Its second part is about the hand-over, on two lemmas about sequences (`PopFacts`,
`AppendFacts`: what taking the head and appending do to the ids in a queue):

* `RunsAreExclusive`: `Spec => []ExclusiveWithoutRetry`. The claim is no help
  here, since late status writes make a running job claimable again; what keeps
  the second worker out is that a job has one token (`Token`): its queue entry,
  the worker that took it, or on Redis the `create` that is about to push it.
  `Token` needs `FreshInv` (an id is nowhere before its insert), and
  `RetryIsForGood` lets the step assume that nobody had retried before it.
* `NothingLost`: `Spec => []NoLostJob`. `HandoverInv` says that, without
  faults, a row is queued, carried, arriving or over (run, cancelled, deleted),
  that statuses after the claim imply a claim (`StatusTold`), and that a worker
  writes or acks only what it claimed or found over (`WorkersKnow`). In memory
  the case of an enqueue that is ignored needs `LeaseInv`: whoever leases the id
  still carries it or is done with it.
* `ReadyIsIdle`: `Spec => []ReadyMeansIdle`, inductive as it stands.
* `AttemptsAreBounded`: `Spec => []AttemptsBounded`. A job's errors are set against
  what its workers remember: `Remembered` is the set of pairs of a worker and a
  number up to its count, a subset of a product of known size, so that no sum over
  the workers is needed. `AttemptInv` says that errors and pairs keep pace except
  for the last error, after which the job is `Spent`: its one token (`TokenInv`)
  is gone or in the hands of the worker that drops it. A final ack forgets the
  pairs, and is the end of the token too.

The invariants `FreshInv`, `TokenInv`, `LeaseInv`, `HandoverInv` and `AttemptInv`
were checked with TLC on the instance of `PlatformRedis`, on both queues, before they
were proved.

The proofs split `[Next]_vars` into the requests, one worker's step and the
faults; the lemmas `RequestsKeepWorkers`, `WorkersKeepRequests` and
`OtherWorkersKeep` say what each part leaves alone. Where a property assumes
`faults = 0`, `FaultFree` shows that fault actions cannot occur.

`EventStreamProofs` proves, for every set of runs and every bound, from
`StreamAssumption` and the hypothesis that executions do not overlap:

* `SequencesAreStrict`: `Spec => []StrictSequence`. `RunInv` says that the
  sequences are exactly `1..last` without repetition, where `NextIsCount`
  identifies `NextSequence` with the number of rows plus one, and `ReadInv` that
  a run between its two statements holds the next number.
* `EndIsComplete`: `Spec => []CompleteAtEnd`. `WireInv` says that the frames
  under way continue what the client has read, up to the generator's position,
  `BatchInv` that the fetched rows continue that position, and `EndInv` that
  everything up to `at` has been shown.
* `StreamIsAFeed`: `Spec => ImplementsFeed`. Each step maps to a feed step or a
  stutter (`FeedStep`): `InsertEvent` to `Publish`, `Receive` to `Read`,
  `Connect` to `Resume`.
* `HeaderShowsOnce`: `Spec => []ShownOnce` for a client that sends the header,
  where `at` never falls behind `lastId`.

The first part of `ConversionProofs` is about `EngineRun`. It proves, for every set
of jobs and every bound, with or without an alarm, from `EngineAssumption`:

* `EngineTypes`: `Spec => []TypeOK`.
* `SuccessTakesTen`: `Spec => []SuccessIsEarned`. `StepInv` ties the records to
  the place of the run: past the steps without an error, ten records are good
  and every file is named (`Complete`); an interruption always sets `error`.
* `RowsAreBacked`: `Spec => []RowsHaveObjects`, for a shared bucket too.
  `ObjectInv` adds the manifests; `ObjectsStay` says that puts replace objects
  and remove none.
* `GoodDownloads` and `RunsDeliver`, with `~Shared`: `Spec => []DownloadsAreGood`
  and `Spec => ImplementsDelivery`. `FreshRun` says that, while no save was lost,
  every file passed is stored by this run and its kind is in the manifest;
  `FreshResult` carries that to the SUCCESS of the job, where `Complete` makes it
  all files. `KeysApart` is where the directories are needed, and the only step
  of a job that changes what is offered is `Finish` (`OnlyFinish`).

`StepInv`, `ObjectInv` and `FreshInv` were checked with TLC on the instance of
`EngineRun` before they were proved.

`LoginGuardProofs` proves, for any finite set of clients, names, limits and
bounds, from `GuardAssumption`:

* `GuardTypes`: `Spec => []TypeOK`, with what a request carries at each place
  (`CallInv`).
* `OneKeyPerProcess`: `Spec => []KeysAgree`. `KeyInv` adds that a loaded key is
  the one in the file, which is what racing loads agree on.
* `OneAccountEach`: `Spec => []AccountsUnique`, at the only insertion.
* `GuessesBounded`: `Spec => []GuessBound`. `GuessInv` counts: below the limit
  the wrong guesses are the failures on the counter; beyond it, they are the last
  failure before the lock, those of the threads that had passed the check before
  it (`Past`), and for each lock that has run out at most one per thread. Locks
  do not overlap, so that the time since the count was cleared bounds their
  number; that step is arithmetic on `\div` (`DivMono`, `ProductMono`).
* `BurstsBounded`: `Spec => []WindowBurst`. `BurstInv` says that a request was let
  in inside its window, at a place of its own within the limit (`Admitted`), that
  two windows of one address in one process are the same or do not overlap, and
  that the windows of a later process begin after the requests of an earlier one
  (`Apart`). From it `SpanBounded` maps the requests of a span one-to-one to
  places: those of the one window that was open before the span to the second
  place onwards, the others to a place in the one window that each process can
  begin inside the span. That is the limit less one, and once the limit for every
  process that answered in the span: twice the limit less one without a restart,
  nearly three times with one.

`ServingProofs` proves, for every set of deployments, pids and requests, from
`ServingAssumption` and `CardsAssumption`:

* `ServingTypes`, and `CardsCountedOnce`: `Spec => []NoDoubleCard`, inductive with
  the types: a hook moves one card between pool and table.
* `CpuOnlyByChoice`: `Spec => []NoSilentCpu`: the engine is loaded by the mode the
  master read, whatever `post_fork` writes.
* `AnswersAreTrue`: `Spec => []AnswersTruthful`, from `HandInv` (a pending request
  is in the hands of one worker) and `WorkInv` (what has been done for it where).
* `RecordsAreTrue`: `Spec => []RecordsPointToObjects`. `LogInv` follows a log: there
  is one for a request, on its way, at the server, or recorded.
* `SettingsAddUp`: `Spec => []FlagsAccumulate`. `FlagInv`: untangled, one worker
  at most is between truncate and dump, and it holds all settings stored so far.

`ReleaseProofs` proves, for all hosts, models, behaviours, chains and series of
commands, from `ReleaseAssumption`:

* `ReleasesAreReal` and `PackagesAreWhole`: `Spec => []NoFakeRelease` and
  `Spec => []OneCompile`. `DiskInv` says that only adapters write compiled files
  and that files of one compile are equal in what they do; `ArtInv` that the
  artifact in memory is the one on the disk, which holds because a directory has
  one command; `MetaInv` that metadata was written by a compile, though perhaps
  another one; `PairInv` that the two files of a pair belong together unless a
  compile was cut off. An artifact restored without metadata is a placeholder
  (`Restored`), which is why stale metadata does no harm.
* `VerdictsAreEarned`: `Spec => []VerdictEarned`. `SessionFacts` says what a
  session that got the card has read; `JudgeInv` carries the accuracy of step 08 to
  step 09, which opens a session of its own.
* `ConformanceIsEarned`: `Spec => []ConformanceEarned`, from `StageFacts`.

`DetectionProofs` proves, for all heads, pictures, scenes, tables and thresholds,
from `DetectionAssumption` and `InputsAssumption`:

* `NmsIsSound`: `Spec => []NmsSound`, for any way of breaking ties. A round compares
  the box it keeps with those that are left, so that a later box is clear of an
  earlier one only because `Overlap` is symmetric (`OverlapIsSymmetric`). That
  holds for boxes of four integers, and is why the types of the whole path are
  followed: `Letterboxed` and `SeenIsBox` to the network's input, `RowHasBox` to
  the columns of each head, `ContractFits` to the decoder, `Decoded` through the
  seven of them, `RemapIsBox` back to the picture. A contract may have counted the
  classes wrong; the box is there all the same.
* `RowsAreKeptOnce`: no row is kept twice or looked at again once kept, one part
  of `Truthful`'s claim that no object is returned twice.
* `AnswersAreTrue`: `Spec => []Truthful`, assuming `HeadsFit` and `ScenesFit`. The
  invariant is `TruthInv`: the picture holds its boxes, and in the phase of NMS every
  candidate is what its object's row says (`FoundFor`). Three things carry it.
  `ReadsObject` takes each decoder through the columns of each head: sequences are
  taken apart by `RowOf`, `CutOf` and `MiddleOf`, classes by `BestClass`, a centre and
  a size back to corners by `CentredBack`. `ReturnedIsKept` and `RankedIs` say that
  sorting by score and cutting at `max_det` return kept rows, each once; that a
  finite set has its ranking is `RankingExists`. `ComesBack` follows a corner through
  the letterbox: `Landed` bounds what rounding the side and the corner loses, `BorderOf`
  what the border is short of the margin, `Returned4` what is lost going back.
* `DeclaredHeadsFit`: `HeadsFit` for every head whose class count was declared and
  whose layout is one its task's decoder expects, six columns excluded for `bnc`.
* `WantedIsAnswered`: `Spec => []NothingLost`, assuming `PlacesFit` and `TablesFit`
  besides. `RivalKept`: when no row is left, an object was kept or a rival of it was
  (`NmsSound`). `CutIsCrowded`: a kept row that `max_det` cuts stands behind more than
  `max_det` of no lower score. `FormatKeeps`: what is in the result and asked for is
  listed, rounded or not. For task heads `PlacesFit` asks nothing: they run NMS in
  the coordinates the network saw.
* `FramedPlacesFit`: `PlacesFit` for pictures that are only framed, by an even margin,
  whatever is in them: the way there and back is the identity (`FramedBoxes`), overlap
  does not depend on where two boxes are (`OverlapMoves`), and a box without extent
  overlaps none (`NoneOverlapsFlat`). Scaling may well break it: rounding can
  thin a box until it is dropped as narrow, after it has suppressed another.

The proofs corrected the model twice. The letterbox had its sides rounded down,
where `letterbox` rounds them; and the tolerance of `Truthful`, half a pixel of
the input, was too small for some pictures: a coordinate is rounded three times
by up to half a pixel of the input before it is cut to a quarter and rounded in
the picture. `Near` is now what follows from that, for every size.

The second part of `ConversionProofs` is about `GraphPasses`. It proves, for all
models, sizes and levels, from `GraphsAssumption`:

* `LegalGraphsOnly`: `GraphSpec => []StaysLegal`, whatever the passes compute: what is
  taken was checked, and what is not checked (the first shape inference, the
  freezing of the input) touches neither nodes nor initializers (`LegalByParts`).
* `FusionKeepsValues`: for all constants and every input a convolution fused by
  `Fused` computes what the convolution and its normalisation did. Its hypotheses
  are those of `Fusable` but for two that the code does not test: the bias is not
  the weight, and a missing bias gets a name no initializer has. Section 4 lists
  what happens to the second.

`ScoringProofs` proves, for every task, all data, every `Unit` and `TopK`, from
`ScoringAssumption` only:

* `ScoresAreBounded`: `Spec => []ScoresBounded`. No average precision exceeds 1, a
  stricter threshold never scores higher, and top-1 hits are top-k hits.
* `ApIsSound`: `Spec => []ApSound`. What the evaluator computes for a detection, step
  by step, is the average precision of the definition, in which nothing is ranked,
  matched or accumulated: the sum, over the annotations of a class, of the best
  precision of a cut that finds as many.

The invariant is `IInv == Kept /\ Judged`: `Kept` types the records, with a similarity
for each annotation (which a loop that cuts predictions must not lose), and `Judged`
says that an available verdict was computed from the records that are there.
Everything else is about the operators:

* Induction. The library's induction theorems take an operator and cannot be used, but
  they have one form that takes a set: `<` on the naturals is well founded
  (`NatLessThanWellFounded`, `WFMin`). `SetInduction` says with it that a set of
  numbers with 0 and the successors of its members holds them all, `Recursion` that a
  function defined along the numbers exists, `SumIs` and `SumPrefix` what a sum is,
  and `RankedIs` that any finite set a total order orders has its ranking, and one
  only (`TopGrows` and `NmsIs` build on it).
* Bounds. `MatchPairs` says that matches are pairs of a prediction and an annotation of
  the class and that no annotation is matched twice, so that there are at most as
  many hits as annotations (`HitsHaveAnnotations`). `LowerFindsMore` is the reason
  why a stricter threshold never helps, and it is not obvious: with another threshold
  another annotation may be taken. It holds because the choice of the best annotation
  does not depend on the threshold, so that up to any place of the ranking the strict
  matches are among the loose ones. `LowerHitsMore` carries that to the counts of
  hits, `AreaByAnnotation` turns the area under the steps of recall into a sum over
  annotations, where more hits mean a best precision that is no smaller, and
  `ClassApMonotone` and `MeanApMonotone` add up. The division by the number of
  annotations and of classes cuts off, and is shown to keep the order.
* The definition. `TakenIs` says what is taken at a place of the ranking: the targets
  of those before that find something. `HitIs` and `HitsAreFirst` conclude that a
  prediction hits exactly if no earlier one of its sample goes for the same
  annotation, `PrecisionIs` that the cuts of the definition are the prefixes of the
  ranking, and `ClassApIsAp` puts it together, a class without annotations and one
  without predictions included.

The invariants were checked with TLC, as far as their quantifiers allow, or
follow from properties that were, before they were proved.

Only model-checked, and why:

* `MeaningKept`: the meaning of a graph is a fold over its nodes, and so is each
  pass, and it is not true of every graph (names that collide, section 4, besides
  the outputs that fusion overwrites, which it states), so that there is no statement for all constants to prove.
* `NeverWorse` depends on which node of a type comes first, and holds of the
  chains of the instance: a graph whose first Resize is dead can lose it and show
  a second one the table refuses.
* Liveness (`WaitingSettles`, `EventuallyShown`, `RequestsEnd`), which is out of
  the prover's reach, and the violations.

## 6. Not modelled

Projects and model uploads (`routers/projects.py`, `routers/models.py`) are single
inserts and reads behind an ownership check. The framework front ends call
PyTorch, Paddle and vendor code and keep nothing between calls. The web console
renders and sends requests; its stream client and its key cache are modelled with
their servers. Templates, reports, compile logs, `readiness.py` and the commands
that only read (`inspect`, `analyze`, the lists) change no state a property is
about. Floating point, tensor arithmetic, drawing and the vendors' compilers are
outside: where they matter, a model takes their result as an input or an outcome.
The components in `PROJECT.json` name the parts of modelled components that are
left out.
