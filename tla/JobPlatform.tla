---------------------------- MODULE JobPlatform ----------------------------
(***************************************************************************)
(* The life of conversion jobs in xpu_platform: the API requests that      *)
(* create, retry, cancel and delete a job, the queue between API and       *)
(* workers, and the workers that claim, run and settle it.  The database   *)
(* is PostgreSQL as deployed: one statement is atomic, a handler is not,   *)
(* and the foreign keys of stage, artifact and event rows protect the job  *)
(* row they point at.                                                      *)
(*                                                                         *)
(* A request or a worker is a thread with a program counter; between two   *)
(* of its statements every other thread may run.                           *)
(*                                                                         *)
(* An operator named Bug... is the next definition with a plausible bug.   *)
(* The specification never uses one; the properties are tested on them.    *)
(***************************************************************************)
EXTENDS JobQueue, FiniteSets

CONSTANTS Workers,     \* worker processes
          Requests,    \* API requests, each performs one operation
          NoJob,       \* "no job in hand"
          Ops,         \* the operations the requests may ask for
          MaxRetries,  \* max_retries of the scheduler
          MaxFaults    \* bound on crashes and infrastructure errors

ASSUME PlatformAssumption ==
    /\ NoJob \notin Jobs
    /\ IsFiniteSet(Workers)
    /\ Ops \subseteq {"create", "retry", "cancel", "delete"}
    /\ MaxRetries \in Nat
    /\ MaxFaults \in Nat

VARIABLES
    status,     \* [Jobs -> Status], the status column; "NONE" before the insert
    started,    \* [Jobs -> BOOLEAN], started_at is set (claim sets it)
    cancelFlag, \* [Jobs -> BOOLEAN], config["cancel_requested"]
    children,   \* [Jobs -> SUBSET Child], what rows refer to the job
    wpc,        \* [Workers -> WorkerPC]
    wjob,       \* [Workers -> Jobs \cup {NoJob}], the job in hand
    wout,       \* [Workers -> Outcome], what run_pipeline returned
    retries,    \* [Workers -> [Jobs -> Nat]], WorkerScheduler._retries
    hb,         \* [Workers -> ...], the status column of the workers table
    rpc, rop, rjob,  \* the requests: counter, operation, job
    faults,     \* crashes and infrastructure errors so far
    cancelled,  \* history: jobs whose status a cancel request has written
    raised      \* history: [Jobs -> Nat], executor errors since the job was last settled

dbVars   == <<status, started, cancelFlag, children>>
workVars == <<wpc, wjob, wout, retries, hb>>
apiVars  == <<rpc, rop, rjob>>
history  == <<faults, cancelled, raised>>
vars     == <<queueVars, dbVars, workVars, apiVars, history>>

Status   == {"NONE", "CREATED", "QUEUED", "RUNNING", "SUCCESS", "FAILED", "CANCELLED", "GONE"}
Child    == {"complete", "broken", "other"}
Outcome  == {"none", "ok", "failed", "timeout"}
WorkerPC == {"idle", "lease", "busy", "claim", "confirm", "convert", "persist", "report",
             "ack", "reset", "requeue", "push", "fail", "drop", "ready", "down"}
RequestPC == {"new", "enqueue", "setQueued", "setCancelled", "setFlag", "done"}
BugClaimableUnqueued == {"QUEUED", "FAILED"}
BugClaimableCancelled == {"CREATED", "QUEUED", "FAILED", "CANCELLED"}
Claimable == {"CREATED", "QUEUED", "FAILED"}

TypeOK ==
    /\ QueueTypeOK
    /\ status \in [Jobs -> Status]
    /\ started \in [Jobs -> BOOLEAN]
    /\ cancelFlag \in [Jobs -> BOOLEAN]
    /\ children \in [Jobs -> SUBSET Child]
    /\ wpc \in [Workers -> WorkerPC]
    /\ wjob \in [Workers -> Jobs \cup {NoJob}]
    /\ wout \in [Workers -> Outcome]
    /\ retries \in [Workers -> [Jobs -> 0..MaxRetries]]
    /\ hb \in [Workers -> {"READY", "BUSY"}]
    /\ rpc \in [Requests -> RequestPC]
    /\ rop \in [Requests -> {"create", "retry", "cancel", "delete", "none"}]
    /\ rjob \in [Requests -> Jobs \cup {NoJob}]
    /\ faults \in 0..MaxFaults
    /\ cancelled \in SUBSET Jobs
    /\ raised \in [Jobs -> Nat]
    /\ \A w \in Workers : wjob[w] = NoJob <=> wpc[w] \in {"idle", "down"}
    /\ \A r \in Requests : rpc[r] \notin {"new", "done"} => rjob[r] \in Jobs

Init ==
    /\ QueueInit
    /\ status = [j \in Jobs |-> "NONE"]
    /\ started = [j \in Jobs |-> FALSE]
    /\ cancelFlag = [j \in Jobs |-> FALSE]
    /\ children = [j \in Jobs |-> {}]
    /\ wpc = [w \in Workers |-> "idle"]
    /\ wjob = [w \in Workers |-> NoJob]
    /\ wout = [w \in Workers |-> "none"]
    /\ retries = [w \in Workers |-> [j \in Jobs |-> 0]]
    /\ hb = [w \in Workers |-> "READY"]
    /\ rpc = [r \in Requests |-> "new"]
    /\ rop = [r \in Requests |-> "none"]
    /\ rjob = [r \in Requests |-> NoJob]
    /\ faults = 0
    /\ cancelled = {}
    /\ raised = [j \in Jobs |-> 0]

RowExists(j) == status[j] \notin {"NONE", "GONE"}

(* JobRepository.update_status as the worker uses it: a blind write, and   *)
(* nothing when the row is gone.                                           *)
WriteStatus(j, s) ==
    status' = IF RowExists(j) THEN [status EXCEPT ![j] = s] ELSE status
-----------------------------------------------------------------------------
(* API requests: api/routers/jobs.py.                                      *)

Begin(r, op, j, pc) ==
    /\ rpc[r] = "new"
    /\ op \in Ops
    /\ rpc' = [rpc EXCEPT ![r] = pc]
    /\ rop' = [rop EXCEPT ![r] = op]
    /\ rjob' = [rjob EXCEPT ![r] = j]

Advance(r, from, to) ==
    /\ rpc[r] = from
    /\ rpc' = [rpc EXCEPT ![r] = to]
    /\ UNCHANGED <<rop, rjob>>

(* create_job: insert CREATED; enqueue; only then write QUEUED. *)
CreateInsert(r, j) ==
    /\ status[j] = "NONE"
    /\ Begin(r, "create", j, "enqueue")
    /\ status' = [status EXCEPT ![j] = "CREATED"]
    /\ UNCHANGED <<queueVars, started, cancelFlag, children, workVars, history>>

(* retry_job: read the status; write QUEUED; enqueue. *)
RetryCheck(r, j) ==
    /\ status[j] = "FAILED"
    /\ Begin(r, "retry", j, "setQueued")
    /\ UNCHANGED <<queueVars, dbVars, workVars, history>>

(* _enqueue, the second step of create_job and the last of retry_job. *)
ApiEnqueue(r) ==
    /\ Advance(r, "enqueue", IF rop[r] = "create" THEN "setQueued" ELSE "done")
    /\ Enqueue(rjob[r])
    /\ UNCHANGED <<dbVars, workVars, history>>

(* The write of QUEUED uses no status the request has read.  If the row is *)
(* gone the flush raises and the request ends.                             *)
ApiSetQueued(r) ==
    /\ \/ /\ Advance(r, "setQueued", "enqueue")
          /\ rop[r] = "retry" /\ RowExists(rjob[r])
       \/ /\ Advance(r, "setQueued", "done")
          /\ rop[r] = "create" \/ ~RowExists(rjob[r])
    /\ WriteStatus(rjob[r], "QUEUED")
    /\ UNCHANGED <<queueVars, started, cancelFlag, children, workVars, history>>

(* cancel_job decides by the status it read, and writes later. *)
CancelCheck(r, j) ==
    /\ \/ /\ status[j] \in {"CREATED", "QUEUED", "FAILED"}
          /\ Begin(r, "cancel", j, "setCancelled")
       \/ /\ status[j] = "RUNNING"
          /\ Begin(r, "cancel", j, "setFlag")
    /\ UNCHANGED <<queueVars, dbVars, workVars, history>>

CancelWrite(r) ==
    /\ Advance(r, "setCancelled", "done")
    /\ WriteStatus(rjob[r], "CANCELLED")
    /\ cancelled' = IF RowExists(rjob[r]) THEN cancelled \cup {rjob[r]} ELSE cancelled
    /\ UNCHANGED <<queueVars, started, cancelFlag, children, workVars, faults, raised>>

CancelRequest(r) ==
    /\ Advance(r, "setFlag", "done")
    /\ cancelFlag' = [cancelFlag EXCEPT ![rjob[r]] = RowExists(rjob[r])]
    /\ UNCHANGED <<queueVars, status, started, children, workVars, history>>

(* delete_job asks for no particular status; rows that refer to the job    *)
(* make the database refuse.                                               *)
DeleteJob(r, j) ==
    /\ RowExists(j)
    /\ children[j] = {}
    /\ Begin(r, "delete", j, "done")
    /\ status' = [status EXCEPT ![j] = "GONE"]
    /\ UNCHANGED <<queueVars, started, cancelFlag, children, workVars, history>>
-----------------------------------------------------------------------------
(* Workers: worker/scheduler.py poll_once around worker/executor.py run_job. *)

Goto(w, from, to) == wpc[w] = from /\ wpc' = [wpc EXCEPT ![w] = to]

Job(w) == wjob[w]

Poll(w) ==
    /\ \E j \in Jobs : Pop(j) /\ wjob' = [wjob EXCEPT ![w] = j]
    /\ Goto(w, "idle", IF Backend = "memory" THEN "busy" ELSE "lease")
    /\ wout' = [wout EXCEPT ![w] = "none"]
    /\ UNCHANGED <<dbVars, retries, hb, apiVars, history>>

TakeLease(w) ==
    /\ Goto(w, "lease", "busy")
    /\ Lease(Job(w))
    /\ UNCHANGED <<dbVars, wjob, wout, retries, hb, apiVars, history>>

BugHeartbeatBusy(w) ==
    /\ Goto(w, "busy", "claim")
    /\ UNCHANGED <<queueVars, dbVars, wjob, wout, retries, hb, apiVars, history>>

HeartbeatBusy(w) ==
    /\ Goto(w, "busy", "claim")
    /\ hb' = [hb EXCEPT ![w] = "BUSY"]
    /\ UNCHANGED <<queueVars, dbVars, wjob, wout, retries, apiVars, history>>

(* JobRepository.claim: one conditional UPDATE.  NOT_FOUND and SKIPPED both *)
(* go on to the ack.                                                        *)
Claim(w) ==
    /\ \/ /\ Goto(w, "claim", "confirm")
          /\ status[Job(w)] \in Claimable
          /\ status' = [status EXCEPT ![Job(w)] = "RUNNING"]
          /\ started' = [started EXCEPT ![Job(w)] = TRUE]
       \/ /\ Goto(w, "claim", "ack")
          /\ status[Job(w)] \notin Claimable
          /\ UNCHANGED <<status, started>>
    /\ UNCHANGED <<queueVars, cancelFlag, children, wjob, wout, retries, hb, apiVars, history>>

BugRaise(w) ==
    LET n == retries[w][Job(w)] IN
    /\ raised' = [raised EXCEPT ![Job(w)] = @ + 1]
    /\ \/ /\ n <= MaxRetries
          /\ retries' = [retries EXCEPT ![w][Job(w)] = n + 1]
          /\ wpc' = [wpc EXCEPT ![w] = "reset"]
       \/ /\ n > MaxRetries
          /\ retries' = [retries EXCEPT ![w][Job(w)] = 0]
          /\ wpc' = [wpc EXCEPT ![w] = "fail"]
    /\ UNCHANGED <<queueVars, dbVars, wjob, wout, hb, apiVars, cancelled>>

(* The except branch of poll_once up to its first call: count the attempt. *)
Raise(w) ==
    LET n == retries[w][Job(w)] + 1 IN
    /\ raised' = [raised EXCEPT ![Job(w)] = @ + 1]
    /\ \/ /\ n <= MaxRetries
          /\ retries' = [retries EXCEPT ![w][Job(w)] = n]
          /\ wpc' = [wpc EXCEPT ![w] = "reset"]
       \/ /\ n > MaxRetries
          /\ retries' = [retries EXCEPT ![w][Job(w)] = 0]
          /\ wpc' = [wpc EXCEPT ![w] = "fail"]
    /\ UNCHANGED <<queueVars, dbVars, wjob, wout, hb, apiVars, cancelled>>

(* update_status("RUNNING", worker_id) after the claim: writes RUNNING even *)
(* if somebody changed the status since.  A row deleted since is SKIPPED.   *)
Confirm(w) ==
    /\ \/ /\ Goto(w, "confirm", "convert")
          /\ RowExists(Job(w))
       \/ /\ Goto(w, "confirm", "ack")
          /\ ~RowExists(Job(w))
    /\ WriteStatus(Job(w), "RUNNING")
    /\ UNCHANGED <<queueVars, started, cancelFlag, children, wjob, wout, retries, hb,
                   apiVars, history>>

(* Fingerprint, source fetch and run_pipeline: an outcome, or an exception *)
(* before the pipeline starts (PrepareRaises).                             *)
Convert(w) ==
    /\ Goto(w, "convert", "persist")
    /\ \E o \in Outcome \ {"none"} : wout' = [wout EXCEPT ![w] = o]
    /\ UNCHANGED <<queueVars, dbVars, wjob, retries, hb, apiVars, history>>

PrepareRaises(w) ==
    /\ wpc[w] = "convert"
    /\ Raise(w)
    /\ UNCHANGED faults

(* Stage, artifact and event rows.  A timed-out run has no stages and may   *)
(* have no event either.                                                    *)
RowsOf(o) == CASE o = "ok"      -> {{"complete", "other"}}
               [] o = "failed"  -> {{"broken", "other"}, {"other"}}
               [] o = "timeout" -> {{"other"}, {}}
               [] o = "none"    -> {}

Persist(w) ==
    /\ Goto(w, "persist", "report")
    /\ RowExists(Job(w))
    /\ \E rows \in RowsOf(wout[w]) :
          children' = [children EXCEPT ![Job(w)] = @ \cup rows]
    /\ UNCHANGED <<queueVars, status, started, cancelFlag, wjob, wout, retries, hb,
                   apiVars, history>>

BugReport(w) ==
    /\ Goto(w, "report", "ack")
    /\ RowExists(Job(w))
    /\ WriteStatus(Job(w), IF wout[w] # "failed" THEN "SUCCESS" ELSE "FAILED")
    /\ raised' = [raised EXCEPT ![Job(w)] = 0]
    /\ UNCHANGED <<queueVars, started, cancelFlag, children, wjob, wout, retries, hb,
                   apiVars, faults, cancelled>>

(* The final update_status, blind as well. *)
Report(w) ==
    /\ Goto(w, "report", "ack")
    /\ RowExists(Job(w))
    /\ WriteStatus(Job(w), IF wout[w] = "ok" THEN "SUCCESS" ELSE "FAILED")
    /\ raised' = [raised EXCEPT ![Job(w)] = 0]
    /\ UNCHANGED <<queueVars, started, cancelFlag, children, wjob, wout, retries, hb,
                   apiVars, faults, cancelled>>

(* The row was deleted under the run: the inserts violate their foreign    *)
(* key, the update matches no row; both raise.                             *)
RowVanished(w) ==
    /\ wpc[w] \in {"persist", "report"}
    /\ ~RowExists(Job(w))
    /\ Raise(w)
    /\ UNCHANGED faults

(* ack and forget the attempts, also for SKIPPED and NOT_FOUND. *)
AckJob(w) ==
    /\ Goto(w, "ack", "ready")
    /\ Ack(Job(w))
    /\ retries' = [retries EXCEPT ![w][Job(w)] = 0]
    /\ UNCHANGED <<dbVars, wjob, wout, hb, apiVars, history>>

BugResetForRetry(w) ==
    /\ Goto(w, "reset", "requeue")
    /\ UNCHANGED <<queueVars, dbVars, wjob, wout, retries, hb, apiVars, history>>

ResetForRetry(w) ==
    /\ Goto(w, "reset", "requeue")
    /\ WriteStatus(Job(w), "QUEUED")
    /\ UNCHANGED <<queueVars, started, cancelFlag, children, wjob, wout, retries, hb,
                   apiVars, history>>

RequeueRelease(w) ==
    /\ Goto(w, "requeue", IF Backend = "memory" THEN "ready" ELSE "push")
    /\ Release(Job(w))
    /\ UNCHANGED <<dbVars, wjob, wout, retries, hb, apiVars, history>>

RequeuePush(w) ==
    /\ Goto(w, "push", "ready")
    /\ PushBack(Job(w))
    /\ UNCHANGED <<dbVars, wjob, wout, retries, hb, apiVars, history>>

BugMarkFailed(w) ==
    /\ Goto(w, "fail", "drop")
    /\ raised' = [raised EXCEPT ![Job(w)] = 0]
    /\ UNCHANGED <<queueVars, dbVars, wjob, wout, retries, hb, apiVars, faults, cancelled>>

MarkFailed(w) ==
    /\ Goto(w, "fail", "drop")
    /\ WriteStatus(Job(w), "FAILED")
    /\ raised' = [raised EXCEPT ![Job(w)] = 0]
    /\ UNCHANGED <<queueVars, started, cancelFlag, children, wjob, wout, retries, hb,
                   apiVars, faults, cancelled>>

BugDropFailed(w) ==
    /\ Goto(w, "drop", "ready")
    /\ UNCHANGED <<queueVars, dbVars, wjob, wout, retries, hb, apiVars, history>>

DropFailed(w) ==
    /\ Goto(w, "drop", "ready")
    /\ Ack(Job(w))
    /\ UNCHANGED <<dbVars, wjob, wout, retries, hb, apiVars, history>>

(* finally: heartbeat READY. *)
HeartbeatReady(w) ==
    /\ Goto(w, "ready", "idle")
    /\ hb' = [hb EXCEPT ![w] = "READY"]
    /\ wjob' = [wjob EXCEPT ![w] = NoJob]
    /\ wout' = [wout EXCEPT ![w] = "none"]
    /\ UNCHANGED <<queueVars, dbVars, retries, apiVars, history>>
-----------------------------------------------------------------------------
(* Faults.  Each counts against MaxFaults.                                 *)

Fault == faults < MaxFaults /\ faults' = faults + 1

(* A database or Redis error inside the try of poll_once. *)
InfraError(w) ==
    /\ wpc[w] \in {"claim", "confirm", "persist", "report", "ack"}
    /\ Fault
    /\ Raise(w)

(* The worker process ends wherever it is: killed, an error outside the try *)
(* or inside the except branch, or an interrupt, whose "finally" still      *)
(* writes READY.  An in-memory queue would end with it.                     *)
Crash(w) ==
    /\ Backend = "redis"
    /\ wpc[w] # "down"
    /\ Fault
    /\ wpc' = [wpc EXCEPT ![w] = "down"]
    /\ wjob' = [wjob EXCEPT ![w] = NoJob]
    /\ wout' = [wout EXCEPT ![w] = "none"]
    /\ retries' = [retries EXCEPT ![w] = [j \in Jobs |-> 0]]
    /\ \E s \in {hb[w], "READY"} : hb' = [hb EXCEPT ![w] = s]
    /\ UNCHANGED <<queueVars, dbVars, apiVars, cancelled, raised>>

(* register() of the next process with this worker id. *)
Restart(w) ==
    /\ Goto(w, "down", "idle")
    /\ hb' = [hb EXCEPT ![w] = "READY"]
    /\ UNCHANGED <<queueVars, dbVars, wjob, wout, retries, apiVars, history>>

(* A request dies between two of its steps: Redis or database error, API   *)
(* process killed.                                                         *)
RequestDies(r) ==
    /\ rpc[r] \notin {"new", "done"}
    /\ Fault
    /\ rpc' = [rpc EXCEPT ![r] = "done"]
    /\ UNCHANGED <<queueVars, dbVars, workVars, rop, rjob, cancelled, raised>>
-----------------------------------------------------------------------------
RequestStep(r) == ApiEnqueue(r) \/ ApiSetQueued(r) \/ CancelWrite(r) \/ CancelRequest(r)

RequestStart(r) == \E j \in Jobs : \/ CreateInsert(r, j)
                                   \/ RetryCheck(r, j)
                                   \/ CancelCheck(r, j)
                                   \/ DeleteJob(r, j)

RunStep(w) == \/ Claim(w) \/ Confirm(w) \/ Convert(w) \/ PrepareRaises(w)
              \/ Persist(w) \/ Report(w) \/ RowVanished(w)

WorkerStep(w) == \/ Poll(w) \/ TakeLease(w) \/ HeartbeatBusy(w) \/ RunStep(w)
                 \/ AckJob(w) \/ ResetForRetry(w) \/ RequeueRelease(w) \/ RequeuePush(w)
                 \/ MarkFailed(w) \/ DropFailed(w) \/ HeartbeatReady(w)

Faulty == \/ \E w \in Workers : InfraError(w) \/ Crash(w)
          \/ \E r \in Requests : RequestDies(r)

Next == \/ \E r \in Requests : RequestStart(r) \/ RequestStep(r)
        \/ \E w \in Workers : WorkerStep(w) \/ Restart(w)
        \/ Faulty

Spec == Init /\ [][Next]_vars

(* A request thread and a live worker keep running; a dead worker container *)
(* is restarted (restart: unless-stopped).  No request has to be made and   *)
(* no fault has to happen.                                                  *)
FairSpec == /\ Spec
            /\ \A r \in Requests : WF_vars(RequestStep(r))
            /\ \A w \in Workers : WF_vars(WorkerStep(w)) /\ WF_vars(Restart(w))
-----------------------------------------------------------------------------
(* Properties.                                                             *)

Executing(w) == wpc[w] \in {"confirm", "convert", "persist", "report"}

(* The worker will write the status without looking at it. *)
WillWrite(w) == Executing(w) \/ wpc[w] \in {"reset", "fail"}

(* Claim exclusivity, "two workers never run one job" (executor.py:106,     *)
(* repositories/jobs.py:62).  Two racing retries on Redis break it; see     *)
(* ExclusiveWithoutRetry for when it holds.                                 *)
ExclusiveExecution ==
    \A w1, w2 \in Workers :
        w1 # w2 /\ Executing(w1) /\ Executing(w2) => wjob[w1] # wjob[w2]

NoRetry == \A r \in Requests : rop[r] # "retry"

(* Two workers never run one job while nobody has asked for a retry, or on  *)
(* the in-memory queue: a job then has one queue entry at most, which is    *)
(* what really keeps the second worker out, through any late status write,  *)
(* crash or error.                                                          *)
ExclusiveWithoutRetry == NoRetry \/ Backend = "memory" => ExclusiveExecution

(* A job shown as SUCCESS has the stage rows of a run that completed: the   *)
(* executor persists them before the final status, and deletion can not     *)
(* take them away.                                                          *)
SuccessHasRows ==
    \A j \in Jobs : status[j] = "SUCCESS" => "complete" \in children[j]

(* Somebody who will write the status of j without looking at it. *)
Writer(j) ==
    \/ \E w \in Workers : wjob[w] = j /\ WillWrite(w)
    \/ \E r \in Requests : /\ rjob[r] = j
                           /\ \/ rpc[r] \in {"setQueued", "setCancelled"}
                              \/ rpc[r] = "enqueue" /\ rop[r] = "create"

Settled(j) == status[j] \in {"SUCCESS", "CANCELLED"} /\ ~Writer(j)

(* What remains of "SUCCESS -> RUNNING is forbidden" (engine/stage.py:36):  *)
(* once no blind writer is in flight, a SUCCESS or CANCELLED job keeps its  *)
(* status until it is deleted, whatever entries the queue still holds.      *)
SettledStable ==
    [][\A j \in Jobs : Settled(j) /\ faults' = 0
                           => Settled(j)' \/ status'[j] = "GONE"]_vars

(* A leased id is in some worker's hands: no lease outlives its worker's    *)
(* handling of the job, which on the in-memory queue would swallow every    *)
(* later retry of it (worker/queue.py:41-43).                               *)
NoLeakedLease ==
    faults = 0 => \A j \in processing : \E w \in Workers : wjob[w] = j

(* A job shown as RUNNING has a worker that will write its next status. *)
RunningHasRunner ==
    faults = 0 => \A j \in Jobs : status[j] = "RUNNING" =>
        \E w \in Workers : wjob[w] = j /\ WillWrite(w)

Carried(j) ==
    \E w \in Workers : /\ wjob[w] = j
                      /\ wpc[w] \notin {"ack", "drop", "ready"}

Tracked(j) ==
    \/ Queued(j)
    \/ Carried(j)
    \/ \E r \in Requests : rjob[r] = j /\ rpc[r] \in {"enqueue", "setQueued"}

(* A job that waits and that nobody will ever pick up. *)
Lost(j) == status[j] \in {"CREATED", "QUEUED"} /\ ~Tracked(j)

(* Without faults no job is lost before its first run, unless it was        *)
(* cancelled: the hand-over API -> queue -> worker drops nothing.  (After a *)
(* run a late QUEUED write, or a retry the in-memory queue ignores, can     *)
(* leave it QUEUED for ever.)                                               *)
NoLostJob ==
    faults = 0 => \A j \in Jobs : Lost(j) => started[j] \/ j \in cancelled

(* A worker listed READY (GET /workers) is not running a job. *)
ReadyMeansIdle ==
    \A w \in Workers : hb[w] = "READY" => wpc[w] \in {"idle", "lease", "busy", "down"}

(* The executor errors a job survives before it is FAILED.  max_retries is  *)
(* counted by each worker for itself, so the bound is per worker and not,   *)
(* as scheduler.py:8 has it, per job.                                       *)
AttemptsBounded ==
    faults = 0 /\ NoRetry =>
        \A j \in Jobs : raised[j] <= Cardinality(Workers) * MaxRetries + 1

(* The status sequence the row should share with the engine's Job           *)
(* (db/models/job.py:2): SUCCESS is final.                                  *)
SuccessIsFinal ==
    [][\A j \in Jobs : status[j] = "SUCCESS" => status'[j] \in {"SUCCESS", "GONE"}]_vars

(* A job that waits in the queue, or that a worker carries, is eventually   *)
(* finished, cancelled or deleted.                                          *)
WaitingSettles ==
    \A j \in Jobs :
        status[j] \in {"CREATED", "QUEUED", "RUNNING"} /\ (Queued(j) \/ Carried(j))
            ~> status[j] \in {"SUCCESS", "FAILED", "CANCELLED", "GONE"}

(* worker/queue.py:5 and :66, the processing set is a lease: a job taken by *)
(* a worker that died is run by somebody else.                              *)
LeaseRecovers ==
    \A j \in Jobs : j \in processing /\ status[j] = "RUNNING"
                       ~> status[j] \in {"SUCCESS", "FAILED", "CANCELLED", "GONE"}
=============================================================================
