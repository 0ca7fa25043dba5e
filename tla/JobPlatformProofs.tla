------------------------- MODULE JobPlatformProofs -------------------------
(***************************************************************************)
(* Theorems about JobPlatform, for every set of jobs, workers and requests, *)
(* every retry and fault bound and both queue implementations.             *)
(***************************************************************************)
EXTENDS JobPlatform, FiniteSetTheorems, TLAPS

USE BackendAssumption, PlatformAssumption

(* Every queue operation on a job keeps the queue's types. *)
LEMMA QueueTypes ==
    ASSUME QueueTypeOK, NEW j \in Jobs
    PROVE  /\ Enqueue(j) => QueueTypeOK'
           /\ Pop(j) => QueueTypeOK'
           /\ Lease(j) => QueueTypeOK'
           /\ Ack(j) => QueueTypeOK'
           /\ Release(j) => QueueTypeOK'
           /\ PushBack(j) => QueueTypeOK'
  BY DEF QueueTypeOK, Enqueue, Pop, Lease, Ack, Release, PushBack

(* The initial state has the types. *)
LEMMA InitType == Init => TypeOK
  BY DEF Init, TypeOK, QueueInit, QueueTypeOK, Status, WorkerPC, RequestPC, Outcome, Child

(* A worker that is neither idle nor down has a job in hand. *)
LEMMA JobInHand ==
    ASSUME TypeOK, NEW w \in Workers, wpc[w] \notin {"idle", "down"}
    PROVE  Job(w) \in Jobs
  BY DEF TypeOK, Job

(* Writing one attempt count of one worker keeps the type of retries. *)
LEMMA RetriesWrite ==
    ASSUME retries \in [Workers -> [Jobs -> 0..MaxRetries]],
           NEW w \in Workers, NEW j \in Jobs, NEW n \in 0..MaxRetries
    PROVE  [retries EXCEPT ![w][j] = n] \in [Workers -> [Jobs -> 0..MaxRetries]]
<1>1. [retries[w] EXCEPT ![j] = n] \in [Jobs -> 0..MaxRetries]
  OBVIOUS
<1> QED BY <1>1

(* Every step keeps the types; <1>r is the except branch all errors share. *)
LEMMA NextType == TypeOK /\ [Next]_vars => TypeOK'
<1> SUFFICES ASSUME TypeOK, [Next]_vars PROVE TypeOK'
  OBVIOUS
<1> USE DEF Status, WorkerPC, RequestPC, Outcome, Child
<1>r. ASSUME NEW w \in Workers, Raise(w), wpc[w] \notin {"idle", "down"},
             faults' \in 0..MaxFaults
      PROVE  TypeOK'
  <2>1. Job(w) \in Jobs
    BY JobInHand, <1>r
  <2>2. retries[w][Job(w)] \in 0..MaxRetries
    BY <2>1 DEF TypeOK
  <2>3. raised' \in [Jobs -> Nat]
    BY <1>r, <2>1 DEF TypeOK, Raise
  <2>4. retries' \in [Workers -> [Jobs -> 0..MaxRetries]]
    <3>1. CASE retries[w][Job(w)] + 1 <= MaxRetries
      <4>1. retries' = [retries EXCEPT ![w][Job(w)] = retries[w][Job(w)] + 1]
        BY <1>r, <2>2, <3>1 DEF Raise
      <4> QED BY <2>1, <2>2, <3>1, <4>1, RetriesWrite DEF TypeOK
    <3>2. CASE ~(retries[w][Job(w)] + 1 <= MaxRetries)
      <4>1. retries' = [retries EXCEPT ![w][Job(w)] = 0]
        BY <1>r, <2>2, <3>2 DEF Raise
      <4> QED BY <2>1, <4>1, RetriesWrite DEF TypeOK
    <3> QED BY <3>1, <3>2
  <2>5. wpc' \in [Workers -> WorkerPC] /\ UNCHANGED wjob
    BY <1>r DEF TypeOK, Raise
  <2>6. \A v \in Workers : wjob'[v] = NoJob <=> wpc'[v] \in {"idle", "down"}
    BY <1>r, <2>1, <2>5 DEF TypeOK, Raise, Job
  <2> QED BY <1>r, <2>3, <2>4, <2>5, <2>6 DEF TypeOK, QueueTypeOK, Raise, queueVars, dbVars, apiVars
<1>1. ASSUME NEW r \in Requests, RequestStart(r) PROVE TypeOK'
  <2>1. PICK j \in Jobs : CreateInsert(r, j) \/ RetryCheck(r, j) \/ CancelCheck(r, j) \/ DeleteJob(r, j)
    BY <1>1 DEF RequestStart
  <2>2. CASE CreateInsert(r, j)
    BY <2>2 DEF TypeOK, QueueTypeOK, CreateInsert, Begin, queueVars, workVars, history
  <2>3. CASE RetryCheck(r, j)
    BY <2>3 DEF TypeOK, QueueTypeOK, RetryCheck, Begin, queueVars, dbVars, workVars, history
  <2>4. CASE CancelCheck(r, j)
    <3>1. PICK pc \in {"setCancelled", "setFlag"} : Begin(r, "cancel", j, pc)
      BY <2>4 DEF CancelCheck
    <3> QED BY <2>4, <3>1 DEF TypeOK, QueueTypeOK, CancelCheck, Begin, queueVars, dbVars, workVars, history
  <2>5. CASE DeleteJob(r, j)
    BY <2>5 DEF TypeOK, QueueTypeOK, DeleteJob, Begin, queueVars, workVars, history
  <2> QED BY <2>1, <2>2, <2>3, <2>4, <2>5
<1>2. ASSUME NEW r \in Requests, RequestStep(r) PROVE TypeOK'
  <2>0. rpc[r] \notin {"new", "done"} => rjob[r] \in Jobs
    BY DEF TypeOK
  <2>1. CASE ApiEnqueue(r)
    <3>1. QueueTypeOK'
      BY <2>0, <2>1, QueueTypes DEF TypeOK, ApiEnqueue, Advance
    <3> QED BY <2>1, <3>1 DEF TypeOK, ApiEnqueue, Advance, dbVars, workVars, history
  <2>2. CASE ApiSetQueued(r)
    BY <2>2 DEF TypeOK, QueueTypeOK, ApiSetQueued, Advance, WriteStatus, queueVars, workVars, history
  <2>3. CASE CancelWrite(r)
    BY <2>0, <2>3 DEF TypeOK, QueueTypeOK, CancelWrite, Advance, WriteStatus, queueVars, workVars
  <2>4. CASE CancelRequest(r)
    BY <2>0, <2>4 DEF TypeOK, QueueTypeOK, CancelRequest, Advance, RowExists, queueVars, workVars, history
  <2> QED BY <1>2, <2>1, <2>2, <2>3, <2>4 DEF RequestStep
<1>3. ASSUME NEW w \in Workers, WorkerStep(w) PROVE TypeOK'
  <2>0. wpc[w] \notin {"idle", "down"} => Job(w) \in Jobs
    BY JobInHand
  <2>1. CASE Poll(w)
    <3>1. PICK j \in Jobs : Pop(j) /\ wjob' = [wjob EXCEPT ![w] = j]
      BY <2>1 DEF Poll
    <3>2. QueueTypeOK'
      BY <3>1, QueueTypes DEF TypeOK
    <3> QED BY <2>1, <3>1, <3>2 DEF TypeOK, Poll, Goto, dbVars, apiVars, history
  <2>2. CASE TakeLease(w)
    <3>1. QueueTypeOK'
      BY <2>0, <2>2, QueueTypes DEF TypeOK, TakeLease, Goto
    <3> QED BY <2>2, <3>1 DEF TypeOK, TakeLease, Goto, dbVars, apiVars, history
  <2>3. CASE HeartbeatBusy(w)
    BY <2>3 DEF TypeOK, QueueTypeOK, HeartbeatBusy, Goto, queueVars, dbVars, apiVars, history
  <2>4. CASE Claim(w)
    <3>0. status \in [Jobs -> Status] /\ started \in [Jobs -> BOOLEAN]
      BY DEF TypeOK
    <3>1. status' \in [Jobs -> Status] /\ started' \in [Jobs -> BOOLEAN]
      BY <2>4, <3>0 DEF Claim
    <3>2. PICK pc \in {"confirm", "ack"} : Goto(w, "claim", pc)
      BY <2>4 DEF Claim
    <3> QED BY <2>4, <3>1, <3>2 DEF TypeOK, QueueTypeOK, Claim, Goto, queueVars, apiVars, history
  <2>5. CASE Confirm(w)
    <3>1. status' \in [Jobs -> Status]
      BY <2>5 DEF TypeOK, Confirm, WriteStatus
    <3>2. PICK pc \in {"convert", "ack"} : Goto(w, "confirm", pc)
      BY <2>5 DEF Confirm
    <3> QED BY <2>5, <3>1, <3>2 DEF TypeOK, QueueTypeOK, Confirm, Goto, queueVars, apiVars, history
  <2>6. CASE Convert(w)
    BY <2>6 DEF TypeOK, QueueTypeOK, Convert, Goto, queueVars, dbVars, apiVars, history
  <2>7. CASE PrepareRaises(w)
    BY <2>7, <1>r DEF PrepareRaises, TypeOK
  <2>8. CASE Persist(w)
    <3>1. \A o \in Outcome : RowsOf(o) \subseteq SUBSET Child
      BY DEF RowsOf
    <3>2. Job(w) \in Jobs /\ wout[w] \in Outcome
      BY <2>0, <2>8 DEF Persist, Goto, TypeOK
    <3>3. children' \in [Jobs -> SUBSET Child]
      <4>1. PICK rows \in RowsOf(wout[w]) : children' = [children EXCEPT ![Job(w)] = @ \cup rows]
        BY <2>8 DEF Persist
      <4>2. rows \in SUBSET Child
        BY <3>1, <3>2, <4>1
      <4>3. children[Job(w)] \cup rows \in SUBSET Child
        BY <3>2, <4>2 DEF TypeOK
      <4> QED BY <4>1, <4>3 DEF TypeOK
    <3> QED BY <2>8, <3>3 DEF TypeOK, QueueTypeOK, Persist, Goto, queueVars, apiVars, history
  <2>9. CASE Report(w)
    BY <2>9 DEF TypeOK, QueueTypeOK, Report, Goto, WriteStatus, queueVars, apiVars
  <2>10. CASE RowVanished(w)
    BY <2>10, <1>r DEF RowVanished, TypeOK
  <2>11. CASE AckJob(w)
    <3>1. QueueTypeOK'
      BY <2>0, <2>11, QueueTypes DEF TypeOK, AckJob, Goto
    <3>2. retries' \in [Workers -> [Jobs -> 0..MaxRetries]]
      BY <2>0, <2>11, RetriesWrite DEF TypeOK, AckJob, Goto
    <3> QED BY <2>11, <3>1, <3>2 DEF TypeOK, AckJob, Goto, dbVars, apiVars, history
  <2>12. CASE ResetForRetry(w)
    BY <2>12 DEF TypeOK, QueueTypeOK, ResetForRetry, Goto, WriteStatus, queueVars, apiVars, history
  <2>13. CASE RequeueRelease(w)
    <3>1. QueueTypeOK'
      BY <2>0, <2>13, QueueTypes DEF TypeOK, RequeueRelease, Goto
    <3> QED BY <2>13, <3>1 DEF TypeOK, RequeueRelease, Goto, dbVars, apiVars, history
  <2>14. CASE RequeuePush(w)
    <3>1. QueueTypeOK'
      BY <2>0, <2>14, QueueTypes DEF TypeOK, RequeuePush, Goto
    <3> QED BY <2>14, <3>1 DEF TypeOK, RequeuePush, Goto, dbVars, apiVars, history
  <2>15. CASE MarkFailed(w)
    BY <2>15 DEF TypeOK, QueueTypeOK, MarkFailed, Goto, WriteStatus, queueVars, apiVars
  <2>16. CASE DropFailed(w)
    <3>1. QueueTypeOK'
      BY <2>0, <2>16, QueueTypes DEF TypeOK, DropFailed, Goto
    <3> QED BY <2>16, <3>1 DEF TypeOK, DropFailed, Goto, dbVars, apiVars, history
  <2>17. CASE HeartbeatReady(w)
    BY <2>17 DEF TypeOK, QueueTypeOK, HeartbeatReady, Goto, queueVars, dbVars, apiVars, history
  <2> QED BY <1>3, <2>1, <2>2, <2>3, <2>4, <2>5, <2>6, <2>7, <2>8, <2>9, <2>10, <2>11, <2>12,
             <2>13, <2>14, <2>15, <2>16, <2>17 DEF WorkerStep, RunStep
<1>4. ASSUME NEW w \in Workers, Restart(w) PROVE TypeOK'
  BY <1>4 DEF TypeOK, QueueTypeOK, Restart, Goto, queueVars, dbVars, apiVars, history
<1>5. ASSUME NEW w \in Workers, InfraError(w) PROVE TypeOK'
  BY <1>5, <1>r DEF InfraError, Fault, TypeOK
<1>6. ASSUME NEW w \in Workers, Crash(w) PROVE TypeOK'
  BY <1>6 DEF TypeOK, QueueTypeOK, Crash, Fault, queueVars, dbVars, apiVars
<1>7. ASSUME NEW r \in Requests, RequestDies(r) PROVE TypeOK'
  BY <1>7 DEF TypeOK, QueueTypeOK, RequestDies, Fault, queueVars, dbVars, workVars
<1>8. CASE UNCHANGED vars
  BY <1>8 DEF TypeOK, QueueTypeOK, vars, queueVars, dbVars, workVars, apiVars, history
<1> QED BY <1>1, <1>2, <1>3, <1>4, <1>5, <1>6, <1>7, <1>8 DEF Next, Faulty

(* Every state has the types, and the job in hand goes with the counter. *)
THEOREM TypeCorrect == Spec => []TypeOK
  BY InitType, NextType, PTL DEF Spec
-----------------------------------------------------------------------------
(* SUCCESS has the rows of a completed run.  Inductive once it also says   *)
(* that a worker about to report success has persisted them.               *)
RowsInv ==
    /\ SuccessHasRows
    /\ \A w \in Workers : wpc[w] = "report" /\ wout[w] = "ok" => "complete" \in children[wjob[w]]

(* Every step keeps RowsInv; only Persist and Report touch what it relates. *)
LEMMA RowsStep == TypeOK /\ RowsInv /\ [Next]_vars => RowsInv'
<1> SUFFICES ASSUME TypeOK, RowsInv, [Next]_vars PROVE RowsInv'
  OBVIOUS
<1> USE DEF RowsInv, SuccessHasRows
<1>1. ASSUME NEW r \in Requests, RequestStart(r) PROVE RowsInv'
  <2>1. PICK j \in Jobs : CreateInsert(r, j) \/ RetryCheck(r, j) \/ CancelCheck(r, j) \/ DeleteJob(r, j)
    BY <1>1 DEF RequestStart
  <2>2. UNCHANGED <<wpc, wout, wjob, children>>
    BY <2>1 DEF CreateInsert, RetryCheck, CancelCheck, DeleteJob, workVars, dbVars
  <2>3. \A i \in Jobs : status'[i] = "SUCCESS" => status[i] = "SUCCESS"
    BY <2>1 DEF CreateInsert, RetryCheck, CancelCheck, DeleteJob, dbVars, TypeOK
  <2> QED BY <2>2, <2>3
<1>2. ASSUME NEW r \in Requests, RequestStep(r) PROVE RowsInv'
  <2>1. UNCHANGED <<wpc, wout, wjob, children>>
    BY <1>2 DEF RequestStep, ApiEnqueue, ApiSetQueued, CancelWrite, CancelRequest, workVars, dbVars
  <2>2. \A i \in Jobs : status'[i] = "SUCCESS" => status[i] = "SUCCESS"
    BY <1>2 DEF RequestStep, ApiEnqueue, ApiSetQueued, CancelWrite, CancelRequest, WriteStatus, dbVars, TypeOK
  <2> QED BY <2>1, <2>2
<1>3. ASSUME NEW w \in Workers, wpc'[w] # "report",
             \A v \in Workers \ {w} : UNCHANGED <<wpc[v], wout[v], wjob[v]>>,
             \A i \in Jobs : status'[i] = "SUCCESS" => status[i] = "SUCCESS",
             UNCHANGED children
      PROVE  RowsInv'
  BY <1>3
<1>4. ASSUME NEW w \in Workers, Raise(w) PROVE RowsInv'
  <2>1. /\ wpc'[w] # "report"
        /\ \A v \in Workers \ {w} : UNCHANGED <<wpc[v], wout[v], wjob[v]>>
        /\ UNCHANGED <<status, children>>
    BY <1>4 DEF Raise, dbVars, TypeOK
  <2> QED BY <1>3, <2>1
<1>5. ASSUME NEW w \in Workers, WorkerStep(w) PROVE RowsInv'
  <2>0. wpc[w] \notin {"idle", "down"} => Job(w) \in Jobs
    BY JobInHand
  <2>1. CASE Persist(w)
    <3>1. /\ wpc[w] = "persist"
          /\ wpc' = [wpc EXCEPT ![w] = "report"]
          /\ UNCHANGED <<wout, wjob, status>>
      BY <2>1 DEF Persist, Goto
    <3>2. PICK rows \in RowsOf(wout[w]) : children' = [children EXCEPT ![Job(w)] = @ \cup rows]
      BY <2>1 DEF Persist
    <3>3. wout[w] = "ok" => "complete" \in rows
      BY <3>2 DEF RowsOf
    <3>4. \A i \in Jobs : children[i] \subseteq children'[i]
      BY <2>0, <3>1, <3>2 DEF TypeOK
    <3>5. wout[w] = "ok" => "complete" \in children'[wjob[w]]
      BY <2>0, <3>1, <3>2, <3>3 DEF TypeOK, Job
    <3>6. \A v \in Workers : wpc[v] = "report" => wjob[v] \in Jobs
      BY DEF TypeOK
    <3> QED BY <3>1, <3>4, <3>5, <3>6 DEF TypeOK
  <2>2. CASE Report(w)
    <3>1. /\ wpc[w] = "report"
          /\ wpc' = [wpc EXCEPT ![w] = "ack"]
          /\ UNCHANGED <<wout, wjob, children>>
          /\ status' = [status EXCEPT ![Job(w)] = IF wout[w] = "ok" THEN "SUCCESS" ELSE "FAILED"]
      BY <2>2 DEF Report, Goto, WriteStatus
    <3>2. \A i \in Jobs : status'[i] = "SUCCESS" => "complete" \in children'[i]
      BY <2>0, <3>1 DEF TypeOK, Job
    <3> QED BY <3>1, <3>2 DEF TypeOK
  <2>3. CASE PrepareRaises(w) \/ RowVanished(w)
    BY <2>3, <1>4 DEF PrepareRaises, RowVanished
  <2>4. ASSUME \/ Poll(w) \/ TakeLease(w) \/ HeartbeatBusy(w) \/ Claim(w) \/ Confirm(w)
               \/ Convert(w) \/ AckJob(w) \/ ResetForRetry(w) \/ RequeueRelease(w)
               \/ RequeuePush(w) \/ MarkFailed(w) \/ DropFailed(w) \/ HeartbeatReady(w)
        PROVE  RowsInv'
    <3>1. wpc'[w] # "report"
      BY <2>4 DEF Poll, TakeLease, HeartbeatBusy, Claim, Confirm, Convert, AckJob, ResetForRetry,
           RequeueRelease, RequeuePush, MarkFailed, DropFailed, HeartbeatReady, Goto, TypeOK
    <3>2. \A v \in Workers \ {w} : UNCHANGED <<wpc[v], wout[v], wjob[v]>>
      BY <2>4 DEF Poll, TakeLease, HeartbeatBusy, Claim, Confirm, Convert, AckJob, ResetForRetry,
           RequeueRelease, RequeuePush, MarkFailed, DropFailed, HeartbeatReady, Goto, TypeOK
    <3>3. \A i \in Jobs : status'[i] = "SUCCESS" => status[i] = "SUCCESS"
      BY <2>4 DEF Poll, TakeLease, HeartbeatBusy, Claim, Confirm, Convert, AckJob, ResetForRetry,
           RequeueRelease, RequeuePush, MarkFailed, DropFailed, HeartbeatReady, WriteStatus,
           TypeOK, dbVars
    <3>4. UNCHANGED children
      BY <2>4 DEF Poll, TakeLease, HeartbeatBusy, Claim, Confirm, Convert, AckJob, ResetForRetry,
           RequeueRelease, RequeuePush, MarkFailed, DropFailed, HeartbeatReady, dbVars
    <3> QED BY <1>3, <3>1, <3>2, <3>3, <3>4
  <2> QED BY <1>5, <2>1, <2>2, <2>3, <2>4 DEF WorkerStep, RunStep
<1>6. ASSUME NEW w \in Workers, Restart(w) \/ Crash(w) \/ InfraError(w) PROVE RowsInv'
  <2>1. CASE InfraError(w)
    BY <2>1, <1>4 DEF InfraError
  <2>2. CASE Restart(w) \/ Crash(w)
    BY <2>2, <1>3 DEF Restart, Crash, Goto, dbVars, TypeOK
  <2> QED BY <1>6, <2>1, <2>2
<1>7. ASSUME NEW r \in Requests, RequestDies(r) PROVE RowsInv'
  BY <1>7 DEF RequestDies, dbVars, workVars
<1>8. CASE UNCHANGED vars
  BY <1>8 DEF vars, dbVars, workVars
<1> QED BY <1>1, <1>2, <1>5, <1>6, <1>7, <1>8 DEF Next, Faulty

(* A job shown as SUCCESS always has the stage rows of a completed run     *)
(* (executor.py persists before its final status), with any number of      *)
(* workers, deletions, crashes and errors.                                 *)
THEOREM SuccessIsBacked == Spec => []SuccessHasRows
<1>1. Init => RowsInv
  BY DEF Init, RowsInv, SuccessHasRows
<1>2. RowsInv => SuccessHasRows
  BY DEF RowsInv
<1> QED BY <1>1, <1>2, RowsStep, TypeCorrect, PTL DEF Spec
-----------------------------------------------------------------------------
(* Frame facts: what a step of one thread leaves alone.                    *)

(* A step of one worker leaves the others' counter, job and outcome alone. *)
LEMMA OtherWorkersKeep ==
    ASSUME TypeOK, NEW w \in Workers,
           WorkerStep(w) \/ Restart(w) \/ Crash(w) \/ InfraError(w)
    PROVE  \A v \in Workers \ {w} : UNCHANGED <<wpc[v], wjob[v], wout[v]>>
  BY DEF WorkerStep, RunStep, Poll, TakeLease, HeartbeatBusy, Claim, Confirm, Convert, PrepareRaises,
     Persist, Report, RowVanished, AckJob, ResetForRetry, RequeueRelease, RequeuePush, MarkFailed,
     DropFailed, HeartbeatReady, Restart, Crash, InfraError, Raise, Goto, TypeOK

(* A request touches neither the workers nor the leases. *)
LEMMA RequestsKeepWorkers ==
    ASSUME NEW r \in Requests, RequestStart(r) \/ RequestStep(r) \/ RequestDies(r)
    PROVE  UNCHANGED <<wpc, wjob, wout, processing>>
  BY DEF RequestStart, RequestStep, RequestDies, CreateInsert, RetryCheck, CancelCheck, DeleteJob,
     ApiEnqueue, ApiSetQueued, CancelWrite, CancelRequest, Enqueue, queueVars, workVars

(* A worker does not touch the requests. *)
LEMMA WorkersKeepRequests ==
    ASSUME NEW w \in Workers, WorkerStep(w) \/ Restart(w) \/ Crash(w) \/ InfraError(w)
    PROVE  UNCHANGED <<rpc, rop, rjob>>
  BY DEF WorkerStep, RunStep, Poll, TakeLease, HeartbeatBusy, Claim, Confirm, Convert, PrepareRaises,
     Persist, Report, RowVanished, AckJob, ResetForRetry, RequeueRelease, RequeuePush, MarkFailed,
     DropFailed, HeartbeatReady, Restart, Crash, InfraError, Raise, apiVars

(* Only faults count, and they only count up. *)
LEMMA FaultFree ==
    ASSUME TypeOK, [Next]_vars, faults' = 0
    PROVE  /\ faults = 0
           /\ \/ \E r \in Requests : RequestStart(r) \/ RequestStep(r)
              \/ \E w \in Workers : WorkerStep(w) \/ Restart(w)
              \/ UNCHANGED vars
<1>1. faults \in Nat
  BY DEF TypeOK
<1>2. ~Faulty
  BY <1>1 DEF Faulty, InfraError, Crash, RequestDies, Fault
<1>3. CASE UNCHANGED vars
  BY <1>3 DEF vars, history
<1>4. ASSUME NEW r \in Requests, RequestStart(r) \/ RequestStep(r) PROVE UNCHANGED faults
  BY <1>4 DEF RequestStart, RequestStep, CreateInsert, RetryCheck, CancelCheck, DeleteJob,
     ApiEnqueue, ApiSetQueued, CancelWrite, CancelRequest, history
<1>5. ASSUME NEW w \in Workers, WorkerStep(w) \/ Restart(w) PROVE UNCHANGED faults
  BY <1>5 DEF WorkerStep, RunStep, Poll, TakeLease, HeartbeatBusy, Claim, Confirm, Convert,
     PrepareRaises, Persist, Report, RowVanished, AckJob, ResetForRetry, RequeueRelease,
     RequeuePush, MarkFailed, DropFailed, HeartbeatReady, Restart, history
<1> QED BY <1>2, <1>3, <1>4, <1>5 DEF Next
-----------------------------------------------------------------------------
(* Leases.  A lease needs a worker that will still release it: one past    *)
(* the sadd and before the ack or the srem.                                *)
LeasePC == WorkerPC \ {"idle", "down", "lease", "ready", "push"}

LeaseInv ==
    faults = 0 => \A j \in processing : \E w \in Workers : wjob[w] = j /\ wpc[w] \in LeasePC

(* Every step keeps LeaseInv: who leaves LeasePC has just released. *)
LEMMA LeaseStep == TypeOK /\ LeaseInv /\ [Next]_vars => LeaseInv'
<1> SUFFICES ASSUME TypeOK, LeaseInv, [Next]_vars, faults' = 0,
                    NEW j \in processing'
             PROVE  \E w \in Workers : wjob'[w] = j /\ wpc'[w] \in LeasePC
  BY DEF LeaseInv, LeasePC
<1>1. faults = 0
  BY FaultFree
<1>2. ASSUME NEW r \in Requests, RequestStart(r) \/ RequestStep(r)
      PROVE  \E w \in Workers : wjob'[w] = j /\ wpc'[w] \in LeasePC
  BY <1>1, <1>2, RequestsKeepWorkers DEF LeaseInv
<1>3. ASSUME NEW w \in Workers, WorkerStep(w) \/ Restart(w)
      PROVE  \E v \in Workers : wjob'[v] = j /\ wpc'[v] \in LeasePC
  <2>1. j \notin processing => wjob'[w] = j /\ wpc'[w] \in LeasePC
    BY <1>3 DEF WorkerStep, RunStep, Poll, TakeLease, HeartbeatBusy, Claim, Confirm, Convert,
       PrepareRaises, Persist, Report, RowVanished, AckJob, ResetForRetry, RequeueRelease,
       RequeuePush, MarkFailed, DropFailed, HeartbeatReady, Restart, Raise, Pop, Lease, Ack,
       Release, PushBack, Goto, Job, LeasePC, WorkerPC, TypeOK, queueVars
  <2>2. wpc[w] \in LeasePC /\ wjob[w] = j => wjob'[w] = j /\ wpc'[w] \in LeasePC
    BY <1>3 DEF WorkerStep, RunStep, Poll, TakeLease, HeartbeatBusy, Claim, Confirm, Convert,
       PrepareRaises, Persist, Report, RowVanished, AckJob, ResetForRetry, RequeueRelease,
       RequeuePush, MarkFailed, DropFailed, HeartbeatReady, Restart, Raise, Pop, Lease, Ack,
       Release, PushBack, Goto, Job, LeasePC, WorkerPC, TypeOK, queueVars
  <2>3. \A v \in Workers \ {w} : UNCHANGED <<wpc[v], wjob[v]>>
    BY <1>3, OtherWorkersKeep
  <2> QED BY <1>1, <2>1, <2>2, <2>3 DEF LeaseInv
<1>4. CASE UNCHANGED vars
  BY <1>1, <1>4 DEF LeaseInv, vars, queueVars, workVars
<1> QED BY <1>2, <1>3, <1>4, FaultFree

(* Without faults every lease is in the hands of a worker: no lease is     *)
(* leaked on any path through poll_once, and so, on the in-memory queue,   *)
(* none keeps swallowing later retries.                                    *)
THEOREM LeasesAreHeld == Spec => []NoLeakedLease
<1>1. Init => LeaseInv
  BY DEF Init, QueueInit, LeaseInv
<1>2. LeaseInv => NoLeakedLease
  BY DEF LeaseInv, NoLeakedLease
<1> QED BY <1>1, <1>2, LeaseStep, TypeCorrect, PTL DEF Spec
-----------------------------------------------------------------------------
(* RunningHasRunner is inductive as it stands: who leaves the run without   *)
(* staying responsible for the status has just overwritten it.              *)
LEMMA RunnerStep == TypeOK /\ RunningHasRunner /\ [Next]_vars => RunningHasRunner'
<1> SUFFICES ASSUME TypeOK, RunningHasRunner, [Next]_vars, faults' = 0,
                    NEW j \in Jobs, status'[j] = "RUNNING"
             PROVE  \E w \in Workers : wjob'[w] = j /\ WillWrite(w)'
  BY DEF RunningHasRunner
<1> USE DEF WillWrite, Executing
<1>1. faults = 0
  BY FaultFree
<1>2. ASSUME NEW r \in Requests, RequestStart(r) \/ RequestStep(r)
      PROVE  \E w \in Workers : wjob'[w] = j /\ WillWrite(w)'
  <2>1. status[j] = "RUNNING"
    BY <1>2 DEF RequestStart, RequestStep, CreateInsert, RetryCheck, CancelCheck, DeleteJob,
       ApiEnqueue, ApiSetQueued, CancelWrite, CancelRequest, WriteStatus, TypeOK, dbVars
  <2> QED BY <1>1, <1>2, <2>1, RequestsKeepWorkers DEF RunningHasRunner
<1>3. ASSUME NEW w \in Workers, WorkerStep(w) \/ Restart(w)
      PROVE  \E v \in Workers : wjob'[v] = j /\ WillWrite(v)'
  <2>1. status[j] # "RUNNING" => wjob'[w] = j /\ WillWrite(w)'
    BY <1>3 DEF WorkerStep, RunStep, Poll, TakeLease, HeartbeatBusy, Claim, Confirm, Convert,
       PrepareRaises, Persist, Report, RowVanished, AckJob, ResetForRetry, RequeueRelease,
       RequeuePush, MarkFailed, DropFailed, HeartbeatReady, Restart, Raise, WriteStatus,
       Goto, Job, TypeOK, dbVars
  <2>2. WillWrite(w) /\ wjob[w] = j => wjob'[w] = j /\ WillWrite(w)'
    BY <1>3 DEF WorkerStep, RunStep, Poll, TakeLease, HeartbeatBusy, Claim, Confirm, Convert,
       PrepareRaises, Persist, Report, RowVanished, AckJob, ResetForRetry, RequeueRelease,
       RequeuePush, MarkFailed, DropFailed, HeartbeatReady, Restart, Raise, WriteStatus,
       RowExists, Goto, Job, TypeOK, dbVars
  <2>3. \A v \in Workers \ {w} : UNCHANGED <<wpc[v], wjob[v]>>
    BY <1>3, OtherWorkersKeep
  <2> QED BY <1>1, <2>1, <2>2, <2>3 DEF RunningHasRunner
<1>4. CASE UNCHANGED vars
  BY <1>1, <1>4 DEF RunningHasRunner, vars, dbVars, workVars
<1> QED BY <1>2, <1>3, <1>4, FaultFree

(* Without faults no job is left RUNNING with nobody to finish it.         *)
THEOREM NoOrphanedRun == Spec => []RunningHasRunner
<1>1. Init => RunningHasRunner
  BY DEF Init, RunningHasRunner
<1> QED BY <1>1, RunnerStep, TypeCorrect, PTL DEF Spec
-----------------------------------------------------------------------------
(* SettledStable needs no invariant but the types: without a fault, only a *)
(* writer already in flight or a deletion can disturb a settled job.       *)
LEMMA SettledStep ==
    ASSUME TypeOK, [Next]_vars, NEW j \in Jobs, Settled(j), faults' = 0, status'[j] # "GONE"
    PROVE  Settled(j)'
<1> USE DEF WillWrite, Executing
<1>0. faults = 0
  BY FaultFree
<1>1. ASSUME NEW r \in Requests, RequestStart(r) \/ RequestStep(r) PROVE Settled(j)'
  <2>1. status'[j] = status[j]
    BY <1>1 DEF Settled, Writer, RequestStart, RequestStep, CreateInsert, RetryCheck, CancelCheck,
       DeleteJob, ApiEnqueue, ApiSetQueued, CancelWrite, CancelRequest, Advance, WriteStatus,
       TypeOK, dbVars
  <2>2. rjob'[r] = j => /\ rpc'[r] \notin {"setQueued", "setCancelled"}
                        /\ ~(rpc'[r] = "enqueue" /\ rop'[r] = "create")
    <3>1. CASE RequestStart(r)
      BY <3>1, <2>1 DEF Settled, RequestStart, CreateInsert, RetryCheck, CancelCheck, DeleteJob,
         Begin, TypeOK
    <3>2. CASE RequestStep(r)
      BY <3>2 DEF Settled, Writer, RequestStep, ApiEnqueue, ApiSetQueued, CancelWrite,
         CancelRequest, Advance, TypeOK
    <3> QED BY <1>1, <3>1, <3>2
  <2>3. \A q \in Requests \ {r} : UNCHANGED <<rpc[q], rop[q], rjob[q]>>
    BY <1>1 DEF RequestStart, RequestStep, CreateInsert, RetryCheck, CancelCheck, DeleteJob,
       ApiEnqueue, ApiSetQueued, CancelWrite, CancelRequest, Begin, Advance, TypeOK
  <2>4. UNCHANGED <<wpc, wjob>>
    BY <1>1, RequestsKeepWorkers
  <2> QED BY <2>1, <2>2, <2>3, <2>4 DEF Settled, Writer
<1>2. ASSUME NEW w \in Workers, WorkerStep(w) \/ Restart(w) PROVE Settled(j)'
  <2>1. status'[j] = status[j]
    BY <1>2 DEF Settled, Writer, Claimable, WorkerStep, RunStep, Poll, TakeLease, HeartbeatBusy,
       Claim, Confirm, Convert, PrepareRaises, Persist, Report, RowVanished, AckJob,
       ResetForRetry, RequeueRelease, RequeuePush, MarkFailed, DropFailed, HeartbeatReady,
       Restart, Raise, WriteStatus, Goto, Job, TypeOK, dbVars
  <2>2. ~(wjob'[w] = j /\ WillWrite(w)')
    BY <1>2 DEF Settled, Writer, Claimable, WorkerStep, RunStep, Poll, TakeLease, HeartbeatBusy,
       Claim, Confirm, Convert, PrepareRaises, Persist, Report, RowVanished, AckJob,
       ResetForRetry, RequeueRelease, RequeuePush, MarkFailed, DropFailed, HeartbeatReady,
       Restart, Raise, Goto, Job, TypeOK
  <2>3. \A v \in Workers \ {w} : UNCHANGED <<wpc[v], wjob[v]>>
    BY <1>2, OtherWorkersKeep
  <2>4. UNCHANGED <<rpc, rop, rjob>>
    BY <1>2, WorkersKeepRequests
  <2> QED BY <2>1, <2>2, <2>3, <2>4 DEF Settled, Writer
<1>3. CASE UNCHANGED vars
  BY <1>3 DEF vars, dbVars, workVars, apiVars, Settled, Writer
<1> QED BY <1>1, <1>2, <1>3, FaultFree

(* The part of "SUCCESS is final" the code keeps: with no blind writer in  *)
(* flight and no fault, a SUCCESS or CANCELLED job stays so until deleted. *)
THEOREM SettledJobsStay == Spec => SettledStable
<1>1. TypeOK /\ [Next]_vars => [\A j \in Jobs : Settled(j) /\ faults' = 0
                                    => Settled(j)' \/ status'[j] = "GONE"]_vars
  BY SettledStep
<1> QED BY <1>1, TypeCorrect, PTL DEF Spec, SettledStable

-----------------------------------------------------------------------------
(* The hand-over API -> queue -> worker: a job has one token, its queue     *)
(* entry or the worker that holds it, and the token is not dropped.         *)


(* No id twice in the queue. *)
Distinct == \A a, b \in DOMAIN queue : queue[a] = queue[b] => a = b

(* dequeue takes an entry out and leaves the rest; with distinct ids the *)
(* popped one is gone.                                                   *)
LEMMA PopFacts ==
    ASSUME QueueTypeOK, NEW j \in Jobs, Pop(j)
    PROVE  /\ Queued(j)
           /\ \A i : Queued(i)' => Queued(i)
           /\ \A i : Queued(i) /\ i # j => Queued(i)'
           /\ Distinct => Distinct' /\ ~Queued(j)'
<1>1. /\ queue \in Seq(Jobs) /\ queue # <<>> /\ j = queue[1] /\ queue' = Tail(queue)
  BY DEF Pop, QueueTypeOK
<1>2. /\ Len(queue) \in Nat \ {0} /\ DOMAIN queue = 1..Len(queue)
      /\ DOMAIN queue' = 1..(Len(queue) - 1)
      /\ \A a \in DOMAIN queue' : queue'[a] = queue[a + 1]
  BY <1>1
<1>3. Queued(j)
  BY <1>1, <1>2 DEF Queued
<1>4. \A i : Queued(i)' => Queued(i)
  BY <1>2 DEF Queued
<1>5. ASSUME NEW i, Queued(i), i # j PROVE Queued(i)'
  <2>1. PICK a \in DOMAIN queue : queue[a] = i
    BY <1>5 DEF Queued
  <2>2. a # 1
    BY <1>1, <1>5, <2>1
  <2>3. a - 1 \in DOMAIN queue' /\ queue'[a - 1] = i
    BY <1>2, <2>1, <2>2
  <2> QED BY <2>3 DEF Queued
<1>6. ASSUME Distinct PROVE Distinct' /\ ~Queued(j)'
  <2>1. Distinct'
    BY <1>2, <1>6 DEF Distinct
  <2>2. ASSUME NEW a \in DOMAIN queue', queue'[a] = j PROVE FALSE
    BY <1>1, <1>2, <1>6, <2>2 DEF Distinct
  <2> QED BY <2>1, <2>2 DEF Queued
<1> QED BY <1>3, <1>4, <1>5, <1>6

(* Appending adds the id and nothing else, and keeps distinct ids distinct. *)
LEMMA AppendFacts ==
    ASSUME QueueTypeOK, NEW j \in Jobs, queue' = Append(queue, j)
    PROVE  /\ \A i : Queued(i)' <=> Queued(i) \/ i = j
           /\ Distinct /\ ~Queued(j) => Distinct'
<1>1. /\ Len(queue) \in Nat /\ DOMAIN queue = 1..Len(queue)
      /\ DOMAIN queue' = 1..(Len(queue) + 1)
      /\ queue'[Len(queue) + 1] = j
      /\ \A a \in DOMAIN queue : queue'[a] = queue[a]
  BY DEF QueueTypeOK
<1>2. ASSUME NEW i, Queued(i) PROVE Queued(i)'
  <2>1. PICK a \in DOMAIN queue : queue[a] = i
    BY <1>2 DEF Queued
  <2> QED BY <1>1, <2>1 DEF Queued
<1>3. Queued(j)'
  BY <1>1 DEF Queued
<1>4. ASSUME NEW i, Queued(i)', i # j PROVE Queued(i)
  <2>1. PICK a \in DOMAIN queue' : queue'[a] = i
    BY <1>4 DEF Queued
  <2>2. a \in DOMAIN queue
    BY <1>1, <1>4, <2>1
  <2> QED BY <1>1, <2>1, <2>2 DEF Queued
<1>5. ASSUME Distinct, ~Queued(j) PROVE Distinct'
  BY <1>1, <1>5 DEF Distinct, Queued
<1> QED BY <1>2, <1>3, <1>4, <1>5
-----------------------------------------------------------------------------
(* A job that has no row yet is unknown everywhere.                        *)
FreshInv ==
    \A j \in Jobs : status[j] = "NONE" =>
        /\ ~Queued(j)
        /\ \A w \in Workers : wjob[w] # j
        /\ \A r \in Requests : rjob[r] # j

(* The worker has taken the queue entry and not yet given it back or up.   *)
Holds(w) == wpc[w] \notin {"idle", "ready", "down"}

(* One token per job: a queue entry, the worker that holds it, or (while    *)
(* nobody has retried) the request about to create the entry.              *)
Token ==
    /\ Distinct
    /\ \A w \in Workers : Holds(w) =>
            /\ ~Queued(wjob[w])
            /\ Backend = "memory" => wjob[w] \in processing
    /\ \A v, w \in Workers : Holds(v) /\ Holds(w) /\ wjob[v] = wjob[w] => v = w
    /\ NoRetry => \A r \in Requests : rpc[r] = "enqueue" =>
            /\ ~Queued(rjob[r])
            /\ \A w \in Workers : Holds(w) => wjob[w] # rjob[r]
            /\ \A q \in Requests : rpc[q] = "enqueue" /\ rjob[q] = rjob[r] => q = r

TokenInv == NoRetry \/ Backend = "memory" => Token

(* The job has been run, cancelled or deleted: nobody has to find it.      *)
Over(j) == started[j] \/ j \in cancelled \/ status[j] = "GONE"

Safe(j) == Queued(j) \/ Carried(j) \/ Over(j)

(* What the status says has happened.                                      *)
StatusTold ==
    \A j \in Jobs : /\ status[j] \in {"RUNNING", "SUCCESS", "FAILED"} => started[j]
                    /\ status[j] = "CANCELLED" => j \in cancelled

(* Who will write a status has claimed the job, who acks it has settled it *)
(* or found it settled.                                                    *)
WorkersKnow ==
    \A w \in Workers : /\ WillWrite(w) => started[wjob[w]]
                       /\ wpc[w] \in {"ack", "drop"} => Over(wjob[w])

Arriving(j) == \E r \in Requests : rjob[r] = j /\ rop[r] = "create" /\ rpc[r] = "enqueue"

(* Without faults, what has a row is on its way to the queue, in it, or    *)
(* carried by a worker, until it is over.                                  *)
HandoverInv ==
    faults = 0 =>
        /\ StatusTold
        /\ WorkersKnow
        /\ \A j \in Jobs : status[j] # "NONE" => Safe(j) \/ Arriving(j)

(* Where queue entries come from: a request at its enqueue, or the worker  *)
(* that has the job in hand.                                               *)
LEMMA EntriesComeFrom ==
    ASSUME TypeOK, [Next]_vars, NEW j \in Jobs, Queued(j)', ~Queued(j)
    PROVE  \/ \E r \in Requests : rjob[r] = j /\ ApiEnqueue(r)
           \/ \E w \in Workers : wjob[w] = j /\ (RequeueRelease(w) \/ RequeuePush(w))
<1>1. queue' # queue
  BY DEF Queued
<1>2. ASSUME NEW r \in Requests, RequestStart(r) \/ RequestStep(r)
      PROVE  \E q \in Requests : rjob[q] = j /\ ApiEnqueue(q)
  <2>1. ApiEnqueue(r)
    BY <1>1, <1>2 DEF RequestStart, RequestStep, CreateInsert, RetryCheck, CancelCheck, DeleteJob,
       ApiSetQueued, CancelWrite, CancelRequest, queueVars
  <2>2. rjob[r] \in Jobs /\ queue' = Append(queue, rjob[r])
    BY <1>1, <2>1 DEF ApiEnqueue, Advance, Enqueue, TypeOK
  <2> QED BY <2>1, <2>2, AppendFacts DEF TypeOK
<1>3. ASSUME NEW w \in Workers, WorkerStep(w) \/ Restart(w)
      PROVE  \E v \in Workers : wjob[v] = j /\ (RequeueRelease(v) \/ RequeuePush(v))
  <2>1. ~Poll(w)
    BY PopFacts DEF Poll, TypeOK
  <2>2. RequeueRelease(w) \/ RequeuePush(w)
    BY <1>1, <1>3, <2>1 DEF WorkerStep, RunStep, TakeLease, HeartbeatBusy, Claim, Confirm,
       Convert, PrepareRaises, Persist, Report, RowVanished, AckJob, ResetForRetry, MarkFailed,
       DropFailed, HeartbeatReady, Restart, Raise, Lease, Ack, queueVars
  <2>3. Job(w) \in Jobs /\ queue' = Append(queue, Job(w))
    BY <1>1, <2>2, JobInHand DEF RequeueRelease, RequeuePush, Release, PushBack, Goto
  <2> QED BY <2>2, <2>3, AppendFacts DEF TypeOK, Job
<1>4. ~UNCHANGED vars /\ ~Faulty
  BY <1>1 DEF vars, queueVars, Faulty, InfraError, Crash, RequestDies, Raise
<1> QED BY <1>2, <1>3, <1>4 DEF Next

(* A job without a row had none before, and no request is inserting it. *)
LEMMA StillUnborn ==
    ASSUME TypeOK, [Next]_vars, NEW j \in Jobs, status'[j] = "NONE"
    PROVE  status[j] = "NONE" /\ \A r \in Requests : ~CreateInsert(r, j)
  BY DEF Next, Faulty, RequestStart, RequestStep, CreateInsert, RetryCheck, CancelCheck, DeleteJob,
     ApiEnqueue, ApiSetQueued, CancelWrite, CancelRequest, RequestDies, WorkerStep, RunStep, Poll,
     TakeLease, HeartbeatBusy, Claim, Confirm, Convert, PrepareRaises, Persist, Report,
     RowVanished, AckJob, ResetForRetry, RequeueRelease, RequeuePush, MarkFailed, DropFailed,
     HeartbeatReady, Restart, Crash, InfraError, Raise, WriteStatus, RowExists, TypeOK, vars, dbVars

(* FreshInv is inductive: ids enter the queue and the hands of workers only *)
(* after the insert.                                                        *)
LEMMA FreshStep == TypeOK /\ FreshInv /\ [Next]_vars => FreshInv'
<1> SUFFICES ASSUME TypeOK, FreshInv, [Next]_vars, NEW j \in Jobs, status'[j] = "NONE"
             PROVE  /\ ~Queued(j)'
                    /\ \A w \in Workers : wjob'[w] # j
                    /\ \A r \in Requests : rjob'[r] # j
  BY DEF FreshInv
<1>1. status[j] = "NONE" /\ \A r \in Requests : ~CreateInsert(r, j)
  BY StillUnborn
<1>2. /\ ~Queued(j)
      /\ \A w \in Workers : wjob[w] # j
      /\ \A r \in Requests : rjob[r] # j
  BY <1>1 DEF FreshInv
<1>3. ~Queued(j)'
  BY <1>2, EntriesComeFrom
<1>4. ASSUME NEW r \in Requests, NEW i \in Jobs,
             CreateInsert(r, i) \/ RetryCheck(r, i) \/ CancelCheck(r, i) \/ DeleteJob(r, i)
      PROVE  (\A q \in Requests : rjob'[q] # j) /\ UNCHANGED wjob
  <2>1. i # j
    BY <1>1, <1>4 DEF RetryCheck, CancelCheck, DeleteJob, RowExists
  <2> QED BY <1>2, <1>4, <2>1 DEF CreateInsert, RetryCheck, CancelCheck, DeleteJob, Begin, TypeOK,
          workVars
<1>5. ASSUME NEW r \in Requests, RequestStep(r) \/ RequestDies(r) PROVE UNCHANGED <<rjob, wjob>>
  BY <1>5 DEF RequestStep, ApiEnqueue, ApiSetQueued, CancelWrite, CancelRequest, RequestDies,
     Advance, workVars
<1>6. ASSUME NEW w \in Workers, WorkerStep(w) \/ Restart(w) \/ Crash(w) \/ InfraError(w)
      PROVE  (\A v \in Workers : wjob'[v] # j) /\ UNCHANGED rjob
  <2>1. wjob'[w] # j
    <3>1. CASE Poll(w)
      BY <1>2, <3>1, PopFacts DEF Poll, TypeOK
    <3>2. CASE ~Poll(w)
      BY <1>2, <1>6, <3>2 DEF WorkerStep, RunStep, TakeLease, HeartbeatBusy, Claim, Confirm,
         Convert, PrepareRaises, Persist, Report, RowVanished, AckJob, ResetForRetry,
         RequeueRelease, RequeuePush, MarkFailed, DropFailed, HeartbeatReady, Restart, Crash,
         InfraError, Raise, TypeOK
    <3> QED BY <3>1, <3>2
  <2> QED BY <1>2, <1>6, <2>1, OtherWorkersKeep, WorkersKeepRequests
<1>7. CASE UNCHANGED vars
  BY <1>2, <1>3, <1>7 DEF vars, workVars, apiVars
<1> QED BY <1>2, <1>3, <1>4, <1>5, <1>6, <1>7 DEF Next, Faulty, RequestStart

(* No job is known to queue, worker or request before its insert. *)
LEMMA FreshCorrect == Spec => []FreshInv
<1>1. Init => FreshInv
  BY DEF Init, QueueInit, FreshInv, Queued
<1> QED BY <1>1, FreshStep, TypeCorrect, PTL DEF Spec
-----------------------------------------------------------------------------
(* Exclusive execution.                                                    *)

(* A step that adds no entry, no holder and no request at its enqueue, and *)
(* takes no holder's lease, keeps the tokens.                              *)
LEMMA TokenQuiet ==
    ASSUME Token, NoRetry' => NoRetry, UNCHANGED queue,
           \A w \in Workers : Holds(w)' =>
               /\ Holds(w) /\ wjob'[w] = wjob[w]
               /\ wjob[w] \in processing => wjob[w] \in processing',
           NoRetry' => \A r \in Requests :
               rpc'[r] = "enqueue" => rpc[r] = "enqueue" /\ rjob'[r] = rjob[r]
    PROVE  Token'
<1>1. \A i : Queued(i)' <=> Queued(i)
  BY DEF Queued
<1>2. Distinct'
  BY DEF Token, Distinct
<1> QED BY <1>1, <1>2 DEF Token

(* Requests keep the tokens: a new job has none, an enqueue turns the       *)
(* request's token (Redis) or an unknown id (memory) into the entry.        *)
LEMMA TokenRequest ==
    ASSUME TypeOK, FreshInv, Token, NoRetry' => NoRetry, NoRetry' \/ Backend = "memory",
           NEW r \in Requests, RequestStart(r) \/ RequestStep(r) \/ RequestDies(r)
    PROVE  Token'
<1>0. UNCHANGED <<wpc, wjob, processing>>
  BY RequestsKeepWorkers
<1>1. ASSUME NEW j \in Jobs, CreateInsert(r, j) PROVE Token'
  <2>1. /\ ~Queued(j)
        /\ \A w \in Workers : wjob[w] # j
        /\ \A q \in Requests : rjob[q] # j
    BY <1>1 DEF FreshInv, CreateInsert
  <2>2. UNCHANGED queue /\ \A i : Queued(i)' <=> Queued(i)
    BY <1>1 DEF CreateInsert, queueVars, Queued
  <2>3. Distinct'
    BY <2>2 DEF Token, Distinct
  <2>4. /\ rjob'[r] = j
        /\ \A q \in Requests \ {r} : rpc'[q] = rpc[q] /\ rjob'[q] = rjob[q]
    BY <1>1 DEF CreateInsert, Begin, TypeOK
  <2> QED BY <1>0, <2>1, <2>2, <2>3, <2>4 DEF Token, Holds
<1>2. CASE ApiEnqueue(r)
  <2>1. rjob[r] \in Jobs /\ rpc[r] = "enqueue" /\ UNCHANGED rjob
    BY <1>2 DEF ApiEnqueue, Advance, TypeOK
  <2>2. \A q \in Requests : rpc'[q] = "enqueue" => q # r /\ rpc[q] = "enqueue"
    BY <1>2 DEF ApiEnqueue, Advance, TypeOK
  <2>3. CASE UNCHANGED queue
    BY <1>0, <2>1, <2>2, <2>3, TokenQuiet DEF Holds
  <2>4. CASE ~Known(rjob[r]) /\ queue' = Append(queue, rjob[r])
    <3>0. Backend = "memory" \/ NoRetry
      OBVIOUS
    <3>1. ~Queued(rjob[r]) /\ \A w \in Workers : Holds(w) => wjob[w] # rjob[r]
      BY <2>1, <2>4, <3>0 DEF Token, Known
    <3>2. Distinct' /\ \A i : Queued(i)' <=> Queued(i) \/ i = rjob[r]
      BY <2>1, <2>4, <3>1, AppendFacts DEF TypeOK, Token
    <3> QED BY <1>0, <2>1, <2>2, <3>1, <3>2 DEF Token, Holds
  <2> QED BY <1>2, <2>3, <2>4 DEF ApiEnqueue, Enqueue
<1>3. ASSUME ~ApiEnqueue(r), \A j \in Jobs : ~CreateInsert(r, j) PROVE Token'
  <2>1. UNCHANGED queue
    BY <1>3 DEF RequestStart, RequestStep, RequestDies, RetryCheck, CancelCheck, DeleteJob,
       ApiSetQueued, CancelWrite, CancelRequest, queueVars
  <2>2. NoRetry' => \A q \in Requests :
            rpc'[q] = "enqueue" => rpc[q] = "enqueue" /\ rjob'[q] = rjob[q]
    BY <1>3 DEF NoRetry, RequestStart, RequestStep, RequestDies, RetryCheck, CancelCheck,
       DeleteJob, ApiSetQueued, CancelWrite, CancelRequest, Begin, Advance, TypeOK
  <2> QED BY <1>0, <2>1, <2>2, TokenQuiet DEF Holds
<1> QED BY <1>1, <1>2, <1>3

(* Workers keep the tokens: Poll takes the entry, a requeue gives it back,   *)
(* ack and crash end it.                                                    *)
LEMMA TokenWorker ==
    ASSUME TypeOK, Token, NoRetry' => NoRetry, NEW w \in Workers,
           WorkerStep(w) \/ Restart(w) \/ Crash(w) \/ InfraError(w)
    PROVE  Token'
<1>0. /\ \A v \in Workers \ {w} : UNCHANGED <<wpc[v], wjob[v]>>
      /\ UNCHANGED <<rpc, rop, rjob>>
  BY OtherWorkersKeep, WorkersKeepRequests
<1>1. CASE Poll(w)
  <2>1. PICK j \in Jobs : Pop(j) /\ wjob' = [wjob EXCEPT ![w] = j]
    BY <1>1 DEF Poll
  <2>2. /\ Queued(j) /\ ~Queued(j)' /\ Distinct'
        /\ \A i : Queued(i)' => Queued(i)
    BY <2>1, PopFacts DEF TypeOK, Token
  <2>3. /\ wjob'[w] = j
        /\ Backend = "memory" => j \in processing'
        /\ processing \subseteq processing'
    BY <2>1 DEF Pop, TypeOK
  <2> QED BY <1>0, <2>2, <2>3 DEF Token, Holds
<1>2. CASE RequeueRelease(w) \/ RequeuePush(w)
  <2>1. /\ Holds(w) /\ Job(w) \in Jobs
        /\ UNCHANGED wjob
        /\ wpc' \in [Workers -> WorkerPC]
        /\ Holds(w)' => UNCHANGED queue /\ Backend = "redis"
    BY <1>2, JobInHand DEF RequeueRelease, RequeuePush, Release, Goto, Holds, TypeOK, WorkerPC
  <2>2. \A v \in Workers \ {w} : Holds(v)' =>
            /\ Holds(v) /\ wjob[v] # Job(w)
            /\ wjob[v] \in processing => wjob[v] \in processing'
    BY <1>0, <1>2, <2>1 DEF RequeueRelease, RequeuePush, Release, PushBack, Token, Holds, Job
  <2>3. CASE UNCHANGED queue
    <3>1. Backend = "redis"
      BY <1>2, <2>1, <2>3, AppendFacts DEF RequeueRelease, RequeuePush, Release, PushBack, TypeOK, QueueTypeOK
    <3>2. /\ \A i : Queued(i)' <=> Queued(i)
          /\ Distinct'
      BY <2>3 DEF Queued, Token, Distinct
    <3> QED BY <1>0, <2>1, <2>2, <3>1, <3>2 DEF Token, Holds
  <2>4. CASE queue' = Append(queue, Job(w)) /\ ~Holds(w)'
    <3>1. ~Queued(Job(w))
      BY <2>1 DEF Token, Job
    <3>2. Distinct' /\ \A i : Queued(i)' <=> Queued(i) \/ i = Job(w)
      BY <2>1, <2>4, <3>1, AppendFacts DEF TypeOK, Token
    <3> QED BY <1>0, <2>1, <2>2, <2>4, <3>1, <3>2 DEF Token, Holds, Job
  <2>5. UNCHANGED queue \/ (queue' = Append(queue, Job(w)) /\ ~Holds(w)')
    BY <1>2 DEF RequeueRelease, RequeuePush, Release, PushBack, Goto, Holds, TypeOK
  <2> QED BY <2>3, <2>4, <2>5
<1>3. CASE AckJob(w) \/ DropFailed(w)
  <2>1. /\ UNCHANGED <<queue, wjob>> /\ ~Holds(w)' /\ Holds(w)
        /\ processing' = processing \ {Job(w)}
    BY <1>3 DEF AckJob, DropFailed, Ack, Goto, Holds, TypeOK
  <2>2. \A v \in Workers \ {w} : Holds(v)' =>
            /\ Holds(v)
            /\ wjob[v] \in processing => wjob[v] \in processing'
    BY <1>0, <2>1 DEF Token, Holds, Job
  <2> QED BY <1>0, <2>1, <2>2, TokenQuiet
<1>4. ASSUME ~Poll(w), ~RequeueRelease(w), ~RequeuePush(w), ~AckJob(w), ~DropFailed(w)
      PROVE  Token'
  <2>1. UNCHANGED queue /\ processing \subseteq processing'
    BY <1>4 DEF WorkerStep, RunStep, TakeLease, HeartbeatBusy, Claim, Confirm, Convert,
       PrepareRaises, Persist, Report, RowVanished, ResetForRetry, MarkFailed, HeartbeatReady,
       Restart, Crash, InfraError, Raise, Lease, queueVars
  <2>2. Holds(w)' => Holds(w) /\ wjob'[w] = wjob[w]
    BY <1>4 DEF WorkerStep, RunStep, TakeLease, HeartbeatBusy, Claim, Confirm, Convert,
       PrepareRaises, Persist, Report, RowVanished, ResetForRetry, MarkFailed, HeartbeatReady,
       Restart, Crash, InfraError, Raise, Goto, Holds, TypeOK
  <2> QED BY <1>0, <2>1, <2>2, TokenQuiet DEF Holds
<1> QED BY <1>1, <1>2, <1>3, <1>4

(* A request that has not begun asks for nothing. *)
NewAsksNothing == \A r \in Requests : rpc[r] = "new" => rop[r] = "none"

(* Begin is the only step that gives a request its operation. *)
LEMMA NewStep == TypeOK /\ NewAsksNothing /\ [Next]_vars => NewAsksNothing'
<1> SUFFICES ASSUME TypeOK, NewAsksNothing, [Next]_vars PROVE NewAsksNothing'
  OBVIOUS
<1>1. ASSUME NEW q \in Requests, RequestStart(q) \/ RequestStep(q) \/ RequestDies(q)
      PROVE  NewAsksNothing'
  BY <1>1 DEF NewAsksNothing, RequestStart, RequestStep, RequestDies, CreateInsert, RetryCheck,
     CancelCheck, DeleteJob, ApiEnqueue, ApiSetQueued, CancelWrite, CancelRequest, Begin, Advance,
     TypeOK
<1>2. CASE UNCHANGED <<rpc, rop>>
  BY <1>2 DEF NewAsksNothing
<1> QED BY <1>1, <1>2, WorkersKeepRequests DEF Next, Faulty, vars, apiVars

(* Once a retry has been asked for, that stays so. *)
LEMMA RetryIsForGood ==
    ASSUME TypeOK, NewAsksNothing, [Next]_vars, NoRetry' PROVE NoRetry
<1>1. ASSUME NEW q \in Requests, RequestStart(q), NEW r \in Requests, rop[r] = "retry"
      PROVE  rop'[r] = "retry"
  <2>1. r # q
    BY <1>1 DEF NewAsksNothing, RequestStart, CreateInsert, RetryCheck, CancelCheck, DeleteJob, Begin
  <2> QED BY <1>1, <2>1 DEF RequestStart, CreateInsert, RetryCheck, CancelCheck, DeleteJob, Begin,
          TypeOK
<1>2. ASSUME NEW q \in Requests, RequestStep(q) \/ RequestDies(q) PROVE UNCHANGED rop
  BY <1>2 DEF RequestStep, RequestDies, ApiEnqueue, ApiSetQueued, CancelWrite, CancelRequest, Advance
<1>3. ASSUME NEW r \in Requests, rop[r] = "retry" PROVE rop'[r] = "retry"
  BY <1>1, <1>2, <1>3, WorkersKeepRequests DEF Next, Faulty, vars, apiVars
<1> QED BY <1>3 DEF NoRetry

(* Every step keeps the tokens while nobody has retried, or in memory. *)
LEMMA TokenStep ==
    TypeOK /\ FreshInv /\ NewAsksNothing /\ TokenInv /\ [Next]_vars => TokenInv'
<1> SUFFICES ASSUME TypeOK, FreshInv, NewAsksNothing, TokenInv, [Next]_vars,
                    NoRetry' \/ Backend = "memory"
             PROVE  Token'
  BY DEF TokenInv
<1>1. Token /\ (NoRetry' => NoRetry)
  BY RetryIsForGood DEF TokenInv
<1>2. CASE UNCHANGED vars
  BY <1>1, <1>2, TokenQuiet DEF vars, queueVars, workVars, apiVars, Holds
<1> QED BY <1>1, <1>2, TokenRequest, TokenWorker DEF Next, Faulty

(* While nobody retries on Redis, and always on the in-memory queue, no    *)
(* two workers run one job: crashes, errors and late status writes         *)
(* included.                                                               *)
THEOREM RunsAreExclusive == Spec => []ExclusiveWithoutRetry
<1>1. Init => FreshInv /\ NewAsksNothing /\ TokenInv
  BY DEF Init, QueueInit, FreshInv, Queued, NewAsksNothing, TokenInv, Token, Distinct, Holds
<1>2. TypeOK /\ TokenInv => ExclusiveWithoutRetry
  BY DEF TokenInv, Token, ExclusiveWithoutRetry, ExclusiveExecution, Executing, Holds
<1> QED BY <1>1, <1>2, FreshStep, NewStep, TokenStep, TypeCorrect, PTL DEF Spec
-----------------------------------------------------------------------------
(* How often a job may fail.                                               *)

(* The attempts the workers remember: worker w counts up to retries[w][j]. *)
Remembered(ret, j) == {p \in Workers \X (1..MaxRetries) : p[2] <= ret[p[1]][j]}

Attempts(j) == Remembered(retries, j)

(* Nobody can fail this job again: its token is gone for good, or its       *)
(* holder is about to drop it.                                              *)
Spent(j) ==
    /\ ~Queued(j)
    /\ \A w \in Workers : wjob[w] = j => ~Holds(w) \/ wpc[w] \in {"fail", "drop"}
    /\ \A r \in Requests : rjob[r] = j => rpc[r] # "enqueue"

(* Every error is remembered by the worker that met it, except the one that *)
(* exhausts a worker or the ones a final ack forgets; after those the job   *)
(* is spent.                                                                *)
WithinAttempts(j) ==
    \/ raised[j] <= Cardinality(Attempts(j))
    \/ Spent(j) /\ raised[j] <= Cardinality(Workers) * MaxRetries + 1

AttemptInv ==
    faults = 0 /\ NoRetry =>
        \A j \in Jobs : /\ status[j] = "NONE" => raised[j] = 0
                        /\ WithinAttempts(j)

(* The workers remember MaxRetries attempts each, at most. *)
LEMMA AttemptsFit ==
    ASSUME NEW ret, NEW j
    PROVE  /\ IsFiniteSet(Remembered(ret, j))
           /\ Cardinality(Workers) \in Nat
           /\ Cardinality(Remembered(ret, j)) \in Nat
           /\ Cardinality(Remembered(ret, j)) <= Cardinality(Workers) * MaxRetries
<1>1. IsFiniteSet(1..MaxRetries) /\ Cardinality(1..MaxRetries) = MaxRetries
  BY FS_Interval
<1>2. /\ IsFiniteSet(Workers \X (1..MaxRetries))
      /\ Cardinality(Workers \X (1..MaxRetries)) = Cardinality(Workers) * MaxRetries
  BY <1>1, FS_Product
<1>3. Remembered(ret, j) \in SUBSET (Workers \X (1..MaxRetries))
  BY DEF Remembered
<1> QED BY <1>2, <1>3, FS_Subset, FS_CardinalityType

(* An error that does not exhaust its worker is one more attempt remembered. *)
LEMMA OneMoreAttempt ==
    ASSUME TypeOK, NEW w \in Workers, NEW j \in Jobs,
           retries[w][j] + 1 <= MaxRetries,
           retries' = [retries EXCEPT ![w][j] = retries[w][j] + 1]
    PROVE  Cardinality(Attempts(j)') = Cardinality(Attempts(j)) + 1
<1> DEFINE n == retries[w][j] + 1
<1>1. n \in 1..MaxRetries /\ \A v \in Workers : retries[v][j] \in 0..MaxRetries
  BY DEF TypeOK
<1>2. /\ retries'[w][j] = n
      /\ \A v \in Workers \ {w} : retries'[v][j] = retries[v][j]
  BY DEF TypeOK
<1>3. <<w, n>> \notin Attempts(j)
  BY <1>1 DEF Attempts, Remembered
<1>4. Attempts(j)' = Attempts(j) \cup {<<w, n>>}
  <2>1. ASSUME NEW p \in Workers \X (1..MaxRetries)
        PROVE  p \in Attempts(j)' <=> p \in Attempts(j) \/ p = <<w, n>>
    <3>1. p = <<p[1], p[2]>> /\ p[1] \in Workers /\ p[2] \in 1..MaxRetries
      OBVIOUS
    <3>2. CASE p[1] = w
      <4>1. p[2] <= n <=> p[2] <= retries[w][j] \/ p[2] = n
        BY <1>1, <3>1
      <4> QED BY <1>2, <3>1, <3>2, <4>1 DEF Attempts, Remembered
    <3>3. CASE p[1] # w
      BY <1>2, <3>1, <3>3 DEF Attempts, Remembered
    <3> QED BY <3>2, <3>3
  <2>2. <<w, n>> \in Workers \X (1..MaxRetries)
    BY <1>1
  <2> HIDE DEF n
  <2> QED BY <2>1, <2>2 DEF Attempts, Remembered
<1> QED BY <1>3, <1>4, AttemptsFit, FS_AddElement DEF Attempts

(* A spent job stays spent: its id is in no hand that could bring it back.  *)
LEMMA SpentStays ==
    ASSUME TypeOK, NewAsksNothing, NoRetry, NEW j \in Jobs, Spent(j), status[j] # "NONE",
           \/ \E r \in Requests : RequestStart(r) \/ RequestStep(r)
           \/ \E w \in Workers : WorkerStep(w) \/ Restart(w),
           [Next]_vars, NoRetry'
    PROVE  Spent(j)'
<1>1. ~Queued(j)'
  BY EntriesComeFrom DEF Spent, RequeueRelease, RequeuePush, Goto, Holds, ApiEnqueue, Advance
<1>2. ASSUME NEW r \in Requests, RequestStart(r) \/ RequestStep(r) PROVE Spent(j)'
  <2>1. UNCHANGED <<wpc, wjob>>
    BY <1>2, RequestsKeepWorkers
  <2>2. \A q \in Requests : rpc'[q] = "enqueue" => rpc[q] = "enqueue" \/ rjob'[q] # j
    BY <1>2 DEF NoRetry, RequestStart, RequestStep, CreateInsert, RetryCheck, CancelCheck,
       DeleteJob, ApiEnqueue, ApiSetQueued, CancelWrite, CancelRequest, Begin, Advance, TypeOK
  <2>3. \A q \in Requests : rpc'[q] = "enqueue" => rjob'[q] = rjob[q] \/ rjob'[q] # j
    BY <1>2 DEF NoRetry, RequestStart, RequestStep, CreateInsert, RetryCheck, CancelCheck,
       DeleteJob, ApiEnqueue, ApiSetQueued, CancelWrite, CancelRequest, Begin, Advance, TypeOK
  <2> QED BY <1>1, <2>1, <2>2, <2>3 DEF Spent, Holds
<1>3. ASSUME NEW w \in Workers, WorkerStep(w) \/ Restart(w) PROVE Spent(j)'
  <2>1. /\ \A v \in Workers \ {w} : UNCHANGED <<wpc[v], wjob[v]>>
        /\ UNCHANGED <<rpc, rop, rjob>>
    BY <1>3, OtherWorkersKeep, WorkersKeepRequests
  <2>2. ~Poll(w) \/ wjob'[w] # j
    BY PopFacts DEF Poll, Spent, TypeOK
  <2>3. wjob'[w] = j => ~Holds(w)' \/ wpc'[w] \in {"fail", "drop"}
    BY <1>3, <2>2 DEF Spent, WorkerStep, RunStep, Poll, TakeLease, HeartbeatBusy, Claim, Confirm,
       Convert, PrepareRaises, Persist, Report, RowVanished, AckJob, ResetForRetry,
       RequeueRelease, RequeuePush, MarkFailed, DropFailed, HeartbeatReady, Restart, Raise, Goto,
       Holds, TypeOK
  <2> QED BY <1>1, <2>1, <2>3 DEF Spent, Holds
<1> QED BY <1>2, <1>3

(* The worker that fails or acks a job for good holds the only token. *)
LEMMA HolderSpends ==
    ASSUME TypeOK, Token, NoRetry, NEW w \in Workers, Holds(w),
           UNCHANGED <<queue, wjob, rpc, rjob>>,
           \A v \in Workers \ {w} : UNCHANGED wpc[v],
           ~Holds(w)' \/ wpc'[w] = "fail", NEW j \in Jobs, Job(w) = j
    PROVE  Spent(j)'
  BY DEF Token, Spent, Holds, Queued, Job

(* Every step keeps the errors of a job within its attempts. *)
LEMMA AttemptStep ==
    TypeOK /\ FreshInv /\ NewAsksNothing /\ TokenInv /\ AttemptInv /\ [Next]_vars
        => AttemptInv'
<1> SUFFICES ASSUME TypeOK, FreshInv, NewAsksNothing, TokenInv, AttemptInv, [Next]_vars,
                    faults' = 0, NoRetry'
             PROVE  \A j \in Jobs : /\ status'[j] = "NONE" => raised'[j] = 0
                                    /\ WithinAttempts(j)'
  BY DEF AttemptInv
<1> TAKE j \in Jobs
<1>1. /\ NoRetry /\ Token
      /\ status[j] = "NONE" => raised[j] = 0
      /\ WithinAttempts(j)
  BY FaultFree, RetryIsForGood DEF AttemptInv, TokenInv
<1>2. /\ raised[j] \in Nat
      /\ Cardinality(Workers) \in Nat
      /\ Cardinality(Attempts(j)) \in Nat /\ Cardinality(Attempts(j)') \in Nat
      /\ Cardinality(Attempts(j)) <= Cardinality(Workers) * MaxRetries
  BY AttemptsFit DEF TypeOK, Attempts
<1>3. \/ \E r \in Requests : RequestStart(r) \/ RequestStep(r)
      \/ \E w \in Workers : WorkerStep(w) \/ Restart(w)
      \/ UNCHANGED vars
  BY FaultFree
<1>4. ASSUME raised'[j] = raised[j], \A w \in Workers : retries'[w][j] = retries[w][j]
      PROVE  WithinAttempts(j)'
  <2>1. Attempts(j)' = Attempts(j)
    BY <1>4 DEF Attempts, Remembered
  <2>2. CASE raised[j] <= Cardinality(Attempts(j))
    BY <1>4, <2>1, <2>2 DEF WithinAttempts
  <2>3. CASE ~(raised[j] <= Cardinality(Attempts(j)))
    <3>1. Spent(j) /\ status[j] # "NONE"
      BY <1>1, <1>2, <2>3 DEF WithinAttempts
    <3>2. Spent(j)'
      <4>1. CASE UNCHANGED vars
        BY <3>1, <4>1 DEF Spent, Queued, Holds, vars, queueVars, workVars, apiVars
      <4> QED BY <1>1, <1>3, <3>1, <4>1, SpentStays
    <3> QED BY <1>1, <1>4, <2>3, <3>2 DEF WithinAttempts
  <2> QED BY <2>2, <2>3
<1>5. ASSUME raised'[j] = 0 PROVE WithinAttempts(j)'
  BY <1>2, <1>5 DEF WithinAttempts
<1>6. ASSUME NEW w \in Workers, Raise(w), Job(w) = j, wpc[w] \in {"convert", "persist", "report"}
      PROVE  WithinAttempts(j)'
  <2>1. /\ raised'[j] = raised[j] + 1
        /\ raised[j] <= Cardinality(Attempts(j))
    BY <1>1, <1>6 DEF Raise, WithinAttempts, Spent, Holds, Job, TypeOK
  <2>0. retries[w][j] \in 0..MaxRetries
    BY DEF TypeOK
  <2>2. CASE retries[w][j] + 1 <= MaxRetries
    <3>1. Cardinality(Attempts(j)') = Cardinality(Attempts(j)) + 1
      <4>1. retries' = [retries EXCEPT ![w][j] = retries[w][j] + 1]
        BY <1>6, <2>0, <2>2 DEF Raise
      <4> QED BY <2>2, <4>1, OneMoreAttempt
    <3> QED BY <1>2, <2>1, <3>1 DEF WithinAttempts
  <2>3. CASE ~(retries[w][j] + 1 <= MaxRetries)
    <3>1. /\ wpc' = [wpc EXCEPT ![w] = "fail"]
          /\ UNCHANGED <<queue, wjob, rpc, rjob>>
      BY <1>6, <2>0, <2>3 DEF Raise, queueVars, apiVars
    <3>2. Spent(j)'
      BY <1>1, <1>6, <3>1, HolderSpends DEF Holds, TypeOK
    <3> QED BY <1>2, <2>1, <3>2 DEF WithinAttempts
  <2> QED BY <2>2, <2>3
<1>7. ASSUME NEW w \in Workers, AckJob(w), Job(w) = j PROVE WithinAttempts(j)'
  <2>1. CASE raised[j] <= Cardinality(Attempts(j))
    <3>1. /\ Holds(w) /\ wpc' = [wpc EXCEPT ![w] = "ready"]
          /\ UNCHANGED <<queue, wjob, rpc, rjob, raised>>
      BY <1>7 DEF AckJob, Ack, Goto, Holds, apiVars, history
    <3>2. Spent(j)'
      BY <1>1, <1>7, <3>1, HolderSpends DEF Holds, TypeOK
    <3> QED BY <1>2, <2>1, <3>1, <3>2 DEF WithinAttempts
  <2>2. CASE Spent(j)
    BY <1>7, <2>2 DEF Spent, AckJob, Goto, Holds, Job
  <2> QED BY <1>1, <2>1, <2>2 DEF WithinAttempts
<1>8. WithinAttempts(j)'
  <2>1. ASSUME NEW r \in Requests, RequestStart(r) \/ RequestStep(r)
        PROVE  UNCHANGED <<raised, retries>>
    BY <2>1 DEF RequestStart, RequestStep, CreateInsert, RetryCheck, CancelCheck, DeleteJob,
       ApiEnqueue, ApiSetQueued, CancelWrite, CancelRequest, workVars, history
  <2>2. ASSUME NEW w \in Workers, WorkerStep(w) \/ Restart(w)
        PROVE  \/ UNCHANGED <<raised, retries>>
               \/ Job(w) # j /\ raised'[j] = raised[j]
                             /\ \A v \in Workers : retries'[v][j] = retries[v][j]
               \/ Job(w) = j /\ raised'[j] = 0
               \/ Job(w) = j /\ AckJob(w)
               \/ Job(w) = j /\ Raise(w) /\ wpc[w] \in {"convert", "persist", "report"}
    <3>1. CASE Report(w) \/ MarkFailed(w)
      <4>1. Job(w) \in Jobs /\ raised' = [raised EXCEPT ![Job(w)] = 0] /\ UNCHANGED retries
        BY <3>1, JobInHand DEF Report, MarkFailed, Goto
      <4> QED BY <4>1 DEF TypeOK
    <3>2. CASE AckJob(w)
      BY <3>2 DEF AckJob, TypeOK, history
    <3>3. CASE PrepareRaises(w) \/ RowVanished(w)
      <4>1. Raise(w) /\ wpc[w] \in {"convert", "persist", "report"}
        BY <3>3 DEF PrepareRaises, RowVanished
      <4>2. /\ Job(w) # j => raised'[j] = raised[j]
            /\ \A v \in Workers : Job(w) # j => retries'[v][j] = retries[v][j]
        <5>1. /\ raised' = [raised EXCEPT ![Job(w)] = @ + 1]
              /\ \/ retries' = [retries EXCEPT ![w][Job(w)] = retries[w][Job(w)] + 1]
                 \/ retries' = [retries EXCEPT ![w][Job(w)] = 0]
          BY <4>1 DEF Raise
        <5>2. raised \in [Jobs -> Nat] /\ retries \in [Workers -> [Jobs -> 0..MaxRetries]]
          BY DEF TypeOK
        <5>3. Job(w) # j => raised'[j] = raised[j]
          BY <5>1, <5>2
        <5>4. ASSUME NEW v \in Workers, Job(w) # j PROVE retries'[v][j] = retries[v][j]
          BY <5>1, <5>2, <5>4
        <5> QED BY <5>3, <5>4
      <4> QED BY <4>1, <4>2
    <3>4. CASE UNCHANGED <<raised, retries>>
      BY <3>4
    <3> QED BY <2>2, <3>1, <3>2, <3>3, <3>4 DEF WorkerStep, RunStep, Poll, TakeLease,
            HeartbeatBusy, Claim, Confirm, Convert, Persist, ResetForRetry, RequeueRelease,
            RequeuePush, DropFailed, HeartbeatReady, Restart, history
  <2> QED BY <1>3, <1>4, <1>5, <1>6, <1>7, <2>1, <2>2 DEF vars, workVars, history
<1>9. ASSUME status'[j] = "NONE" PROVE raised'[j] = 0
  <2>1. status[j] = "NONE" /\ \A w \in Workers : wjob[w] # j
    BY <1>9, StillUnborn DEF FreshInv
  <2> QED BY <1>1, <1>3, <2>1 DEF RequestStart, RequestStep, CreateInsert, RetryCheck, CancelCheck,
          DeleteJob, ApiEnqueue, ApiSetQueued, CancelWrite, CancelRequest, WorkerStep, RunStep,
          Poll, TakeLease, HeartbeatBusy, Claim, Confirm, Convert, PrepareRaises, Persist, Report,
          RowVanished, AckJob, ResetForRetry, RequeueRelease, RequeuePush, MarkFailed, DropFailed,
          HeartbeatReady, Restart, Raise, Job, TypeOK, vars, history
<1> QED BY <1>8, <1>9

(* Without faults and retry requests a job fails MaxRetries times per worker *)
(* and once more, at most, before it is settled: the count is each worker's  *)
(* own, and a job that has used it up is in nobody's reach.                  *)
THEOREM AttemptsAreBounded == Spec => []AttemptsBounded
<1>1. Init => FreshInv /\ NewAsksNothing /\ TokenInv /\ AttemptInv
  <2>1. Init => \A j \in Jobs : raised[j] = 0 /\ Cardinality(Attempts(j)) \in Nat
    BY AttemptsFit DEF Init, Attempts
  <2> QED BY <2>1 DEF Init, QueueInit, FreshInv, Queued, NewAsksNothing, TokenInv, Token, Distinct,
          Holds, AttemptInv, WithinAttempts
<1>2. TypeOK /\ AttemptInv => AttemptsBounded
  <2> SUFFICES ASSUME TypeOK, AttemptInv, faults = 0, NoRetry, NEW j \in Jobs
               PROVE  raised[j] <= Cardinality(Workers) * MaxRetries + 1
    BY DEF AttemptsBounded
  <2>1. WithinAttempts(j) /\ raised[j] \in Nat
    BY DEF AttemptInv, TypeOK
  <2>2. /\ Cardinality(Workers) * MaxRetries \in Nat
        /\ Cardinality(Attempts(j)) \in Nat
        /\ Cardinality(Attempts(j)) <= Cardinality(Workers) * MaxRetries
    BY AttemptsFit DEF Attempts
  <2> QED BY <2>1, <2>2 DEF WithinAttempts
<1> QED BY <1>1, <1>2, FreshStep, NewStep, TokenStep, AttemptStep, TypeCorrect, PTL DEF Spec
-----------------------------------------------------------------------------
(* Nothing is lost.                                                        *)

(* A job that is over stays over. *)
LEMMA OverStays ==
    ASSUME TypeOK, [Next]_vars, NEW j \in Jobs, Over(j)
    PROVE  Over(j)'
<1> USE DEF Over
<1>1. ASSUME NEW r \in Requests, RequestStart(r) \/ RequestStep(r) \/ RequestDies(r) PROVE Over(j)'
  BY <1>1 DEF RequestStart, RequestStep, RequestDies, CreateInsert, RetryCheck, CancelCheck,
     DeleteJob, ApiEnqueue, ApiSetQueued, CancelWrite, CancelRequest, WriteStatus, RowExists,
     TypeOK, dbVars, history
<1>2. ASSUME NEW w \in Workers, WorkerStep(w) \/ Restart(w) \/ Crash(w) \/ InfraError(w)
      PROVE  Over(j)'
  <2>1. started[j] => started'[j]
    BY <1>2 DEF WorkerStep, RunStep, Poll, TakeLease, HeartbeatBusy, Claim, Confirm, Convert,
       PrepareRaises, Persist, Report, RowVanished, AckJob, ResetForRetry, RequeueRelease,
       RequeuePush, MarkFailed, DropFailed, HeartbeatReady, Restart, Crash, InfraError, Raise,
       TypeOK, dbVars
  <2>2. UNCHANGED cancelled
    BY <1>2 DEF WorkerStep, RunStep, Poll, TakeLease, HeartbeatBusy, Claim, Confirm, Convert,
       PrepareRaises, Persist, Report, RowVanished, AckJob, ResetForRetry, RequeueRelease,
       RequeuePush, MarkFailed, DropFailed, HeartbeatReady, Restart, Crash, InfraError, Raise,
       history
  <2>3. status[j] = "GONE" => status'[j] = "GONE"
    BY <1>2 DEF WorkerStep, RunStep, Poll, TakeLease, HeartbeatBusy, Claim, Confirm, Convert,
       PrepareRaises, Persist, Report, RowVanished, AckJob, ResetForRetry, RequeueRelease,
       RequeuePush, MarkFailed, DropFailed, HeartbeatReady, Restart, Crash, InfraError, Raise,
       WriteStatus, RowExists, Claimable, TypeOK, dbVars
  <2> QED BY <2>1, <2>2, <2>3
<1>3. CASE UNCHANGED vars
  BY <1>3 DEF vars, dbVars, history
<1> QED BY <1>1, <1>2, <1>3 DEF Next, Faulty

(* Requests lose nothing: an id the in-memory queue refuses is queued, or    *)
(* leased by a worker that carries it or is done with it (LeaseInv).        *)
LEMMA HandoverRequest ==
    ASSUME TypeOK, LeaseInv, StatusTold, WorkersKnow, faults = 0,
           \A j \in Jobs : status[j] # "NONE" => Safe(j) \/ Arriving(j),
           \A j \in Jobs : Over(j) => Over(j)',
           NEW r \in Requests, RequestStart(r) \/ RequestStep(r)
    PROVE  /\ StatusTold' /\ WorkersKnow'
           /\ \A j \in Jobs : status'[j] # "NONE" => Safe(j)' \/ Arriving(j)'
<1>1. UNCHANGED <<wpc, wjob, processing, started>>
  BY RequestsKeepWorkers DEF RequestStart, RequestStep, CreateInsert, RetryCheck, CancelCheck,
     DeleteJob, ApiEnqueue, ApiSetQueued, CancelWrite, CancelRequest, dbVars
<1>2. StatusTold'
  BY <1>1 DEF StatusTold, RequestStart, RequestStep, CreateInsert, RetryCheck, CancelCheck,
     DeleteJob, ApiEnqueue, ApiSetQueued, CancelWrite, CancelRequest, Advance, WriteStatus, TypeOK,
     dbVars, history
<1>3. WorkersKnow'
  <2>1. \A w \in Workers : wpc[w] \in {"ack", "drop"} => wjob[w] \in Jobs
    BY DEF TypeOK
  <2> QED BY <1>1, <2>1 DEF WorkersKnow, WillWrite, Executing
<1>4. ASSUME NEW j \in Jobs, status'[j] # "NONE" PROVE Safe(j)' \/ Arriving(j)'
  <2>1. CASE status[j] = "NONE"
    <3>1. CreateInsert(r, j)
      BY <1>4, <2>1 DEF RequestStart, RequestStep, CreateInsert, RetryCheck, CancelCheck, DeleteJob,
         ApiEnqueue, ApiSetQueued, CancelWrite, CancelRequest, WriteStatus, RowExists, TypeOK, dbVars
    <3>2. rjob'[r] = j /\ rop'[r] = "create" /\ rpc'[r] = "enqueue"
      BY <3>1 DEF CreateInsert, Begin, TypeOK
    <3> QED BY <3>2 DEF Arriving
  <2>2. CASE Queued(j)
    <3>1. CASE UNCHANGED queue
      BY <2>2, <3>1 DEF Safe, Queued
    <3>2. CASE ApiEnqueue(r)
      <4>1. rjob[r] \in Jobs
        BY <3>2 DEF ApiEnqueue, Advance, TypeOK
      <4>2. UNCHANGED queue \/ queue' = Append(queue, rjob[r])
        BY <3>2 DEF ApiEnqueue, Enqueue
      <4> QED BY <2>2, <3>1, <4>1, <4>2, AppendFacts DEF Safe, TypeOK
    <3> QED BY <3>1, <3>2 DEF RequestStart, RequestStep, CreateInsert, RetryCheck, CancelCheck,
            DeleteJob, ApiSetQueued, CancelWrite, CancelRequest, queueVars
  <2>3. CASE Carried(j) \/ Over(j)
    BY <1>1, <2>3 DEF Safe, Carried
  <2>4. CASE Arriving(j)
    <3>1. PICK q \in Requests : rjob[q] = j /\ rop[q] = "create" /\ rpc[q] = "enqueue"
      BY <2>4 DEF Arriving
    <3>2. CASE q # r
      <4>1. UNCHANGED <<rpc[q], rop[q], rjob[q]>>
        BY <3>2 DEF RequestStart, RequestStep, CreateInsert, RetryCheck, CancelCheck, DeleteJob,
           ApiEnqueue, ApiSetQueued, CancelWrite, CancelRequest, Begin, Advance, TypeOK
      <4> QED BY <3>1, <4>1 DEF Arriving
    <3>3. CASE q = r
      <4>1. Enqueue(j)
        BY <3>1, <3>3 DEF RequestStart, RequestStep, CreateInsert, RetryCheck, CancelCheck,
           DeleteJob, ApiEnqueue, ApiSetQueued, CancelWrite, CancelRequest, Begin, Advance
      <4>2. CASE queue' = Append(queue, j)
        BY <4>2, AppendFacts DEF Safe, TypeOK
      <4>3. CASE Known(j) /\ UNCHANGED queue
        <5>1. CASE Queued(j)
          BY <2>2, <5>1
        <5>2. CASE j \in processing
          <6>1. PICK w \in Workers : wjob[w] = j /\ wpc[w] \in LeasePC
            BY <5>2 DEF LeaseInv
          <6>2. Carried(j) \/ Over(j)
            BY <6>1 DEF Carried, WorkersKnow, LeasePC
          <6> QED BY <2>3, <6>2
        <5> QED BY <4>3, <5>1, <5>2 DEF Known
      <4> QED BY <4>1, <4>2, <4>3 DEF Enqueue
    <3> QED BY <3>2, <3>3
  <2> QED BY <2>1, <2>2, <2>3, <2>4 DEF Safe
<1> QED BY <1>2, <1>3, <1>4

(* Workers lose nothing: what leaves a worker's hands is back in the queue  *)
(* or over.                                                                 *)
LEMMA HandoverWorker ==
    ASSUME TypeOK, FreshInv, StatusTold, WorkersKnow,
           \A j \in Jobs : status[j] # "NONE" => Safe(j) \/ Arriving(j),
           \A j \in Jobs : Over(j) => Over(j)',
           NEW w \in Workers, WorkerStep(w) \/ Restart(w)
    PROVE  /\ StatusTold' /\ WorkersKnow'
           /\ \A j \in Jobs : status'[j] # "NONE" => Safe(j)' \/ Arriving(j)'
<1>0. /\ \A v \in Workers \ {w} : UNCHANGED <<wpc[v], wjob[v]>>
      /\ UNCHANGED <<rpc, rop, rjob>>
  BY OtherWorkersKeep, WorkersKeepRequests
<1>1. \A j \in Jobs : started[j] => started'[j]
  BY DEF WorkerStep, RunStep, Poll, TakeLease, HeartbeatBusy, Claim, Confirm, Convert,
     PrepareRaises, Persist, Report, RowVanished, AckJob, ResetForRetry, RequeueRelease,
     RequeuePush, MarkFailed, DropFailed, HeartbeatReady, Restart, Raise, TypeOK, dbVars
<1>2. StatusTold'
  <2>1. UNCHANGED cancelled
    BY DEF WorkerStep, RunStep, Poll, TakeLease, HeartbeatBusy, Claim, Confirm, Convert,
       PrepareRaises, Persist, Report, RowVanished, AckJob, ResetForRetry, RequeueRelease,
       RequeuePush, MarkFailed, DropFailed, HeartbeatReady, Restart, Raise, history
  <2>2. ASSUME NEW j \in Jobs, status'[j] # status[j]
        PROVE  started'[j] /\ status'[j] # "CANCELLED"
    <3>1. CASE Claim(w)
      BY <2>2, <3>1 DEF Claim, Goto, TypeOK
    <3>2. CASE WillWrite(w) /\ j = Job(w) /\ status'[j] # "CANCELLED"
      BY <1>1, <3>2 DEF WorkersKnow, Job
    <3> QED BY <2>2, <3>1, <3>2 DEF WorkerStep, RunStep, Poll, TakeLease, HeartbeatBusy, Confirm,
            Convert, PrepareRaises, Persist, Report, RowVanished, AckJob, ResetForRetry,
            RequeueRelease, RequeuePush, MarkFailed, DropFailed, HeartbeatReady, Restart, Raise,
            WriteStatus, WillWrite, Executing, Goto, TypeOK, dbVars
  <2> QED BY <1>1, <2>1, <2>2 DEF StatusTold
<1>3. WorkersKnow'
  <2>1. ASSUME NEW v \in Workers, v # w
        PROVE  /\ WillWrite(v)' => started'[wjob'[v]]
               /\ wpc'[v] \in {"ack", "drop"} => Over(wjob[v])'
    <3>1. /\ wpc[v] \notin {"idle", "down"} => wjob[v] \in Jobs
          /\ UNCHANGED <<wpc[v], wjob[v]>>
      BY <1>0, <2>1 DEF TypeOK
    <3> QED BY <1>1, <3>1 DEF WorkersKnow, WillWrite, Executing, Over
  <2>2. WillWrite(w)' => started'[wjob'[w]]
    <3>1. CASE Claim(w)
      BY <3>1, JobInHand DEF Claim, Goto, WillWrite, Executing, TypeOK, Job
    <3>2. CASE ~Claim(w)
      <4>1. WillWrite(w)' => WillWrite(w) /\ wjob'[w] = wjob[w]
        BY <3>2 DEF WorkerStep, RunStep, Poll, TakeLease, HeartbeatBusy, Confirm, Convert,
           PrepareRaises, Persist, Report, RowVanished, AckJob, ResetForRetry, RequeueRelease,
           RequeuePush, MarkFailed, DropFailed, HeartbeatReady, Restart, Raise, Goto, WillWrite,
           Executing, TypeOK
      <4>2. WillWrite(w) => wjob[w] \in Jobs
        BY JobInHand DEF WillWrite, Executing, Job
      <4> QED BY <1>1, <4>1, <4>2 DEF WorkersKnow
    <3> QED BY <3>1, <3>2
  <2>3. wpc'[w] \in {"ack", "drop"} => Over(wjob[w])'
    <3>1. CASE Claim(w)
      <4>1. Job(w) \in Jobs /\ wjob'[w] = Job(w) /\ status[Job(w)] # "NONE"
        BY <3>1, JobInHand DEF Claim, Goto, FreshInv, Job
      <4>2. wpc'[w] = "ack" => status[Job(w)] \notin Claimable
        BY <3>1 DEF Claim, Goto, TypeOK
      <4>3. wpc'[w] = "ack" => Over(Job(w))
        BY <4>1, <4>2 DEF StatusTold, Over, Claimable, TypeOK, Status
      <4>4. wpc'[w] # "drop"
        BY <3>1 DEF Claim, Goto, TypeOK
      <4> QED BY <4>1, <4>3, <4>4 DEF Over
    <3>2. CASE ~Claim(w) /\ wpc'[w] \in {"ack", "drop"}
      <4>1. WillWrite(w) /\ wjob'[w] = wjob[w]
        BY <3>2 DEF WorkerStep, RunStep, Poll, TakeLease, HeartbeatBusy, Confirm, Convert,
           PrepareRaises, Persist, Report, RowVanished, AckJob, ResetForRetry, RequeueRelease,
           RequeuePush, MarkFailed, DropFailed, HeartbeatReady, Restart, Raise, Goto, WillWrite,
           Executing, TypeOK
      <4>2. wjob[w] \in Jobs
        BY <4>1, JobInHand DEF WillWrite, Executing, Job
      <4> QED BY <1>1, <4>1, <4>2 DEF WorkersKnow, Over
    <3> QED BY <3>1, <3>2
  <2> QED BY <2>1, <2>2, <2>3 DEF WorkersKnow
<1>4. ASSUME NEW j \in Jobs, status'[j] # "NONE" PROVE Safe(j)' \/ Arriving(j)'
  <2>1. status[j] # "NONE"
    BY <1>4 DEF WorkerStep, RunStep, Poll, TakeLease, HeartbeatBusy, Claim, Confirm, Convert,
       PrepareRaises, Persist, Report, RowVanished, AckJob, ResetForRetry, RequeueRelease,
       RequeuePush, MarkFailed, DropFailed, HeartbeatReady, Restart, Raise, WriteStatus, RowExists,
       Claimable, TypeOK, dbVars
  <2>2. CASE Arriving(j)
    BY <1>0, <2>2 DEF Arriving
  <2>3. CASE Over(j)
    BY <2>3 DEF Safe
  <2>4. CASE Queued(j)
    <3>1. CASE Poll(w)
      <4>1. PICK i \in Jobs : Pop(i) /\ wjob' = [wjob EXCEPT ![w] = i]
        BY <3>1 DEF Poll
      <4>2. wpc'[w] \in {"busy", "lease"}
        BY <3>1 DEF Poll, Goto, TypeOK
      <4>3. CASE i = j
        BY <4>1, <4>2, <4>3 DEF Safe, Carried, TypeOK
      <4>4. CASE i # j
        BY <2>4, <4>1, <4>4, PopFacts DEF Safe, TypeOK
      <4> QED BY <4>3, <4>4
    <3>2. CASE UNCHANGED queue
      BY <2>4, <3>2 DEF Safe, Queued
    <3>3. CASE RequeueRelease(w) \/ RequeuePush(w)
      <4>1. Job(w) \in Jobs /\ (UNCHANGED queue \/ queue' = Append(queue, Job(w)))
        BY <3>3, JobInHand DEF RequeueRelease, RequeuePush, Release, PushBack, Goto
      <4> QED BY <2>4, <3>2, <4>1, AppendFacts DEF Safe, TypeOK
    <3> QED BY <3>1, <3>2, <3>3 DEF WorkerStep, RunStep, TakeLease, HeartbeatBusy, Claim, Confirm,
            Convert, PrepareRaises, Persist, Report, RowVanished, AckJob, ResetForRetry, MarkFailed,
            DropFailed, HeartbeatReady, Restart, Raise, Lease, Ack, queueVars
  <2>5. CASE Carried(j)
    <3>1. PICK v \in Workers : wjob[v] = j /\ wpc[v] \notin {"ack", "drop", "ready"}
      BY <2>5 DEF Carried
    <3>2. CASE v # w
      BY <1>0, <3>1, <3>2 DEF Safe, Carried
    <3>3. CASE v = w
      <4>0. wpc[w] \notin {"idle", "down", "ack", "drop", "ready"}
        BY <3>1, <3>3 DEF TypeOK
      <4>1. wjob'[w] = j
        BY <3>1, <3>3, <4>0 DEF WorkerStep, RunStep, Poll, TakeLease, HeartbeatBusy, Claim, Confirm,
           Convert, PrepareRaises, Persist, Report, RowVanished, AckJob, ResetForRetry,
           RequeueRelease, RequeuePush, MarkFailed, DropFailed, HeartbeatReady, Restart, Raise, Goto
      <4>2. CASE wpc'[w] \notin {"ack", "drop", "ready"}
        BY <4>1, <4>2 DEF Safe, Carried
      <4>3. CASE wpc'[w] \in {"ack", "drop"}
        BY <1>3, <4>1, <4>3 DEF Safe, WorkersKnow
      <4>4. CASE wpc'[w] = "ready"
        <5>1. queue' = Append(queue, j)
          BY <3>1, <3>3, <4>0, <4>4 DEF WorkerStep, RunStep, Poll, TakeLease, HeartbeatBusy, Claim,
             Confirm, Convert, PrepareRaises, Persist, Report, RowVanished, AckJob, ResetForRetry,
             RequeueRelease, RequeuePush, Release, PushBack, MarkFailed, DropFailed, HeartbeatReady,
             Restart, Raise, Goto, Job, TypeOK
        <5> QED BY <5>1, AppendFacts DEF Safe, TypeOK
      <4> QED BY <4>2, <4>3, <4>4
    <3> QED BY <3>2, <3>3
  <2> QED BY <2>1, <2>2, <2>3, <2>4, <2>5 DEF Safe
<1> QED BY <1>2, <1>3, <1>4

(* Every fault-free step keeps HandoverInv. *)
LEMMA HandoverStep ==
    TypeOK /\ FreshInv /\ LeaseInv /\ HandoverInv /\ [Next]_vars => HandoverInv'
<1> SUFFICES ASSUME TypeOK, FreshInv, LeaseInv, HandoverInv, [Next]_vars, faults' = 0
             PROVE  /\ StatusTold' /\ WorkersKnow'
                    /\ \A j \in Jobs : status'[j] # "NONE" => Safe(j)' \/ Arriving(j)'
  BY DEF HandoverInv
<1>1. /\ faults = 0
      /\ StatusTold /\ WorkersKnow
      /\ \A j \in Jobs : status[j] # "NONE" => Safe(j) \/ Arriving(j)
  BY FaultFree DEF HandoverInv
<1>2. \A j \in Jobs : Over(j) => Over(j)'
  BY OverStays
<1>3. CASE UNCHANGED vars
  BY <1>1, <1>3 DEF vars, queueVars, dbVars, workVars, apiVars, history, StatusTold, WorkersKnow,
     Safe, Queued, Carried, Over, Arriving, WillWrite, Executing
<1> QED BY <1>1, <1>2, <1>3, FaultFree, HandoverRequest, HandoverWorker

(* Without faults no job is dropped between API, queue and worker before   *)
(* its first run, unless a cancel has written its status.                  *)
THEOREM NothingLost == Spec => []NoLostJob
<1>1. Init => FreshInv /\ LeaseInv /\ HandoverInv
  BY DEF Init, QueueInit, FreshInv, LeaseInv, HandoverInv, StatusTold, WorkersKnow, WillWrite,
     Executing, Queued
<1>2. HandoverInv => NoLostJob
  BY DEF HandoverInv, NoLostJob, Lost, Tracked, Safe, Over, Arriving
<1> QED BY <1>1, <1>2, FreshStep, LeaseStep, HandoverStep, TypeCorrect, PTL DEF Spec
-----------------------------------------------------------------------------
(* ReadyMeansIdle is inductive as it stands: the heartbeat precedes the     *)
(* claim and READY is written last.                                         *)
LEMMA ReadyStep == TypeOK /\ ReadyMeansIdle /\ [Next]_vars => ReadyMeansIdle'
<1> SUFFICES ASSUME TypeOK, ReadyMeansIdle, [Next]_vars PROVE ReadyMeansIdle'
  OBVIOUS
<1> USE DEF ReadyMeansIdle
<1>1. ASSUME NEW r \in Requests, RequestStart(r) \/ RequestStep(r) \/ RequestDies(r)
      PROVE  ReadyMeansIdle'
  BY <1>1 DEF RequestStart, RequestStep, RequestDies, CreateInsert, RetryCheck, CancelCheck,
     DeleteJob, ApiEnqueue, ApiSetQueued, CancelWrite, CancelRequest, workVars
<1>2. ASSUME NEW w \in Workers, WorkerStep(w) \/ Restart(w) \/ Crash(w) \/ InfraError(w)
      PROVE  ReadyMeansIdle'
  <2>1. \A v \in Workers \ {w} : UNCHANGED <<wpc[v], hb[v]>>
    BY <1>2, OtherWorkersKeep DEF WorkerStep, RunStep, Poll, TakeLease, HeartbeatBusy, Claim,
       Confirm, Convert, PrepareRaises, Persist, Report, RowVanished, AckJob, ResetForRetry,
       RequeueRelease, RequeuePush, MarkFailed, DropFailed, HeartbeatReady, Restart, Crash,
       InfraError, Raise, TypeOK
  <2>2. hb'[w] = "READY" => wpc'[w] \in {"idle", "lease", "busy", "down"}
    BY <1>2 DEF WorkerStep, RunStep, Poll, TakeLease, HeartbeatBusy, Claim, Confirm, Convert,
       PrepareRaises, Persist, Report, RowVanished, AckJob, ResetForRetry, RequeueRelease,
       RequeuePush, MarkFailed, DropFailed, HeartbeatReady, Restart, Crash, InfraError, Raise,
       Goto, TypeOK
  <2> QED BY <2>1, <2>2
<1>3. CASE UNCHANGED vars
  BY <1>3 DEF vars, workVars
<1> QED BY <1>1, <1>2, <1>3 DEF Next, Faulty

(* A worker the platform lists as READY is not running a job, crashes and  *)
(* restarts included.                                                      *)
THEOREM ReadyIsIdle == Spec => []ReadyMeansIdle
<1>1. Init => ReadyMeansIdle
  BY DEF Init, ReadyMeansIdle
<1> QED BY <1>1, ReadyStep, TypeCorrect, PTL DEF Spec
=============================================================================
