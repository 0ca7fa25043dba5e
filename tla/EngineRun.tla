----------------------------- MODULE EngineRun -----------------------------
(***************************************************************************)
(* The runs of conversion jobs from the claim to the final status:         *)
(* engine/converter.py (run_pipeline) around pipeline.py (the ten steps),  *)
(* inside worker/executor.py (run_job) with its alarm, and the artifact    *)
(* store the files go to (engine/artifact_store.py).                       *)
(*                                                                         *)
(* A job is run again after a failure (JobPlatform: one run at a time while *)
(* nobody races retries).  Which files a job produces depends on its       *)
(* config and the workers' software and is the same for all its runs.      *)
(* Operators named Bug... are the next definition with a plausible bug and *)
(* are not used by the specification.                                      *)
(***************************************************************************)
EXTENDS Naturals, FiniteSets

CONSTANTS Jobs,
          Shared,    \* one bucket for all jobs (MinIO) or a directory each
          Timeouts,  \* is job_timeout_seconds set?
          MaxRuns,   \* bound: runs per job
          MaxLosses  \* bound: errors of the store, per job

ASSUME EngineAssumption ==
    /\ Shared \in BOOLEAN /\ Timeouts \in BOOLEAN
    /\ MaxRuns \in Nat \ {0} /\ MaxLosses \in Nat

Steps == 10

(* The files in the order run_pipeline saves them: raw and optimised model, *)
(* the compiler's main file, its further file, the package.                 *)
Files == {"raw", "opt", "main", "extra", "zip"}

Order(f) == CASE f = "raw" -> 1 [] f = "opt" -> 2 [] f = "main" -> 3
              [] f = "extra" -> 4 [] f = "zip" -> 5

Kind(f) == CASE f \in {"raw", "opt"} -> "onnx"
             [] f \in {"main", "extra"} -> "artifact"
             [] f = "zip" -> "package"

(* The step whose result names the file. *)
MadeBy(f) == CASE f = "raw" -> 3 [] f = "opt" -> 6
               [] f \in {"main", "extra"} -> 7 [] f = "zip" -> 10

VARIABLES
    parts,   \* which of "extra" and "zip" the job produces
    status,  \* conversion_jobs.status
    rows,    \* the artifacts table
    store,   \* the objects in the artifact store
    pc,      \* where the run is
    run,     \* runs begun
    done,    \* steps recorded as ok
    failed,  \* is the last record a failed step?
    error,   \* did pipeline.run raise?
    made,    \* files the result names
    tried,   \* how far the saving has come
    saved,   \* the manifest's artifacts
    engine,  \* status of the engine's job, "none" after a timeout
    alarm,   \* is the timer running?
    fired,   \* history: the timer went off in this run
    losses   \* history: saves that failed in this run

jobVars  == <<parts, status, rows>>
stepVars == <<done, failed, error, made>>
saveVars == <<tried, saved, losses, store>>
vars == <<jobVars, stepVars, saveVars, pc, run, engine, alarm, fired>>

FilesOf(j) == {"raw", "opt", "main"} \cup parts[j]
Home(j) == IF Shared THEN "bucket" ELSE j
Object(j, f, n) == [home |-> Home(j), file |-> f, job |-> j, run |-> n]

TypeOK ==
    /\ parts \in [Jobs -> SUBSET {"extra", "zip"}]
    /\ status \in [Jobs -> {"QUEUED", "RUNNING", "SUCCESS", "FAILED"}]
    /\ rows \subseteq [job : Jobs, run : 1..MaxRuns, file : Files]
    /\ store \subseteq {Object(j, f, n) : j \in Jobs, f \in Files, n \in 1..MaxRuns}
    /\ pc \in [Jobs -> {"idle", "steps", "save", "conclude", "return", "rows"}]
    /\ run \in [Jobs -> 0..MaxRuns]
    /\ done \in [Jobs -> 0..Steps]
    /\ failed \in [Jobs -> BOOLEAN] /\ error \in [Jobs -> BOOLEAN]
    /\ made \in [Jobs -> SUBSET Files]
    /\ tried \in [Jobs -> 0..5]
    /\ saved \in [Jobs -> SUBSET Files]
    /\ engine \in [Jobs -> {"RUNNING", "SUCCESS", "FAILED", "none"}]
    /\ alarm \in [Jobs -> BOOLEAN] /\ fired \in [Jobs -> BOOLEAN]
    /\ losses \in [Jobs -> 0..MaxLosses + 1]
    /\ \A j \in Jobs : made[j] \subseteq FilesOf(j) /\ saved[j] \subseteq made[j]

Init ==
    /\ parts \in [Jobs -> SUBSET {"extra", "zip"}]
    /\ status = [j \in Jobs |-> "QUEUED"]
    /\ rows = {} /\ store = {}
    /\ pc = [j \in Jobs |-> "idle"]
    /\ run = [j \in Jobs |-> 0]
    /\ done = [j \in Jobs |-> 0]
    /\ failed = [j \in Jobs |-> FALSE]
    /\ error = [j \in Jobs |-> FALSE]
    /\ made = [j \in Jobs |-> {}]
    /\ tried = [j \in Jobs |-> 0]
    /\ saved = [j \in Jobs |-> {}]
    /\ engine = [j \in Jobs |-> "none"]
    /\ alarm = [j \in Jobs |-> FALSE]
    /\ fired = [j \in Jobs |-> FALSE]
    /\ losses = [j \in Jobs |-> 0]
-----------------------------------------------------------------------------
Goto(j, l) == pc' = [pc EXCEPT ![j] = l]

(* The timer raises TimeoutError once, wherever the run is. *)
Fires(j) ==
    /\ alarm[j]
    /\ alarm' = [alarm EXCEPT ![j] = FALSE]
    /\ fired' = [fired EXCEPT ![j] = TRUE]

(* What a run keeps in memory, as it is before the first step. *)
Forget(j) ==
    /\ done' = [done EXCEPT ![j] = 0]
    /\ failed' = [failed EXCEPT ![j] = FALSE]
    /\ error' = [error EXCEPT ![j] = FALSE]
    /\ made' = [made EXCEPT ![j] = {}]
    /\ tried' = [tried EXCEPT ![j] = 0]
    /\ saved' = [saved EXCEPT ![j] = {}]
    /\ losses' = [losses EXCEPT ![j] = 0]
    /\ fired' = [fired EXCEPT ![j] = FALSE]

(* run_job: claim, arm the timer, job.queue().run(). *)
Begin(j) ==
    /\ pc[j] = "idle" /\ status[j] \in {"QUEUED", "FAILED"}
    /\ run[j] < MaxRuns
    /\ run' = [run EXCEPT ![j] = @ + 1]
    /\ status' = [status EXCEPT ![j] = "RUNNING"]
    /\ engine' = [engine EXCEPT ![j] = "RUNNING"]
    /\ alarm' = [alarm EXCEPT ![j] = Timeouts]
    /\ Forget(j)
    /\ Goto(j, "steps")
    /\ UNCHANGED <<parts, rows, store>>
-----------------------------------------------------------------------------
(* pipeline.run: ten steps.                                                *)

BugMakes(j, k) == {f \in Files : MadeBy(f) = k}
Makes(j, k) == {f \in FilesOf(j) : MadeBy(f) = k}

(* A step ends well; an alarm in it may have been swallowed, since steps     *)
(* catch the errors of optional work (rewrite/registry.py:99, validator/    *)
(* accuracy.py:221).  A step skipped on request counts as ok.               *)
StepOk(j) ==
    /\ pc[j] = "steps" /\ done[j] < Steps
    /\ done' = [done EXCEPT ![j] = @ + 1]
    /\ made' = [made EXCEPT ![j] = @ \cup Makes(j, done'[j])]
    /\ Fires(j) \/ UNCHANGED <<alarm, fired>>
    /\ UNCHANGED <<jobVars, saveVars, pc, run, failed, error, engine>>

(* A step raises, itself or by the alarm, before or after it has set its    *)
(* file: it is recorded as failed and the exception ends the pipeline.      *)
StepFails(j) ==
    /\ pc[j] = "steps" /\ done[j] < Steps
    /\ failed' = [failed EXCEPT ![j] = TRUE]
    /\ error' = [error EXCEPT ![j] = TRUE]
    /\ \/ UNCHANGED made
       \/ made' = [made EXCEPT ![j] = @ \cup Makes(j, done[j] + 1)]
    /\ Fires(j) \/ UNCHANGED <<alarm, fired>>
    /\ Goto(j, "save")
    /\ UNCHANGED <<jobVars, saveVars, run, done, engine>>

(* The alarm between two steps: the exception leaves no record. *)
CutBetweenSteps(j) ==
    /\ pc[j] = "steps" /\ Fires(j)
    /\ error' = [error EXCEPT ![j] = TRUE]
    /\ Goto(j, "save")
    /\ UNCHANGED <<jobVars, saveVars, run, done, failed, made, engine>>

PipelineReturns(j) ==
    /\ pc[j] = "steps" /\ done[j] = Steps
    /\ Goto(j, "save")
    /\ UNCHANGED <<jobVars, stepVars, saveVars, run, engine, alarm, fired>>
-----------------------------------------------------------------------------
(* First pass of run_pipeline: the files are saved one by one.             *)

Under(j, f) == {o \in store : o.home = Home(j) /\ o.file = f}

BugPut(j, f) ==
    IF Under(j, f) = {} THEN store \cup {Object(j, f, run[j])} ELSE store

(* put: what the key held is replaced. *)
Put(j, f) == (store \ Under(j, f)) \cup {Object(j, f, run[j])}

(* saved[_type]: the manifest has one entry per kind, the last one wins. *)
Record(j, f) == {g \in saved[j] : Kind(g) # Kind(f)} \cup {f}

(* f is the next file to save. *)
Current(j, f) ==
    /\ pc[j] = "save" /\ f \in made[j] /\ Order(f) > tried[j]
    /\ \A g \in made[j] : Order(g) > tried[j] => Order(f) <= Order(g)

SaveFile(j) == \E f \in Files :
    /\ Current(j, f)
    /\ tried' = [tried EXCEPT ![j] = Order(f)]
    /\ store' = Put(j, f)
    /\ saved' = [saved EXCEPT ![j] = Record(j, f)]
    /\ UNCHANGED <<jobVars, stepVars, losses, pc, run, engine, alarm, fired>>

BugLoseFile(j) == \E f \in Files :
    /\ Current(j, f)
    /\ tried' = [tried EXCEPT ![j] = Order(f)]
    /\ saved' = [saved EXCEPT ![j] = Record(j, f)]
    /\ losses' = [losses EXCEPT ![j] = @ + 1]
    /\ losses[j] < MaxLosses \/ Fires(j)
    /\ Fires(j) \/ UNCHANGED <<alarm, fired>>
    /\ UNCHANGED <<jobVars, stepVars, store, pc, run, engine>>

(* An error of the store, or the alarm, is logged and the run goes on: the *)
(* file may have been stored, but the manifest does not name it.           *)
LoseFile(j) == \E f \in Files :
    /\ Current(j, f)
    /\ tried' = [tried EXCEPT ![j] = Order(f)]
    /\ store' = Put(j, f) \/ UNCHANGED store
    /\ losses' = [losses EXCEPT ![j] = @ + 1]
    /\ \/ losses[j] < MaxLosses /\ UNCHANGED <<alarm, fired>>
       \/ losses[j] <= MaxLosses /\ Fires(j)
    /\ UNCHANGED <<jobVars, stepVars, saved, pc, run, engine>>

AllTried(j) ==
    /\ pc[j] = "save" /\ \A f \in made[j] : Order(f) <= tried[j]
    /\ Goto(j, "conclude")
    /\ UNCHANGED <<jobVars, stepVars, saveVars, run, engine, alarm, fired>>
-----------------------------------------------------------------------------
(* Second pass: stages, manifest, the engine's verdict, and the way back.  *)

BugAllOk(j) == done[j] > 0 /\ ~failed[j]
AllOk(j) == done[j] > 0 /\ ~failed[j] /\ ~error[j]

(* An alarm that hits the sending of an event is swallowed (emit_typed). *)
Conclude(j) ==
    /\ pc[j] = "conclude"
    /\ engine' = [engine EXCEPT ![j] = IF AllOk(j) THEN "SUCCESS" ELSE "FAILED"]
    /\ Fires(j) \/ UNCHANGED <<alarm, fired>>
    /\ Goto(j, "return")
    /\ UNCHANGED <<jobVars, stepVars, saveVars, run>>

(* run_job has the result and turns the timer off. *)
Return(j) ==
    /\ pc[j] = "return"
    /\ alarm' = [alarm EXCEPT ![j] = FALSE]
    /\ Goto(j, "rows")
    /\ UNCHANGED <<jobVars, stepVars, saveVars, run, engine, fired>>

(* TimeoutError reaches run_job: no stages, no artifacts. *)
TimeOut(j) ==
    /\ pc[j] \in {"save", "conclude", "return"} /\ Fires(j)
    /\ engine' = [engine EXCEPT ![j] = "none"]
    /\ saved' = [saved EXCEPT ![j] = {}]
    /\ Goto(j, "rows")
    /\ UNCHANGED <<jobVars, stepVars, tried, losses, store, run>>

RowOf(j, f) == [job |-> j, run |-> run[j], file |-> f]

InsertRow(j) ==
    /\ pc[j] = "rows"
    /\ \E f \in saved[j] :
          /\ RowOf(j, f) \notin rows
          /\ rows' = rows \cup {RowOf(j, f)}
    /\ UNCHANGED <<parts, status, stepVars, saveVars, pc, run, engine, alarm, fired>>

BugFinish(j) ==
    /\ pc[j] = "rows"
    /\ status' = [status EXCEPT ![j] = IF engine[j] = "SUCCESS" THEN "SUCCESS" ELSE "FAILED"]
    /\ Goto(j, "idle")
    /\ UNCHANGED <<parts, rows, stepVars, saveVars, run, engine, alarm, fired>>

(* The final status, after the rows. *)
Finish(j) ==
    /\ pc[j] = "rows" /\ \A f \in saved[j] : RowOf(j, f) \in rows
    /\ status' = [status EXCEPT ![j] = IF engine[j] = "SUCCESS" THEN "SUCCESS" ELSE "FAILED"]
    /\ Goto(j, "idle")
    /\ UNCHANGED <<parts, rows, stepVars, saveVars, run, engine, alarm, fired>>

(* Any other exception (the alarm in run_job's own finally is one) goes to  *)
(* the scheduler, which re-queues the job or fails it; a kill leaves it.    *)
Abort(j) ==
    /\ pc[j] # "idle"
    /\ \E s \in {"QUEUED", "FAILED", "RUNNING"} : status' = [status EXCEPT ![j] = s]
    /\ engine' = [engine EXCEPT ![j] = "none"]
    /\ alarm' = [alarm EXCEPT ![j] = FALSE]
    /\ Forget(j)
    /\ Goto(j, "idle")
    /\ UNCHANGED <<parts, rows, store, run>>
-----------------------------------------------------------------------------
PipelineStep(j) == StepOk(j) \/ StepFails(j) \/ CutBetweenSteps(j) \/ PipelineReturns(j)
SaveStep(j) == SaveFile(j) \/ LoseFile(j) \/ AllTried(j)
ReportStep(j) == Conclude(j) \/ Return(j) \/ TimeOut(j) \/ InsertRow(j) \/ Finish(j)

Next == \E j \in Jobs : \/ Begin(j) \/ Abort(j)
                        \/ PipelineStep(j) \/ SaveStep(j) \/ ReportStep(j)

Spec == Init /\ [][Next]_vars
-----------------------------------------------------------------------------
(* Properties.                                                             *)

(* A job is SUCCESS only if all ten steps of its last run were ok: an alarm *)
(* that cuts the pipeline between steps leaves good records behind, and     *)
(* only "error" tells them from a complete run (converter.py:139).          *)
SuccessIsEarned ==
    \A j \in Jobs : status[j] = "SUCCESS" => done[j] = Steps /\ ~failed[j]

(* Every artifact row, of a failed run too, has an object under its key. *)
RowsHaveObjects == \A r \in rows : Under(r.job, r.file) # {}

(* What a download of job j can return (routers/artifacts.py:62-106): the   *)
(* gate looks at the job's status, the row at the key.                      *)
Downloads(j) ==
    {[file |-> o.file, job |-> o.job, run |-> o.run] : o \in
        {p \in store : /\ status[j] = "SUCCESS"
                       /\ \E r \in rows : r.job = j /\ p \in Under(j, r.file)}}

(* "downloading an artifact in state FAILED is forbidden" (routers/          *)
(* artifacts.py:4): what is downloaded was written by a run that succeeded,  *)
(* also where a row of an earlier, failed run names the key.  Not so after   *)
(* a save of the successful run was lost.                                    *)
DownloadsAreGood ==
    \A j \in Jobs : losses[j] = 0 =>
        \A d \in Downloads(j) : status[d.job] = "SUCCESS" /\ d.run = run[d.job]

Wanted(j) == {"onnx", "artifact"} \cup {Kind(f) : f \in parts[j]}
Offered(j) == IF losses[j] = 0 THEN Downloads(j) ELSE {}

Offer == INSTANCE Delivery
            WITH Runs <- 1..MaxRuns, KindOf <- Kind,
                 wanted <- [j \in Jobs |-> Wanted(j)],
                 offered <- [j \in Jobs |-> Offered(j)]

(* With a directory for each job, runs deliver: at once, from one run, one   *)
(* file of each kind, and for good.                                          *)
ImplementsDelivery == Offer!Spec

(* executor.py:107, a job that exceeds its time is FAILED. *)
TimeoutFails == \A j \in Jobs : status[j] = "SUCCESS" => ~fired[j]
=============================================================================
