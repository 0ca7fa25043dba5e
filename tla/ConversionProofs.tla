------------------------- MODULE ConversionProofs --------------------------
(***************************************************************************)
(* Proofs about a conversion.  The run of the pipeline (EngineRun): types,  *)
(* an earned SUCCESS, rows with objects, good downloads, and the refinement *)
(* of Delivery for a store that keeps jobs apart.  Its graph (GraphPasses): *)
(* what the check and the roll-back guarantee whatever the passes do, and   *)
(* what folding a normalisation into a convolution computes, for every set  *)
(* of models, sizes and levels.                                             *)
(***************************************************************************)
EXTENDS EngineRun, GraphPasses, TLAPS

USE EngineAssumption

(* The run has recorded ten good steps and names every file. *)
Complete(j) == done[j] = Steps /\ ~failed[j] /\ made[j] = FilesOf(j)

(* Where a run is, what it has recorded and made by then. *)
StepInv(j) ==
    /\ pc[j] # "idle" => status[j] = "RUNNING" /\ run[j] > 0
    /\ pc[j] = "steps" =>
          /\ ~failed[j] /\ ~error[j] /\ tried[j] = 0 /\ saved[j] = {} /\ losses[j] = 0
          /\ made[j] = {f \in FilesOf(j) : MadeBy(f) <= done[j]}
    /\ pc[j] \notin {"idle", "steps"} /\ ~error[j] => Complete(j)
    /\ pc[j] \in {"return", "rows"} /\ engine[j] = "SUCCESS" => Complete(j)
    /\ status[j] = "SUCCESS" => pc[j] = "idle" /\ Complete(j)

EarnedInv == \A j \in Jobs : StepInv(j)
-----------------------------------------------------------------------------
(* Types and the records of the steps.                                     *)

(* The numbers CASE gives to files. *)
LEMMA FileFacts ==
    ASSUME NEW f \in Files
    PROVE  Order(f) \in 1..5 /\ MadeBy(f) \in 1..Steps
BY DEF Files, Order, MadeBy, Steps

(* Initially every job is queued and nothing is recorded. *)
LEMMA InitInv == Init => TypeOK /\ EarnedInv
<1> SUFFICES ASSUME Init PROVE TypeOK /\ EarnedInv
  OBVIOUS
<1>1. TypeOK
  BY DEF Init, TypeOK, Steps, FilesOf
<1>2. EarnedInv
  BY DEF Init, EarnedInv, StepInv
<1> QED BY <1>1, <1>2

(* The step of one job leaves alone what the other jobs have. *)
LEMMA OthersKeep ==
    ASSUME TypeOK, NEW j \in Jobs, NEW k \in Jobs, k # j,
           Begin(j) \/ Abort(j) \/ PipelineStep(j) \/ SaveStep(j) \/ ReportStep(j)
    PROVE  /\ UNCHANGED <<status[k], pc[k], run[k], done[k], failed[k], error[k], made[k]>>
           /\ UNCHANGED <<tried[k], saved[k], engine[k], losses[k], parts>>
           /\ \A r \in rows' : r.job = k => r \in rows
           /\ rows \subseteq rows'
<1> USE DEF TypeOK, jobVars, stepVars, saveVars, Goto, Fires
<1>1. CASE Begin(j) \/ Abort(j)
  BY <1>1 DEF Begin, Abort, Forget
<1>2. CASE PipelineStep(j)
  BY <1>2 DEF PipelineStep, StepOk, StepFails, CutBetweenSteps, PipelineReturns
<1>3. CASE SaveStep(j)
  BY <1>3 DEF SaveStep, SaveFile, LoseFile, AllTried
<1>4. CASE ReportStep(j)
  <2>1. CASE Conclude(j) \/ Return(j) \/ TimeOut(j)
    BY <2>1 DEF Conclude, Return, TimeOut
  <2>2. CASE InsertRow(j)
    <3>1. PICK f \in saved[j] : rows' = rows \cup {RowOf(j, f)}
      BY <2>2 DEF InsertRow
    <3>2. RowOf(j, f).job = j
      BY DEF RowOf
    <3>3. \A r \in rows' : r.job = k => r \in rows
      BY <3>1, <3>2
    <3> QED BY <2>2, <3>1, <3>3 DEF InsertRow
  <2>3. CASE Finish(j)
    BY <2>3 DEF Finish
  <2> QED BY <1>4, <2>1, <2>2, <2>3 DEF ReportStep
<1> QED BY <1>1, <1>2, <1>3, <1>4

(* An object of the present run is well typed. *)
LEMMA PutTypes ==
    ASSUME TypeOK, NEW j \in Jobs, NEW f \in Files, run[j] > 0
    PROVE  Put(j, f) \subseteq {Object(k, g, n) : k \in Jobs, g \in Files, n \in 1..MaxRuns}
<1>1. run[j] \in 1..MaxRuns
  BY DEF TypeOK
<1> QED BY <1>1 DEF TypeOK, Put

(* Writing one entry of a Boolean function keeps its type. *)
LEMMA BoolWrite ==
    ASSUME NEW F \in [Jobs -> BOOLEAN], NEW j \in Jobs, NEW b \in BOOLEAN
    PROVE  [F EXCEPT ![j] = b] \in [Jobs -> BOOLEAN]
OBVIOUS

(* Every step keeps the types of the run's Boolean entries. *)
LEMMA BooleansStep ==
    ASSUME TypeOK, NEW j \in Jobs,
           Begin(j) \/ Abort(j) \/ PipelineStep(j) \/ SaveStep(j) \/ ReportStep(j)
    PROVE  /\ alarm' \in [Jobs -> BOOLEAN] /\ fired' \in [Jobs -> BOOLEAN]
           /\ failed' \in [Jobs -> BOOLEAN] /\ error' \in [Jobs -> BOOLEAN]
<1> DEFINE One(G, F) == G = F \/ \E b \in BOOLEAN : G = [F EXCEPT ![j] = b]
<1>1. One(alarm', alarm)
  BY DEF Begin, Abort, PipelineStep, StepOk, StepFails, CutBetweenSteps, PipelineReturns,
     SaveStep, SaveFile, LoseFile, AllTried, ReportStep, Conclude, Return, TimeOut, InsertRow,
     Finish, Fires, vars
<1>2. One(fired', fired)
  BY DEF Begin, Abort, Forget, PipelineStep, StepOk, StepFails, CutBetweenSteps, PipelineReturns,
     SaveStep, SaveFile, LoseFile, AllTried, ReportStep, Conclude, Return, TimeOut, InsertRow,
     Finish, Fires
<1>3. One(failed', failed) /\ One(error', error)
  BY DEF Begin, Abort, Forget, PipelineStep, StepOk, StepFails, CutBetweenSteps, PipelineReturns,
     SaveStep, SaveFile, LoseFile, AllTried, ReportStep, Conclude, Return, TimeOut, InsertRow,
     Finish, stepVars
<1>4. ASSUME NEW F \in [Jobs -> BOOLEAN], NEW G, One(G, F) PROVE G \in [Jobs -> BOOLEAN]
  BY <1>4, BoolWrite
<1> HIDE DEF One
<1>5. /\ alarm \in [Jobs -> BOOLEAN] /\ fired \in [Jobs -> BOOLEAN]
      /\ failed \in [Jobs -> BOOLEAN] /\ error \in [Jobs -> BOOLEAN]
  BY DEF TypeOK
<1> QED BY <1>1, <1>2, <1>3, <1>4, <1>5

(* Every step keeps the types. *)
LEMMA TypeStep ==
    ASSUME TypeOK, EarnedInv, NEW j \in Jobs,
           Begin(j) \/ Abort(j) \/ PipelineStep(j) \/ SaveStep(j) \/ ReportStep(j)
    PROVE  TypeOK'
<1> USE DEF jobVars, stepVars, saveVars, Goto
<1>0. /\ alarm' \in [Jobs -> BOOLEAN] /\ fired' \in [Jobs -> BOOLEAN]
      /\ failed' \in [Jobs -> BOOLEAN] /\ error' \in [Jobs -> BOOLEAN]
  BY BooleansStep
<1>1. CASE Begin(j) \/ Abort(j)
  <2>1. /\ UNCHANGED <<parts, rows, store>>
        /\ status' \in [Jobs -> {"QUEUED", "RUNNING", "SUCCESS", "FAILED"}]
        /\ pc' \in [Jobs -> {"idle", "steps", "save", "conclude", "return", "rows"}]
        /\ run' \in [Jobs -> 0..MaxRuns]
        /\ engine' \in [Jobs -> {"RUNNING", "SUCCESS", "FAILED", "none"}]
    BY <1>1 DEF TypeOK, Begin, Abort
  <2>2. /\ done' \in [Jobs -> 0..Steps] /\ tried' \in [Jobs -> 0..5]
        /\ losses' \in [Jobs -> 0..MaxLosses + 1]
        /\ made' \in [Jobs -> SUBSET Files] /\ saved' \in [Jobs -> SUBSET Files]
        /\ \A k \in Jobs : made'[k] \subseteq FilesOf(k) /\ saved'[k] \subseteq made'[k]
    BY <1>1 DEF TypeOK, Begin, Abort, Forget, Steps
  <2> QED BY <1>0, <2>1, <2>2 DEF TypeOK, FilesOf, Object, Home
<1>2. CASE PipelineStep(j)
  <2>1. UNCHANGED <<jobVars, saveVars, run, engine>> /\ pc' \in [Jobs -> {"steps", "save", "idle", "conclude", "return", "rows"}]
    BY <1>2 DEF TypeOK, PipelineStep, StepOk, StepFails, CutBetweenSteps, PipelineReturns
  <2>3. done' \in [Jobs -> 0..Steps]
    BY <1>2 DEF TypeOK, PipelineStep, StepOk, StepFails, CutBetweenSteps, PipelineReturns, Steps
  <2>4. /\ made' \in [Jobs -> SUBSET Files]
        /\ \A k \in Jobs : made[k] \subseteq made'[k] /\ made'[k] \subseteq FilesOf(k)
    BY <1>2 DEF TypeOK, PipelineStep, StepOk, StepFails, CutBetweenSteps, PipelineReturns, Makes,
       FilesOf, Files
  <2> QED BY <1>0, <2>1, <2>3, <2>4 DEF TypeOK, FilesOf, Object, Home
<1>3. CASE SaveStep(j)
  <2>1. CASE SaveFile(j)
    <3>1. PICK f \in Files : /\ Current(j, f)
                             /\ tried' = [tried EXCEPT ![j] = Order(f)]
                             /\ store' = Put(j, f)
                             /\ saved' = [saved EXCEPT ![j] = Record(j, f)]
      BY <2>1 DEF SaveFile
    <3>2. Order(f) \in 0..5 /\ run[j] > 0 /\ f \in made[j]
      BY <3>1, FileFacts DEF Current, EarnedInv, StepInv
    <3>3. /\ saved' \in [Jobs -> SUBSET Files] /\ tried' \in [Jobs -> 0..5]
          /\ \A k \in Jobs : saved'[k] \subseteq made[k]
      BY <3>1, <3>2 DEF TypeOK, Record
    <3>4. store' \subseteq {Object(k, g, n) : k \in Jobs, g \in Files, n \in 1..MaxRuns}
      BY <3>1, <3>2, PutTypes
    <3> QED BY <2>1, <3>3, <3>4 DEF SaveFile, TypeOK, FilesOf, Object, Home
  <2>2. CASE LoseFile(j)
    <3>1. PICK f \in Files : /\ Current(j, f)
                             /\ tried' = [tried EXCEPT ![j] = Order(f)]
                             /\ store' = Put(j, f) \/ UNCHANGED store
      BY <2>2 DEF LoseFile
    <3>2. Order(f) \in 0..5 /\ run[j] > 0
      BY <3>1, FileFacts DEF Current, EarnedInv, StepInv
    <3>3. tried' \in [Jobs -> 0..5]
      BY <3>1, <3>2 DEF TypeOK
    <3>4. store' \subseteq {Object(k, g, n) : k \in Jobs, g \in Files, n \in 1..MaxRuns}
      BY <3>1, <3>2, PutTypes DEF TypeOK
    <3>5. losses' \in [Jobs -> 0..MaxLosses + 1]
      BY <2>2 DEF LoseFile, TypeOK
    <3> QED BY <1>0, <2>2, <3>3, <3>4, <3>5 DEF LoseFile, TypeOK, FilesOf, Object, Home
  <2>3. CASE AllTried(j)
    BY <2>3 DEF AllTried, TypeOK, FilesOf, Object, Home
  <2> QED BY <1>3, <2>1, <2>2, <2>3 DEF SaveStep
<1>4. CASE ReportStep(j)
  <2>1. CASE Conclude(j) \/ Return(j) \/ TimeOut(j)
    <3>1. /\ UNCHANGED <<jobVars, stepVars, tried, losses, store, run>>
          /\ pc' \in [Jobs -> {"idle", "steps", "save", "conclude", "return", "rows"}]
          /\ engine' \in [Jobs -> {"RUNNING", "SUCCESS", "FAILED", "none"}]
          /\ saved' \in [Jobs -> SUBSET Files]
          /\ \A k \in Jobs : saved'[k] \subseteq saved[k]
      BY <2>1 DEF Conclude, Return, TimeOut, TypeOK
    <3> QED BY <1>0, <3>1 DEF TypeOK, FilesOf, Object, Home
  <2>2. CASE InsertRow(j)
    <3>1. PICK f \in saved[j] : rows' = rows \cup {RowOf(j, f)}
      BY <2>2 DEF InsertRow
    <3>2. RowOf(j, f) \in [job : Jobs, run : 1..MaxRuns, file : Files]
      BY <2>2, <3>1 DEF InsertRow, TypeOK, EarnedInv, StepInv, RowOf
    <3> QED BY <2>2, <3>1, <3>2 DEF InsertRow, TypeOK, FilesOf, Object, Home
  <2>3. CASE Finish(j)
    BY <2>3 DEF Finish, TypeOK, FilesOf, Object, Home
  <2> QED BY <1>4, <2>1, <2>2, <2>3 DEF ReportStep
<1> QED BY <1>1, <1>2, <1>3, <1>4

(* Every step keeps what a run has recorded in line with where it is: an    *)
(* interrupted pipeline always leaves "error" set.                          *)
LEMMA EarnedStep ==
    ASSUME TypeOK, EarnedInv, NEW j \in Jobs,
           Begin(j) \/ Abort(j) \/ PipelineStep(j) \/ SaveStep(j) \/ ReportStep(j)
    PROVE  EarnedInv'
<1> USE DEF jobVars, stepVars, saveVars, Goto
<1>1. ASSUME NEW k \in Jobs, k # j PROVE StepInv(k)'
  <2>1. StepInv(k)
    BY DEF EarnedInv
  <2> QED BY <1>1, <2>1, OthersKeep DEF StepInv, Complete, FilesOf
<1>2. StepInv(j)'
  <2>0. StepInv(j)
    BY DEF EarnedInv
  <2>1. CASE Begin(j) \/ Abort(j)
    <3>1. \A f \in FilesOf(j) : MadeBy(f) > 0
      BY FileFacts DEF TypeOK, FilesOf, Files
    <3>2. CASE Begin(j)
      <4>1. /\ pc'[j] = "steps" /\ status'[j] = "RUNNING" /\ run'[j] > 0 /\ UNCHANGED parts
            /\ done'[j] = 0 /\ tried'[j] = 0 /\ saved'[j] = {} /\ losses'[j] = 0 /\ made'[j] = {}
        BY <3>2 DEF Begin, Forget, TypeOK
      <4>2. ~failed'[j] /\ ~error'[j]
        BY <3>2 DEF Begin, Forget, TypeOK
      <4>3. made'[j] = {f \in FilesOf(j) : MadeBy(f) <= done'[j]}
        BY <3>1, <4>1, FileFacts DEF TypeOK, FilesOf, Files
      <4> QED BY <4>1, <4>2, <4>3 DEF StepInv, FilesOf
    <3>3. CASE Abort(j)
      BY <3>3 DEF Abort, TypeOK, StepInv
    <3> QED BY <2>1, <3>2, <3>3
  <2>2. CASE StepOk(j)
    <3>1. made'[j] = {f \in FilesOf(j) : MadeBy(f) <= done'[j]}
      <4>1. done'[j] = done[j] + 1 /\ made'[j] = made[j] \cup Makes(j, done'[j])
        BY <2>2 DEF StepOk, TypeOK
      <4>2. \A f \in FilesOf(j) : MadeBy(f) \in Nat
        BY FileFacts DEF TypeOK, FilesOf, Files
      <4> QED BY <2>0, <2>2, <4>1, <4>2 DEF StepOk, StepInv, Makes, TypeOK
    <3> QED BY <2>0, <2>2, <3>1 DEF StepOk, TypeOK, StepInv, FilesOf
  <2>3. CASE StepFails(j) \/ CutBetweenSteps(j)
    BY <2>0, <2>3 DEF StepFails, CutBetweenSteps, TypeOK, StepInv
  <2>4. CASE PipelineReturns(j)
    <3>1. \A f \in FilesOf(j) : MadeBy(f) <= Steps
      BY FileFacts DEF TypeOK, FilesOf, Files, Steps
    <3> QED BY <2>0, <2>4, <3>1 DEF PipelineReturns, TypeOK, StepInv, Complete, FilesOf
  <2>5. CASE SaveStep(j)
    BY <2>0, <2>5 DEF SaveStep, SaveFile, LoseFile, AllTried, Current, TypeOK, StepInv, Complete, FilesOf
  <2>6. CASE Conclude(j) \/ Return(j) \/ TimeOut(j)
    BY <2>0, <2>6 DEF Conclude, Return, TimeOut, AllOk, TypeOK, StepInv, Complete, FilesOf
  <2>7. CASE InsertRow(j) \/ Finish(j)
    BY <2>0, <2>7 DEF InsertRow, Finish, TypeOK, StepInv, Complete, FilesOf
  <2> QED BY <2>1, <2>2, <2>3, <2>4, <2>5, <2>6, <2>7 DEF PipelineStep, ReportStep
<1> QED BY <1>1, <1>2 DEF EarnedInv

(* Types and records hold in every reachable state. *)
LEMMA EarnedHolds == Spec => [](TypeOK /\ EarnedInv)
<1>1. TypeOK /\ EarnedInv /\ [Next]_vars => (TypeOK /\ EarnedInv)'
  <2> SUFFICES ASSUME TypeOK, EarnedInv, [Next]_vars PROVE (TypeOK /\ EarnedInv)'
    OBVIOUS
  <2>1. CASE UNCHANGED vars
    BY <2>1 DEF vars, jobVars, stepVars, saveVars, TypeOK, EarnedInv, StepInv, Complete, FilesOf,
       Object, Home
  <2>2. CASE Next
    BY <2>2, TypeStep, EarnedStep DEF Next
  <2> QED BY <2>1, <2>2
<1> QED BY <1>1, InitInv, PTL DEF Spec

(* Every reachable state is well typed. *)
THEOREM EngineTypes == Spec => []TypeOK
<1> QED BY EarnedHolds, PTL

(* SUCCESS takes ten good steps, whatever the alarm interrupts. *)
THEOREM SuccessTakesTen == Spec => []SuccessIsEarned
<1>1. EarnedInv => SuccessIsEarned
  BY DEF EarnedInv, StepInv, Complete, SuccessIsEarned
<1> QED BY <1>1, EarnedHolds, PTL
-----------------------------------------------------------------------------
(* The store.                                                              *)

(* Files are saved in a strict order. *)
LEMMA OrderIsStrict ==
    ASSUME NEW f \in Files, NEW g \in Files, Order(f) = Order(g)
    PROVE  f = g
BY DEF Files, Order

(* A put replaces what is under its key and touches no other key. *)
LEMMA PutFacts ==
    ASSUME NEW j \in Jobs, NEW f \in Files, NEW k \in Jobs, NEW g \in Files,
           store' = Put(j, f)
    PROVE  /\ Home(k) = Home(j) /\ g = f => Under(k, g)' = {Object(j, f, run[j])}
           /\ ~(Home(k) = Home(j) /\ g = f) => Under(k, g)' = Under(k, g)
BY DEF Put, Under, Object

(* The store changes by puts of files the run has made. *)
LEMMA StoreChanges ==
    ASSUME NEW j \in Jobs,
           Begin(j) \/ Abort(j) \/ PipelineStep(j) \/ SaveStep(j) \/ ReportStep(j)
    PROVE  \/ UNCHANGED store
           \/ \E f \in Files : store' = Put(j, f)
BY DEF Begin, Abort, PipelineStep, StepOk, StepFails, CutBetweenSteps, PipelineReturns, SaveStep,
   SaveFile, LoseFile, AllTried, ReportStep, Conclude, Return, TimeOut, InsertRow, Finish, saveVars

(* What has an object keeps one. *)
LEMMA ObjectsStay ==
    ASSUME NEW j \in Jobs, NEW k \in Jobs, NEW g \in Files, Under(k, g) # {},
           Begin(j) \/ Abort(j) \/ PipelineStep(j) \/ SaveStep(j) \/ ReportStep(j)
    PROVE  Under(k, g)' # {}
<1>1. CASE UNCHANGED store
  BY <1>1 DEF Under
<1>2. ASSUME NEW f \in Files, store' = Put(j, f) PROVE Under(k, g)' # {}
  BY <1>2, PutFacts
<1> QED BY <1>1, <1>2, StoreChanges

(* Rows and the manifest name files of the job that have an object. *)
ObjectInv ==
    /\ \A r \in rows : r.file \in FilesOf(r.job) /\ Under(r.job, r.file) # {}
    /\ \A j \in Jobs : \A f \in saved[j] : Under(j, f) # {}

(* The files a job produces never change. *)
LEMMA PartsStay ==
    ASSUME NEW j \in Jobs,
           Begin(j) \/ Abort(j) \/ PipelineStep(j) \/ SaveStep(j) \/ ReportStep(j)
    PROVE  parts' = parts
BY DEF Begin, Abort, PipelineStep, StepOk, StepFails, CutBetweenSteps, PipelineReturns, SaveStep,
   SaveFile, LoseFile, AllTried, ReportStep, Conclude, Return, TimeOut, InsertRow, Finish, jobVars

(* A file enters the manifest after its put and the rows from the manifest. *)
LEMMA ObjectStep ==
    ASSUME TypeOK, TypeOK', ObjectInv, NEW j \in Jobs,
           Begin(j) \/ Abort(j) \/ PipelineStep(j) \/ SaveStep(j) \/ ReportStep(j)
    PROVE  ObjectInv'
<1>1. parts' = parts /\ \A k \in Jobs : FilesOf(k)' = FilesOf(k)
  BY PartsStay DEF FilesOf
<1>2. \A r \in rows' : r \in rows \/ \E f \in saved[j] : r = RowOf(j, f)
  BY DEF Begin, Abort, PipelineStep, StepOk, StepFails, CutBetweenSteps, PipelineReturns, SaveStep,
     SaveFile, LoseFile, AllTried, ReportStep, Conclude, Return, TimeOut, InsertRow, Finish, jobVars
<1>3. ASSUME NEW r \in rows'
      PROVE  r.file \in FilesOf(r.job) /\ Under(r.job, r.file) # {} /\ r.job \in Jobs /\ r.file \in Files
  <2>1. CASE r \in rows
    BY <2>1 DEF ObjectInv, TypeOK
  <2>2. CASE \E f \in saved[j] : r = RowOf(j, f)
    BY <2>2 DEF ObjectInv, TypeOK, RowOf
  <2> QED BY <1>2, <2>1, <2>2
<1>4. \A r \in rows' : r.file \in FilesOf(r.job)' /\ Under(r.job, r.file)' # {}
  BY <1>1, <1>3, ObjectsStay
<1>5. ASSUME NEW k \in Jobs, NEW f \in saved'[k] PROVE Under(k, f)' # {}
  <2>1. f \in Files
    BY DEF TypeOK
  <2>2. CASE f \in saved[k]
    BY <2>1, <2>2, ObjectsStay DEF ObjectInv
  <2>3. CASE f \notin saved[k]
    <3>1. k = j /\ SaveFile(j)
      BY <2>3 DEF TypeOK, Begin, Abort, Forget, PipelineStep, StepOk, StepFails, CutBetweenSteps,
         PipelineReturns, SaveStep, LoseFile, AllTried, ReportStep, Conclude, Return, TimeOut,
         InsertRow, Finish, saveVars, SaveFile
    <3>2. PICK g \in Files : store' = Put(j, g) /\ saved' = [saved EXCEPT ![j] = Record(j, g)]
      BY <3>1 DEF SaveFile
    <3>3. f = g
      BY <2>3, <3>1, <3>2 DEF Record, TypeOK
    <3> QED BY <3>1, <3>2, <3>3, PutFacts
  <2> QED BY <2>2, <2>3
<1> QED BY <1>4, <1>5 DEF ObjectInv

(* Every artifact row has an object under its key. *)
LEMMA ObjectsHold == Spec => []ObjectInv
<1>1. Init => ObjectInv
  BY DEF Init, ObjectInv
<1>2. TypeOK /\ TypeOK' /\ ObjectInv /\ [Next]_vars => ObjectInv'
  <2> SUFFICES ASSUME TypeOK, TypeOK', ObjectInv, [Next]_vars PROVE ObjectInv'
    OBVIOUS
  <2>1. CASE UNCHANGED vars
    BY <2>1 DEF vars, jobVars, saveVars, ObjectInv, FilesOf, Under
  <2>2. CASE Next
    BY <2>2, ObjectStep DEF Next
  <2> QED BY <2>1, <2>2
<1> QED BY <1>1, <1>2, EngineTypes, PTL DEF Spec

(* A download finds its object, with one bucket as well. *)
THEOREM RowsAreBacked == Spec => []RowsHaveObjects
<1>1. ObjectInv => RowsHaveObjects
  BY DEF ObjectInv, RowsHaveObjects
<1> QED BY <1>1, ObjectsHold, PTL
-----------------------------------------------------------------------------
(* Downloads from a store that keeps the jobs apart.                       *)

Report == {"save", "conclude", "return"}

(* The key of file f holds what the present run of j wrote. *)
Sole(j, f) == Under(j, f) = {Object(j, f, run[j])}

(* A run with no save lost: what it has come past is stored by itself, and  *)
(* its manifest has a file of that kind.                                    *)
FreshRun(j) ==
    /\ pc[j] \in Report \cup {"rows"} =>
          \A f \in made[j] : Order(f) <= tried[j] => Sole(j, f)
    /\ pc[j] \in Report \/ (pc[j] = "rows" /\ engine[j] = "SUCCESS") =>
          \A f \in made[j] : Order(f) <= tried[j] => \E g \in saved[j] : Kind(g) = Kind(f)
    /\ pc[j] \in {"conclude", "return"} \/ (pc[j] = "rows" /\ engine[j] = "SUCCESS") =>
          \A f \in made[j] : Order(f) <= tried[j]

(* A SUCCESS with no save lost: every file is of this run, and the rows      *)
(* have every kind.                                                         *)
FreshResult(j) ==
    status[j] = "SUCCESS" =>
        \A f \in FilesOf(j) : Sole(j, f) /\ \E r \in rows : r.job = j /\ Kind(r.file) = Kind(f)

FreshInv == \A j \in Jobs : losses[j] = 0 => FreshRun(j) /\ FreshResult(j)

(* What one job's step does to the keys of another: nothing. *)
LEMMA KeysApart ==
    ASSUME ~Shared, NEW j \in Jobs, NEW k \in Jobs, k # j, NEW g \in Files,
           Begin(j) \/ Abort(j) \/ PipelineStep(j) \/ SaveStep(j) \/ ReportStep(j)
    PROVE  Under(k, g)' = Under(k, g)
<1>1. CASE UNCHANGED store
  BY <1>1 DEF Under
<1>2. ASSUME NEW f \in Files, store' = Put(j, f) PROVE Under(k, g)' = Under(k, g)
  BY <1>2, PutFacts DEF Home
<1> QED BY <1>1, <1>2, StoreChanges

(* The other jobs' files and rows stay as fresh as they were. *)
LEMMA FreshOthers ==
    ASSUME ~Shared, TypeOK, FreshInv, NEW j \in Jobs, NEW k \in Jobs, k # j, losses'[k] = 0,
           Begin(j) \/ Abort(j) \/ PipelineStep(j) \/ SaveStep(j) \/ ReportStep(j)
    PROVE  FreshRun(k)' /\ FreshResult(k)'
<1>1. FreshRun(k) /\ FreshResult(k)
  BY OthersKeep DEF FreshInv
<1>2. \A g \in Files : Sole(k, g) => Sole(k, g)'
  BY KeysApart, OthersKeep DEF Sole, Object, Home
<1>3. made[k] \subseteq Files /\ FilesOf(k) \subseteq Files /\ FilesOf(k)' = FilesOf(k)
  BY OthersKeep DEF TypeOK, FilesOf, Files
<1>4. FreshRun(k)'
  BY <1>1, <1>2, <1>3, OthersKeep DEF FreshRun
<1>5. FreshResult(k)'
  BY <1>1, <1>2, <1>3, OthersKeep DEF FreshResult
<1> QED BY <1>4, <1>5

(* A saved file is the only new one the run has come past. *)
LEMMA SaveIsNext ==
    ASSUME TypeOK, NEW j \in Jobs, NEW f \in Files, Current(j, f),
           NEW g \in made[j], Order(g) <= Order(f)
    PROVE  g = f \/ Order(g) <= tried[j]
<1>1. g \in Files /\ Order(g) \in 1..5 /\ Order(f) \in 1..5 /\ tried[j] \in 0..5
  BY FileFacts DEF TypeOK
<1>2. CASE Order(g) > tried[j]
  BY <1>1, <1>2, OrderIsStrict DEF Current
<1> QED BY <1>1, <1>2

(* Saving a file keeps the run fresh. *)
LEMMA FreshSave ==
    ASSUME TypeOK, FreshInv, NEW j \in Jobs, SaveFile(j), losses[j] = 0
    PROVE  FreshRun(j)'
<1>1. PICK f \in Files : /\ Current(j, f)
                         /\ tried' = [tried EXCEPT ![j] = Order(f)]
                         /\ store' = Put(j, f)
                         /\ saved' = [saved EXCEPT ![j] = Record(j, f)]
                         /\ UNCHANGED <<jobVars, stepVars, losses, pc, run, engine, alarm, fired>>
  BY DEF SaveFile
<1>2. /\ tried'[j] = Order(f) /\ saved'[j] = Record(j, f) /\ made'[j] = made[j] /\ pc'[j] = "save"
      /\ f \in saved'[j] /\ UNCHANGED run
  BY <1>1 DEF TypeOK, stepVars, Current, Record
<1>3. FreshRun(j) /\ pc[j] = "save"
  BY <1>1 DEF FreshInv, Current
<1>4. ASSUME NEW g \in made[j], Order(g) <= Order(f) PROVE Sole(j, g)'
  <2>1. g \in Files
    BY DEF TypeOK
  <2>2. CASE g = f
    BY <1>1, <1>2, <2>2, PutFacts DEF Sole, Object, Home
  <2>3. CASE g # f
    <3>1. Sole(j, g)
      BY <1>1, <1>3, <1>4, <2>3, SaveIsNext DEF FreshRun, Report
    <3> QED BY <1>1, <1>2, <2>1, <2>3, <3>1, PutFacts DEF Sole, Object, Home
  <2> QED BY <2>2, <2>3
<1>5. ASSUME NEW g \in made[j], Order(g) <= Order(f) PROVE \E h \in saved'[j] : Kind(h) = Kind(g)
  <2>1. CASE Kind(g) = Kind(f)
    BY <1>2, <2>1
  <2>2. CASE Kind(g) # Kind(f)
    <3>1. PICK h \in saved[j] : Kind(h) = Kind(g)
      BY <1>1, <1>3, <1>5, <2>2, SaveIsNext DEF FreshRun, Report
    <3>2. h \in saved'[j]
      BY <1>2, <2>2, <3>1 DEF Record
    <3> QED BY <3>1, <3>2
  <2> QED BY <2>1, <2>2
<1> QED BY <1>2, <1>4, <1>5 DEF FreshRun

(* So does every other step of the run. *)
LEMMA FreshOwn ==
    ASSUME TypeOK, EarnedInv, FreshInv, NEW j \in Jobs, losses'[j] = 0,
           Begin(j) \/ Abort(j) \/ PipelineStep(j) \/ SaveStep(j) \/ ReportStep(j)
    PROVE  FreshRun(j)'
<1> USE DEF jobVars, stepVars, saveVars, Goto, Report
<1>0. StepInv(j)
  BY DEF EarnedInv
<1>1. CASE Begin(j) \/ Abort(j)
  BY <1>1 DEF Begin, Abort, TypeOK, FreshRun
<1>2. CASE PipelineStep(j)
  <2>1. pc'[j] \in {"steps", "save"} /\ tried'[j] = 0
    BY <1>0, <1>2 DEF PipelineStep, StepOk, StepFails, CutBetweenSteps, PipelineReturns, StepInv, TypeOK
  <2>2. made'[j] \subseteq Files
    BY <1>2 DEF PipelineStep, StepOk, StepFails, CutBetweenSteps, PipelineReturns, Makes, TypeOK, FilesOf, Files
  <2>3. \A f \in Files : ~(Order(f) <= 0)
    BY FileFacts
  <2> QED BY <2>1, <2>2, <2>3 DEF FreshRun
<1>3. CASE SaveFile(j)
  BY <1>3, FreshSave DEF SaveFile
<1>4. CASE LoseFile(j)
  BY <1>4 DEF LoseFile, TypeOK
<1>5. CASE AllTried(j) \/ Conclude(j) \/ Return(j) \/ TimeOut(j)
  <2>1. /\ UNCHANGED <<made, tried, losses, store, run>>
        /\ pc[j] \in Report /\ pc'[j] \in {"conclude", "return", "rows"}
        /\ UNCHANGED saved \/ engine'[j] = "none"
        /\ pc'[j] \in {"conclude", "return"} => saved' = saved
        /\ pc[j] = "save" => AllTried(j) \/ TimeOut(j)
        /\ TimeOut(j) => pc'[j] = "rows" /\ engine'[j] = "none"
    BY <1>5 DEF AllTried, Conclude, Return, TimeOut, TypeOK
  <2>2. FreshRun(j)
    BY <2>1 DEF FreshInv
  <2>3. \A f \in made[j] : Sole(j, f) => Sole(j, f)'
    BY <2>1 DEF Sole, Under, Object, Home
  <2>4. TimeOut(j) \/ \A f \in made[j] : Order(f) <= tried[j]
    BY <1>5, <2>1, <2>2 DEF AllTried, FreshRun
  <2> QED BY <2>1, <2>2, <2>3, <2>4 DEF FreshRun
<1>6. CASE InsertRow(j)
  BY <1>6 DEF InsertRow, FreshInv, FreshRun, Sole, Under, Object, Home
<1>7. CASE Finish(j)
  BY <1>7 DEF Finish, TypeOK, FreshRun
<1> QED BY <1>1, <1>2, <1>3, <1>4, <1>5, <1>6, <1>7 DEF SaveStep, ReportStep

(* Only the final step makes a job SUCCESS. *)
LEMMA OnlyFinish ==
    ASSUME TypeOK, EarnedInv, NEW j \in Jobs,
           Begin(j) \/ Abort(j) \/ PipelineStep(j) \/ SaveStep(j) \/ ReportStep(j)
    PROVE  /\ status[j] # "SUCCESS"
           /\ status'[j] = "SUCCESS" => Finish(j) /\ pc[j] = "rows" /\ engine[j] = "SUCCESS"
<1>0. StepInv(j)
  BY DEF EarnedInv
<1>1. status[j] # "SUCCESS"
  BY <1>0 DEF StepInv, Begin, Abort, PipelineStep, StepOk, StepFails, CutBetweenSteps,
     PipelineReturns, SaveStep, SaveFile, LoseFile, AllTried, Current, ReportStep, Conclude, Return,
     TimeOut, InsertRow, Finish
<1>2. CASE Begin(j) \/ Abort(j)
  BY <1>1, <1>2 DEF Begin, Abort, TypeOK
<1>3. CASE PipelineStep(j) \/ SaveStep(j)
  BY <1>1, <1>3 DEF PipelineStep, StepOk, StepFails, CutBetweenSteps, PipelineReturns, SaveStep,
     SaveFile, LoseFile, AllTried, jobVars
<1>4. CASE ReportStep(j)
  BY <1>1, <1>4 DEF ReportStep, Conclude, Return, TimeOut, InsertRow, Finish, jobVars, TypeOK
<1> QED BY <1>1, <1>2, <1>3, <1>4

(* At the final step of a run that lost nothing the keys and rows are its. *)
LEMMA FreshFinish ==
    ASSUME TypeOK, EarnedInv, FreshInv, NEW j \in Jobs, losses'[j] = 0,
           Begin(j) \/ Abort(j) \/ PipelineStep(j) \/ SaveStep(j) \/ ReportStep(j)
    PROVE  FreshResult(j)'
<1> SUFFICES ASSUME status'[j] = "SUCCESS" PROVE FreshResult(j)'
  BY DEF FreshResult
<1>1. Finish(j) /\ pc[j] = "rows" /\ engine[j] = "SUCCESS"
  BY OnlyFinish
<1>2. UNCHANGED <<parts, rows, store, run, losses>>
  BY <1>1 DEF Finish, saveVars
<1>3. FreshRun(j) /\ made[j] = FilesOf(j)
  BY <1>1, <1>2 DEF FreshInv, EarnedInv, StepInv, Complete
<1>4. ASSUME NEW f \in FilesOf(j)
      PROVE  Sole(j, f) /\ \E r \in rows : r.job = j /\ Kind(r.file) = Kind(f)
  <2>1. Sole(j, f)
    BY <1>1, <1>3 DEF FreshRun
  <2>2. PICK g \in saved[j] : Kind(g) = Kind(f)
    BY <1>1, <1>3 DEF FreshRun
  <2>3. RowOf(j, g) \in rows /\ RowOf(j, g).job = j /\ RowOf(j, g).file = g
    BY <1>1 DEF Finish, RowOf
  <2> QED BY <2>1, <2>2, <2>3
<1>5. FilesOf(j)' = FilesOf(j) /\ \A f \in FilesOf(j) : Sole(j, f) => Sole(j, f)'
  BY <1>2 DEF FilesOf, Sole, Under, Object, Home
<1> QED BY <1>2, <1>4, <1>5 DEF FreshResult

(* With a directory for each job every reachable state is fresh. *)
LEMMA FreshHolds ==
    ASSUME ~Shared
    PROVE  Spec => [](TypeOK /\ EarnedInv /\ ObjectInv /\ FreshInv)
<1>1. Init => FreshInv
  BY DEF Init, FreshInv, FreshRun, FreshResult, Report
<1>2. TypeOK /\ EarnedInv /\ FreshInv /\ [Next]_vars => FreshInv'
  <2> SUFFICES ASSUME TypeOK, EarnedInv, FreshInv, [Next]_vars PROVE FreshInv'
    OBVIOUS
  <2>1. CASE UNCHANGED vars
    BY <2>1 DEF vars, jobVars, stepVars, saveVars, FreshInv, FreshRun, FreshResult, FilesOf, Sole,
       Under, Object, Home
  <2>2. CASE Next
    <3>1. PICK j \in Jobs : Begin(j) \/ Abort(j) \/ PipelineStep(j) \/ SaveStep(j) \/ ReportStep(j)
      BY <2>2 DEF Next
    <3>2. \A k \in Jobs : losses'[k] = 0 => FreshRun(k)' /\ FreshResult(k)'
      BY <3>1, FreshOthers, FreshOwn, FreshFinish
    <3> QED BY <3>2 DEF FreshInv
  <2> QED BY <2>1, <2>2
<1> QED BY <1>1, <1>2, EarnedHolds, ObjectsHold, PTL DEF Spec
-----------------------------------------------------------------------------
(* What is offered, and the abstract specification.                        *)

File(j, f) == [file |-> f, job |-> j, run |-> run[j]]

(* The downloads of a fresh job are its rows' files, of its last run. *)
LEMMA DownloadsOf ==
    ASSUME ObjectInv, FreshInv, NEW j \in Jobs, losses[j] = 0, status[j] = "SUCCESS"
    PROVE  Downloads(j) = {File(j, f) : f \in {g \in FilesOf(j) : \E r \in rows : r.job = j /\ r.file = g}}
<1>1. FreshResult(j)
  BY DEF FreshInv
<1>2. \A r \in rows : r.job = j => r.file \in FilesOf(j)
  BY DEF ObjectInv
<1>3. \A r \in rows : r.job = j => Under(j, r.file) = {Object(j, r.file, run[j])}
  BY <1>1, <1>2 DEF FreshResult, Sole
<1>4. \A f : /\ Object(j, f, run[j]).file = f
             /\ Object(j, f, run[j]).job = j
             /\ Object(j, f, run[j]).run = run[j]
  BY DEF Object
<1>5. ASSUME NEW d \in Downloads(j)
      PROVE  \E f \in FilesOf(j) : d = File(j, f) /\ \E r \in rows : r.job = j /\ r.file = f
  <2>1. PICK o \in store : /\ d = [file |-> o.file, job |-> o.job, run |-> o.run]
                           /\ \E r \in rows : r.job = j /\ o \in Under(j, r.file)
    BY DEF Downloads
  <2>2. PICK r \in rows : r.job = j /\ o \in Under(j, r.file)
    BY <2>1
  <2>3. o = Object(j, r.file, run[j])
    BY <1>3, <2>2
  <2> QED BY <1>2, <1>4, <2>1, <2>2, <2>3 DEF File
<1>6. ASSUME NEW r \in rows, r.job = j PROVE File(j, r.file) \in Downloads(j)
  <2>1. Object(j, r.file, run[j]) \in Under(j, r.file) /\ Under(j, r.file) \subseteq store
    BY <1>3, <1>6 DEF Under
  <2> QED BY <1>4, <1>6, <2>1 DEF Downloads, File
<1> QED BY <1>5, <1>6

(* Without a lost save a download comes from the run that succeeded. *)
THEOREM GoodDownloads ==
    ASSUME ~Shared
    PROVE  Spec => []DownloadsAreGood
<1>1. ObjectInv /\ FreshInv => DownloadsAreGood
  <2> SUFFICES ASSUME ObjectInv, FreshInv, NEW j \in Jobs, losses[j] = 0, NEW d \in Downloads(j)
               PROVE  status[d.job] = "SUCCESS" /\ d.run = run[d.job]
    BY DEF DownloadsAreGood
  <2>1. status[j] = "SUCCESS"
    BY DEF Downloads
  <2>2. \E f : d = File(j, f)
    BY <2>1, DownloadsOf
  <2> QED BY <2>1, <2>2 DEF File
<1> QED BY <1>1, FreshHolds, PTL

(* Nothing is on offer of a job that is not SUCCESS. *)
LEMMA OfferedLater ==
    ASSUME NEW j, status[j] # "SUCCESS"
    PROVE  Offered(j) = {}
BY DEF Offered, Downloads

(* A step of one job leaves alone what others offer. *)
LEMMA OfferedOthers ==
    ASSUME ~Shared, TypeOK, TypeOK', NEW j \in Jobs, NEW k \in Jobs, k # j,
           Begin(j) \/ Abort(j) \/ PipelineStep(j) \/ SaveStep(j) \/ ReportStep(j)
    PROVE  Offered(k)' = Offered(k)
<1> DEFINE Reach == {p \in store : status[k] = "SUCCESS" /\ \E r \in rows : r.job = k /\ p \in Under(k, r.file)}
<1>1. UNCHANGED <<status[k], losses[k]>> /\ rows \subseteq rows' /\ \A r \in rows' : r.job = k => r \in rows
  BY OthersKeep
<1>2. \A g \in Files : Under(k, g)' = Under(k, g) /\ Under(k, g) \subseteq store /\ Under(k, g)' \subseteq store'
  BY KeysApart DEF Under
<1>3. \A r \in rows' : r.file \in Files
  BY DEF TypeOK
<1>4. Reach' = Reach
  <2>1. ASSUME NEW p \in Reach PROVE p \in Reach'
    BY <1>1, <1>2, <1>3
  <2>2. ASSUME NEW p \in Reach' PROVE p \in Reach
    BY <1>1, <1>2, <1>3
  <2> QED BY <2>1, <2>2
<1>5. Downloads(k)' = Downloads(k)
  BY <1>4 DEF Downloads
<1> QED BY <1>1, <1>5 DEF Offered

(* What a job offers has its kinds, all from one run. *)
Deliverable(j, D) ==
    \E S \in SUBSET Files, n \in 1..MaxRuns :
        /\ Wanted(j) \subseteq {Kind(f) : f \in S}
        /\ D = {[file |-> f, job |-> j, run |-> n] : f \in S}

OfferInv == \A j \in Jobs : Offered(j) = {} \/ Deliverable(j, Offered(j))

(* A fresh result is such an offer. *)
LEMMA FreshDelivers ==
    ASSUME TypeOK, EarnedInv, ObjectInv, FreshInv
    PROVE  OfferInv
<1> SUFFICES ASSUME NEW j \in Jobs, Offered(j) # {} PROVE Deliverable(j, Offered(j))
  BY DEF OfferInv
<1>1. status[j] = "SUCCESS" /\ losses[j] = 0 /\ Offered(j) = Downloads(j)
  BY DEF Offered, Downloads
<1> DEFINE S == {g \in FilesOf(j) : \E r \in rows : r.job = j /\ r.file = g}
<1>2. S \in SUBSET Files
  BY DEF TypeOK, FilesOf, Files
<1>3. run[j] \in 1..MaxRuns
  <2>1. made[j] = FilesOf(j) /\ pc[j] = "idle" /\ FreshResult(j)
    BY <1>1 DEF EarnedInv, StepInv, Complete, FreshInv
  <2>2. "raw" \in FilesOf(j) /\ Under(j, "raw") = {Object(j, "raw", run[j])}
    BY <2>1, <1>1 DEF FreshResult, Sole, FilesOf
  <2>3. Object(j, "raw", run[j]) \in store
    BY <2>2 DEF Under
  <2>4. PICK k \in Jobs, g \in Files, n \in 1..MaxRuns : Object(j, "raw", run[j]) = Object(k, g, n)
    BY <2>3 DEF TypeOK
  <2>5. Object(j, "raw", run[j]).run = run[j] /\ Object(k, g, n).run = n
    BY DEF Object
  <2> QED BY <2>4, <2>5
<1>4. Offered(j) = {[file |-> f, job |-> j, run |-> run[j]] : f \in S}
  BY <1>1, DownloadsOf DEF File
<1>5. Wanted(j) \subseteq {Kind(f) : f \in S}
  <2>1. \A f \in FilesOf(j) : \E r \in rows : r.job = j /\ Kind(r.file) = Kind(f) /\ r.file \in FilesOf(j)
    BY <1>1 DEF FreshInv, FreshResult, ObjectInv
  <2>2. \A f \in FilesOf(j) : Kind(f) \in {Kind(g) : g \in S}
    BY <2>1
  <2>3. \A w \in Wanted(j) : \E f \in FilesOf(j) : w = Kind(f)
    <3>1. Kind("raw") = "onnx" /\ Kind("main") = "artifact"
      BY DEF Kind
    <3>2. {"raw", "main"} \subseteq FilesOf(j) /\ parts[j] \subseteq FilesOf(j)
      BY DEF FilesOf
    <3> QED BY <3>1, <3>2 DEF Wanted
  <2> QED BY <2>2, <2>3
<1> QED BY <1>2, <1>3, <1>4, <1>5 DEF Deliverable

(* Only the final step of a job offers anything, and then for good. *)
LEMMA OfferStep ==
    ASSUME ~Shared, TypeOK, TypeOK', EarnedInv, OfferInv', NEW j \in Jobs,
           Begin(j) \/ Abort(j) \/ PipelineStep(j) \/ SaveStep(j) \/ ReportStep(j)
    PROVE  Offer!Publish(j) \/ UNCHANGED <<[k \in Jobs |-> Wanted(k)], [k \in Jobs |-> Offered(k)]>>
<1> DEFINE W == [k \in Jobs |-> Wanted(k)]
           F == [k \in Jobs |-> Offered(k)]
<1>1. W' = W /\ \A k \in Jobs : Wanted(k)' = Wanted(k)
  BY PartsStay DEF Wanted
<1>2. status[j] # "SUCCESS" /\ Offered(j) = {}
  BY OnlyFinish, OfferedLater
<1>3. \A k \in Jobs : k # j => Offered(k)' = Offered(k)
  BY OfferedOthers
<1>4. CASE Offered(j)' = {}
  <2>1. F' = F
    BY <1>2, <1>3, <1>4
  <2> QED BY <1>1, <2>1
<1>5. CASE Offered(j)' # {}
  <2>1. Deliverable(j, Offered(j))'
    BY <1>5 DEF OfferInv
  <2>2. PICK S \in SUBSET Files, n \in 1..MaxRuns :
             /\ Wanted(j)' \subseteq {Kind(f) : f \in S}
             /\ Offered(j)' = {[file |-> f, job |-> j, run |-> n] : f \in S}
    BY <2>1 DEF Deliverable
  <2>3. F' = [F EXCEPT ![j] = {[file |-> f, job |-> j, run |-> n] : f \in S}]
    BY <1>3, <2>2
  <2>4. F[j] = {} /\ W[j] = Wanted(j)
    BY <1>2
  <2>5. Offer!Publish(j)
    BY <1>1, <2>2, <2>3, <2>4 DEF Offer!Publish
  <2> QED BY <2>5
<1> QED BY <1>4, <1>5

(* Runs implement Delivery. *)
THEOREM RunsDeliver ==
    ASSUME ~Shared
    PROVE  Spec => ImplementsDelivery
<1>1. Init => Offer!Init
  BY DEF Init, Offer!Init, Offer!Kinds, Offered, Downloads, Wanted, Kind, Files
<1>2. TypeOK /\ TypeOK' /\ EarnedInv /\ OfferInv' /\ [Next]_vars
      => [Offer!Next]_<<[j \in Jobs |-> Wanted(j)], [j \in Jobs |-> Offered(j)]>>
  <2> SUFFICES ASSUME TypeOK, TypeOK', EarnedInv, OfferInv', [Next]_vars
               PROVE  [Offer!Next]_<<[j \in Jobs |-> Wanted(j)], [j \in Jobs |-> Offered(j)]>>
    OBVIOUS
  <2>1. CASE UNCHANGED vars
    BY <2>1 DEF vars, jobVars, saveVars, Wanted, Offered, Downloads, Under, Home
  <2>2. CASE Next
    BY <2>2, OfferStep DEF Next, Offer!Next
  <2> QED BY <2>1, <2>2
<1>3. TypeOK /\ EarnedInv /\ ObjectInv /\ FreshInv => OfferInv
  BY FreshDelivers
<1>4. Spec => [](TypeOK /\ EarnedInv /\ OfferInv)
  BY <1>3, FreshHolds, PTL
<1>5. Spec => Offer!Init /\ [][Offer!Next]_<<[j \in Jobs |-> Wanted(j)], [j \in Jobs |-> Offered(j)]>>
  BY <1>1, <1>2, <1>4, PTL DEF Spec
<1> QED BY <1>5, PTL DEF ImplementsDelivery, Offer!Spec

-----------------------------------------------------------------------------
(* The graph passes.                                                       *)

(* The checker looks at nodes and initializers only. *)
LEMMA LegalByParts ==
    ASSUME NEW g, NEW h, h.nodes = g.nodes, h.inits = g.inits
    PROVE  Legal(g) <=> Legal(h)
  BY DEF Legal, Known

(* A pass may return anything: what is taken is legal if the graph was. *)
LEMMA TakeStaysLegal ==
    ASSUME NEW g, Take(g), Legal(graph)
    PROVE  Legal(graph)'
<1>1. PICK h : graph' = h /\ Legal(h)
  BY DEF Take, Accepted
<1> QED BY <1>1 DEF Legal, Known

(* Every pass, and the compile after them, keeps a legal graph legal. *)
LEMMA NextLegal == StaysLegal /\ [GraphNext]_graphVars => StaysLegal'
<1> SUFFICES ASSUME StaysLegal, [GraphNext]_graphVars, Legal(exported') PROVE Legal(graph)'
  BY DEF StaysLegal, Legal, Known
<1>1. exported' = exported
  BY DEF GraphNext, Analyze, ShapeInference, FoldConstants, FuseConvBN, SimplifyGraph, Rewrite, Take,
         Gate, Compile, graphVars
<1>2. Legal(graph)
  BY <1>1 DEF StaysLegal
<1>3. CASE \E g : Take(g)
  BY <1>2, <1>3, TakeStaysLegal
<1>4. CASE Compile
  <2>1. graph'.nodes = graph.nodes /\ graph'.inits = graph.inits
    BY <1>4 DEF Compile, Frozen
  <2>2. Legal(graph')
    BY <1>2, <2>1, LegalByParts
  <2> QED BY <2>2 DEF Legal, Known
<1>5. CASE UNCHANGED graph
  BY <1>2, <1>5 DEF Legal, Known
<1> QED BY <1>3, <1>4, <1>5 DEF GraphNext, Analyze, ShapeInference, FoldConstants, FuseConvBN,
           SimplifyGraph, Rewrite, Gate, graphVars

(* No pass, rewrite or freeze leaves a graph the checker refuses, if the     *)
(* exported one was legal: every result is checked before it is taken.       *)
THEOREM LegalGraphsOnly == GraphSpec => []StaysLegal
<1>1. GraphInit => StaysLegal
  <2> SUFFICES ASSUME GraphInit PROVE Legal(exported) => Legal(graph)
    BY DEF StaysLegal
  <2>1. graph.nodes = exported.nodes /\ graph.inits = exported.inits
    BY GraphsAssumption DEF GraphInit, InferShapes
  <2> QED BY <2>1, LegalByParts
<1> QED BY <1>1, NextLegal, PTL DEF GraphSpec

-----------------------------------------------------------------------------
(* The numbers of a fusion. *)

(* A normalisation after a convolution is a convolution. *)
LEMMA FoldedArithmetic ==
    ASSUME NEW a \in Int, NEW w \in Int, NEW c \in Int,
           NEW s \in Int, NEW b \in Int, NEW m \in Int
    PROVE  s * ((w * a + c) - m) + b = (w * s) * a + ((c - m) * s + b)
<1>1. \A x, y \in Int : x * y \in Int /\ x * y = y * x
  OBVIOUS
<1>2. \A x, y, z \in Int : x * (y + z) = x * y + x * z
  OBVIOUS
<1>3. \A x, y, z \in Int : x * (y * z) = (x * y) * z
  OBVIOUS
<1> DEFINE d == c - m
<1>4. d \in Int /\ (w * a + c) - m = w * a + d
  BY <1>1
<1> HIDE DEF d
<1>5. s * (w * a + d) = s * (w * a) + s * d
  BY <1>1, <1>2, <1>4
<1>6. s * (w * a) = (w * s) * a
  BY <1>1, <1>3
<1>7. s * d = d * s
  BY <1>1, <1>4
<1>8. s * (w * a) \in Int /\ s * d \in Int /\ (w * s) * a \in Int /\ d * s \in Int
  BY <1>1, <1>4
<1> QED BY <1>4, <1>5, <1>6, <1>7, <1>8 DEF d

(* A fused convolution computes on every input what the convolution and the  *)
(* normalisation did, for all constants: with the bias it had, or with none  *)
(* when no initializer has the name its new bias gets.                       *)
THEOREM FusionKeepsValues ==
    ASSUME NEW g, NEW acc, NEW conv, NEW bn, NEW size, NEW before, NEW after,
           "inits" \in DOMAIN acc, DOMAIN conv = {"name", "op", "in", "out", "mode"},
           conv.op = "Conv", bn.op = "BN", conv.name \in Seq(STRING),
           Len(conv.in) \in {2, 3}, bn.in = <<conv.out, bn.in[2], bn.in[3], bn.in[4]>>,
           \A t \in DOMAIN g.inits : g.inits[t] \in Int /\ before[t] = g.inits[t],
           {conv.in[2], bn.in[2], bn.in[3], bn.in[4]} \subseteq DOMAIN g.inits,
           conv.in[2] # BiasName(conv),
           IF Len(conv.in) = 3 /\ conv.in[3] # <<>> THEN conv.in[3] \in DOMAIN g.inits
                                                  ELSE BiasName(conv) \notin DOMAIN g.inits,
           before[conv.in[1]] \in Int, before[conv.out] = Value(conv, before, size),
           after[conv.in[1]] = before[conv.in[1]],
           \A t \in {conv.in[2], BiasName(conv)} : after[t] = Fused(acc, g, conv, bn).inits[t]
    PROVE  Value([conv EXCEPT !.in = <<@[1], @[2], BiasName(conv)>>], after, size)
               = Value(bn, before, size)
<1> DEFINE b == BiasName(conv)
           a == before[conv.in[1]]
           w == g.inits[conv.in[2]]
           c == IF b \in DOMAIN g.inits THEN g.inits[b] ELSE 0
           s == g.inits[bn.in[2]]
           e == g.inits[bn.in[3]]
           m == g.inits[bn.in[4]]
           fused == [conv EXCEPT !.in = <<@[1], @[2], b>>]
<1>1. a \in Int /\ w \in Int /\ c \in Int /\ s \in Int /\ e \in Int /\ m \in Int
  OBVIOUS
<1>2. Value(conv, before, size) = w * a + c
  <2>1. CASE Len(conv.in) = 3 /\ conv.in[3] # <<>>
    <3>1. b = conv.in[3] /\ c = before[conv.in[3]]
      BY <2>1 DEF BiasName
    <3> QED BY <2>1, <3>1 DEF Value
  <2>2. CASE ~(Len(conv.in) = 3 /\ conv.in[3] # <<>>)
    <3>1. c = 0
      BY <2>2
    <3> QED BY <2>2, <3>1 DEF Value
  <2> QED BY <2>1, <2>2
<1>3. Value(bn, before, size) = s * ((w * a + c) - m) + e
  <2>1. before[bn.in[1]] = w * a + c
    BY <1>2
  <2>2. before[bn.in[2]] = s /\ before[bn.in[3]] = e /\ before[bn.in[4]] = m
    OBVIOUS
  <2> HIDE DEF a, w, c, s, e, m
  <2> QED BY <2>1, <2>2 DEF Value
<1>4. after[conv.in[2]] = w * s /\ after[b] = (c - m) * s + e
  <2> DEFINE new == Fused(acc, g, conv, bn).inits
  <2>1. after[conv.in[2]] = new[conv.in[2]] /\ after[b] = new[b]
    OBVIOUS
  <2> DEFINE bias == (c - m) * s + e
  <2>2. new = [t \in DOMAIN acc.inits \union {conv.in[2], b} |->
                  IF t = conv.in[2] THEN g.inits[t] * s
                  ELSE IF t = b THEN bias
                  ELSE acc.inits[t]]
    BY DEF Fused
  <2> HIDE DEF new, bias, c, m, e, s
  <2>3. new[conv.in[2]] = w * s /\ new[b] = bias
    BY <2>2
  <2> QED BY <2>1, <2>3 DEF bias
<1>5. Value(fused, after, size) = (w * s) * a + ((c - m) * s + e)
  <2>1. b # <<>>
    <3>1. CASE Len(conv.in) = 3 /\ conv.in[3] # <<>>
      BY <3>1 DEF BiasName
    <3>2. CASE ~(Len(conv.in) = 3 /\ conv.in[3] # <<>>)
      <4>1. b = conv.name \o <<"bias">>
        BY <3>2 DEF BiasName
      <4>2. Len(conv.name \o <<"bias">>) = Len(conv.name) + 1 /\ Len(conv.name) \in Nat
        OBVIOUS
      <4> QED BY <4>1, <4>2
    <3> QED BY <3>1, <3>2
  <2>2. fused.op = "Conv" /\ fused.in = <<conv.in[1], conv.in[2], b>>
    OBVIOUS
  <2> HIDE DEF a, w, c, s, e, m, fused, b
  <2>3. Value(fused, after, size) = after[conv.in[2]] * after[conv.in[1]] + after[b]
    BY <2>1, <2>2 DEF Value
  <2>4. after[conv.in[1]] = a
    BY DEF a
  <2> QED BY <1>4, <2>3, <2>4
<1> HIDE DEF a, w, c, s, e, m, fused, b
<1>6. s * ((w * a + c) - m) + e = (w * s) * a + ((c - m) * s + e)
  BY <1>1, FoldedArithmetic
<1> QED BY <1>3, <1>5, <1>6 DEF fused, b
=============================================================================
