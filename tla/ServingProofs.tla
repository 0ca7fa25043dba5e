-------------------------- MODULE ServingProofs --------------------------
(***************************************************************************)
(* Proofs about Serving: types, the pool of cards, the place of a model,   *)
(* truthful answers, logs and settings.                                    *)
(***************************************************************************)
EXTENDS Serving, TLAPS

USE ServingAssumption, CardsAssumption DEF ServingAssumption, CardsAssumption, NoCard, NoPid

Phases == {"idle", "predict", "predict_image", "persist", "persist_image", "report",
           "read", "truncate", "dump"}
Outcomes == {"unsent", "pending", "ok", "saved", "param", "internal", "dropped"}
Logs == [task_id : Requests, detail : BOOLEAN]

(* Initially nothing has happened.                                          *)
LEMMA InitTyped == Init => TypeOK
<1> SUFFICES ASSUME Init PROVE TypeOK
  OBVIOUS
<1>1. cards \in Nat /\ pool \in Seq(Nat)
  BY DEF Init
<1>2. env \in [Slots -> [device : {"unset", "cpu", "xpu"}, gpu : Nat \union {NoCard}]]
  BY DEF Init
<1>3. table \in [Keys -> Nat \union {NoCard}] /\ place \in [Slots -> Nat \union {NoCard}]
  BY DEF Init
<1>4. phase \in [Slots -> Phases] /\ outcome \in [Requests -> Outcomes]
  BY DEF Init, Phases, Outcomes
<1>5. engine \in [Slots -> {"none", "paddle", "paddle-xpu", "kunlun-xpu", "onnxruntime"}]
  BY DEF Init
<1>6. deploy \in Deployments /\ spawned \in 0..MaxSpawns /\ kills \in 0..MaxKills
  BY DEF Init
<1> QED BY <1>1, <1>2, <1>3, <1>4, <1>5, <1>6 DEF Init, TypeOK, Phases, Outcomes

(* The pool's hooks.                                                        *)
LEMMA SpawnTyped ==
    ASSUME TypeOK, NEW w \in Slots, Spawn(w)
    PROVE  TypeOK'
<1> USE DEF TypeOK
<1>1. PICK p \in Pids :
        LET card   == Acquired(pool)
            key    == WorkerDeviceKey(deploy.bootPid, spawned + 1)
            table1 == [table EXCEPT ![key] = card]
            mine   == table1[WorkerDeviceKey(p, spawned + 1)]
        IN  /\ pool' = Rest(pool)
            /\ table' = table1
            /\ pid' = [pid EXCEPT ![w] = p]
            /\ env' = [env EXCEPT ![w] =
                          IF mine # NoCard
                          THEN [device |-> "xpu", gpu |-> mine]
                          ELSE [device |-> "cpu",
                                gpu |-> IF Len(deploy.wanted) = 1
                                        THEN deploy.wanted[1] ELSE NoCard]]
  BY DEF Spawn
<1>2. spawned' \in 0..MaxSpawns /\ spawned + 1 \in 1..MaxSpawns
  BY DEF Spawn
<1>3. Acquired(pool) \in Nat \union {NoCard} /\ pool' \in Seq(Nat)
  BY <1>1 DEF Acquired, Rest
<1>4. /\ WorkerDeviceKey(p, spawned + 1) \in Keys
      /\ WorkerDeviceKey(deploy.bootPid, spawned + 1) \in Keys
  BY <1>2 DEF WorkerDeviceKey, Keys, Booting
<1>5. table' \in [Keys -> Nat \union {NoCard}]
  BY <1>1, <1>3, <1>4
<1>6. table'[WorkerDeviceKey(p, spawned + 1)] \in Nat \union {NoCard}
  BY <1>4, <1>5
<1>7. (IF Len(deploy.wanted) = 1 THEN deploy.wanted[1] ELSE NoCard) \in Nat \union {NoCard}
  <2>1. deploy.wanted \in Seq(Nat)
    OBVIOUS
  <2> QED BY <2>1
<1>8. env' \in [Slots -> [device : {"unset", "cpu", "xpu"}, gpu : Nat \union {NoCard}]]
  BY <1>1, <1>6, <1>7
<1>9. pid' \in [Slots -> Pids \union {NoPid}]
  BY <1>1
<1> QED BY <1>2, <1>3, <1>5, <1>8, <1>9 DEF Spawn, model, hand, setflag, logging, history

(* The end of a worker.                                                     *)
LEMMA KillTyped ==
    ASSUME TypeOK, NEW w \in Slots, Kill(w)
    PROVE  TypeOK'
<1> USE DEF TypeOK
<1>1. pid[w] \in Pids /\ pid[w] \in Keys
  BY DEF Kill, Keys
<1>2. table' \in [Keys -> Nat \union {NoCard}]
  BY <1>1 DEF Kill, ChildExit
<1>3. pool' \in Seq(Nat)
  <2>1. table[pid[w]] \in Nat \union {NoCard}
    BY <1>1
  <2> QED BY <2>1 DEF Kill, ChildExit, Released
<1>4. kills' \in 0..MaxKills
  BY DEF Kill
<1>5. env' \in [Slots -> [device : {"unset", "cpu", "xpu"}, gpu : Nat \union {NoCard}]]
  BY DEF Kill
<1>6. outcome' \in [Requests -> Outcomes]
  BY DEF Kill, Outcomes
<1> QED BY <1>2, <1>3, <1>4, <1>5, <1>6 DEF Kill, logging, Outcomes

HandTypes ==
    /\ phase \in [Slots -> Phases] /\ req \in [Slots -> SUBSET Requests]
    /\ found \in [Slots -> BOOLEAN] /\ outcome \in [Requests -> Outcomes]

(* An answer, and going on with a request.                                  *)
LEMMA AnswerTyped ==
    ASSUME HandTypes, NEW w \in Slots, NEW code \in Outcomes, Answer(w, code)
    PROVE  HandTypes'
BY DEF HandTypes, Answer, Phases

(* Going on with a request keeps the types too.                             *)
LEMMA GotoTyped ==
    ASSUME HandTypes, NEW w \in Slots, NEW p \in Phases, Goto(w, p), found' \in [Slots -> BOOLEAN]
    PROVE  HandTypes'
BY DEF HandTypes, Goto

(* What a load may give.                                                    *)
LEMMA LoadTyped ==
    ASSUME TypeOK, NEW w \in Slots, NEW device, NEW format, NEW count, NEW toolkit
    PROVE  /\ Load(device, format, count, toolkit) \in
                 {"refused", "paddle", "paddle-xpu", "kunlun-xpu", "onnxruntime"}
           /\ \A b : PlaceOf(b, env[w]) \in Nat \union {NoCard}
<1>1. env[w].gpu \in Nat \union {NoCard}
  BY DEF TypeOK
<1>2. XpuDeviceId(env[w]) \in Nat
  BY <1>1 DEF XpuDeviceId
<1> QED BY <1>2 DEF Load, PlaceOf

(* A request comes in.                                                      *)
LEMMA ReceiveTyped ==
    ASSUME TypeOK, NEW w \in Slots, NEW r \in Requests,
           RefuseRequest(w, r) \/ \E route \in Routes : Receive(w, r, route)
    PROVE  TypeOK'
<1> USE DEF TypeOK
<1>1. CASE RefuseRequest(w, r)
  BY <1>1 DEF RefuseRequest, master, process, model, hand, setflag, logging
<1>2. ASSUME NEW route \in Routes, Receive(w, r, route) PROVE TypeOK'
  <2>1. (IF route = "setflag" THEN "read" ELSE route) \in Phases
    BY DEF Routes, Phases
  <2>2. HandTypes'
    BY <1>2, <2>1 DEF HandTypes, Receive, Phases, Outcomes
  <2> QED BY <1>2, <2>2 DEF HandTypes, Phases, Outcomes, Receive, master, process, model, setflag, logging
<1> QED BY <1>1, <1>2

(* The model.                                                               *)
LEMMA ModelTyped ==
    ASSUME TypeOK, NEW w \in Slots, GetDetector(w) \/ Infer(w) \/ InferFails(w)
    PROVE  TypeOK'
<1>1. HandTypes
  BY DEF TypeOK, HandTypes, Phases, Outcomes
<1>2. CASE GetDetector(w)
  <2> DEFINE loaded == Load(EngineDevice(w), deploy.format, cards, deploy.toolkit)
             backend == IF engine[w] # "none" THEN engine[w] ELSE loaded
  <2>1. HandTypes'
    BY <1>1, <1>2, AnswerTyped DEF GetDetector, HandTypes, hand, Outcomes
  <2>2. CASE backend = "refused"
    BY <1>2, <2>1, <2>2 DEF GetDetector, TypeOK, HandTypes, Phases, Outcomes, master, process, model, setflag, logging
  <2>3. CASE backend # "refused"
    <3>1. backend \in {"paddle", "paddle-xpu", "kunlun-xpu", "onnxruntime"}
      BY <2>3, LoadTyped DEF TypeOK
    <3>2. /\ engine' = [engine EXCEPT ![w] = backend]
          /\ place' = [place EXCEPT ![w] = IF engine[w] # "none" THEN @ ELSE PlaceOf(backend, env[w])]
          /\ detector' = [detector EXCEPT ![w] = deploy.contract]
      BY <1>2, <2>3 DEF GetDetector
    <3> HIDE DEF backend
    <3>3. engine' \in [Slots -> {"none", "paddle", "paddle-xpu", "kunlun-xpu", "onnxruntime"}]
      BY <3>1, <3>2 DEF TypeOK
    <3>4. place' \in [Slots -> Nat \union {NoCard}]
      BY <3>2, LoadTyped DEF TypeOK
    <3>5. detector' \in [Slots -> BOOLEAN]
      BY <3>2 DEF TypeOK
    <3> QED BY <1>2, <2>1, <3>3, <3>4, <3>5
            DEF GetDetector, TypeOK, HandTypes, Phases, Outcomes, master, process, setflag, logging
  <2> QED BY <2>2, <2>3
<1>3. CASE Infer(w)
  <2>1. HandTypes'
    <3>1. "persist" \in Phases /\ "persist_image" \in Phases /\ "internal" \in Outcomes
      BY DEF Phases, Outcomes
    <3>2. ASSUME NEW some \in BOOLEAN, found' = [found EXCEPT ![w] = some],
                 Goto(w, IF phase[w] = "predict" THEN "persist" ELSE "persist_image")
          PROVE  HandTypes'
      BY <1>1, <3>1, <3>2, GotoTyped DEF HandTypes
    <3>3. CASE Answer(w, "internal")
      BY <1>1, <3>1, <3>3, AnswerTyped
    <3> QED BY <1>3, <3>2, <3>3 DEF Infer
  <2>2. worked' \in SUBSET Requests
    BY <1>3 DEF Infer, TypeOK
  <2> QED BY <1>3, <2>1, <2>2 DEF Infer, TypeOK, HandTypes, Phases, Outcomes, master, process, model, setflag, logging
<1>4. CASE InferFails(w)
  <2>1. HandTypes'
    BY <1>1, <1>4, AnswerTyped DEF InferFails, Outcomes
  <2> QED BY <1>4, <2>1 DEF InferFails, TypeOK, HandTypes, Phases, Outcomes, master, process, model, setflag, logging
<1> QED BY <1>2, <1>3, <1>4

(* Pictures and the log.                                                    *)
LEMMA PersistTyped ==
    ASSUME TypeOK, NEW w \in Slots, Persist(w) \/ PersistImage(w) \/ Report(w)
    PROVE  TypeOK'
<1>1. HandTypes
  BY DEF TypeOK, HandTypes, Phases, Outcomes
<1>2. /\ "report" \in Phases /\ "ok" \in Outcomes /\ "internal" \in Outcomes
      /\ \A some \in Saved : some \subseteq Images
  BY DEF Phases, Outcomes, Saved, Images
<1>3. CASE Persist(w)
  <2>1. HandTypes'
    BY <1>1, <1>2, <1>3, GotoTyped DEF Persist, HandTypes
  <2>2. disk' \in SUBSET (Requests \X Images)
    BY <1>2, <1>3 DEF Persist, TypeOK
  <2> QED BY <1>3, <2>1, <2>2 DEF Persist, TypeOK, HandTypes, Phases, Outcomes, master, process, model, setflag
<1>4. CASE PersistImage(w)
  <2>1. HandTypes'
    BY <1>1, <1>2, <1>4, AnswerTyped DEF PersistImage
  <2>2. disk' \in SUBSET (Requests \X Images)
    BY <1>2, <1>4 DEF PersistImage, TypeOK
  <2> QED BY <1>4, <2>1, <2>2 DEF PersistImage, TypeOK, HandTypes, Phases, Outcomes, master, process, model, setflag
<1>5. CASE Report(w)
  <2>1. HandTypes'
    BY <1>1, <1>2, <1>5, AnswerTyped DEF Report
  <2>2. posts' \in SUBSET Logs
    BY <1>5 DEF Report, Payload, TypeOK, Logs
  <2> QED BY <1>5, <2>1, <2>2 DEF Report, TypeOK, HandTypes, Phases, Outcomes, Logs, master, process, model, setflag
<1> QED BY <1>3, <1>4, <1>5

(* The settings.                                                            *)
LEMMA SettingsTyped ==
    ASSUME TypeOK, NEW w \in Slots, SetRead(w) \/ SetTruncate(w) \/ SetDump(w)
    PROVE  TypeOK'
<1>1. HandTypes
  BY DEF TypeOK, HandTypes, Phases, Outcomes
<1>2. "truncate" \in Phases /\ "dump" \in Phases /\ "saved" \in Outcomes
  BY DEF Phases, Outcomes
<1>3. HandTypes'
  BY <1>1, <1>2, AnswerTyped, GotoTyped DEF SetRead, SetTruncate, SetDump, HandTypes
<1>4. current' \in [Slots -> SUBSET Requests] /\ flags' \in SUBSET Requests /\ tangled' \in BOOLEAN
  <2>1. CASE SetRead(w)
    <3>1. Merged(w) \in SUBSET Requests
      BY DEF Merged, Setting, TypeOK
    <3>2. Elsewhere(w) \in BOOLEAN
      BY DEF Elsewhere
    <3> QED BY <2>1, <3>1, <3>2 DEF SetRead, TypeOK
  <2>2. CASE SetTruncate(w) \/ SetDump(w)
    BY <2>2 DEF SetTruncate, SetDump, TypeOK
  <2> QED BY <2>1, <2>2
<1>5. UNCHANGED <<master, process, model, logging, worked>>
  BY DEF SetRead, SetTruncate, SetDump
<1> QED BY <1>3, <1>4, <1>5 DEF TypeOK, HandTypes, Phases, Outcomes, master, process, model, logging

(* The log server and the driver.                                           *)
LEMMA ServerTyped ==
    ASSUME TypeOK, CardsVanish \/ Forward \/ \E p \in posts : Collect(p)
    PROVE  TypeOK'
<1>1. CASE CardsVanish
  BY <1>1 DEF CardsVanish, TypeOK, process, model, hand, setflag, logging, history
<1>2. CASE Forward
  <2>1. records' \in SUBSET [log : Logs, named : SUBSET Images]
    BY <1>2 DEF Forward, TypeOK, Logs
  <2> QED BY <1>2, <2>1 DEF Forward, TypeOK, Logs, master, process, model, hand, setflag, history
<1>3. ASSUME NEW p \in posts, Collect(p) PROVE TypeOK'
  <2>1. PICK stored \in Saved :
          /\ objects' = objects \cup {<<p.task_id, i>> : i \in {j \in stored : <<p.task_id, j>> \in disk}}
          /\ srv' = {[log |-> p, named |-> {i \in Images : UploadFile(p.task_id, i, stored)}]}
    BY <1>3 DEF Collect
  <2>2. p \in Logs /\ p.task_id \in Requests /\ stored \subseteq Images
    BY DEF TypeOK, Logs, Saved, Images
  <2>3. objects' \in SUBSET (Requests \X Images)
    <3> DEFINE new == {<<p.task_id, i>> : i \in {j \in stored : <<p.task_id, j>> \in disk}}
    <3>1. ASSUME NEW x \in new PROVE x \in Requests \X Images
      <4>1. PICK i \in stored : x = <<p.task_id, i>>
        OBVIOUS
      <4>2. i \in Images
        BY <2>2
      <4> QED BY ONLY <2>2, <4>1, <4>2
    <3>2. objects \subseteq Requests \X Images
      BY DEF TypeOK
    <3> QED BY <2>1, <3>1, <3>2
  <2>4. srv' \in SUBSET [log : Logs, named : SUBSET Images]
    <3>1. {i \in Images : UploadFile(p.task_id, i, stored)} \in SUBSET Images
      OBVIOUS
    <3> QED BY <2>1, <2>2, <3>1
  <2> QED BY <1>3, <2>3, <2>4 DEF Collect, TypeOK, Logs, master, process, model, hand, setflag, history
<1> QED BY <1>1, <1>2, <1>3

(* Every step keeps the types.                                              *)
LEMMA NextTyped == TypeOK /\ [Next]_vars => TypeOK'
<1> SUFFICES ASSUME TypeOK, [Next]_vars PROVE TypeOK'
  OBVIOUS
<1>1. CASE UNCHANGED vars
  BY <1>1 DEF TypeOK, vars, master, process, model, hand, setflag, logging, history
<1>2. ASSUME NEW w \in Slots, Spawn(w) \/ Kill(w) PROVE TypeOK'
  BY <1>2, SpawnTyped, KillTyped
<1>3. ASSUME NEW w \in Slots, NEW r \in Requests,
             RefuseRequest(w, r) \/ \E route \in Routes : Receive(w, r, route)
      PROVE  TypeOK'
  BY <1>3, ReceiveTyped
<1>4. ASSUME NEW w \in Slots, Serve(w) PROVE TypeOK'
  BY <1>4, ModelTyped, PersistTyped, SettingsTyped DEF Serve
<1>5. CASE CardsVanish \/ Forward \/ \E p \in posts : Collect(p)
  BY <1>5, ServerTyped
<1> QED BY <1>1, <1>2, <1>3, <1>4, <1>5 DEF Next, Serve

(* The types of the whole runtime, for every set of deployments.            *)
THEOREM ServingTypes == Spec => []TypeOK
BY InitTyped, NextTyped, PTL DEF Spec
-----------------------------------------------------------------------------
(* The pool.                                                                *)

(* Taking the first card of the pool leaves the others.                     *)
LEMMA TakeCard ==
    ASSUME NEW s \in Seq(Nat), IsInjective(s), s # <<>>
    PROVE  /\ Head(s) \in Nat /\ Tail(s) \in Seq(Nat) /\ IsInjective(Tail(s))
           /\ Contains(s, Head(s)) /\ ~Contains(Tail(s), Head(s))
           /\ \A c : Contains(Tail(s), c) => Contains(s, c)
BY DEF IsInjective, Contains

(* A card that comes back is there once.                                    *)
LEMMA ReturnCard ==
    ASSUME NEW s \in Seq(Nat), IsInjective(s), NEW c \in Nat, ~Contains(s, c)
    PROVE  /\ IsInjective(Append(s, c))
           /\ \A d : Contains(Append(s, c), d) => d = c \/ Contains(s, d)
BY DEF IsInjective, Contains

(* Only the hooks touch the pool and the table.                             *)
LEMMA NextPool == TypeOK /\ NoDoubleCard /\ [Next]_vars => NoDoubleCard'
<1> SUFFICES ASSUME TypeOK, NoDoubleCard, [Next]_vars PROVE NoDoubleCard'
  OBVIOUS
<1> USE DEF NoDoubleCard, Taken
<1>1. CASE UNCHANGED <<pool, table>>
  BY <1>1
<1>2. ASSUME NEW w \in Slots, Spawn(w) PROVE NoDoubleCard'
  <2>1. PICK key \in Keys : table' = [table EXCEPT ![key] = Acquired(pool)] /\ pool' = Rest(pool)
    <3>1. WorkerDeviceKey(deploy.bootPid, spawned + 1) \in Keys
      BY <1>2 DEF Spawn, TypeOK, WorkerDeviceKey, Keys, Booting
    <3> QED BY <1>2, <3>1 DEF Spawn
  <2>2. CASE pool = <<>>
    BY <2>1, <2>2 DEF Acquired, Rest, TypeOK
  <2>3. CASE pool # <<>>
    <3>1. table' = [table EXCEPT ![key] = Head(pool)] /\ pool' = Tail(pool)
      BY <2>1, <2>3 DEF Acquired, Rest
    <3>2. /\ Head(pool) \in Nat /\ IsInjective(pool')
          /\ Contains(pool, Head(pool)) /\ ~Contains(pool', Head(pool))
          /\ \A c : Contains(pool', c) => Contains(pool, c)
      BY <2>3, <3>1, TakeCard DEF TypeOK
    <3>3. table'[key] = Head(pool) /\ \A k \in Keys \ {key} : table'[k] = table[k]
      BY <3>1 DEF TypeOK
    <3> QED BY <3>2, <3>3
  <2> QED BY <2>2, <2>3
<1>3. ASSUME NEW w \in Slots, Kill(w) PROVE NoDoubleCard'
  <2> DEFINE key == pid[w]
             c == table[key]
  <2>1. key \in Keys /\ c \in Nat \union {NoCard}
    BY <1>3 DEF Kill, TypeOK, Keys
  <2>2. table' = [table EXCEPT ![key] = NoCard] /\ pool' = Released(pool, c)
    BY <1>3 DEF Kill, ChildExit
  <2>3. table'[key] = NoCard /\ \A k \in Keys \ {key} : table'[k] = table[k]
    BY <2>1, <2>2 DEF TypeOK
  <2>4. CASE c = NoCard
    BY <2>1, <2>2, <2>3, <2>4 DEF Released
  <2>5. CASE c # NoCard
    <3>1. ~Contains(pool, c) /\ pool' = Append(pool, c)
      BY <2>1, <2>2, <2>5 DEF Released
    <3>2. IsInjective(pool') /\ \A d : Contains(pool', d) => d = c \/ Contains(pool, d)
      BY <2>1, <2>5, <3>1, ReturnCard DEF TypeOK
    <3> QED BY <2>1, <2>3, <2>5, <3>2
  <2> QED BY <2>4, <2>5
<1>4. ASSUME NEW w \in Slots,
             Serve(w) \/ \E r \in Requests : RefuseRequest(w, r) \/ \E route \in Routes : Receive(w, r, route)
      PROVE  UNCHANGED <<pool, table>>
  BY <1>4 DEF Serve, RefuseRequest, Receive, GetDetector, Infer, InferFails, Persist, PersistImage,
              Report, SetRead, SetTruncate, SetDump, master
<1>5. CASE CardsVanish \/ Forward \/ \E p \in posts : Collect(p)
  BY <1>1, <1>5 DEF CardsVanish, Forward, Collect, master
<1> QED BY <1>1, <1>2, <1>3, <1>4, <1>5 DEF Next, Serve, vars, master

(* However workers are forked, killed and renumbered, no card is both free  *)
(* and taken, nor counted twice.                                            *)
THEOREM CardsCountedOnce == Spec => []NoDoubleCard
<1>1. Init => NoDoubleCard
  BY DEF Init, NoDoubleCard, Taken
<1> QED BY <1>1, InitTyped, NextTyped, NextPool, PTL DEF Spec
-----------------------------------------------------------------------------
(* The place of the model.                                                  *)

(* Only a worker's first inference and its end touch the engine.            *)
LEMMA NextPlace == TypeOK /\ NoSilentCpu /\ [Next]_vars => NoSilentCpu'
<1> SUFFICES ASSUME TypeOK, NoSilentCpu, [Next]_vars PROVE NoSilentCpu'
  OBVIOUS
<1> USE DEF NoSilentCpu
<1>1. CASE UNCHANGED <<deploy, engine, place>>
  BY <1>1
<1>2. ASSUME NEW w \in Slots, Kill(w) PROVE NoSilentCpu'
  BY <1>2 DEF Kill, TypeOK
<1>3. ASSUME NEW w \in Slots, GetDetector(w) PROVE NoSilentCpu'
  <2> DEFINE loaded == Load(EngineDevice(w), deploy.format, cards, deploy.toolkit)
             backend == IF engine[w] # "none" THEN engine[w] ELSE loaded
  <2>1. UNCHANGED deploy
    BY <1>3 DEF GetDetector, master
  <2>2. CASE backend = "refused" \/ engine[w] # "none"
    BY <1>3, <2>1, <2>2 DEF GetDetector, TypeOK, model
  <2>3. CASE loaded # "refused" /\ engine[w] = "none"
    <3>1. engine' = [engine EXCEPT ![w] = loaded] /\ place' = [place EXCEPT ![w] = PlaceOf(loaded, env[w])]
      BY <1>3, <2>3 DEF GetDetector, TypeOK
    <3>2. RequiresXpu(deploy.format) =>
             deploy.mode = "cpu" \/ loaded \in {"paddle-xpu", "kunlun-xpu"}
      BY <2>3 DEF Load, EngineDevice
    <3>3. loaded \in {"paddle-xpu", "kunlun-xpu"} => PlaceOf(loaded, env[w]) # NoCard
      BY DEF PlaceOf, XpuDeviceId
    <3> HIDE DEF loaded
    <3> QED BY <2>1, <3>1, <3>2, <3>3 DEF TypeOK
  <2> QED BY <2>2, <2>3
<1>4. ASSUME NEW w \in Slots,
             \/ Spawn(w) \/ Infer(w) \/ InferFails(w) \/ Persist(w) \/ PersistImage(w)
             \/ Report(w) \/ SetRead(w) \/ SetTruncate(w) \/ SetDump(w)
             \/ \E r \in Requests : RefuseRequest(w, r) \/ \E route \in Routes : Receive(w, r, route)
      PROVE  UNCHANGED <<deploy, engine, place>>
  BY <1>4 DEF Spawn, RefuseRequest, Receive, Infer, InferFails, Persist, PersistImage,
              Report, SetRead, SetTruncate, SetDump, master, model
<1>5. CASE CardsVanish \/ Forward \/ \E p \in posts : Collect(p)
  BY <1>1, <1>5 DEF CardsVanish, Forward, Collect, master, model
<1> QED BY <1>1, <1>2, <1>3, <1>4, <1>5 DEF Next, vars, master, model

(* In every deployment, and whenever the cards vanish, a model for cards    *)
(* runs on the CPU only where the operator said so.                         *)
THEOREM CpuOnlyByChoice == Spec => []NoSilentCpu
<1>1. Init => NoSilentCpu
  BY DEF Init, NoSilentCpu
<1> QED BY <1>1, InitTyped, NextTyped, NextPlace, PTL DEF Spec
-----------------------------------------------------------------------------
(* Requests, answers and logs.                                              *)

(* A request is in the hands of one worker, until it is answered.           *)
HandInv ==
    /\ \A w \in Slots : phase[w] = "idle" => req[w] = {}
    /\ \A w \in Slots : \A r \in req[w] : outcome[r] = "pending"
    /\ \A v, w \in Slots : \A r \in req[v] : r \in req[w] => v = w

(* What has been done for a request at which point.                         *)
WorkInv ==
    /\ \A r \in worked : outcome[r] # "unsent"
    /\ \A w \in Slots : \A r \in req[w] :
          /\ phase[w] \in {"persist", "persist_image", "report"} => r \in worked
          /\ phase[w] \in {"persist", "persist_image", "predict", "predict_image"} =>
                \A i \in Images : <<r, i>> \notin disk
    /\ \A r \in Requests : \A i \in Images : <<r, i>> \in disk => r \in worked
    /\ AnswersTruthful

(* What a step may do to the answers: finish the requests of one worker.    *)
Answered(w, code) ==
    /\ outcome' = [r \in Requests |-> IF r \in req[w] THEN code ELSE outcome[r]]
    /\ phase' = [phase EXCEPT ![w] = "idle"]
    /\ req' = [req EXCEPT ![w] = {}]

(* Answering keeps the hands clean.                                         *)
LEMMA AnswerHands ==
    ASSUME TypeOK, HandInv, NEW w \in Slots, NEW code \in Outcomes, Answered(w, code)
    PROVE  /\ HandInv'
           /\ req'[w] = {} /\ phase'[w] = "idle"
           /\ \A v \in Slots \ {w} : req'[v] = req[v] /\ phase'[v] = phase[v]
           /\ \A r \in Requests : outcome'[r] = IF r \in req[w] THEN code ELSE outcome[r]
BY DEF TypeOK, HandInv, Answered

(* Going on does so too.                                                    *)
LEMMA GotoHands ==
    ASSUME TypeOK, HandInv, NEW w \in Slots, NEW p \in Phases \ {"idle"}, Goto(w, p)
    PROVE  /\ HandInv'
           /\ phase'[w] = p /\ \A v \in Slots \ {w} : phase'[v] = phase[v]
           /\ req' = req /\ outcome' = outcome
BY DEF TypeOK, HandInv, Goto

(* An answer that fits what has been done.                                  *)
LEMMA AnswerWork ==
    ASSUME TypeOK, HandInv, WorkInv, NEW w \in Slots, NEW code \in Outcomes \ {"unsent"},
           Answered(w, code), UNCHANGED <<disk, worked>>,
           code = "ok" => phase[w] = "report",
           code = "internal" => phase[w] \in {"predict", "predict_image"}
    PROVE  HandInv' /\ WorkInv'
<1> USE AnswerHands
<1>1. HandInv'
  OBVIOUS
<1>2. AnswersTruthful'
  <2> SUFFICES ASSUME NEW r \in Requests
               PROVE  /\ outcome'[r] = "ok" => r \in worked
                      /\ r \in worked /\ outcome'[r] = "internal" => <<r, "result">> \notin disk
    BY DEF AnswersTruthful
  <2>1. CASE r \in req[w]
    <3>1. code = "ok" => r \in worked
      BY <2>1 DEF WorkInv
    <3>2. code = "internal" => <<r, "result">> \notin disk
      BY <2>1 DEF WorkInv, Images
    <3> QED BY <2>1, <3>1, <3>2
  <2>2. CASE r \notin req[w]
    BY <2>2 DEF WorkInv, AnswersTruthful
  <2> QED BY <2>1, <2>2
<1>3. \A r \in worked : outcome'[r] # "unsent"
  BY DEF WorkInv, TypeOK
<1> QED BY <1>1, <1>2, <1>3 DEF WorkInv

(* A request comes in, or is refused.                                       *)
LEMMA ReceiveWork ==
    ASSUME TypeOK, HandInv, WorkInv, NEW w \in Slots, NEW r \in Requests,
           RefuseRequest(w, r) \/ \E route \in Routes : Receive(w, r, route)
    PROVE  HandInv' /\ WorkInv'
<1>1. /\ phase[w] = "idle" /\ outcome[r] = "unsent" /\ req[w] = {}
      /\ UNCHANGED <<disk, worked>> /\ r \notin worked
      /\ \A v \in Slots : r \notin req[v]
      /\ \A i \in Images : <<r, i>> \notin disk
  BY DEF RefuseRequest, Receive, HandInv, WorkInv, logging
<1>2. CASE RefuseRequest(w, r)
  <2>1. UNCHANGED <<phase, req>> /\ outcome' = [outcome EXCEPT ![r] = "param"]
    BY <1>2 DEF RefuseRequest, hand
  <2> QED BY <1>1, <2>1 DEF TypeOK, HandInv, WorkInv, AnswersTruthful
<1>3. ASSUME NEW route \in Routes, Receive(w, r, route) PROVE HandInv' /\ WorkInv'
  <2>1. PICK p \in {"read", "predict", "predict_image"} : phase' = [phase EXCEPT ![w] = p]
    BY <1>3 DEF Receive, Routes
  <2>2. req' = [req EXCEPT ![w] = {r}] /\ outcome' = [outcome EXCEPT ![r] = "pending"]
    BY <1>3 DEF Receive
  <2>3. req'[w] = {r} /\ \A v \in Slots \ {w} : req'[v] = req[v] /\ phase'[v] = phase[v]
    BY <2>1, <2>2 DEF TypeOK
  <2>4. phase'[w] = p /\ outcome'[r] = "pending" /\ \A q \in Requests \ {r} : outcome'[q] = outcome[q]
    BY <2>1, <2>2 DEF TypeOK
  <2>5. HandInv'
    <3>1. \A v \in Slots : phase'[v] = "idle" => req'[v] = {}
      BY <2>3, <2>4 DEF HandInv
    <3>2. \A v \in Slots : \A q \in req'[v] : outcome'[q] = "pending"
      BY <1>1, <2>3, <2>4 DEF HandInv, TypeOK
    <3>3. \A u, v \in Slots : \A q \in req'[u] : q \in req'[v] => u = v
      BY <1>1, <2>3 DEF HandInv
    <3> QED BY <3>1, <3>2, <3>3 DEF HandInv
  <2>6. WorkInv'
    <3>1. \A q \in worked : outcome'[q] # "unsent"
      BY <1>1, <2>4 DEF WorkInv, TypeOK
    <3>2. \A v \in Slots : \A q \in req'[v] :
            /\ phase'[v] \in {"persist", "persist_image", "report"} => q \in worked
            /\ phase'[v] \in {"persist", "persist_image", "predict", "predict_image"} =>
                  \A i \in Images : <<q, i>> \notin disk
      BY <1>1, <2>3, <2>4 DEF WorkInv
    <3>3. AnswersTruthful'
      BY <1>1, <2>4 DEF WorkInv, AnswersTruthful
    <3> QED BY <1>1, <3>1, <3>2, <3>3 DEF WorkInv
  <2> QED BY <2>5, <2>6
<1> QED BY <1>2, <1>3

(* The model works on a request.                                            *)
LEMMA InferWork ==
    ASSUME TypeOK, HandInv, WorkInv, NEW w \in Slots, Infer(w)
    PROVE  HandInv' /\ WorkInv'
<1>1. phase[w] \in {"predict", "predict_image"} /\ disk' = disk
  BY DEF Infer, logging
<1>2. CASE Answer(w, "internal") /\ UNCHANGED worked
  <2>1. Answered(w, "internal") /\ "internal" \in Outcomes \ {"unsent"}
    BY <1>2 DEF Answer, Answered, Outcomes
  <2> QED BY <1>1, <1>2, <2>1, AnswerWork
<1>3. ASSUME NEW p \in {"persist", "persist_image"}, Goto(w, p), worked' = worked \cup req[w]
      PROVE  HandInv' /\ WorkInv'
  <2>1. p \in Phases \ {"idle"}
    BY DEF Phases
  <2>2. /\ HandInv'
        /\ phase'[w] = p /\ \A v \in Slots \ {w} : phase'[v] = phase[v]
        /\ req' = req /\ outcome' = outcome
    BY <1>3, <2>1, GotoHands
  <2>3. AnswersTruthful'
    BY <1>1, <1>3, <2>2 DEF WorkInv, AnswersTruthful, HandInv
  <2> QED BY <1>1, <1>3, <2>2, <2>3 DEF WorkInv, HandInv
<1> QED BY <1>2, <1>3 DEF Infer

(* Its pictures are stored, some, or none.                                  *)
LEMMA PersistWork ==
    ASSUME TypeOK, HandInv, WorkInv, NEW w \in Slots, Persist(w) \/ PersistImage(w)
    PROVE  HandInv' /\ WorkInv'
<1>1. PICK saved \in Saved :
        /\ disk' = disk \cup (req[w] \X saved)
        /\ \/ Goto(w, "report")
           \/ phase[w] = "persist_image" /\ Answer(w, IF "result" \in saved THEN "ok" ELSE "internal")
  BY DEF Persist, PersistImage
<1>2. phase[w] \in {"persist", "persist_image"} /\ worked' = worked
  BY DEF Persist, PersistImage
<1>3. \A r, i : <<r, i>> \in disk' => <<r, i>> \in disk \/ (r \in req[w] /\ i \in saved)
  BY <1>1
<1>4. \A r \in Requests : \A i \in Images : <<r, i>> \in disk' => r \in worked
  BY <1>2, <1>3 DEF WorkInv
<1>5. CASE Goto(w, "report")
  <2>1. "report" \in Phases \ {"idle"}
    BY DEF Phases
  <2>2. /\ HandInv'
        /\ phase'[w] = "report" /\ \A v \in Slots \ {w} : phase'[v] = phase[v]
        /\ req' = req /\ outcome' = outcome
    BY <1>5, <2>1, GotoHands
  <2>3. AnswersTruthful'
    BY <1>2, <1>3, <2>2 DEF WorkInv, AnswersTruthful, HandInv
  <2>4. \A v \in Slots : \A r \in req'[v] :
          /\ phase'[v] \in {"persist", "persist_image", "report"} => r \in worked
          /\ phase'[v] \in {"persist", "persist_image", "predict", "predict_image"} =>
                \A i \in Images : <<r, i>> \notin disk'
    BY <1>2, <1>3, <2>2 DEF WorkInv, HandInv
  <2> QED BY <1>2, <1>4, <2>2, <2>3, <2>4 DEF WorkInv
<1>6. CASE phase[w] = "persist_image" /\ Answer(w, IF "result" \in saved THEN "ok" ELSE "internal")
  <2> DEFINE code == IF "result" \in saved THEN "ok" ELSE "internal"
  <2>1. Answered(w, code) /\ code \in Outcomes
    BY <1>6 DEF Answer, Answered, Outcomes
  <2>2. code = "internal" => "result" \notin saved
    OBVIOUS
  <2>3. code \in {"ok", "internal"}
    OBVIOUS
  <2> HIDE DEF code
  <2>4. /\ HandInv'
        /\ req'[w] = {} /\ phase'[w] = "idle"
        /\ \A v \in Slots \ {w} : req'[v] = req[v] /\ phase'[v] = phase[v]
        /\ \A r \in Requests : outcome'[r] = IF r \in req[w] THEN code ELSE outcome[r]
    BY <2>1, AnswerHands
  <2>5. AnswersTruthful'
    <3> SUFFICES ASSUME NEW r \in Requests
                 PROVE  /\ outcome'[r] = "ok" => r \in worked
                        /\ r \in worked /\ outcome'[r] = "internal" => <<r, "result">> \notin disk'
      BY <1>2 DEF AnswersTruthful
    <3>1. CASE r \in req[w]
      <4>1. r \in worked /\ <<r, "result">> \notin disk
        BY <1>6, <3>1 DEF WorkInv, Images
      <4> QED BY <1>3, <2>2, <2>4, <3>1, <4>1
    <3>2. CASE r \notin req[w]
      BY <1>3, <2>4, <3>2 DEF WorkInv, AnswersTruthful
    <3> QED BY <3>1, <3>2
  <2>6. \A r \in worked : outcome'[r] # "unsent"
    BY <2>3, <2>4 DEF WorkInv, TypeOK
  <2>7. \A v \in Slots : \A r \in req'[v] :
          /\ phase'[v] \in {"persist", "persist_image", "report"} => r \in worked
          /\ phase'[v] \in {"persist", "persist_image", "predict", "predict_image"} =>
                \A i \in Images : <<r, i>> \notin disk'
    BY <1>3, <2>4 DEF WorkInv, HandInv
  <2> QED BY <1>2, <1>4, <2>4, <2>5, <2>6, <2>7 DEF WorkInv
<1> QED BY <1>1, <1>5, <1>6

(* The other steps of a worker with its request.                            *)
LEMMA OtherWork ==
    ASSUME TypeOK, HandInv, WorkInv, NEW w \in Slots,
           \/ Kill(w) \/ GetDetector(w) \/ InferFails(w) \/ Report(w)
           \/ SetRead(w) \/ SetTruncate(w) \/ SetDump(w)
    PROVE  HandInv' /\ WorkInv'
<1>1. UNCHANGED <<disk, worked>>
  BY DEF Kill, GetDetector, InferFails, Report, SetRead, SetTruncate, SetDump, logging
<1>2. {"ok", "internal", "dropped", "saved"} \subseteq Outcomes \ {"unsent"}
  BY DEF Outcomes
<1>3. CASE Kill(w)
  <2>1. Answered(w, "dropped")
    BY <1>3 DEF Kill, Answered
  <2> QED BY <1>1, <1>2, <2>1, AnswerWork
<1>4. CASE GetDetector(w)
  <2>1. CASE Answer(w, "internal")
    <3>1. Answered(w, "internal") /\ phase[w] \in {"predict", "predict_image"}
      BY <1>4, <2>1 DEF Answer, Answered, GetDetector
    <3> QED BY <1>1, <1>2, <3>1, AnswerWork
  <2>2. CASE UNCHANGED <<hand, outcome>>
    BY <1>1, <2>2 DEF hand, HandInv, WorkInv, AnswersTruthful
  <2> QED BY <1>4, <2>1, <2>2 DEF GetDetector
<1>5. CASE InferFails(w)
  <2>1. Answered(w, "internal") /\ phase[w] \in {"predict", "predict_image"}
    BY <1>5 DEF Answer, Answered, InferFails
  <2> QED BY <1>1, <1>2, <2>1, AnswerWork
<1>6. CASE Report(w)
  <2>1. Answered(w, "ok") /\ phase[w] = "report"
    BY <1>6 DEF Answer, Answered, Report
  <2> QED BY <1>1, <1>2, <2>1, AnswerWork
<1>7. CASE SetDump(w)
  <2>1. Answered(w, "saved")
    BY <1>7 DEF Answer, Answered, SetDump
  <2> QED BY <1>1, <1>2, <2>1, AnswerWork
<1>8. ASSUME NEW p \in {"truncate", "dump"}, Goto(w, p) PROVE HandInv' /\ WorkInv'
  <2>1. p \in Phases \ {"idle"}
    BY DEF Phases
  <2>2. /\ HandInv'
        /\ phase'[w] = p /\ \A v \in Slots \ {w} : phase'[v] = phase[v]
        /\ req' = req /\ outcome' = outcome
    BY <1>8, <2>1, GotoHands
  <2> QED BY <1>1, <2>2 DEF WorkInv, AnswersTruthful
<1>9. CASE SetRead(w) \/ SetTruncate(w)
  BY <1>8, <1>9 DEF SetRead, SetTruncate
<1> QED BY <1>3, <1>4, <1>5, <1>6, <1>7, <1>9

(* Every step keeps what is known of requests and answers.                  *)
LEMMA NextWork == TypeOK /\ HandInv /\ WorkInv /\ [Next]_vars => HandInv' /\ WorkInv'
<1> SUFFICES ASSUME TypeOK, HandInv, WorkInv, [Next]_vars PROVE HandInv' /\ WorkInv'
  OBVIOUS
<1>1. CASE UNCHANGED <<phase, req, outcome, disk, worked>>
  BY <1>1 DEF HandInv, WorkInv, AnswersTruthful
<1>2. ASSUME NEW w \in Slots, Spawn(w) PROVE HandInv' /\ WorkInv'
  BY <1>1, <1>2 DEF Spawn, hand, logging, history
<1>3. CASE CardsVanish \/ Forward \/ \E p \in posts : Collect(p)
  BY <1>1, <1>3 DEF CardsVanish, Forward, Collect, hand, logging, history
<1>4. ASSUME NEW w \in Slots, NEW r \in Requests,
             RefuseRequest(w, r) \/ \E route \in Routes : Receive(w, r, route)
      PROVE  HandInv' /\ WorkInv'
  BY <1>4, ReceiveWork
<1>5. ASSUME NEW w \in Slots, Kill(w) \/ Serve(w) PROVE HandInv' /\ WorkInv'
  BY <1>5, InferWork, PersistWork, OtherWork DEF Serve
<1> QED BY <1>1, <1>2, <1>3, <1>4, <1>5 DEF Next, Serve, vars, hand, logging, history

(* Initially no request has been sent.                                      *)
LEMMA InitWork == Init => HandInv /\ WorkInv
BY DEF Init, HandInv, WorkInv, AnswersTruthful

(* An answer tells what was done, whichever step of whichever worker fails. *)
THEOREM AnswersAreTrue == Spec => []AnswersTruthful
<1>1. Spec => [](TypeOK /\ HandInv /\ WorkInv)
  BY InitTyped, NextTyped, InitWork, NextWork, PTL DEF Spec
<1>2. WorkInv => AnswersTruthful
  BY DEF WorkInv
<1> QED BY <1>1, <1>2, PTL
-----------------------------------------------------------------------------
(* Logs.                                                                    *)

(* A log is about a request that was worked on and answered; there is one   *)
(* of it, on its way, at the log server or recorded.                        *)
Past(r) == r \in worked /\ \A w \in Slots : r \notin req[w]

LogInv ==
    /\ \A p \in posts : Past(p.task_id)
    /\ \A j \in srv : Past(j.log.task_id)
    /\ \A e \in records : Past(e.log.task_id)
    /\ \A p, q \in posts : p.task_id = q.task_id => p = q
    /\ \A j \in srv, p \in posts : j.log.task_id # p.task_id
    /\ \A e \in records, p \in posts : e.log.task_id # p.task_id
    /\ \A e \in records, j \in srv : e.log.task_id # j.log.task_id
    /\ \A i, j \in srv : i = j
    /\ \A j \in srv : \A i \in j.named : <<j.log.task_id, i>> \in objects
    /\ RecordsPointToObjects

(* The requests in hand change, but no answered one comes back.             *)
LEMMA PastKept ==
    ASSUME TypeOK, HandInv, WorkInv, [Next]_vars
    PROVE  \A r \in Requests : Past(r) => Past(r)'
<1> SUFFICES ASSUME NEW r \in Requests, Past(r) PROVE r \in worked' /\ \A v \in Slots : r \notin req'[v]
  BY DEF Past
<1>1. worked \subseteq worked'
  <2>1. ASSUME NEW w \in Slots, Infer(w) PROVE worked \subseteq worked'
    BY <2>1 DEF Infer
  <2>2. ASSUME NEW w \in Slots, ~Infer(w),
               \/ Spawn(w) \/ Kill(w) \/ Serve(w)
               \/ \E q \in Requests : RefuseRequest(w, q) \/ \E route \in Routes : Receive(w, q, route)
        PROVE  worked' = worked
    BY <2>2 DEF Spawn, Kill, Serve, RefuseRequest, Receive, GetDetector, InferFails, Persist,
                PersistImage, Report, SetRead, SetTruncate, SetDump, history
  <2>3. CASE CardsVanish \/ Forward \/ \E p \in posts : Collect(p)
    BY <2>3 DEF CardsVanish, Forward, Collect, history
  <2> QED BY <2>1, <2>2, <2>3 DEF Next, Serve, vars, history
<1>2. \A v \in Slots : r \notin req'[v]
  <2>1. CASE UNCHANGED req
    BY <2>1 DEF Past
  <2>2. ASSUME NEW w \in Slots, req' = [req EXCEPT ![w] = {}] PROVE \A v \in Slots : r \notin req'[v]
    BY <2>2 DEF Past, TypeOK
  <2>3. ASSUME NEW w \in Slots, NEW q \in Requests, NEW route \in Routes, Receive(w, q, route)
        PROVE  \A v \in Slots : r \notin req'[v]
    <3>1. q # r
      BY <2>3 DEF Receive, WorkInv, Past
    <3> QED BY <2>3, <3>1 DEF Receive, Past, TypeOK
  <2>4. ASSUME NEW w \in Slots, Kill(w) \/ Serve(w) PROVE \A v \in Slots : r \notin req'[v]
    BY <2>1, <2>2, <2>4 DEF Kill, Serve, GetDetector, Infer, InferFails, Persist, PersistImage,
                            Report, SetRead, SetTruncate, SetDump, Answer, Goto, hand
  <2>5. ASSUME NEW w \in Slots, Spawn(w) \/ \E q \in Requests : RefuseRequest(w, q)
        PROVE  UNCHANGED req
    BY <2>5 DEF Spawn, RefuseRequest, hand
  <2>6. CASE CardsVanish \/ Forward \/ \E p \in posts : Collect(p)
    BY <2>1, <2>6 DEF CardsVanish, Forward, Collect, hand
  <2>7. CASE UNCHANGED vars
    BY <2>1, <2>7 DEF vars, hand
  <2>8. CASE Next
    BY <2>1, <2>3, <2>4, <2>5, <2>6, <2>8 DEF Next, Serve
  <2> QED BY <2>7, <2>8
<1> QED BY <1>1, <1>2 DEF Past

(* Sending, collecting and forwarding a log.                                *)
LEMMA LogStep ==
    ASSUME TypeOK, HandInv, WorkInv, LogInv, \A r \in Requests : Past(r) => Past(r)',
           (\E w \in Slots : Report(w)) \/ Forward \/ \E p \in posts : Collect(p)
    PROVE  LogInv'
<1>1. \A p \in posts : p.task_id \in Requests
  BY DEF TypeOK
<1>2. \A j \in srv : j.log.task_id \in Requests
  BY DEF TypeOK
<1>3. \A e \in records : e.log.task_id \in Requests
  BY DEF TypeOK
<1>4. ASSUME NEW w \in Slots, Report(w) PROVE LogInv'
  <2>1. UNCHANGED <<srv, records, objects>> /\ worked' = worked
    BY <1>4 DEF Report
  <2>2. CASE posts' = posts
    BY <1>1, <1>2, <1>3, <2>1, <2>2 DEF LogInv, RecordsPointToObjects
  <2>3. ASSUME NEW r \in req[w], posts' = posts \cup {Payload(w, r)} PROVE LogInv'
    <3>1. Payload(w, r).task_id = r /\ r \in Requests
      BY DEF Payload, TypeOK
    <3>2. r \in worked /\ \A v \in Slots \ {w} : r \notin req[v]
      BY <1>4, <2>3 DEF Report, WorkInv, HandInv
    <3>3. req'[w] = {} /\ \A v \in Slots \ {w} : req'[v] = req[v]
      BY <1>4 DEF Report, Answer, TypeOK
    <3>4. Past(r)' /\ ~Past(r)
      BY <2>1, <3>2, <3>3 DEF Past
    <3>5. \A p \in posts' : p \in posts \/ (p.task_id = r /\ p = Payload(w, r))
      BY <2>3, <3>1
    <3>6. (\A p \in posts : p.task_id # r) /\ (\A j \in srv : j.log.task_id # r)
          /\ (\A e \in records : e.log.task_id # r)
      BY <3>4 DEF LogInv
    <3>7. \A p \in posts' : Past(p.task_id)'
      BY <1>1, <3>4, <3>5 DEF LogInv
    <3>8. \A p, q \in posts' : p.task_id = q.task_id => p = q
      BY <3>5, <3>6 DEF LogInv
    <3>9. (\A j \in srv : Past(j.log.task_id)') /\ (\A e \in records : Past(e.log.task_id)')
      BY <1>2, <1>3 DEF LogInv
    <3>10. /\ \A j \in srv, p \in posts' : j.log.task_id # p.task_id
           /\ \A e \in records, p \in posts' : e.log.task_id # p.task_id
      BY <3>5, <3>6 DEF LogInv
    <3> QED BY <2>1, <3>7, <3>8, <3>9, <3>10 DEF LogInv, RecordsPointToObjects
  <2> QED BY <1>4, <2>2, <2>3 DEF Report
<1>5. ASSUME NEW p \in posts, Collect(p) PROVE LogInv'
  <2> DEFINE named(stored) == {i \in Images : UploadFile(p.task_id, i, stored)}
  <2>1. PICK stored \in Saved :
          /\ objects' = objects \cup {<<p.task_id, i>> : i \in {j \in stored : <<p.task_id, j>> \in disk}}
          /\ srv' = {[log |-> p, named |-> named(stored)]}
    BY <1>5 DEF Collect
  <2>2. srv = {} /\ posts' = posts \ {p} /\ UNCHANGED records /\ worked' = worked /\ req' = req
    BY <1>5 DEF Collect, history, hand
  <2>3. \A i \in named(stored) : <<p.task_id, i>> \in objects'
    BY <2>1 DEF UploadFile
  <2> HIDE DEF named
  <2>4. \A j \in srv' : j.log = p /\ j.named = named(stored)
    BY <2>1
  <2>5. \A i, j \in srv' : i = j
    BY <2>1
  <2>6. objects \subseteq objects'
    BY <2>1
  <2>7. \A r : Past(r)' = Past(r)
    BY <2>2 DEF Past
  <2>8. RecordsPointToObjects'
    BY <2>2, <2>6 DEF LogInv, RecordsPointToObjects
  <2>9. /\ \A q \in posts' : Past(q.task_id)'
        /\ \A j \in srv' : Past(j.log.task_id)'
        /\ \A e \in records' : Past(e.log.task_id)'
    BY <2>2, <2>4, <2>7 DEF LogInv
  <2>10. /\ \A q, r \in posts' : q.task_id = r.task_id => q = r
         /\ \A j \in srv', q \in posts' : j.log.task_id # q.task_id
         /\ \A e \in records', q \in posts' : e.log.task_id # q.task_id
         /\ \A e \in records', j \in srv' : e.log.task_id # j.log.task_id
    BY <2>2, <2>4 DEF LogInv
  <2>11. \A j \in srv' : \A i \in j.named : <<j.log.task_id, i>> \in objects'
    BY <2>3, <2>4
  <2> QED BY <2>5, <2>8, <2>9, <2>10, <2>11 DEF LogInv
<1>6. CASE Forward
  <2> DEFINE Sent(j) == [log |-> j.log,
                         named |-> IF ~HasData(j.log) /\ ~UploadFlag THEN {} ELSE j.named]
  <2>1. /\ srv' = {} /\ UNCHANGED <<posts, objects>> /\ worked' = worked /\ req' = req
    BY <1>6 DEF Forward, history, hand
  <2>2. \A r : Past(r)' = Past(r)
    BY <2>1 DEF Past
  <2>3. PICK job \in srv : \A e \in records' :
          e \in records \/ (e.log = job.log /\ e.named \subseteq job.named /\ e = Sent(job))
    <3>1. PICK job \in srv : records' = records \cup {Sent(job)} \/ records' = records
      BY <1>6 DEF Forward
    <3>2. Sent(job).log = job.log /\ Sent(job).named \subseteq job.named
      OBVIOUS
    <3> HIDE DEF Sent
    <3> QED BY <3>1, <3>2
  <2>4. \A e \in records : e.log.task_id # job.log.task_id
    BY DEF LogInv
  <2>5. \A e, f \in records' : f.log.task_id = e.log.task_id => f = e
    BY <2>3, <2>4 DEF LogInv, RecordsPointToObjects
  <2>6. \A e \in records' : e.log.task_id \in worked /\ \A i \in e.named : <<e.log.task_id, i>> \in objects
    BY <2>3 DEF LogInv, RecordsPointToObjects, Past
  <2>7. \A e \in records' : Past(e.log.task_id)
    BY <2>3 DEF LogInv
  <2>8. \A e \in records', p \in posts : e.log.task_id # p.task_id
    BY <2>3 DEF LogInv
  <2> QED BY <2>1, <2>2, <2>5, <2>6, <2>7, <2>8 DEF LogInv, RecordsPointToObjects
<1> QED BY <1>4, <1>5, <1>6

(* Every step keeps what is known of logs.                                  *)
LEMMA NextLog == TypeOK /\ HandInv /\ WorkInv /\ LogInv /\ [Next]_vars => LogInv'
<1> SUFFICES ASSUME TypeOK, HandInv, WorkInv, LogInv, [Next]_vars PROVE LogInv'
  OBVIOUS
<1>1. \A r \in Requests : Past(r) => Past(r)'
  BY PastKept
<1>2. CASE UNCHANGED <<posts, srv, records, objects>>
  <2>1. /\ \A p \in posts : p.task_id \in Requests
        /\ \A j \in srv : j.log.task_id \in Requests
        /\ \A e \in records : e.log.task_id \in Requests
    BY DEF TypeOK
  <2>2. /\ \A p \in posts' : Past(p.task_id)'
        /\ \A j \in srv' : Past(j.log.task_id)'
        /\ \A e \in records' : Past(e.log.task_id)'
    BY <1>1, <1>2, <2>1 DEF LogInv
  <2>3. RecordsPointToObjects'
    BY <1>2, <2>2 DEF LogInv, RecordsPointToObjects, Past
  <2> QED BY <1>2, <2>2, <2>3 DEF LogInv
<1>3. CASE (\E w \in Slots : Report(w)) \/ Forward \/ \E p \in posts : Collect(p)
  BY <1>1, <1>3, LogStep
<1>4. ASSUME NEW w \in Slots, Spawn(w) \/ Kill(w) \/ Serve(w), ~Report(w)
      PROVE  UNCHANGED <<posts, srv, records, objects>>
  BY <1>4 DEF Spawn, Kill, Serve, GetDetector, Infer, InferFails, Persist,
              PersistImage, SetRead, SetTruncate, SetDump, logging
<1>5. ASSUME NEW w \in Slots, NEW r \in Requests,
             RefuseRequest(w, r) \/ \E route \in Routes : Receive(w, r, route)
      PROVE  UNCHANGED <<posts, srv, records, objects>>
  BY <1>5 DEF RefuseRequest, Receive, logging
<1>6. CASE CardsVanish
  BY <1>2, <1>6 DEF CardsVanish, logging
<1> QED BY <1>2, <1>3, <1>4, <1>5, <1>6 DEF Next, Serve, vars, logging

(* Kafka's records name only what is in MinIO, one for each request that    *)
(* was worked on, with any number of workers, losses and kills.             *)
THEOREM RecordsAreTrue == Spec => []RecordsPointToObjects
<1>1. Init => LogInv
  BY DEF Init, LogInv, RecordsPointToObjects
<1>2. Spec => [](TypeOK /\ HandInv /\ WorkInv /\ LogInv)
  BY <1>1, InitTyped, NextTyped, InitWork, NextWork, NextLog, PTL DEF Spec
<1>3. LogInv => RecordsPointToObjects
  BY DEF LogInv
<1> QED BY <1>2, <1>3, PTL
-----------------------------------------------------------------------------
(* The settings.                                                            *)

(* The settings whose requests were told so.                                *)
Stored == {r \in Requests : outcome[r] = "saved"}

Writing == {"truncate", "dump"}

(* Untangled, one worker at most writes the file, and it holds everything   *)
(* stored before and its own setting.                                       *)
FlagInv ==
    ~tangled =>
        /\ \A v, w \in Slots : phase[v] \in Writing /\ phase[w] \in Writing => v = w
        /\ (\A w \in Slots : phase[w] # "dump") => flags = Stored
        /\ \A w \in Slots : phase[w] \in Writing => current[w] = Stored \union req[w]

(* A step that ends or moves the request of a worker, outside the settings. *)
LEMMA FlagsKept ==
    ASSUME TypeOK, HandInv, FlagInv, UNCHANGED <<current, flags, tangled>>,
           \A r \in Requests : (outcome'[r] = "saved") <=> (outcome[r] = "saved"),
           \A v \in Slots : phase'[v] \in Writing =>
                                phase[v] \in Writing /\ phase'[v] = phase[v] /\ req'[v] = req[v],
           \A v \in Slots : phase[v] = "dump" => phase'[v] = "dump"
    PROVE  FlagInv'
<1>1. Stored' = Stored
  BY DEF Stored
<1> QED BY <1>1 DEF FlagInv

(* The steps of set_flag.                                                   *)
LEMMA SettingsStep ==
    ASSUME TypeOK, HandInv, FlagInv, NEW w \in Slots, SetRead(w) \/ SetTruncate(w) \/ SetDump(w)
    PROVE  FlagInv'
<1> USE DEF Writing
<1>1. CASE SetRead(w)
  <2>1. /\ phase[w] = "read" /\ phase'[w] = "truncate" /\ req' = req /\ outcome' = outcome
        /\ \A v \in Slots \ {w} : phase'[v] = phase[v] /\ current'[v] = current[v]
        /\ current'[w] = flags \union req[w] /\ flags' = flags
        /\ tangled' = (tangled \/ Elsewhere(w))
    BY <1>1 DEF SetRead, Goto, TypeOK, Merged, Setting
  <2>2. Stored' = Stored
    BY <2>1 DEF Stored
  <2>3. CASE ~tangled'
    <3>1. ~tangled /\ \A v \in Slots \ {w} : phase[v] \notin Writing
      BY <2>1, <2>3 DEF Elsewhere
    <3>2. flags = Stored
      BY <2>1, <3>1 DEF FlagInv
    <3> QED BY <2>1, <2>2, <3>1, <3>2 DEF FlagInv
  <2> QED BY <2>3 DEF FlagInv
<1>2. CASE SetTruncate(w)
  <2>1. /\ phase[w] = "truncate" /\ phase'[w] = "dump" /\ req' = req /\ outcome' = outcome
        /\ (\A v \in Slots \ {w} : phase'[v] = phase[v]) /\ current' = current
        /\ tangled' = tangled
    BY <1>2 DEF SetTruncate, Goto, TypeOK
  <2>2. Stored' = Stored
    BY <2>1 DEF Stored
  <2> QED BY <2>1, <2>2 DEF FlagInv
<1>3. CASE SetDump(w)
  <2>1. /\ phase[w] = "dump" /\ phase'[w] = "idle" /\ req'[w] = {} /\ flags' = current[w]
        /\ \A v \in Slots \ {w} : phase'[v] = phase[v] /\ req'[v] = req[v]
        /\ tangled' = tangled
        /\ \A r \in Requests : outcome'[r] = IF r \in req[w] THEN "saved" ELSE outcome[r]
    BY <1>3 DEF SetDump, Answer, TypeOK
  <2>2. Stored' = Stored \union req[w]
    BY <2>1 DEF Stored, TypeOK
  <2>3. CASE ~tangled
    <3>1. current[w] = Stored \union req[w] /\ \A v \in Slots \ {w} : phase[v] \notin Writing
      BY <2>1, <2>3 DEF FlagInv
    <3> QED BY <2>1, <2>2, <3>1 DEF FlagInv
  <2> QED BY <2>1, <2>3 DEF FlagInv
<1> QED BY <1>1, <1>2, <1>3

(* The other steps of a worker do not write the file.                       *)
LEMMA OtherFlags ==
    ASSUME TypeOK, HandInv, FlagInv, NEW w \in Slots,
           \/ Spawn(w) \/ GetDetector(w) \/ Infer(w) \/ InferFails(w)
           \/ Persist(w) \/ PersistImage(w) \/ Report(w)
           \/ \E r \in Requests : RefuseRequest(w, r) \/ \E route \in Routes : Receive(w, r, route)
    PROVE  FlagInv'
<1> USE DEF Writing
<1>1. UNCHANGED <<current, flags, tangled>>
  BY DEF Spawn, GetDetector, Infer, InferFails, Persist, PersistImage, Report, RefuseRequest, Receive, setflag
<1>2. CASE UNCHANGED <<phase, req, outcome>>
  BY <1>1, <1>2, FlagsKept
<1>3. ASSUME NEW code \in Outcomes \ {"saved"}, Answer(w, code), phase[w] \notin Writing PROVE FlagInv'
  <2>1. /\ phase'[w] = "idle" /\ \A v \in Slots \ {w} : phase'[v] = phase[v] /\ req'[v] = req[v]
        /\ \A r \in Requests : outcome'[r] = IF r \in req[w] THEN code ELSE outcome[r]
    BY <1>3 DEF Answer, TypeOK
  <2>2. \A r \in req[w] : outcome[r] # "saved"
    BY DEF HandInv
  <2>3. \A r \in Requests : (outcome'[r] = "saved") <=> (outcome[r] = "saved")
    BY <2>1, <2>2
  <2> QED BY <1>1, <1>3, <2>1, <2>3, FlagsKept
<1>4. ASSUME NEW p \in Phases \ Writing, Goto(w, p), phase[w] \notin Writing PROVE FlagInv'
  <2>1. /\ phase'[w] = p /\ (\A v \in Slots \ {w} : phase'[v] = phase[v])
        /\ req' = req /\ outcome' = outcome
    BY <1>4 DEF Goto, TypeOK
  <2> QED BY <1>1, <1>4, <2>1, FlagsKept
<1>5. ASSUME NEW r \in Requests, RefuseRequest(w, r) \/ \E route \in Routes : Receive(w, r, route)
      PROVE  FlagInv'
  <2>1. /\ outcome[r] = "unsent" /\ phase[w] = "idle"
        /\ \A q \in Requests \ {r} : outcome'[q] = outcome[q]
        /\ outcome'[r] \in {"param", "pending"}
    BY <1>5 DEF RefuseRequest, Receive, TypeOK
  <2>2. \A q \in Requests : (outcome'[q] = "saved") <=> (outcome[q] = "saved")
    BY <2>1
  <2>3. /\ \A v \in Slots \ {w} : phase'[v] = phase[v] /\ req'[v] = req[v]
        /\ phase'[w] \notin Writing
    BY <1>5 DEF RefuseRequest, Receive, Routes, TypeOK, hand
  <2> QED BY <1>1, <2>1, <2>2, <2>3, FlagsKept
<1>6. {"persist", "persist_image", "report"} \subseteq Phases /\ {"ok", "internal"} \subseteq Outcomes
  BY DEF Phases, Outcomes
<1>7. CASE Spawn(w)
  BY <1>2, <1>7 DEF Spawn, hand, history
<1>8. CASE GetDetector(w) \/ InferFails(w)
  <2>1. phase[w] \notin Writing /\ (Answer(w, "internal") \/ UNCHANGED <<phase, req, outcome>>)
    BY <1>8 DEF GetDetector, InferFails, hand
  <2> QED BY <1>2, <1>3, <1>6, <2>1
<1>9. CASE Infer(w)
  <2>1. /\ phase[w] \notin Writing
        /\ \/ Answer(w, "internal")
           \/ \E p \in {"persist", "persist_image"} : Goto(w, p)
    BY <1>9 DEF Infer
  <2> QED BY <1>3, <1>4, <1>6, <2>1
<1>10. CASE Persist(w) \/ PersistImage(w) \/ Report(w)
  <2>1. /\ phase[w] \notin Writing
        /\ Goto(w, "report") \/ \E code \in {"ok", "internal"} : Answer(w, code)
    BY <1>10 DEF Persist, PersistImage, Report
  <2> QED BY <1>3, <1>4, <1>6, <2>1
<1> QED BY <1>5, <1>7, <1>8, <1>9, <1>10

(* A worker that ends while it writes tangles the file.                     *)
LEMMA KillFlags ==
    ASSUME TypeOK, HandInv, FlagInv, NEW w \in Slots, Kill(w)
    PROVE  FlagInv'
<1>1. /\ phase'[w] = "idle" /\ \A v \in Slots \ {w} : phase'[v] = phase[v] /\ req'[v] = req[v]
      /\ \A v \in Slots \ {w} : current'[v] = current[v]
      /\ \A r \in Requests : outcome'[r] = IF r \in req[w] THEN "dropped" ELSE outcome[r]
      /\ flags' = flags /\ tangled' = (tangled \/ phase[w] = "dump")
  BY DEF Kill, TypeOK
<1>2. \A r \in req[w] : outcome[r] # "saved"
  BY DEF HandInv
<1>3. Stored' = Stored
  BY <1>1, <1>2 DEF Stored
<1> QED BY <1>1, <1>3 DEF FlagInv, Writing

(* Every step keeps what is known of the settings.                          *)
LEMMA NextFlags == TypeOK /\ HandInv /\ FlagInv /\ [Next]_vars => FlagInv'
<1> SUFFICES ASSUME TypeOK, HandInv, FlagInv, [Next]_vars PROVE FlagInv'
  OBVIOUS
<1>1. CASE UNCHANGED <<current, flags, tangled, phase, req, outcome>>
  BY <1>1, FlagsKept
<1>2. CASE CardsVanish \/ Forward \/ \E p \in posts : Collect(p)
  BY <1>1, <1>2 DEF CardsVanish, Forward, Collect, setflag, hand, history
<1>3. CASE UNCHANGED vars
  BY <1>1, <1>3 DEF vars, setflag, hand, history
<1> QED BY <1>2, <1>3, KillFlags, SettingsStep, OtherFlags DEF Next

(* With any number of workers, settings add up as long as the requests for  *)
(* them do not overlap and no worker ends while it writes.                  *)
THEOREM SettingsAddUp == Spec => []FlagsAccumulate
<1>1. Init => FlagInv
  BY DEF Init, FlagInv, Stored, Writing
<1>2. Spec => [](TypeOK /\ HandInv /\ WorkInv /\ FlagInv)
  BY <1>1, InitTyped, NextTyped, InitWork, NextWork, NextFlags, PTL DEF Spec
<1>3. FlagInv => FlagsAccumulate
  BY DEF FlagInv, FlagsAccumulate, Stored
<1> QED BY <1>2, <1>3, PTL
=============================================================================
