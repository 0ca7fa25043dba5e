------------------------- MODULE EventStreamProofs -------------------------
(***************************************************************************)
(* Theorems about EventStream while executions of the job do not overlap:  *)
(* for any number of runs, events, connections and status writes.          *)
(***************************************************************************)
EXTENDS EventStream, TLAPS

USE StreamAssumption

(* The rows are numbered 1..n, each number once. *)
Numbered(n) ==
    /\ n \in Nat
    /\ \A e \in rows : e.seq \in 1..n
    /\ \A s \in 1..n : \E e \in rows : e.seq = s
    /\ StrictSequence

Last == NextSequence - 1

(* next_sequence counts rows numbered 1..n. *)
LEMMA NextIsCount ==
    ASSUME NEW n, Numbered(n)
    PROVE  NextSequence = n + 1 /\ Last = n
<1>1. CASE rows = {}
  BY <1>1 DEF Numbered, NextSequence, Last
<1>2. CASE rows # {}
  <2>1. n \in {e.seq : e \in rows} /\ \A e \in rows : e.seq <= n
    BY <1>2 DEF Numbered
  <2>2. PICK s \in {e.seq : e \in rows} :
            /\ \A e \in rows : e.seq <= s
            /\ NextSequence = 1 + s
    BY <1>2, <2>1 DEF NextSequence
  <2>3. s = n
    BY <2>1, <2>2 DEF Numbered
  <2> QED BY <2>2, <2>3 DEF Numbered, Last
<1> QED BY <1>1, <1>2

(* One run at a time; what it is about to insert is the next number. *)
RunInv ==
    /\ \A q, r \in Runs : Active(q) /\ Active(r) => q = r
    /\ \E n \in Nat : Numbered(n)
    /\ \A r \in Runs : run[r] = "insert" => next[r] = NextSequence

(* The frames on the wire continue what the client has read, the batch      *)
(* continues the frames, and the page has everything up to lastId.         *)
ReadInv ==
    /\ lastId <= Last /\ at <= lastId
    /\ \A e \in shown : e.seq <= lastId
    /\ \A e \in rows : e.seq <= lastId => e \in shown
    /\ SendsHeader /\ cli = "open" => at = lastId

WireInv ==
    /\ \A i \in 1..Len(wire) : wire[i].seq = at + i
    /\ cli = "open" => pos = at + Len(wire) /\ pos <= Last
    /\ cli # "open" => wire = <<>>

BatchInv ==
    /\ srv # "send" => batch = {}
    /\ \A e \in batch : e.seq > pos
    /\ \A e \in rows, f \in batch : pos < e.seq /\ e.seq < f.seq => e \in batch

EndInv ==
    /\ CompleteAtEnd
    /\ srv = "closed" => \A e \in closing : e.seq <= pos

StreamInv == RunInv /\ ReadInv /\ WireInv /\ BatchInv /\ EndInv
-----------------------------------------------------------------------------
(* Types and the runs.                                                     *)

(* A sequence over a set is one over any larger set. *)
LEMMA SeqGrows ==
    ASSUME NEW S, NEW T, S \subseteq T, NEW q \in Seq(S)
    PROVE  q \in Seq(T)
<1>1. /\ Len(q) \in Nat
      /\ \A i \in 1..Len(q) : q[i] \in T
      /\ q = [i \in 1..Len(q) |-> q[i]]
  OBVIOUS
<1> QED BY <1>1

(* The initial state. *)
LEMMA InitInv == Init => TypeOK /\ StreamInv
<1> SUFFICES ASSUME Init PROVE TypeOK /\ StreamInv
  OBVIOUS
<1>1. Numbered(0)
  BY DEF Init, Numbered, StrictSequence
<1>2. NextSequence = 1 /\ Last = 0
  BY <1>1, NextIsCount
<1>3. RunInv
  BY <1>1 DEF Init, RunInv, Active
<1> QED BY <1>2, <1>3 DEF Init, TypeOK, StreamInv, ReadInv, WireInv, BatchInv, EndInv, CompleteAtEnd,
        Waiting

(* A step changes the rows by the insert of one run only. *)
LEMMA RowsKeep ==
    ASSUME [Next]_vars, \A r \in Runs : ~InsertEvent(r)
    PROVE  UNCHANGED rows
  BY DEF Next, RunStep, StartRun, ReadLast, WriteFinal, RunDies, ApiWrite, ServerStep, ListEvents,
     SendEvent, ReadStatus, CheckMore, ClientStep, Connect, Receive, StreamEnds, Disconnected,
     ConnectionBreaks, Stop, vars, dbVars

(* Every step keeps the types; the number of the next row has to be one.   *)
LEMMA TypeStep ==
    ASSUME TypeOK, RunInv, [Next]_vars
    PROVE  TypeOK'
<1>0. NextSequence \in Nat \ {0}
  BY NextIsCount DEF RunInv, Numbered
<1>1. ASSUME NEW r \in Runs, RunStep(r) PROVE TypeOK'
  <2>1. CASE StartRun(r)
    BY <2>1 DEF StartRun, TypeOK, srvVars, cliVars, counts
  <2>2. CASE ReadLast(r)
    BY <1>0, <2>2 DEF ReadLast, TypeOK, dbVars, srvVars, cliVars, counts
  <2>3. CASE InsertEvent(r)
    <3>1. [run |-> r, seq |-> next[r]] \in Event
      BY <1>0, <2>3 DEF InsertEvent, RunInv, Event
    <3>2. rows \subseteq rows' /\ rows' \in SUBSET Event
      BY <2>3, <3>1 DEF InsertEvent, TypeOK
    <3>3. wire' \in Seq(rows')
      BY <2>3, <3>2, SeqGrows DEF InsertEvent, TypeOK
    <3>4. run' \in [Runs -> {"off", "read", "insert", "final", "ended"}]
      BY <2>3 DEF InsertEvent, TypeOK
    <3> QED BY <2>3, <3>2, <3>3, <3>4 DEF InsertEvent, TypeOK, srvVars, cliVars, counts
  <2>4. CASE WriteFinal(r) \/ RunDies(r)
    BY <2>4 DEF WriteFinal, RunDies, TypeOK, dbVars, srvVars, cliVars, counts
  <2> QED BY <1>1, <2>1, <2>2, <2>3, <2>4 DEF RunStep
<1>2. CASE ApiWrite
  BY <1>2 DEF ApiWrite, TypeOK, runVars, srvVars, cliVars
<1>3. CASE ServerStep
  <2>1. CASE ListEvents
    BY <2>1 DEF ListEvents, RowsAfter, TypeOK, dbVars, runVars, cliVars, counts
  <2>2. CASE SendEvent
    <3>1. PICK e \in batch : wire' = Append(wire, e) /\ pos' = e.seq /\ batch' = batch \ {e}
      BY <2>2 DEF SendEvent
    <3>2. e \in rows /\ e.seq \in Nat
      BY <3>1 DEF TypeOK, Event
    <3> QED BY <2>2, <3>1, <3>2 DEF SendEvent, TypeOK, dbVars, runVars, cliVars, counts
  <2>3. CASE ReadStatus \/ CheckMore
    BY <2>3 DEF ReadStatus, CheckMore, TypeOK, dbVars, runVars, cliVars, counts
  <2> QED BY <1>3, <2>1, <2>2, <2>3 DEF ServerStep
<1>4. CASE Connect
  BY <1>4 DEF Connect, TypeOK, Waiting, dbVars, runVars, counts
<1>5. CASE Receive
  <2>1. Head(wire) \in rows /\ Tail(wire) \in Seq(rows) /\ Head(wire).seq \in Nat
    BY <1>5 DEF Receive, TypeOK, Event
  <2> QED BY <1>5, <2>1 DEF Receive, TypeOK, dbVars, runVars, srvVars, counts
<1>6. CASE StreamEnds \/ ConnectionBreaks \/ Stop
  <2>1. breaks' \in 0..MaxBreaks
    BY <1>6 DEF StreamEnds, ConnectionBreaks, Stop, TypeOK, counts
  <2>2. ASSUME NEW why \in Waiting \cup {"stopped"}, Disconnected(why) PROVE TypeOK'
    BY <2>1, <2>2 DEF Disconnected, TypeOK, Waiting, dbVars, runVars
  <2>3. CASE cli \in Waiting /\ Stop
    BY <2>3 DEF Stop, Disconnected, TypeOK, Waiting, dbVars, runVars, srvVars, counts
  <2>4. CASE ~(cli \in Waiting /\ Stop)
    BY <1>6, <2>2, <2>4 DEF StreamEnds, ConnectionBreaks, Stop, Waiting
  <2> QED BY <2>3, <2>4
<1>7. CASE UNCHANGED vars
  BY <1>7 DEF vars, TypeOK, dbVars, runVars, srvVars, cliVars, counts
<1> QED BY <1>1, <1>2, <1>3, <1>4, <1>5, <1>6, <1>7 DEF Next, ClientStep

(* Without overlap the rows stay numbered: nobody inserts between the read *)
(* of the last number and the insert.                                      *)
LEMMA RunInvStep ==
    ASSUME ~Overlap, TypeOK, RunInv, [Next]_vars
    PROVE  RunInv' /\ Last \in Nat /\ Last' \in {Last, Last + 1}
<1>0. PICK n \in Nat : Numbered(n)
  BY DEF RunInv
<1>1. NextSequence = n + 1 /\ Last = n
  BY <1>0, NextIsCount
<1>2. ASSUME UNCHANGED rows PROVE Numbered(n)' /\ NextSequence' = NextSequence /\ Last' = Last
  BY <1>0, <1>2 DEF Numbered, StrictSequence, NextSequence, Last
<1>3. ASSUME NEW r \in Runs, StartRun(r) PROVE RunInv'
  <2>1. \A q \in Runs : Active(q)' => q = r
    BY <1>3 DEF StartRun, Active, TypeOK
  <2> QED BY <1>2, <1>3, <2>1 DEF StartRun, RunInv, TypeOK
<1>4. ASSUME NEW r \in Runs, ReadLast(r) PROVE RunInv'
  <2>1. \A q \in Runs : Active(q)' => Active(q)
    BY <1>4 DEF ReadLast, Active, TypeOK
  <2>2. \A q \in Runs : run'[q] = "insert" => q = r \/ run[q] = "insert"
    BY <1>4 DEF ReadLast, TypeOK
  <2> QED BY <1>2, <1>4, <2>1, <2>2 DEF ReadLast, RunInv, TypeOK, dbVars
<1>5. ASSUME NEW r \in Runs, InsertEvent(r)
      PROVE  RunInv' /\ Last' = Last + 1
  <2>1. next[r] = n + 1 /\ rows' = rows \cup {[run |-> r, seq |-> n + 1]}
    BY <1>1, <1>5 DEF InsertEvent, RunInv
  <2>2. Numbered(n + 1)'
    <3>1. \A e \in rows' : e.seq \in 1..(n + 1)
      BY <1>0, <2>1 DEF Numbered
    <3>2. \A s \in 1..(n + 1) : \E e \in rows' : e.seq = s
      <4> SUFFICES ASSUME NEW s \in 1..(n + 1) PROVE \E e \in rows' : e.seq = s
        OBVIOUS
      <4>1. CASE s \in 1..n
        BY <1>0, <2>1, <4>1 DEF Numbered
      <4>2. CASE s = n + 1
        <5>1. [run |-> r, seq |-> n + 1].seq = n + 1 /\ [run |-> r, seq |-> n + 1] \in rows'
          BY <2>1
        <5> QED BY <4>2, <5>1
      <4> QED BY <4>1, <4>2
    <3>3. StrictSequence'
      BY <1>0, <2>1 DEF Numbered, StrictSequence
    <3> QED BY <3>1, <3>2, <3>3 DEF Numbered
  <2>3. Last' = n + 1
    <3>1. NextSequence' = (n + 1) + 1
      <4>1. /\ n + 1 \in {e.seq : e \in rows'}
            /\ \A e \in rows' : e.seq \in Nat /\ e.seq <= n + 1
            /\ rows' # {}
        BY <2>1, <2>2 DEF Numbered
      <4>2. PICK s \in {e.seq : e \in rows'} :
                 /\ \A e \in rows' : e.seq <= s
                 /\ NextSequence' = 1 + s
        BY <4>1 DEF NextSequence
      <4> QED BY <4>1, <4>2
    <3> QED BY <3>1 DEF Last
  <2>4. \A q \in Runs : (Active(q)' => Active(q)) /\ run'[q] # "insert"
    BY <1>5 DEF InsertEvent, Active, RunInv, TypeOK
  <2> QED BY <1>1, <2>2, <2>3, <2>4 DEF RunInv
<1>6. ASSUME NEW r \in Runs, WriteFinal(r) \/ RunDies(r) PROVE RunInv'
  <2>1. \A q \in Runs : (Active(q)' => Active(q)) /\ (run'[q] = "insert" => run[q] = "insert")
    BY <1>6 DEF WriteFinal, RunDies, Active, TypeOK
  <2> QED BY <1>2, <1>6, <2>1 DEF WriteFinal, RunDies, RunInv, dbVars
<1>7. ASSUME UNCHANGED <<rows, runVars>> PROVE RunInv'
  BY <1>2, <1>7 DEF RunInv, Active, runVars
<1>8. Last' \in {Last, Last + 1}
  BY <1>2, <1>5, RowsKeep
<1>9. ASSUME NEW r \in Runs, RunStep(r) PROVE RunInv'
  BY <1>3, <1>4, <1>5, <1>6, <1>9 DEF RunStep
<1>10. ASSUME \A r \in Runs : ~RunStep(r) PROVE RunInv'
  BY <1>7, <1>10 DEF Next, ApiWrite, ServerStep, ListEvents, SendEvent, ReadStatus, CheckMore,
     ClientStep, Connect, Receive, StreamEnds, Disconnected, ConnectionBreaks, Stop, vars, dbVars
<1> QED BY <1>1, <1>8, <1>9, <1>10
-----------------------------------------------------------------------------
(* The reader.                                                             *)

(* A step of a run, or of the API, leaves server and client alone and adds *)
(* rows only above Last.                                                   *)
LEMMA WritersKeepReaders ==
    ASSUME ~Overlap, TypeOK, StreamInv, [Next]_vars,
           (\E r \in Runs : RunStep(r)) \/ ApiWrite \/ UNCHANGED vars
    PROVE  ReadInv' /\ WireInv' /\ BatchInv' /\ EndInv'
<1>1. UNCHANGED <<srvVars, wire, cliVars>>
  BY DEF RunStep, StartRun, ReadLast, InsertEvent, WriteFinal, RunDies, ApiWrite, vars
<1>2. Last \in Nat /\ Last' \in Nat /\ Last <= Last'
  BY RunInvStep DEF StreamInv
<1>3. \A e \in rows' : e.seq \in Nat /\ (e \in rows \/ e.seq > Last)
  <2>0. \A e \in rows : e.seq \in Nat
    BY DEF TypeOK, Event
  <2>1. CASE UNCHANGED rows
    BY <2>0, <2>1
  <2>2. ASSUME NEW r \in Runs, InsertEvent(r)
        PROVE  \A e \in rows' : e.seq \in Nat /\ (e \in rows \/ e.seq > Last)
    <3>1. rows' = rows \cup {[run |-> r, seq |-> next[r]]} /\ next[r] = NextSequence
      BY <2>2 DEF InsertEvent, StreamInv, RunInv
    <3>2. next[r] \in Nat /\ next[r] > Last
      BY <1>2, <3>1 DEF Last, TypeOK
    <3> QED BY <2>0, <3>1, <3>2
  <2> QED BY <2>1, <2>2, RowsKeep
<1>4. lastId \in Nat /\ at \in Nat /\ pos \in Nat /\ Len(wire) \in Nat
      /\ \A e \in batch \cup rows : e.seq \in Nat
  BY DEF TypeOK, Event
<1>5. ReadInv'
  BY <1>1, <1>2, <1>3, <1>4 DEF StreamInv, ReadInv, cliVars
<1>6. WireInv'
  BY <1>1, <1>2, <1>4 DEF StreamInv, WireInv, srvVars, cliVars
<1>7. BatchInv'
  <2>1. \A f \in batch : f.seq <= Last
    <3>1. PICK n \in Nat : Numbered(n) /\ Last = n
      BY NextIsCount DEF StreamInv, RunInv
    <3> QED BY <3>1 DEF TypeOK, Numbered
  <2>2. \A e \in rows', f \in batch : e.seq < f.seq => e \in rows
    BY <1>2, <1>3, <1>4, <2>1
  <2> QED BY <1>1, <2>2 DEF StreamInv, BatchInv, srvVars
<1>8. EndInv'
  BY <1>1 DEF StreamInv, EndInv, CompleteAtEnd, srvVars, cliVars
<1> QED BY <1>5, <1>6, <1>7, <1>8

(* The generator yields the next number each time. *)
LEMMA ServerKeeps ==
    ASSUME TypeOK, StreamInv, ServerStep
    PROVE  ReadInv' /\ WireInv' /\ BatchInv' /\ EndInv'
<1>1. UNCHANGED <<dbVars, cliVars>>
  BY DEF ServerStep, ListEvents, SendEvent, ReadStatus, CheckMore
<1>2. Last' = Last
  BY <1>1 DEF Last, NextSequence, dbVars
<1>3. ReadInv'
  BY <1>1, <1>2 DEF StreamInv, ReadInv, cliVars, dbVars
<1>4. cli = "open"
  BY DEF ServerStep, ListEvents, SendEvent, ReadStatus, CheckMore, TypeOK
<1>5. PICK n \in Nat : Numbered(n) /\ Last = n
  BY NextIsCount DEF StreamInv, RunInv
<1>6. /\ pos \in Nat /\ at \in Nat /\ wire \in Seq(rows) /\ Len(wire) \in Nat
      /\ pos = at + Len(wire) /\ pos <= Last
      /\ batch \subseteq rows
      /\ \A e \in rows : e.seq \in Nat /\ e.seq <= Last
  BY <1>4, <1>5 DEF TypeOK, StreamInv, WireInv, Numbered
<1>7. CASE ListEvents
  BY <1>1, <1>2, <1>3, <1>6, <1>7 DEF ListEvents, RowsAfter, StreamInv, WireInv, BatchInv, EndInv,
     CompleteAtEnd, dbVars, cliVars
<1>8. CASE SendEvent
  <2>1. PICK e \in batch : /\ \A f \in batch : e.seq <= f.seq
                           /\ wire' = Append(wire, e) /\ pos' = e.seq /\ batch' = batch \ {e}
    BY <1>8 DEF SendEvent
  <2>2. e.seq > pos /\ e \in rows
    BY <1>6, <2>1 DEF StreamInv, BatchInv
  <2>3. e.seq = pos + 1
    <3>1. PICK g \in rows : g.seq = pos + 1
      BY <1>5, <1>6, <2>2 DEF Numbered
    <3>2. g.seq < e.seq => g \in batch
      BY <1>6, <2>1, <3>1 DEF StreamInv, BatchInv
    <3> QED BY <1>6, <2>1, <2>2, <3>1, <3>2
  <2>4. WireInv'
    <3>1. Len(wire') = Len(wire) + 1
          /\ \A i \in 1..Len(wire') : wire'[i] = IF i = Len(wire) + 1 THEN e ELSE wire[i]
      BY <1>6, <2>1, <2>2
    <3>2. ASSUME NEW i \in 1..Len(wire') PROVE wire'[i].seq = at' + i
      <4>1. CASE i = Len(wire) + 1
        BY <1>1, <1>6, <2>3, <3>1, <4>1 DEF cliVars
      <4>2. CASE i \in 1..Len(wire)
        <5>1. wire[i].seq = at + i
          BY <4>2 DEF StreamInv, WireInv
        <5>2. wire'[i] = wire[i]
          BY <1>6, <3>1, <4>2
        <5> QED BY <1>1, <5>1, <5>2 DEF cliVars
      <4> QED BY <1>6, <3>1, <4>1, <4>2
    <3> QED BY <1>1, <1>2, <1>4, <1>6, <2>1, <2>2, <2>3, <3>1, <3>2 DEF WireInv, cliVars
  <2>5. BatchInv'
    <3>1. \A f \in batch' : f.seq > pos'
      <4>1. \A f \in batch' : f.seq # e.seq
        BY <1>5, <1>6, <2>1, <2>2 DEF Numbered, StrictSequence
      <4> QED BY <1>6, <2>1, <2>2, <4>1
    <3>2. \A g \in rows', f \in batch' : pos' < g.seq /\ g.seq < f.seq => g \in batch'
      BY <1>1, <1>6, <2>1, <2>2 DEF StreamInv, BatchInv, dbVars
    <3> QED BY <1>8, <3>1, <3>2 DEF SendEvent, BatchInv
  <2>6. EndInv'
    BY <1>1, <1>4, <1>8 DEF SendEvent, EndInv, CompleteAtEnd, cliVars
  <2> QED BY <1>3, <2>4, <2>5, <2>6
<1>9. CASE ReadStatus
  BY <1>1, <1>2, <1>3, <1>4, <1>6, <1>9 DEF ReadStatus, StreamInv, WireInv, BatchInv, EndInv,
     CompleteAtEnd, dbVars, cliVars
<1>10. CASE CheckMore
  <2>1. srv' = "closed" => \A e \in closing' : e.seq <= pos'
    BY <1>6, <1>10 DEF CheckMore, RowsAfter
  <2> QED BY <1>1, <1>2, <1>3, <1>4, <1>6, <1>10, <2>1 DEF CheckMore, StreamInv, WireInv, BatchInv,
          EndInv, CompleteAtEnd, dbVars, cliVars
<1> QED BY <1>7, <1>8, <1>9, <1>10 DEF ServerStep

(* The client reads the next number, or starts over. *)
LEMMA ClientKeeps ==
    ASSUME TypeOK, StreamInv, ClientStep \/ ConnectionBreaks \/ Stop
    PROVE  ReadInv' /\ WireInv' /\ BatchInv' /\ EndInv'
<1>1. UNCHANGED dbVars
  BY DEF ClientStep, Connect, Receive, StreamEnds, ConnectionBreaks, Stop, Disconnected
<1>2. Last' = Last
  BY <1>1 DEF Last, NextSequence, dbVars
<1>3. PICK n \in Nat : Numbered(n) /\ Last = n
  BY NextIsCount DEF StreamInv, RunInv
<1>4. /\ pos \in Nat /\ at \in Nat /\ lastId \in Nat /\ wire \in Seq(rows) /\ Len(wire) \in Nat
      /\ at <= lastId /\ lastId <= Last
      /\ \A e \in rows : e.seq \in Nat /\ e.seq <= Last
  BY <1>3 DEF TypeOK, StreamInv, ReadInv, Numbered
<1>5. CASE Connect
  <2>1. wire = <<>> /\ Len(wire) = 0
    BY <1>5 DEF Connect, Waiting, StreamInv, WireInv
  <2> QED BY <1>1, <1>2, <1>3, <1>4, <1>5, <2>1 DEF Connect, Waiting, StreamInv, ReadInv, WireInv,
          BatchInv, EndInv, CompleteAtEnd, TypeOK, dbVars
<1>6. CASE Receive
  <2>1. /\ Head(wire) = wire[1] /\ wire[1] \in rows
        /\ Len(wire) > 0 /\ wire' = Tail(wire) /\ Len(wire') = Len(wire) - 1
        /\ \A i \in 1..Len(wire') : wire'[i] = wire[i + 1]
    BY <1>4, <1>6 DEF Receive
  <2>2. at' = at + 1 /\ wire[1].seq = at + 1 /\ at + 1 <= Last
    BY <1>4, <1>6, <2>1 DEF Receive, StreamInv, WireInv
  <2>3. /\ lastId' = IF at + 1 > lastId THEN at + 1 ELSE lastId
        /\ shown' = shown \cup {wire[1]}
    BY <1>6, <2>1, <2>2 DEF Receive
  <2>4. ReadInv'
    <3>1. \A e \in rows : e.seq = at + 1 => e = wire[1]
      BY <1>3, <2>1, <2>2 DEF Numbered, StrictSequence
    <3>2. \A e \in rows' : e.seq <= lastId' => e \in shown'
      BY <1>1, <1>4, <2>3, <3>1 DEF StreamInv, ReadInv, dbVars
    <3>3. \A e \in shown' : e.seq <= lastId'
      BY <1>4, <2>2, <2>3 DEF StreamInv, ReadInv, TypeOK
    <3> QED BY <1>2, <1>4, <1>6, <2>2, <2>3, <3>2, <3>3 DEF Receive, StreamInv, ReadInv
  <2>5. WireInv'
    <3>1. \A i \in 1..Len(wire') : wire'[i].seq = at' + i
      BY <1>4, <2>1, <2>2 DEF StreamInv, WireInv
    <3> QED BY <1>2, <1>4, <1>6, <2>1, <2>2, <3>1 DEF Receive, StreamInv, WireInv, srvVars
  <2>6. BatchInv'
    BY <1>1, <1>6 DEF Receive, StreamInv, BatchInv, srvVars, dbVars
  <2>7. EndInv'
    BY <1>6 DEF Receive, StreamInv, EndInv, CompleteAtEnd, srvVars
  <2> QED BY <2>4, <2>5, <2>6, <2>7
<1>7. ASSUME NEW why \in {"ended", "broken", "stopped"}, Disconnected(why),
             why = "ended" => closing \subseteq shown
      PROVE  ReadInv' /\ WireInv' /\ BatchInv' /\ EndInv'
  BY <1>1, <1>2, <1>4, <1>7 DEF Disconnected, StreamInv, ReadInv, WireInv, BatchInv, EndInv,
     CompleteAtEnd, dbVars
<1>8. CASE StreamEnds
  <2>1. /\ srv = "closed" /\ wire = <<>> /\ Len(wire) = 0 /\ cli = "open"
        /\ Disconnected("ended")
    BY <1>8 DEF StreamEnds, Disconnected
  <2>2. pos <= lastId
    BY <1>4, <2>1 DEF StreamInv, WireInv
  <2>3. closing \subseteq shown
    BY <1>4, <2>1, <2>2 DEF StreamInv, EndInv, ReadInv, TypeOK
  <2> QED BY <1>7, <2>1, <2>3
<1>9. CASE cli \in Waiting /\ Stop
  BY <1>1, <1>2, <1>9 DEF Stop, Disconnected, Waiting, StreamInv, ReadInv, WireInv, BatchInv, EndInv,
     CompleteAtEnd, dbVars, srvVars
<1>10. CASE ConnectionBreaks \/ (Stop /\ cli \notin Waiting)
  BY <1>7, <1>10 DEF ConnectionBreaks, Stop
<1> QED BY <1>5, <1>6, <1>8, <1>9, <1>10 DEF ClientStep

(* StreamInv is inductive without overlap. *)
LEMMA InvStep ==
    ASSUME ~Overlap, TypeOK, StreamInv, [Next]_vars
    PROVE  TypeOK' /\ StreamInv'
<1>1. TypeOK'
  BY TypeStep DEF StreamInv
<1>2. RunInv'
  BY RunInvStep DEF StreamInv
<1> QED BY <1>1, <1>2, WritersKeepReaders, ServerKeeps, ClientKeeps DEF Next, StreamInv

(* StreamInv holds throughout. *)
LEMMA InvHolds == ASSUME ~Overlap PROVE Spec => [](TypeOK /\ StreamInv)
<1>1. TypeOK /\ StreamInv /\ [Next]_vars => TypeOK' /\ StreamInv'
  BY InvStep
<1> QED BY <1>1, InitInv, PTL DEF Spec
-----------------------------------------------------------------------------
(* Without overlapping executions the sequence numbers of a job are        *)
(* strictly increasing, as db/models/event.py and artifacts.py:47 say.     *)
THEOREM SequencesAreStrict == ASSUME ~Overlap PROVE Spec => []StrictSequence
<1>1. TypeOK /\ StreamInv => StrictSequence
  BY DEF StreamInv, RunInv, Numbered
<1> QED BY <1>1, InvHolds, PTL

(* A stream that ended regularly has delivered every row there was when    *)
(* the generator returned.                                                 *)
THEOREM EndIsComplete == ASSUME ~Overlap PROVE Spec => []CompleteAtEnd
<1>1. TypeOK /\ StreamInv => CompleteAtEnd
  BY DEF StreamInv, EndInv
<1> QED BY <1>1, InvHolds, PTL

(* An insert publishes, the receipt of a frame reads the next number, a    *)
(* connection resumes; every other step is a stutter of the feed.          *)
LEMMA FeedStep ==
    ASSUME ~Overlap, TypeOK, StreamInv, [Next]_vars
    PROVE  [Feed!Next]_<<NextSequence - 1, at, lastId>>
<1> USE DEF Feed!Next, Feed!Publish, Feed!Read, Feed!Resume
<1>1. PICK n \in Nat : Numbered(n) /\ Last = n
  BY NextIsCount DEF StreamInv, RunInv
<1>2. CASE (\E r \in Runs : RunStep(r)) \/ ApiWrite \/ UNCHANGED vars
  <2>1. UNCHANGED <<at, lastId>>
    BY <1>2 DEF RunStep, StartRun, ReadLast, InsertEvent, WriteFinal, RunDies, ApiWrite, vars, cliVars
  <2> QED BY <2>1, RunInvStep DEF StreamInv, Last
<1>3. ASSUME ServerStep \/ ClientStep \/ ConnectionBreaks \/ Stop PROVE Last' = Last
  <2>1. UNCHANGED dbVars
    BY <1>3 DEF ServerStep, ListEvents, SendEvent, ReadStatus, CheckMore, ClientStep, Connect,
       Receive, StreamEnds, ConnectionBreaks, Stop, Disconnected
  <2> QED BY <2>1 DEF Last, NextSequence, dbVars
<1>4. CASE Receive
  <2>1. Len(wire) \in Nat \ {0} /\ Head(wire) = wire[1] /\ wire[1] \in rows
    BY <1>4 DEF Receive, TypeOK
  <2>2. wire[1].seq = at + 1 /\ at \in Nat /\ wire[1].seq <= n
    BY <1>1, <2>1 DEF StreamInv, WireInv, TypeOK, Numbered
  <2>3. /\ at < Last /\ at' = at + 1
        /\ lastId' = IF at' > lastId THEN at' ELSE lastId
    BY <1>1, <1>4, <2>1, <2>2 DEF Receive
  <2> QED BY <1>3, <1>4, <2>3 DEF ClientStep, Last
<1>5. CASE Connect
  BY <1>3, <1>5 DEF Connect, ClientStep, Last
<1>6. CASE ServerStep \/ StreamEnds \/ ConnectionBreaks \/ Stop
  <2>1. UNCHANGED <<at, lastId>>
    BY <1>6 DEF ServerStep, ListEvents, SendEvent, ReadStatus, CheckMore, StreamEnds,
       ConnectionBreaks, Stop, Disconnected, cliVars
  <2> QED BY <1>3, <1>6, <2>1 DEF Last, ClientStep
<1> QED BY <1>2, <1>4, <1>5, <1>6 DEF Next, ClientStep

(* Without overlapping executions the stream implements the feed: numbers  *)
(* are read in order and none is left out, on every connection.            *)
THEOREM StreamIsAFeed == ASSUME ~Overlap PROVE Spec => ImplementsFeed
<1>1. Init => Feed!Init
  <2> SUFFICES ASSUME Init PROVE Feed!Init
    OBVIOUS
  <2>1. NextSequence = 1
    BY DEF Init, NextSequence
  <2> QED BY <2>1 DEF Init, Feed!Init
<1>2. TypeOK /\ StreamInv /\ [Next]_vars => [Feed!Next]_<<NextSequence - 1, at, lastId>>
  BY FeedStep
<1> QED BY <1>1, <1>2, InvHolds, PTL DEF Spec, ImplementsFeed, Feed!Spec
-----------------------------------------------------------------------------
(* A client that sends Last-Event-ID is shown nothing twice: while it is    *)
(* connected it has just read lastId, so the next frame is new.             *)
LEMMA OnceStep ==
    ASSUME ~Overlap, SendsHeader, TypeOK, StreamInv, ShownOnce, [Next]_vars
    PROVE  ShownOnce'
<1>1. CASE Receive
  <2>1. Len(wire) \in Nat \ {0} /\ Head(wire) = wire[1] /\ wire[1] \in rows
    BY <1>1 DEF Receive, TypeOK
  <2>2. wire[1].seq = lastId + 1 /\ lastId \in Nat
    BY <1>1, <2>1 DEF Receive, StreamInv, ReadInv, WireInv, TypeOK
  <2>3. wire[1] \notin shown
    BY <2>2 DEF StreamInv, ReadInv
  <2> QED BY <1>1, <2>1, <2>3 DEF Receive, ShownOnce
<1>2. CASE ~Receive
  BY <1>2 DEF ShownOnce, Next, RunStep, StartRun, ReadLast, InsertEvent, WriteFinal, RunDies,
     ApiWrite, ServerStep, ListEvents, SendEvent, ReadStatus, CheckMore, ClientStep, Connect,
     StreamEnds, ConnectionBreaks, Stop, Disconnected, vars, cliVars
<1> QED BY <1>1, <1>2

(* "Replays after that sequence" (events.py:4) holds for such a client.    *)
THEOREM HeaderShowsOnce == ASSUME ~Overlap, SendsHeader PROVE Spec => []ShownOnce
<1>1. Init => ShownOnce
  BY DEF Init, ShownOnce
<1>2. TypeOK /\ StreamInv /\ ShownOnce /\ [Next]_vars => ShownOnce'
  BY OnceStep
<1> QED BY <1>1, <1>2, InvHolds, PTL DEF Spec
=============================================================================
