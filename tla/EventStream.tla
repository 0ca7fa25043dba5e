---------------------------- MODULE EventStream ----------------------------
(***************************************************************************)
(* The events of one job: the runs that persist them (executor.py,         *)
(* repositories/artifacts.py), the SSE generator that polls the rows       *)
(* (api/routers/events.py) and the client that reads the stream and        *)
(* reconnects (frontend/src/lib/sse.ts).                                   *)
(*                                                                         *)
(* Every SELECT and every commit is a step of its own.  A row keeps its    *)
(* sequence and the run that wrote it; the content of events is left out.  *)
(* A generator whose connection is gone only reads, so it ends here with   *)
(* the connection.  Operators named Bug... are the next definition with a  *)
(* plausible bug and are not used by the specification.                    *)
(***************************************************************************)
EXTENDS Naturals, Sequences, FiniteSets

CONSTANTS Runs,         \* executions of the job
          MaxEvents,    \* bound: events per run
          Overlap,      \* may two executions of the job run at once?
          SendsHeader,  \* does the client send Last-Event-ID?
          MaxApiWrites, \* bound: status writes by API requests
          MaxBreaks     \* bound: lost connections

ASSUME StreamAssumption ==
    /\ MaxEvents \in Nat \ {0}
    /\ Overlap \in BOOLEAN /\ SendsHeader \in BOOLEAN
    /\ MaxApiWrites \in Nat /\ MaxBreaks \in Nat

VARIABLES
    rows,      \* the rows of job_events
    status,    \* "open" or "terminal", all the stream looks at
    run, next, \* the runs: counter, sequence read for the next insert
    srv,       \* the generator's counter
    pos,       \* its variable "sequence"
    batch,     \* rows fetched and not yet yielded
    wire,      \* frames on their way to the client
    cli,       \* "open", "stopped", or why the client waits to connect
    lastId,    \* the client's lastEventId
    at,        \* history: the id received last on this connection
    shown, twice, \* what the page shows, what it shows more than once
    closing,   \* history: the rows when the generator returned
    apiWrites, breaks

dbVars  == <<rows, status>>
runVars == <<run, next>>
srvVars == <<srv, pos, batch, closing>>
cliVars == <<cli, lastId, at, shown, twice>>
counts  == <<apiWrites, breaks>>
vars    == <<dbVars, runVars, srvVars, wire, cliVars, counts>>

Event == [run : Runs, seq : Nat \ {0}]
Waiting == {"first", "broken", "ended"}

TypeOK ==
    /\ rows \in SUBSET Event
    /\ status \in {"open", "terminal"}
    /\ run \in [Runs -> {"off", "read", "insert", "final", "ended"}]
    /\ next \in [Runs -> Nat]
    /\ srv \in {"none", "list", "send", "status", "more", "closed"}
    /\ pos \in Nat
    /\ batch \in SUBSET rows
    /\ wire \in Seq(rows)
    /\ cli \in Waiting \cup {"open", "stopped"}
    /\ lastId \in Nat /\ at \in Nat
    /\ shown \in SUBSET rows /\ twice \in SUBSET shown
    /\ closing \in SUBSET rows
    /\ apiWrites \in 0..MaxApiWrites
    /\ breaks \in 0..MaxBreaks
    /\ cli = "open" <=> srv # "none"

Init ==
    /\ rows = {} /\ status = "open"
    /\ run = [r \in Runs |-> "off"]
    /\ next = [r \in Runs |-> 0]
    /\ srv = "none" /\ pos = 0 /\ batch = {} /\ closing = {}
    /\ wire = <<>>
    /\ cli = "first" /\ lastId = 0 /\ at = 0
    /\ shown = {} /\ twice = {}
    /\ apiWrites = 0 /\ breaks = 0
-----------------------------------------------------------------------------
(* The runs persist events and then the final status.                      *)

Active(r) == run[r] \notin {"off", "ended"}

(* next_sequence: SELECT the highest, add one. *)
NextSequence ==
    IF rows = {} THEN 1
    ELSE 1 + CHOOSE s \in {e.seq : e \in rows} : \A e \in rows : e.seq <= s

(* An execution begins: the status becomes RUNNING.  Executions overlap only *)
(* after racing retries (JobPlatform, ExclusiveWithoutRetry).                *)
StartRun(r) ==
    /\ run[r] = "off"
    /\ Overlap \/ \A q \in Runs : ~Active(q)
    /\ \E to \in {"read", "final"} : run' = [run EXCEPT ![r] = to]
    /\ status' = "open"
    /\ UNCHANGED <<rows, next, srvVars, wire, cliVars, counts>>

BugReadLast(r) ==
    /\ run[r] = "read"
    /\ run' = [run EXCEPT ![r] = "insert"]
    /\ next' = [next EXCEPT ![r] = 1 + Cardinality({e \in rows : e.run = r})]
    /\ UNCHANGED <<dbVars, srvVars, wire, cliVars, counts>>

(* append, first statement ... *)
ReadLast(r) ==
    /\ run[r] = "read"
    /\ run' = [run EXCEPT ![r] = "insert"]
    /\ next' = [next EXCEPT ![r] = NextSequence]
    /\ UNCHANGED <<dbVars, srvVars, wire, cliVars, counts>>

(* ... and second: the row is inserted and committed.  No constraint of the *)
(* table mentions the sequence.                                             *)
InsertEvent(r) ==
    /\ run[r] = "insert"
    /\ rows' = rows \cup {[run |-> r, seq |-> next[r]]}
    /\ \/ run' = [run EXCEPT ![r] = "final"]
       \/ /\ Cardinality({e \in rows' : e.run = r}) < MaxEvents
          /\ run' = [run EXCEPT ![r] = "read"]
    /\ UNCHANGED <<status, next, srvVars, wire, cliVars, counts>>

WriteFinal(r) ==
    /\ run[r] = "final"
    /\ run' = [run EXCEPT ![r] = "ended"]
    /\ status' = "terminal"
    /\ UNCHANGED <<rows, next, srvVars, wire, cliVars, counts>>

(* The run ends early by an exception or with its worker. *)
RunDies(r) ==
    /\ Active(r)
    /\ run' = [run EXCEPT ![r] = "ended"]
    /\ UNCHANGED <<dbVars, next, srvVars, wire, cliVars, counts>>

(* create_job, retry_job and cancel_job write the status at any time. *)
ApiWrite ==
    /\ apiWrites < MaxApiWrites
    /\ apiWrites' = apiWrites + 1
    /\ status' \in {"open", "terminal"}
    /\ UNCHANGED <<rows, runVars, srvVars, wire, cliVars, breaks>>
-----------------------------------------------------------------------------
(* The generator _event_stream, one connection at a time.                  *)

BugRowsAfterNext(s) == {e \in rows : e.seq > s + 1}
RowsAfter(s) == {e \in rows : e.seq > s}

ListEvents ==
    /\ srv = "list"
    /\ batch' = RowsAfter(pos)
    /\ srv' = "send"
    /\ UNCHANGED <<dbVars, runVars, pos, closing, wire, cliVars, counts>>

BugSendEvent ==
    /\ srv = "send"
    /\ \E e \in batch :
          /\ wire' = Append(wire, e)
          /\ pos' = e.seq
          /\ batch' = batch \ {e}
    /\ UNCHANGED <<dbVars, runVars, srv, closing, cliVars, counts>>

(* One yield.  order_by leaves the order of equal sequences open. *)
SendEvent ==
    /\ srv = "send"
    /\ \E e \in batch :
          /\ \A f \in batch : e.seq <= f.seq
          /\ wire' = Append(wire, e)
          /\ pos' = e.seq
          /\ batch' = batch \ {e}
    /\ UNCHANGED <<dbVars, runVars, srv, closing, cliVars, counts>>

BugReadStatus ==
    /\ srv = "send" /\ batch = {}
    /\ \/ status = "terminal" /\ srv' = "closed" /\ closing' = rows
       \/ status # "terminal" /\ srv' = "list" /\ UNCHANGED closing
    /\ UNCHANGED <<dbVars, runVars, pos, batch, wire, cliVars, counts>>

ReadStatus ==
    /\ srv = "send" /\ batch = {}
    /\ srv' = IF status = "terminal" THEN "more" ELSE "list"
    /\ UNCHANGED <<dbVars, runVars, pos, batch, closing, wire, cliVars, counts>>

(* The second list_after, after the status: close only if it is empty. *)
CheckMore ==
    /\ srv = "more"
    /\ \/ /\ RowsAfter(pos) = {}
          /\ srv' = "closed"
          /\ closing' = rows
       \/ /\ RowsAfter(pos) # {}
          /\ srv' = "list"
          /\ UNCHANGED closing
    /\ UNCHANGED <<dbVars, runVars, pos, batch, wire, cliVars, counts>>
-----------------------------------------------------------------------------
(* The client.                                                             *)

(* connect and job_events: the server resumes after the header's id.  The   *)
(* console sends the id as a query parameter, which the server ignores.     *)
Connect ==
    /\ cli \in Waiting
    /\ cli' = "open"
    /\ srv' = "list"
    /\ pos' = IF SendsHeader THEN lastId ELSE 0
    /\ at' = pos'
    /\ UNCHANGED <<dbVars, runVars, batch, closing, wire, lastId, shown, twice, counts>>

(* parseBlock of one frame: note the highest id and append to the page. *)
Receive ==
    /\ cli = "open" /\ wire # <<>>
    /\ LET e == Head(wire) IN
          /\ at' = e.seq
          /\ lastId' = IF e.seq > lastId THEN e.seq ELSE lastId
          /\ shown' = shown \cup {e}
          /\ twice' = IF e \in shown THEN twice \cup {e} ELSE twice
    /\ wire' = Tail(wire)
    /\ UNCHANGED <<dbVars, runVars, srvVars, cli, counts>>

(* connect() after the stream: the finally block arms the timer again. *)
Disconnected(why) ==
    /\ cli = "open"
    /\ cli' = why
    /\ srv' = "none" /\ batch' = {} /\ wire' = <<>>
    /\ UNCHANGED <<dbVars, runVars, pos, closing, lastId, at, shown, twice, apiWrites>>

StreamEnds == srv = "closed" /\ wire = <<>> /\ Disconnected("ended") /\ UNCHANGED breaks

(* The connection is lost with every frame on its way. *)
ConnectionBreaks ==
    /\ breaks < MaxBreaks
    /\ breaks' = breaks + 1
    /\ Disconnected("broken")

(* stop(): the page is left.  A pending timer finds "closed" set. *)
Stop ==
    \/ Disconnected("stopped") /\ UNCHANGED breaks
    \/ /\ cli \in Waiting
       /\ cli' = "stopped"
       /\ UNCHANGED <<dbVars, runVars, srvVars, wire, lastId, at, shown, twice, counts>>
-----------------------------------------------------------------------------
RunStep(r) == StartRun(r) \/ ReadLast(r) \/ InsertEvent(r) \/ WriteFinal(r) \/ RunDies(r)

ServerStep == ListEvents \/ SendEvent \/ ReadStatus \/ CheckMore

ClientStep == Connect \/ Receive \/ StreamEnds

Next == \/ \E r \in Runs : RunStep(r)
        \/ ApiWrite
        \/ ServerStep
        \/ ClientStep
        \/ ConnectionBreaks
        \/ Stop

Spec == Init /\ [][Next]_vars

(* The event loop serves the generator, the network delivers while the      *)
(* connection lasts, the browser runs its timer and its reader.             *)
FairSpec == /\ Spec
            /\ WF_vars(ServerStep)
            /\ WF_vars(Connect) /\ WF_vars(Receive) /\ WF_vars(StreamEnds)
-----------------------------------------------------------------------------
(* Properties.                                                             *)

(* While executions do not overlap, the stream implements the feed: numbers *)
(* 1, 2, 3, ..., read in order, without a gap, however reads, inserts,      *)
(* lost connections and status writes interleave.                           *)
Feed == INSTANCE EventFeed
            WITH last <- NextSequence - 1, pos <- at, high <- lastId

ImplementsFeed == Feed!Spec

(* A stream that ended regularly has delivered every row there was when the *)
(* generator returned, also rows that came between its two looks            *)
(* (events.py:43 and :51).                                                  *)
CompleteAtEnd == cli = "ended" => closing \subseteq shown

(* "replays after that sequence" (events.py:4): with Last-Event-ID nothing  *)
(* is shown twice.                                                          *)
ShownOnce == twice = {}

(* "strictly increasing within a job" (db/models/event.py:2, repositories/  *)
(* artifacts.py:47), as long as executions do not overlap: the read and the *)
(* insert are two statements, and no constraint joins them.                 *)
StrictSequence == \A e, f \in rows : e.seq = f.seq => e = f

(* Every event is shown in the end, unless the reader leaves the page.      *)
EventuallyShown ==
    \A r \in Runs, s \in 1..(MaxEvents * Cardinality(Runs)) :
        LET e == [run |-> r, seq |-> s] IN
        e \in rows ~> e \in shown \/ cli = "stopped"
=============================================================================
