------------------------------ MODULE JobQueue ------------------------------
(***************************************************************************)
(* The job queue of xpu_platform/worker/queue.py in both implementations:  *)
(*   "memory"  InMemoryJobQueue, a deque and a set in one process;         *)
(*   "redis"   RedisJobQueue, a Redis list and a Redis set.  Its dequeue   *)
(*             and requeue are two Redis commands each, hence two actions. *)
(* The head of "queue" is the entry dequeued next (popleft / rpop) and     *)
(* "processing" is the set documented as the lease.                        *)
(***************************************************************************)
EXTENDS Naturals, Sequences

CONSTANTS Jobs,     \* job ids
          Backend   \* which implementation is configured (QUEUE_BACKEND)

ASSUME BackendAssumption == Backend \in {"memory", "redis"}

VARIABLES queue, processing

queueVars == <<queue, processing>>

QueueTypeOK == /\ queue \in Seq(Jobs)
               /\ processing \in SUBSET Jobs

QueueInit == queue = <<>> /\ processing = {}

Queued(j) == \E i \in DOMAIN queue : queue[i] = j

(* Bug...: see JobPlatform. *)

(* Only the in-memory queue refuses an id it already knows. *)
Known(j) == Backend = "memory" /\ (Queued(j) \/ j \in processing)

Enqueue(j) ==
    /\ \/ Known(j) /\ queue' = queue
       \/ ~Known(j) /\ queue' = Append(queue, j)
    /\ UNCHANGED processing

(* dequeue: the memory queue leases in the same call, Redis one command later. *)
Pop(j) ==
    /\ queue # <<>>
    /\ j = Head(queue)
    /\ queue' = Tail(queue)
    /\ processing' = IF Backend = "memory" THEN processing \cup {j} ELSE processing

Lease(j) == /\ processing' = processing \cup {j}
            /\ UNCHANGED queue

Ack(j) == /\ processing' = processing \ {j}
          /\ UNCHANGED queue

BugRelease(j) ==
    /\ processing' = processing \ {j}
    /\ queue' = Append(queue, j)

(* requeue: discard and append at once in memory, srem then lpush on Redis. *)
Release(j) ==
    /\ processing' = processing \ {j}
    /\ queue' = IF Backend = "memory" THEN Append(queue, j) ELSE queue

PushBack(j) == /\ queue' = Append(queue, j)
               /\ UNCHANGED processing
=============================================================================
