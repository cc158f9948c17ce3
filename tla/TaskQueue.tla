----------------------------- MODULE TaskQueue -----------------------------
(***************************************************************************)
(* TaskQueue (pkg/controller/utils.go) on the rate limiting work queue of  *)
(* client-go: informer handlers Add keys, Run starts workers that Get a    *)
(* key, call sync, put the key back with a delay when sync fails, and say  *)
(* Done; shutdown closes the queue and waits for the worker's answer.      *)
(***************************************************************************)
EXTENDS Naturals, Sequences, FiniteSets

CONSTANTS
  Items,         \* the keys, ns/name
  Workers,       \* the goroutines Run starts on this queue
  None,          \* no key
  MaxRequeues    \* how often in a row the sync of one key fails

ASSUME QueueAssumption == MaxRequeues \in Nat /\ None \notin Items

VARIABLES
  queue,         \* the keys to hand out, in order
  dirty,         \* the keys that need processing
  processing,    \* the keys handed out and not Done
  waiting,       \* the delaying queue: keys to be added again later
  failures,      \* the rate limiter's count of failures in a row
  shuttingDown,
  doing,         \* the key a worker has, or None
  wpc,           \* where a worker is: get, sync, done, exited
  workerDone,    \* is the channel workerDone closed?
  crashed,       \* closing a closed channel panics, and so ends the process
  stopper        \* Run's deferred shutdown: running, waiting, stopped

vars == <<queue, dirty, processing, waiting, failures, shuttingDown, doing,
          wpc, workerDone, crashed, stopper>>

TypeOK ==
  /\ queue \in Seq(Items)
  /\ dirty \subseteq Items
  /\ processing \subseteq Items
  /\ waiting \subseteq Items
  /\ failures \in [Items -> 0..MaxRequeues]
  /\ shuttingDown \in BOOLEAN
  /\ doing \in [Workers -> Items \cup {None}]
  /\ wpc \in [Workers -> {"get", "sync", "done", "exited"}]
  /\ workerDone \in BOOLEAN
  /\ crashed \in BOOLEAN
  /\ stopper \in {"running", "waiting", "stopped"}

Init ==
  /\ queue = <<>>
  /\ dirty = {}
  /\ processing = {}
  /\ waiting = {}
  /\ failures = [k \in Items |-> 0]
  /\ shuttingDown = FALSE
  /\ doing = [w \in Workers |-> None]
  /\ wpc = [w \in Workers |-> "get"]
  /\ workerDone = FALSE
  /\ crashed = FALSE
  /\ stopper = "running"

-----------------------------------------------------------------------------
(* Mutant: a key that is being processed is queued at once. *)
EnqueueAtOnce(k) ==
  IF shuttingDown \/ k \in dirty
  THEN UNCHANGED <<queue, dirty>>
  ELSE /\ dirty' = dirty \cup {k}
       /\ queue' = Append(queue, k)

(* Type.Add: a key that is being processed is queued only when it is Done.  *)
Enqueue(k) ==
  IF shuttingDown \/ k \in dirty
  THEN UNCHANGED <<queue, dirty>>
  ELSE /\ dirty' = dirty \cup {k}
       /\ queue' = IF k \in processing THEN queue ELSE Append(queue, k)

(* TaskQueue.Add, called by an informer's event handler. *)
Add(k) ==
  /\ ~crashed
  /\ Enqueue(k)
  /\ UNCHANGED <<processing, waiting, failures, shuttingDown, doing, wpc,
                 workerDone, crashed, stopper>>

(* The back-off of a failed key is over; the loop ends with the queue. *)
Ripen(k) ==
  /\ ~crashed
  /\ k \in waiting
  /\ ~shuttingDown
  /\ waiting' = waiting \ {k}
  /\ Enqueue(k)
  /\ UNCHANGED <<processing, failures, shuttingDown, doing, wpc, workerDone,
                 crashed, stopper>>

-----------------------------------------------------------------------------
Get(w) ==
  /\ ~crashed
  /\ wpc[w] = "get"
  /\ queue # <<>>
  /\ LET k == Head(queue) IN
       /\ queue' = Tail(queue)
       /\ processing' = processing \cup {k}
       /\ dirty' = dirty \ {k}
       /\ doing' = [doing EXCEPT ![w] = k]
  /\ wpc' = [wpc EXCEPT ![w] = "sync"]
  /\ UNCHANGED <<waiting, failures, shuttingDown, workerDone, crashed, stopper>>

(* Mutant: the worker returns and tells nobody. *)
QuitSilently(w) ==
  /\ ~crashed
  /\ wpc[w] = "get"
  /\ queue = <<>>
  /\ shuttingDown
  /\ wpc' = [wpc EXCEPT ![w] = "exited"]
  /\ UNCHANGED <<queue, dirty, processing, waiting, failures, shuttingDown,
                 doing, workerDone, crashed, stopper>>

(* Get says quit once the queue is shut down and drained: the worker closes *)
(* workerDone and returns.                                                  *)
Quit(w) ==
  /\ ~crashed
  /\ wpc[w] = "get"
  /\ queue = <<>>
  /\ shuttingDown
  /\ wpc' = [wpc EXCEPT ![w] = "exited"]
  /\ workerDone' = TRUE
  /\ crashed' = workerDone
  /\ UNCHANGED <<queue, dirty, processing, waiting, failures, shuttingDown,
                 doing, stopper>>

(* sync returns nil: Forget. *)
SyncOK(w) ==
  /\ ~crashed
  /\ wpc[w] = "sync"
  /\ failures' = [failures EXCEPT ![doing[w]] = 0]
  /\ wpc' = [wpc EXCEPT ![w] = "done"]
  /\ UNCHANGED <<queue, dirty, processing, waiting, shuttingDown, doing,
                 workerDone, crashed, stopper>>

(* Mutant: a failed key is not put back. *)
SyncErrForgets(w) ==
  /\ ~crashed
  /\ wpc[w] = "sync"
  /\ failures[doing[w]] < MaxRequeues
  /\ failures' = [failures EXCEPT ![doing[w]] = @ + 1]
  /\ wpc' = [wpc EXCEPT ![w] = "done"]
  /\ UNCHANGED <<queue, dirty, processing, waiting, shuttingDown, doing,
                 workerDone, crashed, stopper>>

(* sync returns an error: AddRateLimited, which a closed queue ignores. *)
SyncErr(w) ==
  /\ ~crashed
  /\ wpc[w] = "sync"
  /\ failures[doing[w]] < MaxRequeues
  /\ failures' = [failures EXCEPT ![doing[w]] = @ + 1]
  /\ waiting' = IF shuttingDown THEN waiting ELSE waiting \cup {doing[w]}
  /\ wpc' = [wpc EXCEPT ![w] = "done"]
  /\ UNCHANGED <<queue, dirty, processing, shuttingDown, doing, workerDone,
                 crashed, stopper>>

(* Mutant: Done does not look at dirty. *)
DoneOnly(w) ==
  /\ ~crashed
  /\ wpc[w] = "done"
  /\ processing' = processing \ {doing[w]}
  /\ doing' = [doing EXCEPT ![w] = None]
  /\ wpc' = [wpc EXCEPT ![w] = "get"]
  /\ UNCHANGED <<queue, dirty, waiting, failures, shuttingDown, workerDone,
                 crashed, stopper>>

(* Done: a key that became dirty meanwhile is queued again. *)
Done(w) ==
  /\ ~crashed
  /\ wpc[w] = "done"
  /\ processing' = processing \ {doing[w]}
  /\ queue' = IF doing[w] \in dirty THEN Append(queue, doing[w]) ELSE queue
  /\ doing' = [doing EXCEPT ![w] = None]
  /\ wpc' = [wpc EXCEPT ![w] = "get"]
  /\ UNCHANGED <<dirty, waiting, failures, shuttingDown, workerDone, crashed,
                 stopper>>

-----------------------------------------------------------------------------
(* shutdown: ShutDown, then wait for workerDone. *)
ShutDown ==
  /\ ~crashed
  /\ stopper = "running"
  /\ stopper' = "waiting"
  /\ shuttingDown' = TRUE
  /\ UNCHANGED <<queue, dirty, processing, waiting, failures, doing, wpc,
                 workerDone, crashed>>

Acked ==
  /\ ~crashed
  /\ stopper = "waiting"
  /\ workerDone
  /\ stopper' = "stopped"
  /\ UNCHANGED <<queue, dirty, processing, waiting, failures, shuttingDown,
                 doing, wpc, workerDone, crashed>>

WorkerStep(w) == Get(w) \/ Quit(w) \/ SyncOK(w) \/ SyncErr(w) \/ Done(w)

Next ==
  \/ \E k \in Items : Add(k) \/ Ripen(k)
  \/ \E w \in Workers : WorkerStep(w)
  \/ ShutDown \/ Acked

Spec == Init /\ [][Next]_vars

(* The workers and the delaying loop run, and sync returns. *)
Fairness ==
  /\ \A w \in Workers : WF_vars(WorkerStep(w))
  /\ \A k \in Items : WF_vars(Ripen(k))
  /\ WF_vars(Acked)

LiveSpec == Spec /\ Fairness

-----------------------------------------------------------------------------
Queued == {queue[i] : i \in 1..Len(queue)}

(* The three structures of the work queue agree: what is handed out next is *)
(* what needs processing and is not being processed, each key once; and the *)
(* keys being processed are those of the workers.                           *)
QueueConsistent ==
  /\ \A i, j \in 1..Len(queue) : queue[i] = queue[j] => i = j
  /\ Queued = dirty \ processing
  /\ processing = {doing[w] : w \in Workers} \ {None}
  /\ \A w \in Workers : doing[w] # None <=> wpc[w] \in {"sync", "done"}

(* No two workers run sync on the same key, although it can be added, and   *)
(* come back from its back-off, at any time.                                *)
Exclusive ==
  \A v, w \in Workers : doing[v] # None /\ doing[v] = doing[w] => v = w

(* A key whose last sync failed is still in the system, until the queue is  *)
(* shut down: waiting for its back-off, queued or being processed.          *)
FailuresRetried ==
  \A k \in Items : failures[k] > 0 /\ ~shuttingDown
                     => k \in waiting \cup dirty \cup processing

QueueInv == TypeOK /\ QueueConsistent /\ Exclusive

(* A key that was added is processed, also when it was added while it was   *)
(* being processed or just before the queue was shut down; only the panic   *)
(* of a second worker that closes workerDone again gets in the way.         *)
Served == \A k \in Items : k \in dirty ~> k \in processing \/ crashed

(* shutdown returns, with the same exception: a worker drains the queue and *)
(* acknowledges.                                                            *)
ShutdownReturns == stopper = "waiting" ~> stopper = "stopped" \/ crashed

WS == INSTANCE WorkSet WITH pending <- dirty, delayed <- waiting,
                            running <- processing, closed <- shuttingDown

(* The task queue is a WorkSet. *)
ImplementsWorkSet == WS!Spec
=============================================================================
