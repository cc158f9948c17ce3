-------------------------- MODULE TaskQueueProofs --------------------------
(***************************************************************************)
(* Proofs about TaskQueue, for every number of keys, workers and failures. *)
(***************************************************************************)
EXTENDS TaskQueue, TLAPS

(* Between the sync that failed and Done, the key is already on its way     *)
(* back.                                                                    *)
FailureFiled ==
  \A w \in Workers :
    wpc[w] = "done" /\ failures[doing[w]] > 0 /\ ~shuttingDown
      => doing[w] \in waiting \cup dirty

Inv == QueueInv /\ FailureFiled /\ FailuresRetried

-----------------------------------------------------------------------------
LEMMA QueueAppend ==
  ASSUME queue \in Seq(Items), NEW k \in Items,
         queue' = Append(queue, k)
  PROVE  /\ queue' \in Seq(Items)
         /\ Queued' = Queued \cup {k}
         /\ (\A i, j \in 1..Len(queue) : queue[i] = queue[j] => i = j)
              /\ k \notin Queued
            => \A i, j \in 1..Len(queue') : queue'[i] = queue'[j] => i = j
<1>1. /\ queue' \in Seq(Items) /\ Len(queue) \in Nat
      /\ Len(queue') = Len(queue) + 1
      /\ queue'[Len(queue) + 1] = k
      /\ \A i \in 1..Len(queue) : queue'[i] = queue[i]
  OBVIOUS
<1>2. \A i \in 1..Len(queue') : i \in 1..Len(queue) \/ i = Len(queue) + 1
  BY <1>1
<1>3. Queued' = Queued \cup {k}
  BY <1>1, <1>2 DEF Queued
<1>4. ASSUME \A i, j \in 1..Len(queue) : queue[i] = queue[j] => i = j,
             k \notin Queued,
             NEW i \in 1..Len(queue'), NEW j \in 1..Len(queue'),
             queue'[i] = queue'[j]
      PROVE  i = j
  BY <1>1, <1>2, <1>4 DEF Queued
<1> QED
  BY <1>1, <1>3, <1>4

LEMMA QueueTail ==
  ASSUME queue \in Seq(Items), queue # <<>>, queue' = Tail(queue),
         \A i, j \in 1..Len(queue) : queue[i] = queue[j] => i = j
  PROVE  /\ Head(queue) \in Items
         /\ queue' \in Seq(Items)
         /\ Head(queue) \in Queued
         /\ Queued' = Queued \ {Head(queue)}
         /\ \A i, j \in 1..Len(queue') : queue'[i] = queue'[j] => i = j
<1>1. /\ Len(queue) \in Nat /\ Len(queue) > 0
      /\ Head(queue) = queue[1] /\ Head(queue) \in Items
      /\ queue' \in Seq(Items)
      /\ Len(queue') = Len(queue) - 1
      /\ \A i \in 1..Len(queue') : queue'[i] = queue[i + 1]
  OBVIOUS
<1>2. \A i \in 1..Len(queue') : i + 1 \in 1..Len(queue) /\ i + 1 # 1
  BY <1>1
<1>3. \A i \in 1..Len(queue) : i # 1 => i - 1 \in 1..Len(queue')
                                        /\ queue'[i - 1] = queue[i]
  BY <1>1
<1>4. 1 \in 1..Len(queue)
  BY <1>1
<1>5. Queued' \subseteq Queued \ {Head(queue)}
  BY <1>1, <1>2, <1>4 DEF Queued
<1>6. Queued \ {Head(queue)} \subseteq Queued'
  BY <1>1, <1>3 DEF Queued
<1>7. \A i, j \in 1..Len(queue') : queue'[i] = queue'[j] => i = j
  BY <1>1, <1>2
<1> QED
  BY <1>1, <1>4, <1>5, <1>6, <1>7 DEF Queued

(* Type.Add keeps the queue consistent, and the key stays or becomes dirty. *)
LEMMA EnqueueFacts ==
  ASSUME QueueInv, NEW k \in Items, Enqueue(k),
         UNCHANGED <<processing, doing, wpc>>
  PROVE  /\ queue' \in Seq(Items)
         /\ dirty' \subseteq Items
         /\ QueueConsistent'
         /\ Exclusive'
         /\ dirty \subseteq dirty'
         /\ ~shuttingDown => dirty' = dirty \cup {k}
         /\ shuttingDown => dirty' = dirty
<1> USE DEF QueueInv
<1>1. CASE shuttingDown \/ k \in dirty
  <2>1. UNCHANGED <<queue, dirty, processing, doing, wpc>>
    BY <1>1 DEF Enqueue
  <2>2. QueueConsistent' /\ Exclusive'
    BY <2>1 DEF QueueConsistent, Queued, Exclusive
  <2> QED
    BY <1>1, <2>1, <2>2 DEF TypeOK
<1>2. CASE ~shuttingDown /\ k \notin dirty /\ k \in processing
  BY <1>2 DEF Enqueue, TypeOK, QueueConsistent, Queued, Exclusive
<1>3. CASE ~shuttingDown /\ k \notin dirty /\ k \notin processing
  <2>1. queue' = Append(queue, k) /\ dirty' = dirty \cup {k}
    BY <1>3 DEF Enqueue
  <2>2. queue \in Seq(Items) /\ k \notin Queued
    BY <1>3 DEF TypeOK, QueueConsistent
  <2>3. /\ queue' \in Seq(Items) /\ Queued' = Queued \cup {k}
        /\ \A i, j \in 1..Len(queue') : queue'[i] = queue'[j] => i = j
    BY <2>1, <2>2, QueueAppend DEF QueueConsistent
  <2>4. QueueConsistent'
    BY <1>3, <2>1, <2>3 DEF QueueConsistent
  <2> QED
    BY <1>3, <2>1, <2>3, <2>4 DEF TypeOK, Exclusive
<1> QED
  BY <1>1, <1>2, <1>3

LEMMA QueueInit == Init => Inv
<1> SUFFICES ASSUME Init PROVE Inv
  OBVIOUS
<1>1. TypeOK
  <2>1. failures \in [Items -> 0..MaxRequeues]
    BY QueueAssumption DEF Init
  <2>2. queue \in Seq(Items)
    BY DEF Init
  <2> QED
    BY <2>1, <2>2 DEF Init, TypeOK
<1>2. Queued = {}
  BY DEF Init, Queued
<1>3. \A w \in Workers : doing[w] = None /\ wpc[w] = "get"
  BY DEF Init
<1>4. processing = {doing[w] : w \in Workers} \ {None}
  BY <1>3 DEF Init
<1>5. \A i, j \in 1..Len(queue) : queue[i] = queue[j] => i = j
  BY DEF Init
<1>6. QueueConsistent
  BY <1>2, <1>3, <1>4, <1>5 DEF QueueConsistent, Init
<1>7. Exclusive /\ FailureFiled /\ FailuresRetried
  BY <1>3 DEF Init, Exclusive, FailureFiled, FailuresRetried
<1> QED
  BY <1>1, <1>6, <1>7 DEF Inv, QueueInv

(* Steps that move no key: a worker may go from sync to done. *)
LEMMA QueueStands ==
  ASSUME QueueConsistent, UNCHANGED <<queue, dirty, processing, doing>>,
         \A w \in Workers : wpc'[w] \in {"sync", "done"}
                             <=> wpc[w] \in {"sync", "done"}
  PROVE  QueueConsistent'
<1>1. Queued' = Queued
  BY DEF Queued
<1> QED
  BY <1>1 DEF QueueConsistent

LEMMA QueueNext == Inv /\ [Next]_vars => Inv'
<1> SUFFICES ASSUME Inv, [Next]_vars PROVE Inv'
  OBVIOUS
<1> USE DEF Inv, QueueInv
<1>1. ASSUME NEW k \in Items, Add(k) PROVE Inv'
  <2>1. Enqueue(k) /\ UNCHANGED <<processing, waiting, failures, shuttingDown,
                          doing, wpc, workerDone, crashed, stopper>>
    BY <1>1 DEF Add
  <2>2. TypeOK'
    BY <2>1, EnqueueFacts DEF TypeOK
  <2>3. FailureFiled' /\ FailuresRetried'
    BY <2>1, EnqueueFacts DEF FailureFiled, FailuresRetried
  <2> QED
    BY <2>1, <2>2, <2>3, EnqueueFacts
<1>2. ASSUME NEW k \in Items, Ripen(k) PROVE Inv'
  <2>1. /\ Enqueue(k) /\ ~shuttingDown /\ waiting' = waiting \ {k}
        /\ UNCHANGED <<processing, failures, shuttingDown,
                       doing, wpc, workerDone, crashed, stopper>>
    BY <1>2 DEF Ripen
  <2>2. TypeOK'
    BY <2>1, EnqueueFacts DEF TypeOK
  <2>3. dirty' = dirty \cup {k}
    BY <2>1, EnqueueFacts
  <2>4. FailureFiled' /\ FailuresRetried'
    BY <2>1, <2>3 DEF FailureFiled, FailuresRetried
  <2> QED
    BY <2>1, <2>2, <2>4, EnqueueFacts
<1>3. ASSUME NEW w \in Workers, Get(w) PROVE Inv'
  <2> DEFINE k == Head(queue)
  <2>1. /\ wpc[w] = "get" /\ queue # <<>> /\ queue' = Tail(queue)
        /\ processing' = processing \cup {k} /\ dirty' = dirty \ {k}
        /\ doing' = [doing EXCEPT ![w] = k]
        /\ wpc' = [wpc EXCEPT ![w] = "sync"]
        /\ UNCHANGED <<waiting, failures, shuttingDown, workerDone, crashed,
                       stopper>>
    BY <1>3 DEF Get
  <2>2. queue \in Seq(Items)
        /\ \A i, j \in 1..Len(queue) : queue[i] = queue[j] => i = j
    BY DEF TypeOK, QueueConsistent
  <2>3. /\ k \in Items /\ queue' \in Seq(Items) /\ k \in Queued
        /\ Queued' = Queued \ {k}
        /\ \A i, j \in 1..Len(queue') : queue'[i] = queue'[j] => i = j
    BY <2>1, <2>2, QueueTail
  <2>4. k \in dirty /\ k \notin processing /\ k # None
    BY <2>3, QueueAssumption DEF QueueConsistent
  <2>5. doing[w] = None
    BY <2>1 DEF QueueConsistent
  <2>6. PICK q \in Items : q = k
    BY <2>3
  <2> HIDE DEF k
  <2>7. TypeOK'
    BY <2>1, <2>3 DEF TypeOK
  <2>8. processing' = {doing'[v] : v \in Workers} \ {None}
    BY <2>1, <2>4, <2>5, <2>6 DEF QueueConsistent, TypeOK
  <2>9. QueueConsistent'
    BY <2>1, <2>3, <2>4, <2>8, <2>6 DEF QueueConsistent, TypeOK
  <2>10. Exclusive'
    <3>1. \A v \in Workers : doing[v] # k
      BY <2>4 DEF QueueConsistent
    <3> QED
      BY <2>1, <3>1 DEF Exclusive, TypeOK
  <2>11. FailureFiled'
    <3>1. \A v \in Workers : wpc[v] = "done" => doing[v] # k
      BY <2>4 DEF QueueConsistent
    <3> QED
      BY <2>1, <3>1 DEF FailureFiled, TypeOK
  <2>12. FailuresRetried'
    BY <2>1 DEF FailuresRetried
  <2> QED
    BY <2>7, <2>9, <2>10, <2>11, <2>12
<1>4. ASSUME NEW w \in Workers, Quit(w) PROVE Inv'
  <2>1. TypeOK'
    BY <1>4 DEF Quit, TypeOK
  <2>2. QueueConsistent'
    BY <1>4, QueueStands DEF Quit, TypeOK
  <2> QED
    BY <1>4, <2>1, <2>2 DEF Quit, TypeOK, Exclusive, FailureFiled, FailuresRetried
<1>5. ASSUME NEW w \in Workers, SyncOK(w) PROVE Inv'
  <2>1. doing[w] \in Items
    BY <1>5 DEF SyncOK, TypeOK, QueueConsistent
  <2>2. TypeOK'
    BY <1>5, <2>1, QueueAssumption DEF SyncOK, TypeOK
  <2>3. QueueConsistent'
    BY <1>5, QueueStands DEF SyncOK, TypeOK
  <2>4. FailureFiled'
    BY <1>5, <2>1 DEF SyncOK, TypeOK, FailureFiled
  <2>5. FailuresRetried'
    BY <1>5, <2>1 DEF SyncOK, TypeOK, FailuresRetried
  <2> QED
    BY <1>5, <2>2, <2>3, <2>4, <2>5 DEF SyncOK, Exclusive
<1>6. ASSUME NEW w \in Workers, SyncErr(w) PROVE Inv'
  <2>1. doing[w] \in Items
    BY <1>6 DEF SyncErr, TypeOK, QueueConsistent
  <2>2. failures[doing[w]] \in 0..MaxRequeues
        /\ failures[doing[w]] + 1 \in 0..MaxRequeues
    BY <1>6, <2>1, QueueAssumption DEF SyncErr, TypeOK
  <2>3. TypeOK'
    BY <1>6, <2>1, <2>2 DEF SyncErr, TypeOK
  <2>4. QueueConsistent'
    BY <1>6, QueueStands DEF SyncErr, TypeOK
  <2>5. FailureFiled'
    <3>1. ASSUME NEW v \in Workers, wpc'[v] = "done",
                 failures'[doing[v]] > 0, ~shuttingDown
          PROVE  doing[v] \in waiting' \cup dirty
      <4>1. CASE doing[v] = doing[w]
        BY <1>6, <3>1, <4>1 DEF SyncErr
      <4>2. CASE doing[v] # doing[w]
        <5>1. wpc[v] = "done" /\ doing[v] \in Items
          BY <1>6, <3>1, <4>2 DEF SyncErr, TypeOK, QueueConsistent
        <5>2. failures[doing[v]] > 0
          BY <1>6, <3>1, <4>2, <5>1 DEF SyncErr, TypeOK
        <5> QED
          BY <1>6, <3>1, <5>1, <5>2 DEF SyncErr, FailureFiled
      <4> QED
        BY <4>1, <4>2
    <3> QED
      BY <1>6, <3>1 DEF SyncErr, FailureFiled
  <2>6. FailuresRetried'
    BY <1>6, <2>1 DEF SyncErr, TypeOK, FailuresRetried
  <2> QED
    BY <1>6, <2>3, <2>4, <2>5, <2>6 DEF SyncErr, Exclusive
<1>7. ASSUME NEW w \in Workers, Done(w) PROVE Inv'
  <2>1. /\ wpc[w] = "done" /\ processing' = processing \ {doing[w]}
        /\ queue' = IF doing[w] \in dirty THEN Append(queue, doing[w]) ELSE queue
        /\ doing' = [doing EXCEPT ![w] = None]
        /\ wpc' = [wpc EXCEPT ![w] = "get"]
        /\ UNCHANGED <<dirty, waiting, failures, shuttingDown, workerDone,
                       crashed, stopper>>
    BY <1>7 DEF Done
  <2>2. doing[w] \in Items /\ doing[w] # None /\ doing[w] \in processing
    BY <2>1 DEF TypeOK, QueueConsistent
  <2>3. /\ queue' \in Seq(Items)
        /\ Queued' = IF doing[w] \in dirty THEN Queued \cup {doing[w]} ELSE Queued
        /\ \A i, j \in 1..Len(queue') : queue'[i] = queue'[j] => i = j
    <3>1. /\ queue \in Seq(Items) /\ doing[w] \notin Queued
          /\ \A i, j \in 1..Len(queue) : queue[i] = queue[j] => i = j
      BY <2>2 DEF TypeOK, QueueConsistent
    <3>2. CASE doing[w] \in dirty
      BY <2>1, <2>2, <3>1, <3>2, QueueAppend
    <3>3. CASE doing[w] \notin dirty
      BY <2>1, <3>1, <3>3 DEF Queued
    <3> QED
      BY <3>2, <3>3
  <2>4. TypeOK'
    BY <2>1, <2>3 DEF TypeOK
  <2>5. processing' = {doing'[v] : v \in Workers} \ {None}
    <3>1. \A v \in Workers \ {w} : doing[v] # doing[w] /\ doing'[v] = doing[v]
      BY <2>1, <2>2 DEF Exclusive, TypeOK
    <3>2. doing'[w] = None
      BY <2>1 DEF TypeOK
    <3> QED
      BY <2>1, <2>2, <3>1, <3>2 DEF QueueConsistent
  <2>6. QueueConsistent'
    <3>1. Queued' = dirty' \ processing'
      BY <2>1, <2>2, <2>3 DEF QueueConsistent
    <3>2. \A v \in Workers : doing'[v] # None <=> wpc'[v] \in {"sync", "done"}
      BY <2>1 DEF QueueConsistent, TypeOK
    <3> QED
      BY <2>3, <2>5, <3>1, <3>2 DEF QueueConsistent
  <2>7. Exclusive'
    BY <2>1 DEF Exclusive, TypeOK
  <2>8. FailureFiled'
    BY <2>1 DEF FailureFiled, TypeOK
  <2>9. FailuresRetried'
    BY <2>1, <2>2 DEF FailuresRetried, FailureFiled
  <2> QED
    BY <2>4, <2>6, <2>7, <2>8, <2>9
<1>8. CASE ShutDown \/ Acked \/ UNCHANGED vars
  <2>1. TypeOK'
    BY <1>8 DEF ShutDown, Acked, vars, TypeOK
  <2>2. QueueConsistent' /\ Exclusive'
    BY <1>8, QueueStands DEF ShutDown, Acked, vars, Exclusive
  <2> QED
    BY <1>8, <2>1, <2>2 DEF ShutDown, Acked, vars, FailureFiled, FailuresRetried
<1> QED
  BY <1>1, <1>2, <1>3, <1>4, <1>5, <1>6, <1>7, <1>8 DEF Next, WorkerStep

(* The three structures of the work queue agree at all times, and no two    *)
(* workers run sync on the same key.                                        *)
THEOREM QueueCorrect == Spec => []QueueInv
<1>1. Inv => QueueInv
  BY DEF Inv
<1> QED
  BY <1>1, QueueInit, QueueNext, PTL DEF Spec

(* sync never runs twice at a time on one key, for any number of workers.   *)
THEOREM SyncsExclusive == Spec => []Exclusive
<1>1. QueueInv => Exclusive
  BY DEF QueueInv
<1> QED
  BY <1>1, QueueCorrect, PTL

(* A key whose last sync failed is not lost before the queue is shut down,  *)
(* whatever is added meanwhile.                                             *)
THEOREM FailuresKept == Spec => []FailuresRetried
<1>1. Inv => FailuresRetried
  BY DEF Inv
<1> QED
  BY <1>1, QueueInit, QueueNext, PTL DEF Spec

-----------------------------------------------------------------------------
LEMMA RefinesInit == Init => WS!Init
BY DEF Init, WS!Init

LEMMA RefinesNext == Inv /\ [Next]_vars => [WS!Next]_(WS!vars)
<1> SUFFICES ASSUME Inv, [Next]_vars PROVE [WS!Next]_(WS!vars)
  OBVIOUS
<1> USE DEF Inv, QueueInv
<1>1. ASSUME NEW k \in Items, Add(k) PROVE WS!Add(k) \/ UNCHANGED WS!vars
  BY <1>1 DEF Add, Enqueue, WS!Add, WS!vars
<1>2. ASSUME NEW k \in Items, Ripen(k) PROVE WS!Ripen(k)
  BY <1>2 DEF Ripen, Enqueue, WS!Ripen
<1>3. ASSUME NEW w \in Workers, Get(w)
      PROVE  Head(queue) \in Items /\ WS!Begin(Head(queue))
  <2>1. queue # <<>> /\ queue' = Tail(queue) /\ queue \in Seq(Items)
        /\ \A i, j \in 1..Len(queue) : queue[i] = queue[j] => i = j
    BY <1>3 DEF Get, TypeOK, QueueConsistent
  <2>2. Head(queue) \in Items /\ Head(queue) \in Queued
    BY <2>1, QueueTail
  <2> QED
    BY <1>3, <2>2 DEF Get, QueueConsistent, WS!Begin
<1>4. ASSUME NEW w \in Workers, wpc[w] \in {"sync", "done"}
      PROVE  doing[w] \in Items /\ doing[w] \in processing
  BY <1>4 DEF TypeOK, QueueConsistent
<1>5. ASSUME NEW w \in Workers, SyncErr(w)
      PROVE  doing[w] \in Items /\ (WS!Fail(doing[w]) \/ UNCHANGED WS!vars)
  BY <1>4, <1>5 DEF SyncErr, WS!Fail, WS!vars
<1>6. ASSUME NEW w \in Workers, Done(w)
      PROVE  doing[w] \in Items /\ WS!End(doing[w])
  BY <1>4, <1>6 DEF Done, WS!End
<1>7. ASSUME NEW w \in Workers, Quit(w) \/ SyncOK(w)
      PROVE  UNCHANGED WS!vars
  BY <1>7 DEF Quit, SyncOK, WS!vars
<1>8. CASE ShutDown
  BY <1>8 DEF ShutDown, WS!Close, WS!Next
<1>9. CASE Acked \/ UNCHANGED vars
  BY <1>9 DEF Acked, vars, WS!vars
<1> QED
  BY <1>1, <1>2, <1>3, <1>5, <1>6, <1>7, <1>8, <1>9
  DEF Next, WorkerStep, WS!Next

(* The queue, dirty set, processing set and delaying queue of client-go     *)
(* implement the WorkSet that the controller's workers are written against. *)
THEOREM Refines == Spec => ImplementsWorkSet
BY QueueInit, QueueNext, RefinesInit, RefinesNext, PTL
DEF Spec, ImplementsWorkSet, WS!Spec
=============================================================================
