------------------------- MODULE DomainClaimsProofs -------------------------
(***************************************************************************)
(* Proofs about DomainClaims, for every number of keys, namespaces, user   *)
(* operations and faults.                                                  *)
(***************************************************************************)
EXTENDS DomainClaims, TLAPS

-----------------------------------------------------------------------------
(* What the writes do to a resource. *)

LEMMA NewDomainFacts ==
  ASSUME NEW s \in Specs
  PROVE  /\ NewDomain(s) \in Domains
         /\ NewDomain(s).phase = "New"
BY DEF NewDomain, Domains, Phases, Reasons

LEMMA AfterDeleteFacts ==
  ASSUME NEW d \in Domains
  PROVE  /\ AfterDelete(d) \in Domains \cup {None}
         /\ AfterDelete(d) # None =>
              /\ AfterDelete(d).spec = d.spec
              /\ AfterDelete(d).phase = d.phase
              /\ AfterDelete(d).discarded = d.discarded
BY DEF AfterDelete, Domains

LEMMA AfterPatchFacts ==
  ASSUME NEW d \in Domains
  PROVE  /\ AfterPatch(d) \in Domains \cup {None}
         /\ AfterPatch(d) # None =>
              /\ AfterPatch(d).spec = d.spec
              /\ AfterPatch(d).phase = d.phase
              /\ AfterPatch(d).discarded = d.discarded
BY DEF AfterPatch, Domains

LEMMA UpdatedFacts ==
  ASSUME NEW d \in Domains, NEW v \in Verdicts, NEW mode
  PROVE  /\ Updated(d, v, mode) \in Domains
         /\ Updated(d, v, mode).spec = d.spec
         /\ Updated(d, v, mode).phase = v.phase
         /\ Updated(d, v, mode).discarded = d.discarded
BY DEF Updated, Domains, Verdicts

LEMMA EditFacts ==
  ASSUME NEW d \in Domains, NEW s \in Specs
  PROVE  /\ [d EXCEPT !.spec = s] \in Domains
         /\ [d EXCEPT !.spec = s].spec = s
         /\ [d EXCEPT !.spec = s].phase = d.phase
         /\ [d EXCEPT !.spec = s].discarded = d.discarded
BY DEF Domains

(* claimDomains' update. *)
Reset(d, s) == [d EXCEPT !.spec = s, !.phase = "New", !.reason = "",
                         !.discarded = FALSE]

LEMMA ResetFacts ==
  ASSUME NEW d \in Domains, NEW s \in Specs
  PROVE  Reset(d, s) \in Domains /\ Reset(d, s).phase = "New"
BY DEF Reset, Domains, Phases, Reasons

LEMMA RecoveredFacts ==
  ASSUME NEW n \in Notes, n.old # None
  PROVE  Recovered(n) \in Domains /\ Recovered(n).discarded
BY DEF Recovered, Notes, Domains

LEMMA SearchOrderType ==
  ASSUME NEW c \in Copies
  PROVE  SearchOrder(c.key, c.obj) \in Seq(Namespaces)
BY TypesAssumption DEF SearchOrder, Copies, Domains

LEMMA VerdictType ==
  ASSUME NEW p \in Phases, NEW r \in Reasons
  PROVE  Verdict(p, r) \in Verdicts /\ Verdict(p, r).phase = p
BY DEF Verdict, Verdicts

LEMMA IdleFacts ==
  /\ Idle \in WorkerStates
  /\ Idle.pc = "idle" /\ Idle.cur = None /\ Idle.todo = {}
BY DEF Idle, WorkerStates

-----------------------------------------------------------------------------
(* Type correctness. *)

TypeInv == TypeOK /\ WorkerShape

LEMMA SpendType ==
  ASSUME budget \in Budgets, NEW what \in {"user", "fault", "restart"},
         Spend(what)
  PROVE  budget' \in Budgets
BY ClaimsAssumption DEF Budgets, Spend

LEMMA AppendFacts ==
  ASSUME NEW S, NEW q \in Seq(S), NEW e \in S
  PROVE  /\ Append(q, e) \in Seq(S)
         /\ Append(q, e) # <<>>
         /\ Len(Append(q, e)) = Len(q) + 1
         /\ Append(q, e)[Len(q) + 1] = e
         /\ \A i \in 1..Len(q) : Append(q, e)[i] = q[i]
OBVIOUS

LEMMA EmptyFacts ==
  ASSUME NEW S, NEW q \in Seq(S)
  PROVE  /\ Len(q) \in Nat
         /\ q = <<>> <=> Len(q) = 0
OBVIOUS

LEMMA TailFacts ==
  ASSUME NEW S, NEW q \in Seq(S), q # <<>>
  PROVE  /\ Head(q) \in S /\ Head(q) = q[1]
         /\ Tail(q) \in Seq(S)
         /\ Len(q) \in Nat /\ Len(q) > 0
         /\ Len(Tail(q)) = Len(q) - 1
         /\ \A i \in 1..Len(Tail(q)) : Tail(q)[i] = q[i + 1]
OBVIOUS

LEMMA PublishType ==
  ASSUME TypeOK, NEW k \in Keys, NEW o \in Domains \cup {None}, Publish(k, o)
  PROVE  /\ store' \in [Keys -> Domains \cup {None}]
         /\ watch' \in [Keys -> Seq(Domains \cup {None})]
<1>1. CASE o = store[k]
  BY <1>1 DEF TypeOK, Publish
<1>2. CASE o # store[k]
  <2> DEFINE S == Domains \cup {None}
  <2>1. watch \in [Keys -> Seq(S)] /\ watch[k] \in Seq(S) /\ o \in S
    BY DEF TypeOK
  <2>2. watch' = [watch EXCEPT ![k] = Append(watch[k], o)]
    BY <1>2 DEF Publish
  <2>3. Append(watch[k], o) \in Seq(S)
    BY <2>1, AppendFacts
  <2> HIDE DEF S
  <2>4. watch' \in [Keys -> Seq(S)]
    BY <2>1, <2>2, <2>3
  <2> QED
    BY <1>2, <2>4 DEF TypeOK, Publish, S
<1> QED
  BY <1>1, <1>2

LEMMA OutdateType ==
  ASSUME TypeInv, NEW k \in Keys, Outdate(k)
  PROVE  worker' \in WorkerStates /\ WorkerShape'
BY DEF TypeInv, TypeOK, WorkerShape, Outdate, WorkerStates

LEMMA ReturnType ==
  ASSUME TypeInv, worker.pc # "idle", NEW failed, Return(failed)
  PROVE  queue' \subseteq Keys /\ worker' \in WorkerStates /\ WorkerShape'
BY IdleFacts DEF TypeInv, TypeOK, WorkerShape, Return, WorkerStates

LEMMA AnswerType ==
  ASSUME TypeInv, worker.pc # "idle", NEW answered \in BOOLEAN,
         NEW w \in WorkerStates, Answer(answered, w)
  PROVE  /\ queue' \subseteq Keys
         /\ worker' \in WorkerStates
         /\ budget' \in Budgets
         /\ ~answered => WorkerShape'
BY ReturnType, SpendType DEF TypeInv, TypeOK, Answer, Proceed

LEMMA UserType ==
  ASSUME TypeInv, User
  PROVE  TypeInv'
<1> USE DEF TypeInv
<1>1. ASSUME NEW k \in UserKeys, NEW s \in Wanted[k], Create(k, s)
      PROVE  TypeInv'
  <2>1. k \in Keys /\ s \in Specs
    BY <1>1, ClaimsAssumption
  <2> QED
    BY <1>1, <2>1, NewDomainFacts, PublishType, OutdateType, SpendType
    DEF TypeOK, Create
<1>2. ASSUME NEW k \in UserKeys, NEW s \in Specs, Edit(k, s)
      PROVE  TypeInv'
  <2>1. k \in Keys /\ store[k] \in Domains
    BY <1>2, ClaimsAssumption DEF TypeOK, Edit
  <2> QED
    BY <1>2, <2>1, EditFacts, PublishType, OutdateType, SpendType
    DEF TypeOK, Edit
<1>3. ASSUME NEW k \in UserKeys, NEW s \in Specs, AutoClaim(k, s)
      PROVE  TypeInv'
  <2>1. k \in Keys /\ cache[k] \in Domains
    BY <1>3, ClaimsAssumption DEF TypeOK, AutoClaim
  <2> QED
    BY <1>3, <2>1, EditFacts, ResetFacts, PublishType, OutdateType, SpendType
    DEF TypeOK, AutoClaim, Reset
<1>4. ASSUME NEW k \in Keys, Delete(k)
      PROVE  TypeInv'
  <2>1. store[k] \in Domains
    BY <1>4 DEF TypeOK, Delete
  <2> QED
    BY <1>4, <2>1, AfterDeleteFacts, PublishType, OutdateType, SpendType
    DEF TypeOK, Delete
<1> QED
  BY <1>1, <1>2, <1>3, <1>4 DEF User

LEMMA InformerType ==
  ASSUME TypeInv, Informer
  PROVE  TypeInv'
<1> USE DEF TypeInv
<1> DEFINE S == Domains \cup {None}
<1>0. /\ cache \in [Keys -> S] /\ store \in [Keys -> S]
      /\ watch \in [Keys -> Seq(S)] /\ notes \in Seq(Notes)
  BY DEF TypeOK
<1>1. ASSUME NEW k \in Keys, Observe(k)
      PROVE  TypeInv'
  <2>1. watch[k] \in Seq(S) /\ watch[k] # <<>> /\ cache[k] \in S
    BY <1>0, <1>1 DEF Observe, Lagging
  <2>2. Head(watch[k]) \in S /\ Tail(watch[k]) \in Seq(S)
    BY <2>1, TailFacts
  <2>3. [key |-> k, old |-> cache[k], new |-> Head(watch[k])] \in Notes
    BY <2>1, <2>2 DEF Notes
  <2>4. notes' \in Seq(Notes)
    BY <1>0, <1>1, <2>3, AppendFacts DEF Observe
  <2>5. cache' \in [Keys -> S]
    BY <1>0, <1>1, <2>2 DEF Observe
  <2>6. watch' = [watch EXCEPT ![k] = Tail(watch[k])]
    BY <1>1 DEF Observe
  <2> HIDE DEF S
  <2>7. watch' \in [Keys -> Seq(S)]
    BY <1>0, <2>2, <2>6
  <2> QED
    BY <1>1, <2>4, <2>5, <2>7 DEF TypeOK, WorkerShape, Observe, S
<1>2. ASSUME NEW k \in Keys, Resync(k)
      PROVE  TypeInv'
  <2>1. [key |-> k, old |-> cache[k], new |-> cache[k]] \in Notes
    BY <1>0 DEF Notes
  <2>2. notes' \in Seq(Notes)
    BY <1>0, <1>2, <2>1, AppendFacts DEF Resync
  <2> QED
    BY <1>2, <2>2 DEF TypeOK, WorkerShape, Resync
<1>3. ASSUME NEW posted \in BOOLEAN, HandleEvent(posted)
      PROVE  TypeInv'
  <2> DEFINE n == Head(notes)
  <2> DEFINE k == CopyKey(n.key, n.new)
  <2>0. notes # <<>> /\ notes' = Tail(notes)
    BY <1>3 DEF HandleEvent
  <2>1. n \in Notes /\ n.key \in Keys /\ notes' \in Seq(Notes)
    <3>1. n \in Notes /\ notes' \in Seq(Notes)
      BY <1>0, <2>0, TailFacts
    <3> QED
      BY <3>1 DEF Notes
  <2>2. queue' \subseteq Keys
    BY <1>3, <2>1 DEF HandleEvent, TypeOK
  <2>3. budget' \in Budgets
    BY <1>3, SpendType DEF HandleEvent, TypeOK
  <2>4. CASE ~(Renamed(n) /\ posted)
    BY <1>3, <2>1, <2>2, <2>3, <2>4 DEF HandleEvent, TypeOK, WorkerShape
  <2>5. CASE Renamed(n) /\ posted
    <3>1. k \in Keys /\ Recovered(n) \in Domains
      BY <2>1, <2>5, RecoveredFacts DEF Renamed
    <3>2. /\ Publish(k, IF store[k] = None THEN Recovered(n) ELSE store[k])
          /\ IF store[k] = None THEN Outdate(k) ELSE UNCHANGED worker
          /\ UNCHANGED <<cache, apis, granted>>
      BY <1>3, <2>5 DEF HandleEvent
    <3>3. store[k] \in Domains \cup {None}
      BY <1>0, <3>1
    <3> HIDE DEF k, n
    <3>4. /\ store' \in [Keys -> Domains \cup {None}]
          /\ watch' \in [Keys -> Seq(Domains \cup {None})]
      BY <3>1, <3>2, <3>3, PublishType
    <3>5. worker' \in WorkerStates /\ WorkerShape'
      BY <3>1, <3>2, OutdateType DEF TypeOK, WorkerShape
    <3> QED
      BY <2>1, <2>2, <2>3, <3>2, <3>4, <3>5 DEF TypeOK
  <2> QED
    BY <2>4, <2>5
<1> QED
  BY <1>1, <1>2, <1>3 DEF Informer

LEMMA IngressType ==
  ASSUME TypeInv, Ingress
  PROVE  TypeInv'
BY DEF TypeInv, TypeOK, WorkerShape, Ingress, IngressCheck, IngressRoute

(* The worker's record after a step, where syncDomain goes on. *)
LEMMA DecideType ==
  ASSUME worker \in WorkerStates, worker.cur # None, worker.pc # "idle",
         worker.key # None, NEW v \in Verdicts,
         NEW mode \in {"accept", "claim", "invalid", "retry", "purge", "wipe"}
  PROVE  /\ Decide(mode, v) \in WorkerStates
         /\ worker' = Decide(mode, v) => WorkerShape'
BY AbsentAssumption DEF Decide, WorkerStates, WorkerShape

LEMMA CopiesType ==
  ASSUME TypeOK
  PROVE  /\ \A d : Associated(d) \subseteq Copies
         /\ CachedCopies(LAMBDA o : ~IsPrimary(o) /\ o.phase = "OK")
              \subseteq Copies
BY DEF TypeOK, Associated, CachedCopies, Copies

LEMMA SyncType ==
  ASSUME TypeInv, SyncStep
  PROVE  TypeInv'
<1> USE DEF TypeInv
<1>1. worker \in WorkerStates /\ WorkerShape /\ queue \subseteq Keys
  BY DEF TypeOK
<1>2. SUFFICES queue' \subseteq Keys /\ worker' \in WorkerStates /\ WorkerShape'
  <2>1. OtherUnchanged
    BY DEF SyncStep, Vanished, Reject, AcceptNew, ClaimPrimary, SearchShared,
           KeepPrimary, Retry, Wait, SearchHit, SearchMiss, SearchOver, Collect,
           ListShared, LoopDone, ApisDeleted, SweepDone, NextDomain, SweepHost
  <2> QED
    BY <1>2, <2>1 DEF TypeOK, OtherUnchanged
<1>3. CASE Vanished \/ KeepPrimary \/ Wait \/ SweepDone
  BY <1>3, ReturnType DEF Vanished, KeepPrimary, Wait, SweepDone, InPhase
<1>4. CASE Reject \/ AcceptNew \/ ClaimPrimary \/ Retry
  <2>1. /\ worker.pc = "sync" /\ worker.cur # None /\ worker.key # None
        /\ worker.cur.obj.reason \in Reasons
    BY <1>1, <1>4 DEF Reject, AcceptNew, ClaimPrimary, Retry, InPhase,
       WorkerShape, WorkerStates, Copies, Domains
  <2>2. PICK mode \in {"invalid", "accept", "claim", "retry"}, p \in Phases,
             r \in Reasons : Proceed(Decide(mode, Verdict(p, r)))
    BY <1>4, <2>1 DEF Reject, AcceptNew, ClaimPrimary, Retry, Phases, Reasons
  <2> QED
    BY <1>1, <2>1, <2>2, VerdictType, DecideType DEF Proceed
<1>5. CASE SearchShared
  <2>1. worker.cur \in Copies /\ worker.pc = "sync"
    BY <1>1, <1>5 DEF SearchShared, InPhase, WorkerStates
  <2>2. SearchOrder(worker.cur.key, worker.cur.obj) \in Seq(Namespaces)
    BY <2>1, SearchOrderType
  <2> QED
    BY <1>1, <1>5, <2>1, <2>2, AbsentAssumption
    DEF SearchShared, InPhase, Proceed, WorkerStates, WorkerShape
<1>6. CASE SearchHit
  <2>1. worker.pc = "search" /\ worker.cur # None /\ worker.key # None
    BY <1>1, <1>6 DEF SearchHit, WorkerShape
  <2>0. <<>> \in Seq(Namespaces)
    OBVIOUS
  <2>2. CASE worker.mode = "wipe"
    <3>1. /\ worker' = [worker EXCEPT !.pc = "each", !.cur = None, !.left = <<>>]
          /\ UNCHANGED queue
      BY <1>6, <2>2 DEF SearchHit, Proceed
    <3> QED
      BY <1>1, <2>0, <2>1, <3>1 DEF WorkerStates, WorkerShape
  <2>3. CASE worker.mode # "wipe" /\ worker.cur.obj.phase = "Pending"
    <3>1. Verdict("OK", "") \in Verdicts
      BY VerdictType DEF Phases, Reasons
    <3>2. /\ worker' = [worker EXCEPT !.pc = "put", !.mode = "claim",
                           !.verdict = Verdict("OK", ""), !.left = <<>>]
          /\ UNCHANGED queue
      BY <1>6, <2>3 DEF SearchHit, Proceed, Decide
    <3> QED
      BY <1>1, <2>0, <2>1, <3>1, <3>2, AbsentAssumption
      DEF WorkerStates, WorkerShape
  <2>4. CASE ~(worker.mode = "wipe") /\ ~(worker.cur.obj.phase = "Pending")
    BY <1>6, <2>1, <2>4, ReturnType DEF SearchHit
  <2> QED
    BY <2>2, <2>3, <2>4
<1>7. CASE SearchMiss
  <2>1. Tail(worker.left) \in Seq(Namespaces)
    BY <1>1, <1>7, TailFacts DEF SearchMiss, WorkerStates
  <2> QED
    BY <1>1, <1>7, <2>1 DEF SearchMiss, Proceed, WorkerStates, WorkerShape
<1>8. CASE SearchOver
  <2>1. worker.pc = "search" /\ worker.cur # None /\ worker.key # None
    BY <1>1, <1>8 DEF SearchOver, WorkerShape
  <2>2. Verdict("Failed", "DomainNotFound") \in Verdicts
    BY VerdictType DEF Phases, Reasons
  <2>3. CASE worker.mode = "wipe"
    BY <1>1, <1>8, <2>1, <2>3 DEF SearchOver, Proceed, WorkerStates, WorkerShape
  <2>4. CASE worker.mode # "wipe"
    BY <1>1, <1>8, <2>1, <2>2, <2>4, DecideType DEF SearchOver, Proceed
  <2> QED
    BY <2>3, <2>4
<1>9. CASE Collect \/ ListShared
  <2>1. PICK T \in SUBSET Copies, m \in {"purge", "wipe"} :
          worker' = [worker EXCEPT !.pc = "each", !.mode = m, !.cur = None,
                                   !.todo = T, !.stale = Lagging]
    <3>1. CASE Collect
      BY <3>1, CopiesType DEF Collect, Proceed
    <3>2. CASE ListShared
      <4>1. worker.cur = None
        BY <3>2 DEF ListShared
      <4> QED
        BY <1>1, <3>2, <4>1, CopiesType DEF ListShared, Proceed, WorkerStates
    <3> QED
      BY <1>9, <3>1, <3>2
  <2>2. worker.pc = "sync" /\ UNCHANGED queue
    BY <1>9 DEF Collect, ListShared, Proceed
  <2> QED
    BY <1>1, <2>1, <2>2 DEF WorkerStates, WorkerShape, Lagging
<1>10. CASE LoopDone
  BY <1>1, <1>10 DEF LoopDone, Proceed, WorkerStates, WorkerShape
<1>11. CASE ApisDeleted
  <2>1. worker.pc = "delete" /\ worker.key # None
    BY <1>1, <1>11 DEF ApisDeleted, WorkerShape
  <2>2. CASE worker.cur = None
    BY <1>1, <1>11, <2>1, <2>2 DEF ApisDeleted, Proceed, WorkerStates, WorkerShape
  <2>3. CASE worker.cur # None
    <3>1. Verdict("Failed", "DomainDeleted") \in Verdicts
      BY VerdictType DEF Phases, Reasons
    <3>2. worker.mode \in
            {"accept", "claim", "invalid", "retry", "purge", "wipe"}
      BY <1>1 DEF WorkerStates
    <3> QED
      BY <1>1, <1>11, <2>1, <2>3, <3>1, <3>2, DecideType DEF ApisDeleted, Proceed
  <2> QED
    BY <2>2, <2>3
<1>12. ASSUME NEW c \in worker.todo, NextDomain(c)
       PROVE  queue' \subseteq Keys /\ worker' \in WorkerStates /\ WorkerShape'
  <2>1. c \in Copies /\ worker.pc = "each"
    BY <1>1, <1>12 DEF WorkerStates, NextDomain
  <2>2. SearchOrder(c.key, c.obj) \in Seq(Namespaces) /\ <<>> \in Seq(Namespaces)
    BY <2>1, SearchOrderType
  <2> QED
    BY <1>1, <1>12, <2>1, <2>2, AbsentAssumption
    DEF NextDomain, Proceed, WorkerStates, WorkerShape
<1>13. ASSUME NEW r \in worker.listed, SweepHost(r.host)
       PROVE  queue' \subseteq Keys /\ worker' \in WorkerStates /\ WorkerShape'
  BY <1>1, <1>13 DEF SweepHost, Proceed, WorkerStates, WorkerShape
<1> QED
  BY <1>3, <1>4, <1>5, <1>6, <1>7, <1>8, <1>9, <1>10, <1>11, <1>12, <1>13
  DEF SyncStep

LEMMA AfterUpdateType ==
  ASSUME TypeInv, worker.pc = "put"
  PROVE  /\ AfterUpdate \in WorkerStates
         /\ worker' = AfterUpdate => WorkerShape'
<1>1. /\ worker \in WorkerStates /\ worker.key # None
      /\ worker.cur \in Copies /\ worker.cur.key \in Keys
  BY DEF TypeInv, TypeOK, WorkerShape, WorkerStates, Copies
<1>2. CASE worker.mode \in {"purge", "wipe"}
  BY <1>1, <1>2 DEF AfterUpdate, WorkerStates, WorkerShape
<1>3. CASE worker.mode \notin {"purge", "wipe"}
  BY <1>3, IdleFacts DEF AfterUpdate, WorkerShape
<1> QED
  BY <1>2, <1>3

LEMMA CallType ==
  ASSUME TypeInv, NEW answered \in BOOLEAN, CallStep(answered)
  PROVE  TypeInv'
<1> USE DEF TypeInv
<1>1. /\ worker \in WorkerStates /\ WorkerShape /\ queue \subseteq Keys
      /\ store \in [Keys -> Domains \cup {None}]
      /\ budget \in Budgets
  BY DEF TypeOK
<1>2. CASE Put(answered)
  <2>1. /\ worker.pc = "put" /\ worker.cur \in Copies
        /\ worker.verdict \in Verdicts
    BY <1>1, <1>2 DEF Put, WorkerShape, WorkerStates
  <2>2. worker.cur.key \in Keys /\ worker.cur.obj \in Domains
    BY <2>1 DEF Copies
  <2>3. CASE Conflicts(worker.cur.key)
    BY <1>2, <2>1, <2>3, ReturnType DEF Put, TypeOK
  <2>4. CASE ~Conflicts(worker.cur.key)
    <3> DEFINE o == Updated(worker.cur.obj, worker.verdict, worker.mode)
    <3>1. /\ Publish(worker.cur.key, o)
          /\ Answer(answered, AfterUpdate)
          /\ UNCHANGED <<cache, notes, apis, granted>>
      BY <1>2, <2>4 DEF Put
    <3>2. o \in Domains
      BY <2>1, <2>2, UpdatedFacts
    <3> HIDE DEF o
    <3>3. /\ store' \in [Keys -> Domains \cup {None}]
          /\ watch' \in [Keys -> Seq(Domains \cup {None})]
      BY <2>2, <3>1, <3>2, PublishType
    <3>4. /\ queue' \subseteq Keys /\ worker' \in WorkerStates
          /\ budget' \in Budgets /\ WorkerShape'
      BY <2>1, <3>1, AfterUpdateType, AnswerType DEF Answer, Proceed
    <3> QED
      BY <3>1, <3>3, <3>4 DEF TypeOK
  <2> QED
    BY <2>3, <2>4
<1>3. CASE Unfinalize(answered)
  <2>1. worker.pc = "unfinalize" /\ worker.key \in Keys
    BY <1>1, <1>3 DEF Unfinalize, WorkerShape, WorkerStates
  <2>2. CASE store[worker.key] = None
    BY <1>3, <2>1, <2>2, ReturnType DEF Unfinalize, TypeOK
  <2>3. CASE store[worker.key] # None
    <3> DEFINE w == [worker EXCEPT !.pc = "remove",
                                   !.stale = @ \cup {worker.key}]
    <3>1. /\ Publish(worker.key, AfterPatch(store[worker.key]))
          /\ Answer(answered, w)
          /\ UNCHANGED <<cache, notes, apis, granted>>
      BY <1>3, <2>3 DEF Unfinalize
    <3>2. AfterPatch(store[worker.key]) \in Domains \cup {None}
      BY <1>1, <2>1, <2>3, AfterPatchFacts
    <3>3. w \in WorkerStates /\ (worker' = w => WorkerShape')
      BY <1>1, <2>1, AbsentAssumption DEF WorkerStates, WorkerShape
    <3> HIDE DEF w
    <3>4. /\ store' \in [Keys -> Domains \cup {None}]
          /\ watch' \in [Keys -> Seq(Domains \cup {None})]
      BY <2>1, <3>1, <3>2, PublishType
    <3>5. /\ queue' \subseteq Keys /\ worker' \in WorkerStates
          /\ budget' \in Budgets /\ WorkerShape'
      BY <2>1, <3>1, <3>3, AnswerType DEF Answer, Proceed
    <3> QED
      BY <3>1, <3>4, <3>5 DEF TypeOK
  <2> QED
    BY <2>2, <2>3
<1>4. CASE Remove(answered)
  <2>1. worker.pc = "remove" /\ worker.key \in Keys
    BY <1>1, <1>4 DEF Remove, WorkerShape, WorkerStates
  <2>2. CASE store[worker.key] = None
    BY <1>4, <2>1, <2>2, ReturnType DEF Remove, TypeOK
  <2>3. CASE store[worker.key] # None
    <3>1. /\ Publish(worker.key, AfterDelete(store[worker.key]))
          /\ Answer(answered, Idle)
          /\ UNCHANGED <<cache, notes, apis, granted>>
      BY <1>4, <2>3 DEF Remove
    <3>2. AfterDelete(store[worker.key]) \in Domains \cup {None}
      BY <1>1, <2>1, <2>3, AfterDeleteFacts
    <3>3. Idle \in WorkerStates /\ (worker' = Idle => WorkerShape')
      BY IdleFacts DEF WorkerShape
    <3>4. /\ store' \in [Keys -> Domains \cup {None}]
          /\ watch' \in [Keys -> Seq(Domains \cup {None})]
      BY <2>1, <3>1, <3>2, PublishType
    <3>5. /\ queue' \subseteq Keys /\ worker' \in WorkerStates
          /\ budget' \in Budgets /\ WorkerShape'
      BY <2>1, <3>1, <3>3, AnswerType DEF Answer, Proceed
    <3> QED
      BY <3>1, <3>4, <3>5 DEF TypeOK
  <2> QED
    BY <2>2, <2>3
<1>5. ASSUME NEW r \in worker.doomed, DeleteApi(r, answered)
      PROVE  TypeInv'
  <2> DEFINE w == [worker EXCEPT !.doomed = @ \ {r}]
  <2>1. /\ worker.pc = "delete" /\ Answer(answered, w)
        /\ apis' = apis \ {r}
        /\ UNCHANGED <<store, cache, watch, notes, granted>>
    BY <1>5 DEF DeleteApi
  <2>2. w \in WorkerStates /\ (worker' = w => WorkerShape')
    BY <1>1, <2>1 DEF WorkerStates, WorkerShape
  <2> HIDE DEF w
  <2>3. /\ queue' \subseteq Keys /\ worker' \in WorkerStates
        /\ budget' \in Budgets /\ WorkerShape'
    BY <2>1, <2>2, AnswerType DEF Answer, Proceed
  <2> QED
    BY <2>1, <2>3 DEF TypeOK
<1> QED
  BY <1>2, <1>3, <1>4, <1>5 DEF CallStep

LEMMA InitType == Init => TypeInv
<1> SUFFICES ASSUME Init PROVE TypeInv
  OBVIOUS
<1>1. budget \in Budgets
  BY ClaimsAssumption DEF Init, Budgets
<1>2. WorkerShape
  BY IdleFacts DEF Init, WorkerShape
<1> QED
  BY <1>1, <1>2, IdleFacts DEF Init, TypeInv, TypeOK

LEMMA NextType == TypeInv /\ [Next]_vars => TypeInv'
<1> SUFFICES ASSUME TypeInv, [Next]_vars PROVE TypeInv'
  OBVIOUS
<1> USE DEF TypeInv
<1>1. CASE User \/ Informer \/ Ingress
  BY <1>1, UserType, InformerType, IngressType
<1>2. ASSUME NEW k \in Keys, Start(k) PROVE TypeInv'
  <2> DEFINE c == IF cache[k] = None THEN None ELSE [key |-> k, obj |-> cache[k]]
  <2>1. c \in Copies \cup {None}
    BY DEF TypeOK, Copies
  <2>2. worker' = [Idle EXCEPT !.pc = "sync", !.key = k, !.stale = Lagging,
                               !.cur = c]
    BY <1>2 DEF Start
  <2> HIDE DEF c
  <2>3. worker' \in WorkerStates /\ WorkerShape'
    BY <2>1, <2>2, IdleFacts, AbsentAssumption
    DEF WorkerStates, WorkerShape, Lagging
  <2> QED
    BY <1>2, <2>3 DEF Start, TypeOK
<1>3. CASE SyncStep
  BY <1>3, SyncType
<1>4. CASE SkipUpdate
  BY <1>4, AfterUpdateType DEF SkipUpdate, Proceed, TypeOK
<1>5. CASE ListApis
  BY <1>5 DEF ListApis, Proceed, OtherUnchanged, TypeOK, WorkerStates, WorkerShape
<1>6. CASE Sweep
  BY <1>6 DEF Sweep, Proceed, OtherUnchanged, TypeOK, WorkerStates, WorkerShape
<1>7. ASSUME NEW answered \in BOOLEAN, CallStep(answered) PROVE TypeInv'
  BY <1>7, CallType
<1>8. CASE CallFails
  BY <1>8, ReturnType, SpendType DEF CallFails, TypeOK
<1>9. CASE Restart
  <2>1. WorkerShape' /\ worker' \in WorkerStates
    BY <1>9, IdleFacts DEF Restart, WorkerShape
  <2>2. budget' \in Budgets
    BY <1>9, SpendType DEF Restart, TypeOK
  <2>3. watch' \in [Keys -> Seq(Domains \cup {None})]
    <3> DEFINE S == Domains \cup {None}
    <3>1. store \in [Keys -> S]
      BY DEF TypeOK
    <3> HIDE DEF S
    <3>2. \A k \in Keys : <<store[k]>> \in Seq(S) /\ <<>> \in Seq(S)
      BY <3>1
    <3>3. watch' = [k \in Keys |-> IF store[k] = None THEN <<>> ELSE <<store[k]>>]
      BY <1>9 DEF Restart
    <3>4. watch' \in [Keys -> Seq(S)]
      BY <3>2, <3>3
    <3> QED
      BY <3>4 DEF S
  <2> QED
    BY <1>9, <2>1, <2>2, <2>3 DEF Restart, TypeOK
<1>10. CASE UNCHANGED vars
  BY <1>10 DEF vars, TypeOK, WorkerShape
<1> QED
  BY <1>1, <1>2, <1>3, <1>4, <1>5, <1>6, <1>7, <1>8, <1>9, <1>10
  DEF Next, WorkerStep, Fault

(* Every variable keeps its type, and the worker holds what the call it is  *)
(* about to make needs: updateDomainStatus always has a domain and a phase  *)
(* to write.                                                                *)
THEOREM TypeCorrect == Spec => [](TypeOK /\ WorkerShape)
BY InitType, NextType, PTL DEF Spec, TypeInv

-----------------------------------------------------------------------------
(* The cache trails the store, and the copies the worker can PUT are        *)
(* current: after every step, whoever writes, whichever calls fail, and     *)
(* after a restart.                                                         *)

LEMMA PublishAppends ==
  ASSUME TypeOK, NEW k \in Keys, NEW o \in Domains \cup {None}, Publish(k, o),
         o # store[k]
  PROVE  /\ store' = [store EXCEPT ![k] = o]
         /\ \A j \in Keys \ {k} : watch'[j] = watch[j]
         /\ watch'[k] # <<>>
         /\ Len(watch[k]) \in Nat
         /\ Len(watch'[k]) = Len(watch[k]) + 1
         /\ watch'[k][Len(watch[k]) + 1] = o
         /\ \A i \in 1..Len(watch[k]) : watch'[k][i] = watch[k][i]
<1> DEFINE S == Domains \cup {None}
<1>1. watch \in [Keys -> Seq(S)] /\ watch[k] \in Seq(S) /\ o \in S
  BY DEF TypeOK
<1>2. /\ watch' = [watch EXCEPT ![k] = Append(watch[k], o)]
      /\ store' = [store EXCEPT ![k] = o]
  BY DEF Publish
<1> HIDE DEF S
<1>3. watch'[k] = Append(watch[k], o) /\ Len(watch[k]) \in Nat
  BY <1>1, <1>2
<1>4. \A j \in Keys \ {k} : watch'[j] = watch[j]
  BY <1>1, <1>2
<1> QED
  BY <1>1, <1>2, <1>3, <1>4, AppendFacts

LEMMA PublishTrails ==
  ASSUME TypeOK, CacheTrails, NEW k \in Keys, NEW o \in Domains \cup {None},
         Publish(k, o), UNCHANGED cache
  PROVE  CacheTrails'
<1>1. CASE o = store[k]
  BY <1>1 DEF CacheTrails, Publish
<1>2. CASE o # store[k]
  <2> SUFFICES ASSUME NEW j \in Keys
               PROVE  store'[j] = IF watch'[j] = <<>> THEN cache[j]
                                  ELSE watch'[j][Len(watch'[j])]
    BY DEF CacheTrails
  <2>1. CASE j = k
    BY <1>2, <2>1, PublishAppends DEF TypeOK
  <2>2. CASE j # k
    BY <1>2, <2>2, PublishAppends DEF TypeOK, CacheTrails
  <2> QED
    BY <2>1, <2>2
<1> QED
  BY <1>1, <1>2

LEMMA PublishStore ==
  ASSUME TypeOK, NEW k \in Keys, NEW o, Publish(k, o)
  PROVE  store' = [store EXCEPT ![k] = o]
BY DEF TypeOK, Publish

(* The worker is where it was, with the same domain and decision. *)
SameGrant ==
  /\ worker'.pc = worker.pc
  /\ worker'.verdict = worker.verdict
  /\ worker'.cur = worker.cur

LEMMA OutdateFacts ==
  ASSUME TypeInv, NEW k \in Keys, Outdate(k)
  PROVE  /\ SameGrant
         /\ worker'.key = worker.key /\ worker'.mode = worker.mode
         /\ worker'.todo = worker.todo /\ worker'.doomed = worker.doomed
         /\ worker.pc = "idle" \/ worker'.stale = worker.stale \cup {k}
BY DEF TypeInv, TypeOK, Outdate, WorkerStates, SameGrant

LEMMA PublishCopies ==
  ASSUME TypeInv, CopiesCurrent, NEW k \in Keys, NEW o, Publish(k, o),
         Outdate(k)
  PROVE  CopiesCurrent'
<1>1. CASE worker.pc = "idle"
  BY <1>1 DEF TypeInv, WorkerShape, Outdate, CopiesCurrent
<1>2. CASE worker.pc # "idle"
  <2>1. /\ worker'.cur = worker.cur /\ worker'.todo = worker.todo
        /\ worker'.stale = worker.stale \cup {k}
    BY <1>2, OutdateFacts DEF SameGrant
  <2> SUFFICES ASSUME NEW c \in worker.todo \cup {worker.cur}, c # None,
                      c.key \notin worker.stale, c.key # k
               PROVE  store'[c.key] = c.obj /\ watch'[c.key] = <<>>
    BY <2>1 DEF CopiesCurrent
  <2>2. c.key \in Keys
    BY DEF TypeInv, TypeOK, WorkerStates, Copies
  <2>3. store'[c.key] = store[c.key] /\ watch'[c.key] = watch[c.key]
    BY <2>2 DEF Publish, TypeInv, TypeOK
  <2> QED
    BY <2>3 DEF CopiesCurrent
<1> QED
  BY <1>1, <1>2

(* The worker keeps its copies, drops some, or holds none. *)
FewerCopies ==
  /\ worker'.todo \cup {worker'.cur} \subseteq
       worker.todo \cup {worker.cur, None}
  /\ worker.stale \subseteq worker'.stale

LEMMA FewerCopiesCurrent ==
  ASSUME CopiesCurrent, FewerCopies, UNCHANGED <<store, watch>>
  PROVE  CopiesCurrent'
BY DEF CopiesCurrent, FewerCopies

(* Copies taken from the cache are stale exactly when the cache lags. *)
LEMMA CacheCopiesCurrent ==
  ASSUME TypeOK, CacheTrails, UNCHANGED <<store, watch>>,
         worker'.stale = Lagging,
         \A c \in worker'.todo \cup {worker'.cur} :
           c # None => c.key \in Keys /\ c.obj = cache[c.key]
  PROVE  CopiesCurrent'
BY DEF CopiesCurrent, CacheTrails, Lagging

LEMMA CachedCopiesOf ==
  /\ \A d : \A c \in Associated(d) : c.key \in Keys /\ c.obj = cache[c.key]
  /\ \A c \in CachedCopies(LAMBDA o : ~IsPrimary(o) /\ o.phase = "OK") :
       c.key \in Keys /\ c.obj = cache[c.key]
BY DEF Associated, CachedCopies

LEMMA DecideCopies ==
  ASSUME worker \in WorkerStates, NEW mode, NEW v, worker' = Decide(mode, v)
  PROVE  FewerCopies /\ worker'.verdict = v /\ worker'.cur = worker.cur
BY DEF Decide, WorkerStates, FewerCopies

(* A write by the worker: it holds no copy of the key that it could PUT.    *)
LEMMA WorkerWriteCopies ==
  ASSUME TypeInv, CopiesCurrent, NEW k \in Keys, NEW o, Publish(k, o),
         FewerCopies, k \in worker'.stale
  PROVE  CopiesCurrent'
<1> SUFFICES ASSUME NEW c \in worker'.todo \cup {worker'.cur}, c # None,
                    c.key \notin worker'.stale
             PROVE  store'[c.key] = c.obj /\ watch'[c.key] = <<>>
  BY DEF CopiesCurrent
<1>1. c \in worker.todo \cup {worker.cur} /\ c.key # k
      /\ c.key \notin worker.stale
  BY DEF FewerCopies
<1>2. c.key \in Keys
  BY <1>1 DEF TypeInv, TypeOK, WorkerStates, Copies
<1>3. store'[c.key] = store[c.key] /\ watch'[c.key] = watch[c.key]
  BY <1>1, <1>2 DEF Publish, TypeInv, TypeOK
<1> QED
  BY <1>1, <1>3 DEF CopiesCurrent

LEMMA IdleCopies ==
  ASSUME worker' = Idle
  PROVE  CopiesCurrent'
BY IdleFacts DEF CopiesCurrent

LEMMA ObserveFacts ==
  ASSUME TypeOK, NEW k \in Keys, Observe(k)
  PROVE  /\ \A j \in Keys \ {k} : cache'[j] = cache[j] /\ watch'[j] = watch[j]
         /\ watch[k] # <<>>
         /\ Len(watch[k]) \in Nat /\ Len(watch[k]) > 0
         /\ cache'[k] = watch[k][1]
         /\ Len(watch'[k]) = Len(watch[k]) - 1
         /\ (watch'[k] = <<>>) <=> (Len(watch'[k]) = 0)
         /\ \A i \in 1..Len(watch'[k]) : watch'[k][i] = watch[k][i + 1]
         /\ UNCHANGED <<store, worker, queue>>
<1> DEFINE S == Domains \cup {None}
<1>1. /\ watch \in [Keys -> Seq(S)] /\ cache \in [Keys -> S]
      /\ watch[k] \in Seq(S) /\ watch[k] # <<>>
  BY DEF TypeOK, Observe, Lagging
<1>2. /\ cache' = [cache EXCEPT ![k] = Head(watch[k])]
      /\ watch' = [watch EXCEPT ![k] = Tail(watch[k])]
      /\ UNCHANGED <<store, worker, queue>>
  BY DEF Observe
<1> HIDE DEF S
<1>3. /\ Len(watch[k]) \in Nat /\ Len(watch[k]) > 0
      /\ cache'[k] = watch[k][1]
      /\ watch'[k] \in Seq(S)
      /\ Len(watch'[k]) = Len(watch[k]) - 1
      /\ \A i \in 1..Len(watch'[k]) : watch'[k][i] = watch[k][i + 1]
  BY <1>1, <1>2, TailFacts
<1>4. \A j \in Keys \ {k} : cache'[j] = cache[j] /\ watch'[j] = watch[j]
  BY <1>1, <1>2
<1>5. watch'[k] = <<>> <=> Len(watch'[k]) = 0
  BY <1>3, EmptyFacts
<1> QED
  BY <1>1, <1>2, <1>3, <1>4, <1>5

LEMMA ObserveTrails ==
  ASSUME TypeOK, CacheTrails, NEW k \in Keys, Observe(k)
  PROVE  CacheTrails'
<1>0. /\ Len(watch[k]) \in Nat /\ Len(watch'[k]) = Len(watch[k]) - 1
      /\ (watch'[k] = <<>>) <=> (Len(watch'[k]) = 0)
  BY ObserveFacts
<1>1. store[k] = watch[k][Len(watch[k])]
  BY ObserveFacts DEF CacheTrails
<1>2. store[k] = IF watch'[k] = <<>> THEN cache'[k] ELSE watch'[k][Len(watch'[k])]
  <2>1. CASE watch'[k] = <<>>
    <3>1. Len(watch[k]) = 1
      BY <1>0, <2>1
    <3> QED
      BY <1>1, <2>1, <3>1, ObserveFacts
  <2>2. CASE watch'[k] # <<>>
    <3>1. Len(watch'[k]) \in 1..Len(watch'[k]) /\ Len(watch'[k]) + 1 = Len(watch[k])
      BY <2>2, ObserveFacts
    <3>2. watch'[k][Len(watch'[k])] = watch[k][Len(watch'[k]) + 1]
      BY <3>1, ObserveFacts
    <3> QED
      BY <1>1, <2>2, <3>1, <3>2
  <2> QED
    BY <2>1, <2>2
<1> QED
  BY <1>2, ObserveFacts DEF CacheTrails

LEMMA RestartFacts ==
  ASSUME TypeOK, Restart
  PROVE  /\ \A k \in Keys :
              /\ cache'[k] = None
              /\ watch'[k] = <<>> <=> store[k] = None
              /\ store[k] # None => Len(watch'[k]) = 1 /\ watch'[k][1] = store[k]
         /\ worker' = Idle
         /\ UNCHANGED store
BY DEF Restart

LEMMA SpendUser ==
  ASSUME budget \in Budgets, Spend("user")
  PROVE  UserStep
BY DEF Budgets, Spend, UserStep

(* What is stored at k: a new resource or the copy of an edited one; a      *)
(* user's edit; a deletion; and what the worker's PATCH and PUT store.      *)
Created(k, o) ==
  /\ store[k] = None
  /\ o \in Domains
  /\ \/ o.phase = "New" /\ ~o.discarded
     \/ o.discarded /\ notes # <<>> /\ Renamed(Head(notes))
  /\ ~o.finalizer

Edited(k, o) ==
  /\ UserStep
  /\ store[k] \in Domains
  /\ o \in Domains
  /\ <<store[k].spec, o.spec>> \in Edits
  /\ o.finalizer = store[k].finalizer /\ o.deleted = store[k].deleted
  /\ \/ o.phase = "New" /\ ~o.discarded
     \/ o.phase = store[k].phase /\ o.discarded = store[k].discarded

Removed(k, o) == store[k] \in Domains /\ o = AfterDelete(store[k])

Patched(k, o) ==
  /\ worker.pc = "unfinalize" /\ k = worker.key
  /\ store[k] \in Domains /\ o = AfterPatch(store[k])

Stored(k, o) ==
  /\ worker.pc = "put" /\ k = worker.cur.key
  /\ ~Conflicts(k) /\ ~NoUpdate
  /\ o = Updated(worker.cur.obj, worker.verdict, worker.mode)
  /\ worker' \in {AfterUpdate, Idle}

Writes(k, o) ==
  /\ Publish(k, o)
  /\ UNCHANGED cache
  /\ Created(k, o) \/ Edited(k, o) \/ Removed(k, o) \/ Patched(k, o) \/ Stored(k, o)

(* Every step leaves the store, the cache and the events alone, takes one   *)
(* event, restarts the process, or makes one write.                         *)
LEMMA StoreSteps ==
  ASSUME TypeInv, CacheTrails, [Next]_vars
  PROVE  \/ UNCHANGED <<store, cache, watch>>
         \/ \E k \in Keys : Observe(k)
         \/ Restart
         \/ \E k \in Keys, o \in Domains \cup {None} : Writes(k, o)
<1> USE DEF TypeInv
<1> DEFINE Goal == \/ UNCHANGED <<store, cache, watch>>
                   \/ \E k \in Keys : Observe(k)
                   \/ Restart
                   \/ \E k \in Keys, o \in Domains \cup {None} : Writes(k, o)
<1>0. \A k \in Keys : store[k] \in Domains \/ store[k] = None
  BY DEF TypeOK
<1>1. CASE User
  <2>1. ASSUME NEW k \in UserKeys, NEW s \in Wanted[k], Create(k, s)
        PROVE  \E j \in Keys, o \in Domains \cup {None} : Writes(j, o)
    <3>1. k \in Keys /\ NewDomain(s) \in Domains
      BY <2>1, ClaimsAssumption, NewDomainFacts
    <3>2. Writes(k, NewDomain(s))
      BY <2>1, <3>1 DEF Create, Writes, Created, NewDomain
    <3> QED
      BY <3>1, <3>2
  <2>2. ASSUME NEW k \in UserKeys, NEW s \in Specs, Edit(k, s)
        PROVE  \E j \in Keys, o \in Domains \cup {None} : Writes(j, o)
    <3> DEFINE o == [store[k] EXCEPT !.spec = s]
    <3>1. k \in Keys /\ store[k] \in Domains
      BY <1>0, <2>2, ClaimsAssumption DEF Edit
    <3>2. o \in Domains
      BY <3>1, EditFacts
    <3>3. Edited(k, o)
      BY <2>2, <3>1, <3>2, SpendUser DEF Edit, Edited, Domains, TypeOK
    <3>4. Publish(k, o) /\ UNCHANGED cache
      BY <2>2 DEF Edit
    <3> HIDE DEF o
    <3> QED
      BY <3>1, <3>2, <3>3, <3>4 DEF Writes
  <2>3. ASSUME NEW k \in UserKeys, NEW s \in Specs, AutoClaim(k, s)
        PROVE  \E j \in Keys, o \in Domains \cup {None} : Writes(j, o)
    <3> DEFINE o == IF cache[k].phase = "OK" THEN [cache[k] EXCEPT !.spec = s]
                                             ELSE Reset(cache[k], s)
    <3>1. k \in Keys /\ store[k] \in Domains /\ store[k] = cache[k]
      BY <1>0, <2>3, ClaimsAssumption DEF AutoClaim, Lagging, CacheTrails
    <3>2. o \in Domains
      BY <3>1, EditFacts, ResetFacts
    <3>3. Edited(k, o)
      BY <2>3, <3>1, <3>2, SpendUser
      DEF AutoClaim, Edited, Domains, Reset, TypeOK
    <3>4. Publish(k, o) /\ UNCHANGED cache
      BY <2>3 DEF AutoClaim, Reset
    <3> HIDE DEF o
    <3> QED
      BY <3>1, <3>2, <3>3, <3>4 DEF Writes
  <2>4. ASSUME NEW k \in Keys, Delete(k)
        PROVE  \E j \in Keys, o \in Domains \cup {None} : Writes(j, o)
    <3>1. store[k] \in Domains
      BY <1>0, <2>4 DEF Delete
    <3>2. AfterDelete(store[k]) \in Domains \cup {None}
      BY <3>1, AfterDeleteFacts
    <3>3. Writes(k, AfterDelete(store[k]))
      BY <2>4, <3>1 DEF Delete, Writes, Removed
    <3> QED
      BY <3>2, <3>3
  <2> QED
    BY <1>1, <2>1, <2>2, <2>3, <2>4 DEF User
<1>2. CASE Informer
  <2>1. ASSUME NEW posted \in BOOLEAN, HandleEvent(posted)
        PROVE  Goal
    <3> DEFINE n == Head(notes)
    <3> DEFINE k == CopyKey(n.key, n.new)
    <3>1. CASE ~(Renamed(n) /\ posted)
      BY <2>1, <3>1 DEF HandleEvent
    <3>2. CASE Renamed(n) /\ posted
      <4>0. notes # <<>> /\ Renamed(Head(notes))
        BY <2>1, <3>2 DEF HandleEvent
      <4>1. n \in Notes
        <5>1. notes # <<>> /\ notes \in Seq(Notes)
          BY <2>1 DEF HandleEvent, TypeOK
        <5> QED
          BY <5>1, TailFacts
      <4>2. k \in Keys /\ Recovered(n) \in Domains /\ Recovered(n).discarded
        BY <3>2, <4>1, RecoveredFacts DEF Renamed
      <4>3. ~Recovered(n).finalizer
        BY <3>2, <4>1 DEF Recovered, Notes, Domains, Renamed
      <4>4. /\ Publish(k, IF store[k] = None THEN Recovered(n) ELSE store[k])
            /\ UNCHANGED cache
        BY <2>1, <3>2 DEF HandleEvent
      <4> HIDE DEF k, n
      <4>5. CASE store[k] # None
        BY <4>4, <4>5 DEF Publish
      <4>6. CASE store[k] = None
        <5>1. Writes(k, Recovered(n))
          BY <4>0, <4>2, <4>3, <4>4, <4>6 DEF Writes, Created
        <5> QED
          BY <4>2, <5>1
      <4> QED
        BY <4>5, <4>6
    <3> QED
      BY <3>1, <3>2
  <2> QED
    BY <1>2, <2>1 DEF Informer, Resync
<1>3. ASSUME NEW answered \in BOOLEAN, CallStep(answered)
      PROVE  Goal
  <2>1. worker \in WorkerStates /\ WorkerShape
    BY DEF TypeOK
  <2>2. CASE Put(answered)
    <3> DEFINE k == worker.cur.key
    <3> DEFINE o == Updated(worker.cur.obj, worker.verdict, worker.mode)
    <3>1. /\ worker.pc = "put" /\ worker.cur \in Copies
          /\ worker.verdict \in Verdicts
      BY <2>1, <2>2 DEF Put, WorkerShape, WorkerStates
    <3>2. k \in Keys /\ o \in Domains
      BY <3>1, UpdatedFacts DEF Copies
    <3>3. CASE Conflicts(k)
      BY <2>2, <3>3 DEF Put
    <3>4. CASE ~Conflicts(k)
      <4>1. Writes(k, o)
        BY <2>2, <3>1, <3>4 DEF Put, Writes, Stored, Answer, Proceed, Return
      <4> QED
        BY <3>2, <4>1
    <3> QED
      BY <3>3, <3>4
  <2>3. CASE Unfinalize(answered)
    <3>1. worker.pc = "unfinalize" /\ worker.key \in Keys
      BY <2>1, <2>3 DEF Unfinalize, WorkerShape, WorkerStates
    <3>2. CASE store[worker.key] = None
      BY <2>3, <3>2 DEF Unfinalize
    <3>3. CASE store[worker.key] # None
      <4>1. store[worker.key] \in Domains
        BY <1>0, <3>1, <3>3
      <4>2. Writes(worker.key, AfterPatch(store[worker.key]))
        BY <2>3, <3>1, <3>3, <4>1 DEF Unfinalize, Writes, Patched
      <4> QED
        BY <3>1, <4>1, <4>2, AfterPatchFacts
    <3> QED
      BY <3>2, <3>3
  <2>4. CASE Remove(answered)
    <3>1. worker.pc = "remove" /\ worker.key \in Keys
      BY <2>1, <2>4 DEF Remove, WorkerShape, WorkerStates
    <3>2. CASE store[worker.key] = None
      BY <2>4, <3>2 DEF Remove
    <3>3. CASE store[worker.key] # None
      <4>1. store[worker.key] \in Domains
        BY <1>0, <3>1, <3>3
      <4>2. Writes(worker.key, AfterDelete(store[worker.key]))
        BY <2>4, <3>3, <4>1 DEF Remove, Writes, Removed
      <4> QED
        BY <3>1, <4>1, <4>2, AfterDeleteFacts
    <3> QED
      BY <3>2, <3>3
  <2>5. ASSUME NEW r \in worker.doomed, DeleteApi(r, answered)
        PROVE  Goal
    BY <2>5 DEF DeleteApi
  <2> QED
    BY <1>3, <2>2, <2>3, <2>4, <2>5 DEF CallStep
<1>4. CASE SyncStep
  BY <1>4 DEF SyncStep, OtherUnchanged, Vanished, Reject, AcceptNew,
     ClaimPrimary, SearchShared, KeepPrimary, Retry, Wait, SearchHit,
     SearchMiss, SearchOver, Collect, ListShared, LoopDone, ApisDeleted,
     SweepDone, NextDomain, SweepHost
<1>5. CASE \/ Ingress \/ (\E k \in Keys : Start(k))
           \/ SkipUpdate \/ ListApis \/ Sweep \/ CallFails \/ UNCHANGED vars
  BY <1>5 DEF Ingress, IngressCheck, IngressRoute, Start, SkipUpdate, ListApis,
     Sweep, CallFails, OtherUnchanged, vars
<1> QED
  BY <1>1, <1>2, <1>3, <1>4, <1>5 DEF Next, WorkerStep, Fault

(* The steps that only read the cache keep the worker's copies, drop some,  *)
(* or take new ones.                                                        *)
LEMMA SyncCopies ==
  ASSUME TypeInv, CacheTrails, CopiesCurrent, SyncStep
  PROVE  CopiesCurrent'
<1>1. worker \in WorkerStates /\ TypeOK
  BY DEF TypeInv, TypeOK
<1>2. UNCHANGED <<store, cache, watch>>
  BY DEF SyncStep, OtherUnchanged, Vanished, Reject, AcceptNew, ClaimPrimary,
         SearchShared, KeepPrimary, Retry, Wait, SearchHit, SearchMiss,
         SearchOver, Collect, ListShared, LoopDone, ApisDeleted, SweepDone,
         NextDomain, SweepHost
<1>3. CASE worker' = Idle
  BY <1>3, IdleCopies
<1>4. CASE FewerCopies
  BY <1>2, <1>4, FewerCopiesCurrent
<1>5. CASE Vanished \/ KeepPrimary \/ Wait \/ SweepDone
  BY <1>3, <1>5 DEF Vanished, KeepPrimary, Wait, SweepDone, Return
<1>6. CASE Reject \/ AcceptNew \/ Retry \/ ClaimPrimary
  <2>1. \E mode, v : worker' = Decide(mode, v)
    BY <1>6 DEF Reject, AcceptNew, Retry, ClaimPrimary, Proceed
  <2> QED
    BY <1>1, <1>4, <2>1, DecideCopies
<1>7. CASE SearchShared \/ SearchMiss \/ LoopDone
  BY <1>1, <1>4, <1>7
  DEF SearchShared, SearchMiss, LoopDone, Proceed, WorkerStates, FewerCopies
<1>8. CASE SearchHit
  <2>1. CASE worker.mode = "wipe"
    BY <1>1, <1>4, <1>8, <2>1 DEF SearchHit, Proceed, WorkerStates, FewerCopies
  <2>2. CASE worker.mode # "wipe" /\ worker.cur.obj.phase = "Pending"
    <3>1. worker' = [worker EXCEPT !.pc = "put", !.mode = "claim",
                           !.verdict = Verdict("OK", ""), !.left = <<>>]
      BY <1>8, <2>2 DEF SearchHit, Proceed, Decide
    <3> QED
      BY <1>1, <1>4, <3>1 DEF WorkerStates, FewerCopies
  <2>3. CASE ~(worker.mode = "wipe") /\ ~(worker.cur.obj.phase = "Pending")
    BY <1>3, <1>8, <2>3 DEF SearchHit, Return
  <2> QED
    BY <2>1, <2>2, <2>3
<1>9. CASE SearchOver
  BY <1>1, <1>4, <1>9, DecideCopies
  DEF SearchOver, Proceed, WorkerStates, FewerCopies
<1>10. CASE Collect
  <2>1. /\ worker'.todo = Associated(worker.cur.obj) /\ worker'.cur = None
        /\ worker'.stale = Lagging
    BY <1>1, <1>10 DEF Collect, Proceed, WorkerStates
  <2> QED
    BY <1>1, <1>2, <2>1, CacheCopiesCurrent, CachedCopiesOf
<1>11. CASE ListShared
  <2>1. /\ worker'.todo = CachedCopies(LAMBDA o : ~IsPrimary(o)
                                                  /\ o.phase = "OK")
        /\ worker'.cur = None
        /\ worker'.stale = Lagging
    BY <1>1, <1>11 DEF ListShared, Proceed, WorkerStates
  <2> QED
    BY <1>1, <1>2, <2>1, CacheCopiesCurrent, CachedCopiesOf
<1>12. CASE ApisDeleted
  BY <1>1, <1>4, <1>12, DecideCopies
  DEF ApisDeleted, Proceed, WorkerStates, FewerCopies
<1>13. ASSUME NEW c \in worker.todo, NextDomain(c)
       PROVE  CopiesCurrent'
  BY <1>1, <1>4, <1>13 DEF NextDomain, Proceed, WorkerStates, FewerCopies
<1>14. ASSUME NEW r \in worker.listed, SweepHost(r.host)
       PROVE  CopiesCurrent'
  BY <1>1, <1>4, <1>14 DEF SweepHost, Proceed, WorkerStates, FewerCopies
<1> QED
  BY <1>5, <1>6, <1>7, <1>8, <1>9, <1>10, <1>11, <1>12, <1>13, <1>14
  DEF SyncStep

LEMMA CallCopies ==
  ASSUME TypeInv, CopiesCurrent, NEW answered \in BOOLEAN, CallStep(answered)
  PROVE  CopiesCurrent'
<1>1. worker \in WorkerStates /\ WorkerShape
  BY DEF TypeInv, TypeOK
<1>2. CASE worker' = Idle
  BY <1>2, IdleCopies
<1>3. CASE Put(answered)
  <2>1. worker.cur.key \in Keys
    BY <1>1, <1>3 DEF Put, WorkerShape, WorkerStates, Copies
  <2>2. CASE /\ ~Conflicts(worker.cur.key)
             /\ answered /\ worker.mode \in {"purge", "wipe"}
    <3>1. PICK o : Publish(worker.cur.key, o)
      BY <1>3, <2>2 DEF Put
    <3>2. worker' = [worker EXCEPT !.pc = "each", !.cur = None,
                       !.verdict = None, !.stale = @ \cup {worker.cur.key}]
      BY <1>3, <2>2 DEF Put, Answer, Proceed, AfterUpdate
    <3>3. FewerCopies /\ worker.cur.key \in worker'.stale
      BY <1>1, <3>2 DEF WorkerStates, FewerCopies
    <3> QED
      BY <2>1, <3>1, <3>3, WorkerWriteCopies
  <2>3. CASE \/ Conflicts(worker.cur.key)
             \/ ~(answered /\ worker.mode \in {"purge", "wipe"})
    BY <1>2, <1>3, <2>3 DEF Put, Answer, Proceed, AfterUpdate, Return
  <2> QED
    BY <2>2, <2>3
<1>4. CASE Unfinalize(answered)
  <2>1. worker.key \in Keys
    BY <1>1, <1>4 DEF Unfinalize, WorkerShape, WorkerStates
  <2>2. CASE store[worker.key] # None /\ answered
    <3>1. PICK o : Publish(worker.key, o)
      BY <1>4, <2>2 DEF Unfinalize
    <3>2. FewerCopies /\ worker.key \in worker'.stale
      BY <1>1, <1>4, <2>2
      DEF Unfinalize, Answer, Proceed, WorkerStates, FewerCopies
    <3> QED
      BY <2>1, <3>1, <3>2, WorkerWriteCopies
  <2>3. CASE ~(store[worker.key] # None /\ answered)
    BY <1>2, <1>4, <2>3 DEF Unfinalize, Answer, Return
  <2> QED
    BY <2>2, <2>3
<1>5. CASE Remove(answered)
  BY <1>2, <1>5 DEF Remove, Answer, Proceed, Return
<1>6. ASSUME NEW r \in worker.doomed, DeleteApi(r, answered)
      PROVE  CopiesCurrent'
  <2>1. CASE answered
    BY <1>1, <1>6, <2>1, FewerCopiesCurrent
    DEF DeleteApi, Answer, Proceed, WorkerStates, FewerCopies
  <2>2. CASE ~answered
    BY <1>2, <1>6, <2>2 DEF DeleteApi, Answer, Return
  <2> QED
    BY <2>1, <2>2
<1> QED
  BY <1>3, <1>4, <1>5, <1>6 DEF CallStep

CurrentInv == TypeInv /\ CacheTrails /\ CopiesCurrent

LEMMA InitCurrent == Init => CurrentInv
<1> SUFFICES ASSUME Init PROVE CurrentInv
  OBVIOUS
<1>1. CacheTrails /\ CopiesCurrent
  BY IdleFacts DEF Init, CacheTrails, CopiesCurrent
<1> QED
  BY <1>1, InitType DEF CurrentInv

LEMMA NextTrails ==
  ASSUME CurrentInv, [Next]_vars
  PROVE  CacheTrails'
<1> USE DEF CurrentInv, TypeInv
<1>1. CASE UNCHANGED <<store, cache, watch>>
  BY <1>1 DEF CacheTrails
<1>2. CASE Restart
  BY <1>2, RestartFacts DEF CacheTrails
<1>3. ASSUME NEW k \in Keys, Observe(k) PROVE CacheTrails'
  BY <1>3, ObserveTrails
<1>4. ASSUME NEW k \in Keys, NEW o \in Domains \cup {None}, Writes(k, o)
      PROVE  CacheTrails'
  BY <1>4, PublishTrails DEF Writes
<1> QED
  BY <1>1, <1>2, <1>3, <1>4, StoreSteps

LEMMA NextCopies ==
  ASSUME CurrentInv, [Next]_vars
  PROVE  CopiesCurrent'
<1> USE DEF CurrentInv
<1>1. CASE worker' = Idle
  BY <1>1, IdleCopies
<1>2. CASE UNCHANGED <<store, watch, worker>>
  BY <1>2 DEF CopiesCurrent
<1>3. CASE User
  <2>1. PICK k \in Keys : \E o : Publish(k, o) /\ Outdate(k)
    BY <1>3, ClaimsAssumption DEF User, Create, Edit, AutoClaim, Delete
  <2> QED
    BY <2>1, PublishCopies
<1>4. ASSUME NEW k \in Keys, Observe(k) PROVE CopiesCurrent'
  <2> SUFFICES ASSUME NEW c \in worker.todo \cup {worker.cur}, c # None,
                      c.key \notin worker.stale
               PROVE  store[c.key] = c.obj /\ watch'[c.key] = <<>>
    BY <1>4 DEF Observe, CopiesCurrent
  <2>1. c.key \in Keys /\ store[c.key] = c.obj /\ watch[c.key] = <<>>
    BY DEF CopiesCurrent, TypeInv, TypeOK, WorkerStates, Copies
  <2>2. c.key # k
    BY <1>4, <2>1 DEF Observe, Lagging
  <2> QED
    BY <1>4, <2>1, <2>2, ObserveFacts DEF TypeInv
<1>5. ASSUME NEW posted \in BOOLEAN, HandleEvent(posted) PROVE CopiesCurrent'
  <2> DEFINE n == Head(notes)
  <2> DEFINE k == CopyKey(n.key, n.new)
  <2>1. CASE Renamed(n) /\ posted /\ store[k] = None
    <3>1. k \in Keys /\ Publish(k, Recovered(n)) /\ Outdate(k)
      BY <1>5, <2>1 DEF HandleEvent, Renamed
    <3> HIDE DEF k, n
    <3> QED
      BY <3>1, PublishCopies
  <2>2. CASE ~(Renamed(n) /\ posted /\ store[k] = None)
    BY <1>2, <1>5, <2>2 DEF HandleEvent, Publish
  <2> QED
    BY <2>1, <2>2
<1>6. CASE Ingress \/ UNCHANGED vars \/ \E k \in Keys : Resync(k)
  BY <1>2, <1>6 DEF Ingress, IngressCheck, IngressRoute, Resync, vars
<1>7. ASSUME NEW k \in Keys, Start(k) PROVE CopiesCurrent'
  <2>1. /\ worker'.todo = {} /\ worker'.stale = Lagging
        /\ worker'.cur = IF cache[k] = None THEN None
                         ELSE [key |-> k, obj |-> cache[k]]
        /\ UNCHANGED <<store, watch>>
    BY <1>7 DEF Start, Idle
  <2> QED
    BY <2>1, CacheCopiesCurrent DEF TypeInv
<1>8. CASE SkipUpdate
  <2>1. CASE worker.mode \in {"purge", "wipe"}
    <3>1. FewerCopies /\ UNCHANGED <<store, watch>>
      BY <1>8, <2>1 DEF SkipUpdate, Proceed, AfterUpdate, TypeInv, TypeOK,
                        WorkerStates, FewerCopies
    <3> QED
      BY <3>1, FewerCopiesCurrent
  <2>2. CASE worker.mode \notin {"purge", "wipe"}
    BY <1>1, <1>8, <2>2 DEF SkipUpdate, Proceed, AfterUpdate
  <2> QED
    BY <2>1, <2>2
<1>9. CASE ListApis \/ Sweep
  <2>1. FewerCopies /\ UNCHANGED <<store, watch>>
    BY <1>9 DEF ListApis, Sweep, Proceed, OtherUnchanged, TypeInv, TypeOK,
                WorkerStates, FewerCopies
  <2> QED
    BY <2>1, FewerCopiesCurrent
<1>10. CASE CallFails \/ Restart
  BY <1>1, <1>10 DEF CallFails, Restart, Return
<1>11. ASSUME NEW answered \in BOOLEAN, CallStep(answered) PROVE CopiesCurrent'
  BY <1>11, CallCopies
<1> QED
  BY <1>3, <1>4, <1>5, <1>6, <1>7, <1>8, <1>9, <1>10, <1>11, SyncCopies
  DEF Next, Informer, WorkerStep, Fault

LEMMA NextCurrent == CurrentInv /\ [Next]_vars => CurrentInv'
BY NextType, NextTrails, NextCopies DEF CurrentInv

(* The informer's cache is behind the API server by exactly the events that *)
(* are still to come, and a copy whose PUT would be accepted is the stored  *)
(* object: with lost answers, failing calls and restarts alike.             *)
THEOREM CopiesAreCurrent == Spec => [](CacheTrails /\ CopiesCurrent)
<1>1. CurrentInv => CacheTrails /\ CopiesCurrent
  BY DEF CurrentInv
<1> QED
  BY <1>1, InitCurrent, NextCurrent, PTL DEF Spec

(* The copy whose PUT is accepted is the stored and the cached object. *)
LEMMA StoredFacts ==
  ASSUME CurrentInv, NEW k \in Keys, NEW o, Stored(k, o)
  PROVE  /\ worker.cur \in Copies /\ worker.cur.obj \in Domains
         /\ worker.verdict \in Verdicts
         /\ store[k] = worker.cur.obj /\ cache[k] = worker.cur.obj
         /\ watch[k] = <<>>
<1> USE DEF CurrentInv, TypeInv
<1>1. /\ worker.cur \in Copies /\ worker.cur # None
      /\ worker.verdict \in Verdicts
  BY DEF TypeOK, WorkerStates, WorkerShape, Stored
<1>2. worker.cur.obj \in Domains
  BY <1>1 DEF Copies
<1>3. k \notin worker.stale /\ k = worker.cur.key
  BY DEF Stored, Conflicts
<1>4. store[k] = worker.cur.obj /\ watch[k] = <<>>
  BY <1>1, <1>3 DEF CopiesCurrent
<1> QED
  BY <1>1, <1>2, <1>4 DEF CacheTrails

-----------------------------------------------------------------------------
(* What two versions the informer sees one after the other have in common:  *)
(* R holds of them if it holds of what every write replaces and stores.     *)

Versions == Domains \cup {None}

Before(k, i) == IF i = 1 THEN cache[k] ELSE watch[k][i - 1]

EventsIn(R) ==
  \A k \in Keys : \A i \in 1..Len(watch[k]) :
    <<Before(k, i), watch[k][i]>> \in R

LEMMA NextEvents ==
  ASSUME CurrentInv, [Next]_vars, NEW CONSTANT R, EventsIn(R),
         \A d \in Domains : <<None, d>> \in R,
         \A k \in Keys, o \in Domains \cup {None} :
           Writes(k, o) /\ o # store[k] => <<store[k], o>> \in R
  PROVE  EventsIn(R)'
<1> USE DEF CurrentInv, TypeInv
<1>1. CASE UNCHANGED <<store, cache, watch>>
  BY <1>1 DEF EventsIn, Before
<1>2. CASE Restart
  <2> SUFFICES ASSUME NEW k \in Keys, NEW i \in 1..Len(watch'[k])
               PROVE  <<Before(k, i)', watch'[k][i]>> \in R
    BY DEF EventsIn, Before
  <2>1. CASE store[k] = None
    <3>1. watch'[k] = <<>>
      BY <1>2, <2>1, RestartFacts
    <3> QED
      BY <3>1
  <2>2. CASE store[k] # None
    <3>1. store[k] \in Domains
      BY <2>2 DEF TypeOK
    <3>2. /\ Len(watch'[k]) = 1 /\ watch'[k][1] = store[k]
          /\ cache'[k] = None
      BY <1>2, <2>2, RestartFacts
    <3>3. i = 1
      BY <3>2
    <3> QED
      BY <3>1, <3>2, <3>3 DEF Before
  <2> QED
    BY <2>1, <2>2
<1>3. ASSUME NEW k \in Keys, Observe(k) PROVE EventsIn(R)'
  <2> SUFFICES ASSUME NEW j \in Keys, NEW i \in 1..Len(watch'[j])
               PROVE  <<Before(j, i)', watch'[j][i]>> \in R
    BY DEF EventsIn, Before
  <2>1. CASE j # k
    BY <1>3, <2>1, ObserveFacts DEF EventsIn, Before
  <2>2. CASE j = k
    <3>1. /\ Len(watch[k]) \in Nat /\ Len(watch[k]) > 0
          /\ cache'[k] = watch[k][1]
          /\ Len(watch'[k]) = Len(watch[k]) - 1
          /\ \A n \in 1..Len(watch'[k]) : watch'[k][n] = watch[k][n + 1]
      BY <1>3, ObserveFacts
    <3>2. i + 1 \in 1..Len(watch[k]) /\ i + 1 # 1 /\ (i + 1) - 1 = i
      BY <2>2, <3>1
    <3>3. <<watch[k][i], watch[k][i + 1]>> \in R
      BY <3>2 DEF EventsIn, Before
    <3>4. i # 1 => i - 1 \in 1..Len(watch'[k]) /\ (i - 1) + 1 = i
      BY <2>2, <3>1
    <3>5. Before(k, i)' = watch[k][i]
      BY <2>2, <3>1, <3>4 DEF Before
    <3> QED
      BY <2>2, <3>1, <3>3, <3>5
  <2> QED
    BY <2>1, <2>2
<1>4. ASSUME NEW k \in Keys, NEW o \in Domains \cup {None}, Writes(k, o)
      PROVE  EventsIn(R)'
  <2>1. CASE o = store[k]
    BY <1>4, <2>1 DEF Writes, Publish, EventsIn, Before
  <2>2. CASE o # store[k]
    <3> SUFFICES ASSUME NEW j \in Keys, NEW i \in 1..Len(watch'[j])
                 PROVE  <<Before(j, i)', watch'[j][i]>> \in R
      BY DEF EventsIn, Before
    <3>1. CASE j # k
      BY <1>4, <2>2, <3>1, PublishAppends DEF Writes, EventsIn, Before
    <3>2. CASE j = k
      <4>1. /\ Len(watch[k]) \in Nat
            /\ Len(watch'[k]) = Len(watch[k]) + 1
            /\ watch'[k][Len(watch[k]) + 1] = o
            /\ \A n \in 1..Len(watch[k]) : watch'[k][n] = watch[k][n]
            /\ cache' = cache
        BY <1>4, <2>2, PublishAppends DEF Writes
      <4>2. CASE i \in 1..Len(watch[k])
        <5>1. i # 1 => i - 1 \in 1..Len(watch[k])
          BY <4>1, <4>2
        <5>2. Before(k, i)' = Before(k, i)
          BY <4>1, <5>1 DEF Before
        <5> QED
          BY <3>2, <4>1, <4>2, <5>2 DEF EventsIn
      <4>3. CASE i = Len(watch[k]) + 1
        <5>1. (watch[k] = <<>>) <=> (Len(watch[k]) = 0)
          BY EmptyFacts DEF TypeOK
        <5>2. Before(k, i)' = store[k]
          <6>1. i # 1 => /\ watch[k] # <<>> /\ i - 1 = Len(watch[k])
                         /\ i - 1 \in 1..Len(watch[k])
            BY <4>1, <4>3, <5>1
          <6>2. i = 1 => watch[k] = <<>>
            BY <4>1, <4>3, <5>1
          <6> QED
            BY <4>1, <6>1, <6>2 DEF Before, CacheTrails
        <5> QED
          BY <1>4, <2>2, <3>2, <4>1, <4>3, <5>2
      <4> QED
        BY <3>2, <4>1, <4>2, <4>3
    <3> QED
      BY <3>1, <3>2
  <2> QED
    BY <2>1, <2>2
<1> QED
  BY <1>1, <1>2, <1>3, <1>4, StoreSteps

LEMMA SyncQueue ==
  ASSUME SyncStep \/ SkipUpdate \/ ListApis \/ Sweep
  PROVE  queue \subseteq queue' /\ UNCHANGED notes
<1>1. UNCHANGED notes
  BY DEF SyncStep, OtherUnchanged, Vanished, Reject, AcceptNew, ClaimPrimary,
         SearchShared, KeepPrimary, Retry, Wait, SearchHit, SearchMiss,
         SearchOver, Collect, ListShared, LoopDone, ApisDeleted, SweepDone,
         NextDomain, SweepHost, SkipUpdate, ListApis, Sweep
<1>2. \A w : Proceed(w) => queue \subseteq queue'
  BY DEF Proceed
<1>3. \A failed : Return(failed) => queue \subseteq queue'
  BY DEF Return
<1>4. queue \subseteq queue'
  BY <1>2, <1>3
  DEF SyncStep, Vanished, Reject, AcceptNew, ClaimPrimary,
      SearchShared, KeepPrimary, Retry, Wait, SearchHit, SearchMiss,
      SearchOver, Collect, ListShared, LoopDone, ApisDeleted, SweepDone,
      NextDomain, SweepHost, SkipUpdate, ListApis, Sweep
<1> QED
  BY <1>1, <1>4

NotesIn(R) ==
  \A i \in 1..Len(notes) : <<notes[i].old, notes[i].new>> \in R

LEMMA NextNotes ==
  ASSUME CurrentInv, [Next]_vars, NEW CONSTANT R, EventsIn(R), NotesIn(R),
         \A d \in Versions : <<d, d>> \in R
  PROVE  NotesIn(R)'
<1> USE DEF CurrentInv, TypeInv
<1>1. CASE UNCHANGED notes
  BY <1>1 DEF NotesIn
<1>2. CASE User \/ Ingress \/ UNCHANGED vars
  BY <1>1, <1>2 DEF User, Create, Edit, AutoClaim, Delete, Ingress,
                    IngressCheck, IngressRoute, vars
<1>3. ASSUME NEW k \in Keys, Observe(k) \/ Resync(k) PROVE NotesIn(R)'
  <2>1. PICK n \in Notes : notes' = Append(notes, n) /\ <<n.old, n.new>> \in R
    <3>1. CASE Observe(k)
      <4> DEFINE n == [key |-> k, old |-> cache[k], new |-> Head(watch[k])]
      <4>1. /\ Head(watch[k]) \in Versions /\ Head(watch[k]) = watch[k][1]
            /\ 1 \in 1..Len(watch[k])
        BY <3>1, TailFacts DEF Observe, Lagging, TypeOK, Versions
      <4>2. n \in Notes
        BY <4>1 DEF Notes, TypeOK, Versions
      <4>3. <<n.old, n.new>> \in R
        BY <4>1 DEF EventsIn, Before
      <4>4. notes' = Append(notes, n)
        BY <3>1 DEF Observe
      <4> QED
        BY <4>2, <4>3, <4>4
    <3>2. CASE Resync(k)
      <4> DEFINE n == [key |-> k, old |-> cache[k], new |-> cache[k]]
      <4>1. n \in Notes /\ <<n.old, n.new>> \in R
        BY DEF Notes, TypeOK, Versions
      <4>2. notes' = Append(notes, n)
        BY <3>2 DEF Resync
      <4> QED
        BY <4>1, <4>2
    <3> QED
      BY <1>3, <3>1, <3>2
  <2>2. notes \in Seq(Notes)
    BY DEF TypeOK
  <2>3. /\ Len(notes') = Len(notes) + 1 /\ notes'[Len(notes) + 1] = n
        /\ \A i \in 1..Len(notes) : notes'[i] = notes[i]
    BY <2>1, <2>2, AppendFacts
  <2>4. \A i \in 1..Len(notes') : i \in 1..Len(notes) \/ i = Len(notes) + 1
    BY <2>2, <2>3
  <2> QED
    BY <2>1, <2>3, <2>4 DEF NotesIn
<1>4. ASSUME NEW posted \in BOOLEAN, HandleEvent(posted) PROVE NotesIn(R)'
  <2>1. notes # <<>> /\ notes' = Tail(notes) /\ notes \in Seq(Notes)
    BY <1>4 DEF HandleEvent, TypeOK
  <2>2. /\ Len(notes) \in Nat /\ Len(notes') = Len(notes) - 1
        /\ \A i \in 1..Len(notes') : notes'[i] = notes[i + 1]
    BY <2>1, TailFacts
  <2>3. \A i \in 1..Len(notes') : i + 1 \in 1..Len(notes)
    BY <2>2
  <2> QED
    BY <2>2, <2>3 DEF NotesIn
<1>5. CASE \/ \E j \in Keys : Start(j)
           \/ CallFails \/ \E answered \in BOOLEAN : CallStep(answered)
  BY <1>1, <1>5
  DEF Start, CallFails, CallStep, Put, Unfinalize, Remove, DeleteApi
<1>6. CASE Restart
  BY <1>6 DEF Restart, NotesIn
<1> QED
  BY <1>1, <1>2, <1>3, <1>4, <1>5, <1>6, SyncQueue
  DEF Next, Informer, WorkerStep, Fault
=============================================================================
