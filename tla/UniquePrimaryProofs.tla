------------------------ MODULE UniquePrimaryProofs ------------------------
(***************************************************************************)
(* A primary domain is granted once in the cluster, whatever the lag of the*)
(* cache, the interleaving of users, informer, ingress worker and domain   *)
(* worker, and the calls that fail: for every set of keys and specs, and   *)
(* every number of user operations and faults.                             *)
(*                                                                         *)
(* Two assumptions are needed.  The controller is not restarted: the run  *)
(* bad_restart grants a domain twice.  No edit changes what a resource    *)
(* claims: syncDomain does not check an OK domain for rivals again.       *)
(***************************************************************************)
EXTENDS DomainClaimsProofs

EditsKeepIdentity ==
  \A e \in Edits : e[1].primary = e[2].primary /\ e[1].sub = e[2].sub

Accepted(o) == o # None /\ o.phase # "New" /\ ~o.discarded

(* A write of o over store[k] that accepts nothing: an accepted o was       *)
(* accepted before, in the same phase and for the same host.                *)
Harmless(k, o) ==
  Accepted(o) => /\ Accepted(store[k])
                 /\ store[k].phase = o.phase
                 /\ Identity(store[k]) = Identity(o)

(* The informer already knows k for what o claims. *)
Known(k, o) ==
  Accepted(o) => /\ SameIdentity(cache[k], o)
                 /\ \A i \in 1..Len(watch[k]) : SameIdentity(watch[k][i], o)

-----------------------------------------------------------------------------
(* What a write does to the parts of the invariant. *)

LEMMA AcceptedCachedKnown ==
  AcceptedCached <=> \A k \in Keys : Known(k, store[k])
BY DEF AcceptedCached, Known, Accepted, Holds

LEMMA HarmlessKnown ==
  ASSUME AcceptedCached, NEW k \in Keys, NEW o, Harmless(k, o)
  PROVE  Known(k, o)
BY AcceptedCachedKnown DEF Harmless, Known, SameIdentity

LEMMA PublishAccepted ==
  ASSUME TypeOK, AcceptedCached, NEW k \in Keys,
         NEW o \in Domains \cup {None}, Publish(k, o), Known(k, o),
         UNCHANGED cache
  PROVE  AcceptedCached'
<1>1. CASE o = store[k]
  BY <1>1 DEF AcceptedCached, Holds, Publish
<1>2. CASE o # store[k]
  <2> SUFFICES ASSUME NEW j \in Keys, Accepted(store'[j])
               PROVE  /\ SameIdentity(cache[j], store'[j])
                      /\ \A i \in 1..Len(watch'[j]) :
                           SameIdentity(watch'[j][i], store'[j])
    BY DEF AcceptedCached, Holds, Accepted
  <2>1. CASE j = k
    <3>1. store'[j] = o
      BY <1>2, <2>1, PublishAppends DEF TypeOK
    <3>2. \A i \in 1..Len(watch'[k]) :
            i \in 1..Len(watch[k]) \/ i = Len(watch[k]) + 1
      BY <1>2, PublishAppends
    <3>3. SameIdentity(o, o)
      BY <3>1 DEF SameIdentity, Accepted
    <3> QED
      BY <1>2, <2>1, <3>1, <3>2, <3>3, PublishAppends DEF Known
  <2>2. CASE j # k
    <3>1. store'[j] = store[j] /\ watch'[j] = watch[j]
      BY <1>2, <2>2, PublishAppends DEF TypeOK
    <3> QED
      BY <3>1, AcceptedCachedKnown DEF Known
  <2> QED
    BY <2>1, <2>2
<1> QED
  BY <1>1, <1>2

LEMMA PublishUnique ==
  ASSUME TypeOK, UniquePrimary, NEW k \in Keys, NEW o, Publish(k, o),
         Harmless(k, o)
  PROVE  UniquePrimary'
<1>1. store' = [store EXCEPT ![k] = o] /\ store \in [Keys -> Domains \cup {None}]
  BY PublishStore DEF TypeOK
<1>2. \A j \in Keys : Accepted(store'[j]) => /\ Accepted(store[j])
                                             /\ store[j].phase = store'[j].phase
                                             /\ Identity(store[j]) = Identity(store'[j])
  BY <1>1 DEF Harmless
<1>3. ASSUME NEW j \in Keys, OwnsPrimary(j)'
      PROVE  /\ OwnsPrimary(j)
             /\ GetPrimaryDomain(store[j]) = GetPrimaryDomain(store'[j])
  BY <1>2, <1>3
  DEF OwnsPrimary, Holds, Accepted, Identity, IsPrimary, GetPrimaryDomain
<1> QED
  BY <1>3 DEF UniquePrimary

LEMMA PublishExclusive ==
  ASSUME TypeOK, GrantExclusive, NEW k \in Keys, NEW o, Publish(k, o),
         Harmless(k, o), SameGrant
  PROVE  GrantExclusive'
<1>1. store' = [store EXCEPT ![k] = o] /\ store \in [Keys -> Domains \cup {None}]
  BY PublishStore DEF TypeOK
<1>2. \A j \in Keys : Accepted(store'[j]) => /\ Accepted(store[j])
                                             /\ store[j].phase = store'[j].phase
                                             /\ Identity(store[j]) = Identity(store'[j])
  BY <1>1 DEF Harmless
<1> SUFFICES ASSUME worker.pc = "put", worker.verdict.phase = "OK",
                    IsPrimary(worker.cur.obj),
                    NEW j \in Keys \ {worker.cur.key},
                    store'[j] # None, IsPrimary(store'[j]),
                    ~store'[j].discarded,
                    GetPrimaryDomain(store'[j]) = GetPrimaryDomain(worker.cur.obj),
                    store'[j].phase # "New"
             PROVE  FALSE
  BY DEF GrantExclusive, SameGrant, Holds
<1>3. /\ Accepted(store[j]) /\ IsPrimary(store[j])
      /\ GetPrimaryDomain(store[j]) = GetPrimaryDomain(store'[j])
  BY <1>2 DEF Accepted, Identity, IsPrimary, GetPrimaryDomain
<1> QED
  BY <1>3 DEF GrantExclusive, Holds, Accepted

(* A harmless write by anyone but the worker. *)
LEMMA OtherWrite ==
  ASSUME UniquePrimaryInv, NEW k \in Keys, NEW o \in Domains \cup {None}, Publish(k, o),
         Harmless(k, o), Outdate(k), UNCHANGED cache, CurrentInv'
  PROVE  UniquePrimaryInv'
<1> USE DEF UniquePrimaryInv, CurrentInv, TypeInv
<1>1. Known(k, o)
  BY HarmlessKnown
<1>2. SameGrant
  BY OutdateFacts
<1> QED
  BY <1>1, <1>2, PublishAccepted, PublishUnique, PublishExclusive

-----------------------------------------------------------------------------
(* The steps of the users and of the informer. *)

LEMMA UserUnique ==
  ASSUME UniquePrimaryInv, EditsKeepIdentity, User, CurrentInv'
  PROVE  UniquePrimaryInv'
<1> USE DEF UniquePrimaryInv, CurrentInv, TypeInv
<1>1. ASSUME NEW k \in UserKeys, NEW s \in Wanted[k], Create(k, s)
      PROVE  UniquePrimaryInv'
  <2>1. k \in Keys /\ s \in Specs
    BY <1>1, ClaimsAssumption
  <2>2. NewDomain(s) \in Domains /\ Harmless(k, NewDomain(s))
    BY <2>1, NewDomainFacts DEF Harmless, Accepted
  <2> QED
    BY <1>1, <2>1, <2>2, OtherWrite DEF Create
<1>2. ASSUME NEW k \in UserKeys, NEW s \in Specs, Edit(k, s)
      PROVE  UniquePrimaryInv'
  <2> DEFINE o == [store[k] EXCEPT !.spec = s]
  <2>1. k \in Keys /\ store[k] \in Domains
    BY <1>2, ClaimsAssumption DEF TypeOK, Edit
  <2>2. store[k].spec.primary = s.primary /\ store[k].spec.sub = s.sub
    BY <1>2 DEF Edit, EditsKeepIdentity
  <2>3. o \in Domains /\ Harmless(k, o)
    BY <2>1, <2>2, EditFacts, NoneAssumption DEF Harmless, Accepted, Identity
  <2> QED
    BY <1>2, <2>1, <2>3, OtherWrite DEF Edit
<1>3. ASSUME NEW k \in UserKeys, NEW s \in Specs, AutoClaim(k, s)
      PROVE  UniquePrimaryInv'
  <2>1. k \in Keys /\ cache[k] \in Domains /\ store[k] = cache[k]
    BY <1>3, ClaimsAssumption DEF TypeOK, AutoClaim, Lagging, CacheTrails
  <2>2. cache[k].spec.primary = s.primary /\ cache[k].spec.sub = s.sub
    BY <1>3 DEF AutoClaim, EditsKeepIdentity
  <2>3. CASE cache[k].phase = "OK"
    <3> DEFINE o == [cache[k] EXCEPT !.spec = s]
    <3>1. o \in Domains /\ Harmless(k, o)
      BY <2>1, <2>2, EditFacts, NoneAssumption DEF Harmless, Accepted, Identity
    <3>2. Publish(k, o) /\ Outdate(k) /\ UNCHANGED cache
      BY <1>3, <2>3 DEF AutoClaim
    <3> QED
      BY <2>1, <3>1, <3>2, OtherWrite
  <2>4. CASE cache[k].phase # "OK"
    <3>1. Reset(cache[k], s) \in Domains /\ Harmless(k, Reset(cache[k], s))
      BY <2>1, ResetFacts DEF Harmless, Accepted
    <3>2. Publish(k, Reset(cache[k], s)) /\ Outdate(k) /\ UNCHANGED cache
      BY <1>3, <2>4 DEF AutoClaim, Reset
    <3> QED
      BY <2>1, <3>1, <3>2, OtherWrite
  <2> QED
    BY <2>3, <2>4
<1>4. ASSUME NEW k \in Keys, Delete(k)
      PROVE  UniquePrimaryInv'
  <2>1. store[k] \in Domains
    BY <1>4 DEF TypeOK, Delete
  <2>2. /\ AfterDelete(store[k]) \in Domains \cup {None}
        /\ Harmless(k, AfterDelete(store[k]))
    BY <2>1, AfterDeleteFacts, NoneAssumption DEF Harmless, Accepted, Identity
  <2> QED
    BY <1>4, <2>2, OtherWrite DEF Delete
<1> QED
  BY <1>1, <1>2, <1>3, <1>4 DEF User

LEMMA ObserveUnique ==
  ASSUME UniquePrimaryInv, NEW k \in Keys, Observe(k), CurrentInv'
  PROVE  UniquePrimaryInv'
<1> USE DEF UniquePrimaryInv
<1>1. AcceptedCached'
  <2> SUFFICES ASSUME NEW j \in Keys, Accepted(store[j])
               PROVE  /\ SameIdentity(cache'[j], store[j])
                      /\ \A i \in 1..Len(watch'[j]) :
                           SameIdentity(watch'[j][i], store[j])
    BY ObserveFacts DEF AcceptedCached, Holds, Accepted
  <2>1. \A i \in 1..Len(watch[j]) : SameIdentity(watch[j][i], store[j])
    BY AcceptedCachedKnown DEF Known
  <2>2. CASE j # k
    BY <2>2, ObserveFacts, AcceptedCachedKnown DEF Known
  <2>3. CASE j = k
    <3>1. /\ Len(watch[k]) \in Nat /\ Len(watch[k]) > 0
          /\ cache'[k] = watch[k][1]
          /\ Len(watch'[k]) = Len(watch[k]) - 1
          /\ \A i \in 1..Len(watch'[k]) : watch'[k][i] = watch[k][i + 1]
      BY ObserveFacts
    <3>2. 1 \in 1..Len(watch[k])
      BY <3>1
    <3>3. \A i \in 1..Len(watch'[k]) : i + 1 \in 1..Len(watch[k])
      BY <3>1
    <3> QED
      BY <2>1, <2>3, <3>1, <3>2, <3>3
  <2> QED
    BY <2>2, <2>3
<1>2. GrantExclusive' /\ UniquePrimary'
  BY ObserveFacts DEF GrantExclusive, UniquePrimary, OwnsPrimary, Holds
<1> QED
  BY <1>1, <1>2 DEF CurrentInv, TypeInv

(* The parts that do not look at the worker, when it alone moves. *)
LEMMA StoreStands ==
  ASSUME UniquePrimaryInv, UNCHANGED <<store, cache, watch>>
  PROVE  AcceptedCached' /\ UniquePrimary'
BY DEF UniquePrimaryInv, AcceptedCached, UniquePrimary, OwnsPrimary, Holds

LEMMA InformerUnique ==
  ASSUME UniquePrimaryInv, Informer, CurrentInv'
  PROVE  UniquePrimaryInv'
<1> USE DEF UniquePrimaryInv, CurrentInv, TypeInv
<1>1. ASSUME NEW k \in Keys, Observe(k)
      PROVE  UniquePrimaryInv'
  BY <1>1, ObserveUnique
<1>2. ASSUME UNCHANGED <<store, cache, watch, worker>>
      PROVE  UniquePrimaryInv'
  BY <1>2, StoreStands DEF GrantExclusive, Holds
<1>3. ASSUME NEW posted \in BOOLEAN, HandleEvent(posted)
      PROVE  UniquePrimaryInv'
  <2> DEFINE n == Head(notes)
  <2> DEFINE k == CopyKey(n.key, n.new)
  <2>1. CASE ~(Renamed(n) /\ posted)
    BY <1>2, <1>3, <2>1 DEF HandleEvent
  <2>2. CASE Renamed(n) /\ posted
    <3>1. n \in Notes /\ notes \in Seq(Notes)
      <4>1. notes # <<>> /\ notes \in Seq(Notes)
        BY <1>3 DEF HandleEvent, TypeOK
      <4> QED
        BY <4>1, TailFacts
    <3>2. k \in Keys /\ Recovered(n) \in Domains /\ Recovered(n).discarded
      BY <2>2, <3>1, RecoveredFacts DEF Renamed
    <3>3. /\ Publish(k, IF store[k] = None THEN Recovered(n) ELSE store[k])
          /\ IF store[k] = None THEN Outdate(k) ELSE UNCHANGED worker
          /\ UNCHANGED cache
      BY <1>3, <2>2 DEF HandleEvent
    <3> HIDE DEF k, n
    <3>4. CASE store[k] # None
      BY <1>2, <3>3, <3>4 DEF Publish
    <3>5. CASE store[k] = None
      <4>1. Harmless(k, Recovered(n))
        BY <3>2 DEF Harmless, Accepted
      <4> QED
        BY <3>2, <3>3, <3>5, <4>1, OtherWrite
    <3> QED
      BY <3>4, <3>5
  <2> QED
    BY <2>1, <2>2
<1>4. ASSUME NEW k \in Keys, Resync(k)
      PROVE  UniquePrimaryInv'
  BY <1>2, <1>4 DEF Resync
<1> QED
  BY <1>1, <1>3, <1>4 DEF Informer

-----------------------------------------------------------------------------
(* The steps of the worker. *)

(* No grant is on its way after the step. *)
NoGrant ==
  ~(/\ worker'.pc = "put"
    /\ worker'.verdict.phase = "OK"
    /\ IsPrimary(worker'.cur.obj))

LEMMA IdleExclusive ==
  ASSUME worker' = Idle
  PROVE  GrantExclusive'
BY IdleFacts DEF GrantExclusive

(* The rival check reads the cache, and the cache knows every accepted      *)
(* rival.                                                                   *)
LEMMA RivalSeen ==
  ASSUME AcceptedCached, NEW k, NEW d, ~Rival(k, d),
         NEW j \in Keys \ {k},
         store[j] # None, IsPrimary(store[j]), ~store[j].discarded,
         GetPrimaryDomain(store[j]) = GetPrimaryDomain(d)
  PROVE  store[j].phase = "New"
<1> SUFFICES ASSUME store[j].phase # "New" PROVE FALSE
  OBVIOUS
<1>1. SameIdentity(cache[j], store[j])
  BY AcceptedCachedKnown DEF Known, Accepted
<1> QED
  BY <1>1 DEF SameIdentity, Identity, IsPrimary, GetPrimaryDomain, Rival

LEMMA SyncUnique ==
  ASSUME UniquePrimaryInv, SyncStep, CurrentInv'
  PROVE  UniquePrimaryInv'
<1> USE DEF UniquePrimaryInv, CurrentInv, TypeInv
<1>1. worker \in WorkerStates /\ WorkerShape
  BY DEF TypeOK
<1>2. UNCHANGED <<store, cache, watch>>
  BY DEF SyncStep, OtherUnchanged, Vanished, Reject, AcceptNew, ClaimPrimary,
         SearchShared, KeepPrimary, Retry, Wait, SearchHit, SearchMiss,
         SearchOver, Collect, ListShared, LoopDone, ApisDeleted, SweepDone,
         NextDomain, SweepHost
<1>3. SUFFICES GrantExclusive'
  BY <1>2, <1>3, StoreStands
<1>4. CASE NoGrant
  BY <1>4 DEF NoGrant, GrantExclusive
<1>5. CASE Vanished \/ KeepPrimary \/ Wait \/ SweepDone
  BY <1>5, IdleExclusive DEF Vanished, KeepPrimary, Wait, SweepDone, Return
<1>6. CASE Reject \/ AcceptNew \/ Retry
  <2>1. PICK mode \in {"invalid", "accept", "retry"},
             p \in {"Failed", "Pending", "New"}, r \in Reasons :
               worker' = Decide(mode, Verdict(p, r))
    <3>1. worker.cur # None
      BY <1>6 DEF Reject, AcceptNew, Retry, InPhase
    <3>2. worker.cur.obj.reason \in Reasons
      BY <1>1, <3>1 DEF WorkerStates, Copies, Domains
    <3> QED
      BY <1>6, <3>2 DEF Reject, AcceptNew, Retry, Proceed, Reasons
  <2> QED
    BY <1>1, <1>4, <2>1, DecideCopies DEF NoGrant, Verdict
<1>7. CASE ClaimPrimary
  <2>1. CASE Rival(worker.cur.key, worker.cur.obj)
    <3>1. worker' = Decide("claim", Verdict("Failed", "DomainAlreadyExists"))
      BY <1>7, <2>1 DEF ClaimPrimary, Proceed
    <3> QED
      BY <1>1, <1>4, <3>1, DecideCopies DEF NoGrant, Verdict
  <2>2. CASE ~Rival(worker.cur.key, worker.cur.obj)
    <3>1. worker' = Decide("claim", Verdict("OK", ""))
      BY <1>7, <2>2 DEF ClaimPrimary, Proceed
    <3>2. worker'.cur = worker.cur
      BY <1>1, <3>1, DecideCopies
    <3> QED
      BY <1>2, <2>2, <3>2, RivalSeen DEF GrantExclusive, Holds
  <2> QED
    BY <2>1, <2>2
<1>8. CASE SearchShared
  BY <1>1, <1>4, <1>8
  DEF SearchShared, Proceed, WorkerStates, NoGrant
<1>9. CASE SearchHit
  <2>1. CASE worker.mode = "wipe"
    <3>1. worker' = [worker EXCEPT !.pc = "each", !.cur = None, !.left = <<>>]
      BY <1>9, <2>1 DEF SearchHit, Proceed
    <3> QED
      BY <1>1, <1>4, <3>1 DEF WorkerStates, NoGrant
  <2>2. CASE worker.mode # "wipe" /\ worker.cur.obj.phase = "Pending"
    <3>1. worker' = [worker EXCEPT !.pc = "put", !.mode = "claim",
                           !.verdict = Verdict("OK", ""), !.left = <<>>]
      BY <1>9, <2>2 DEF SearchHit, Proceed, Decide
    <3>2. ~IsPrimary(worker.cur.obj)
      BY <1>1, <1>9, <2>2 DEF SearchHit, WorkerShape
    <3> QED
      BY <1>1, <1>4, <3>1, <3>2 DEF WorkerStates, NoGrant
  <2>3. CASE ~(worker.mode = "wipe") /\ ~(worker.cur.obj.phase = "Pending")
    BY <1>9, <2>3, IdleExclusive DEF SearchHit, Return
  <2> QED
    BY <2>1, <2>2, <2>3
<1>10. CASE SearchMiss
  BY <1>1, <1>4, <1>10
  DEF SearchMiss, Proceed, WorkerStates, NoGrant
<1>11. CASE SearchOver
  <2>1. CASE worker.mode = "wipe"
    BY <1>1, <1>4, <1>11, <2>1
    DEF SearchOver, Proceed, WorkerStates, NoGrant
  <2>2. CASE worker.mode # "wipe"
    <3>1. worker' = Decide("claim", Verdict("Failed", "DomainNotFound"))
      BY <1>11, <2>2 DEF SearchOver, Proceed
    <3> QED
      BY <1>1, <1>4, <3>1, DecideCopies DEF NoGrant, Verdict
  <2> QED
    BY <2>1, <2>2
<1>12. CASE Collect \/ ListShared
  BY <1>1, <1>4, <1>12
  DEF Collect, ListShared, Proceed, WorkerStates, NoGrant
<1>13. CASE LoopDone
  BY <1>1, <1>4, <1>13 DEF LoopDone, Proceed, WorkerStates, NoGrant
<1>14. CASE ApisDeleted
  <2>1. CASE worker.cur = None
    BY <1>1, <1>4, <1>14, <2>1
    DEF ApisDeleted, Proceed, WorkerStates, NoGrant
  <2>2. CASE worker.cur # None
    <3>1. worker' = Decide(worker.mode, Verdict("Failed", "DomainDeleted"))
      BY <1>14, <2>2 DEF ApisDeleted, Proceed
    <3> QED
      BY <1>1, <1>4, <3>1, DecideCopies DEF NoGrant, Verdict
  <2> QED
    BY <2>1, <2>2
<1>15. ASSUME NEW c \in worker.todo, NextDomain(c)
       PROVE  GrantExclusive'
  BY <1>1, <1>4, <1>15
  DEF NextDomain, Proceed, WorkerStates, NoGrant
<1>16. ASSUME NEW r \in worker.listed, SweepHost(r.host)
       PROVE  GrantExclusive'
  BY <1>1, <1>4, <1>16
  DEF SweepHost, Proceed, WorkerStates, NoGrant
<1> QED
  BY <1>5, <1>6, <1>7, <1>8, <1>9, <1>10, <1>11, <1>12, <1>13, <1>14, <1>15,
     <1>16 DEF SyncStep

(* The PUT that grants a primary domain, and any other. *)
LEMMA PutUnique ==
  ASSUME UniquePrimaryInv, NEW answered \in BOOLEAN, Put(answered), CurrentInv'
  PROVE  UniquePrimaryInv'
<1> USE DEF UniquePrimaryInv, CurrentInv, TypeInv
<1> DEFINE k == worker.cur.key
<1> DEFINE o == Updated(worker.cur.obj, worker.verdict, worker.mode)
<1>1. /\ worker \in WorkerStates /\ worker.pc = "put"
      /\ worker.cur \in Copies /\ worker.verdict \in Verdicts
      /\ worker.cur # None
  BY DEF Put, TypeOK, WorkerShape, WorkerStates
<1>2. k \in Keys /\ worker.cur.obj \in Domains
  BY <1>1 DEF Copies
<1>3. CASE Conflicts(k)
  <2>1. worker' = Idle /\ UNCHANGED <<store, cache, watch>>
    BY <1>3 DEF Put, Return
  <2> QED
    BY <2>1, IdleExclusive, StoreStands
<1>4. CASE ~Conflicts(k)
  <2>1. /\ Publish(k, o) /\ Answer(answered, AfterUpdate)
        /\ UNCHANGED cache
    BY <1>4 DEF Put
  <2>2. k \notin worker.stale /\ store[k] = worker.cur.obj /\ watch[k] = <<>>
    BY <1>1, <1>4 DEF Conflicts, CopiesCurrent
  <2>3. cache[k] = worker.cur.obj
    BY <1>2, <2>2 DEF CacheTrails
  <2>4. /\ o \in Domains /\ o.spec = worker.cur.obj.spec
        /\ o.phase = worker.verdict.phase
        /\ o.discarded = worker.cur.obj.discarded
    BY <1>1, <1>2, UpdatedFacts
  <2> HIDE DEF o
  <2>5. Known(k, o)
    BY <1>2, <2>2, <2>3, <2>4, NoneAssumption DEF Known, SameIdentity, Identity
  <2>6. AcceptedCached'
    BY <1>2, <2>1, <2>4, <2>5, PublishAccepted
  <2>7. store' = [store EXCEPT ![k] = o] /\ store \in [Keys -> Domains \cup {None}]
    BY <1>2, <2>1, PublishStore DEF TypeOK
  <2>8. UniquePrimary'
    <3> SUFFICES ASSUME NEW i \in Keys, NEW j \in Keys, i # j,
                        OwnsPrimary(i)', OwnsPrimary(j)',
                        GetPrimaryDomain(store'[i]) = GetPrimaryDomain(store'[j])
                 PROVE  FALSE
      BY DEF UniquePrimary
    <3>0. PICK q \in Keys : q = k
      BY <1>2
    <3>1. CASE i # q /\ j # q
      BY <2>7, <3>0, <3>1 DEF UniquePrimary, OwnsPrimary, Holds
    <3>2. ASSUME NEW m \in Keys \ {q}, OwnsPrimary(m)', OwnsPrimary(q)',
                 GetPrimaryDomain(store'[m]) = GetPrimaryDomain(store'[q])
          PROVE  FALSE
      <4>1. store'[q] = o /\ store'[m] = store[m]
        BY <2>7, <3>0
      <4>2. worker.verdict.phase = "OK" /\ IsPrimary(worker.cur.obj)
        BY <2>4, <3>2, <4>1 DEF OwnsPrimary, Holds, IsPrimary
      <4>3. GetPrimaryDomain(store[m]) = GetPrimaryDomain(worker.cur.obj)
        BY <2>4, <3>2, <4>1 DEF GetPrimaryDomain
      <4>4. store[m] # None /\ IsPrimary(store[m]) /\ ~store[m].discarded
            /\ store[m].phase = "OK"
        BY <3>2, <4>1 DEF OwnsPrimary, Holds
      <4> QED
        BY <1>1, <3>0, <4>2, <4>3, <4>4 DEF GrantExclusive, Holds
    <3> QED
      BY <3>1, <3>2
  <2>9. GrantExclusive'
    <3>1. worker'.pc # "put"
      BY <1>1, <2>1, IdleFacts
      DEF Answer, Proceed, AfterUpdate, Return, WorkerStates
    <3> QED
      BY <3>1 DEF GrantExclusive
  <2> QED
    BY <2>6, <2>8, <2>9
<1> QED
  BY <1>3, <1>4

LEMMA CallUnique ==
  ASSUME UniquePrimaryInv, NEW answered \in BOOLEAN, CallStep(answered),
         CurrentInv'
  PROVE  UniquePrimaryInv'
<1> USE DEF UniquePrimaryInv, CurrentInv, TypeInv
<1>1. worker \in WorkerStates /\ WorkerShape
  BY DEF TypeOK
<1>2. ASSUME worker' = Idle, UNCHANGED <<store, cache, watch>>
      PROVE  UniquePrimaryInv'
  BY <1>2, IdleExclusive, StoreStands
<1>3. ASSUME NEW k \in Keys, NEW o \in Domains \cup {None}, Publish(k, o),
             Harmless(k, o), UNCHANGED cache, GrantExclusive'
      PROVE  UniquePrimaryInv'
  BY <1>3, HarmlessKnown, PublishAccepted, PublishUnique
<1>4. CASE Unfinalize(answered)
  <2>1. worker.pc = "unfinalize" /\ worker.key \in Keys
    BY <1>1, <1>4 DEF Unfinalize, WorkerShape, WorkerStates
  <2>2. CASE store[worker.key] = None
    BY <1>2, <1>4, <2>2 DEF Unfinalize, Return
  <2>3. CASE store[worker.key] # None
    <3> DEFINE o == AfterPatch(store[worker.key])
    <3>1. /\ Publish(worker.key, o) /\ UNCHANGED cache
          /\ Answer(answered, [worker EXCEPT !.pc = "remove",
                                 !.stale = worker.stale \cup {worker.key}])
      BY <1>4, <2>3 DEF Unfinalize
    <3>2. store[worker.key] \in Domains
      BY <2>1, <2>3 DEF TypeOK
    <3>3. o \in Domains \cup {None} /\ Harmless(worker.key, o)
      BY <3>2, AfterPatchFacts, NoneAssumption DEF Harmless, Accepted, Identity
    <3> HIDE DEF o
    <3>4. GrantExclusive'
      <4>1. worker'.pc # "put"
        BY <1>1, <3>1, IdleFacts DEF Answer, Proceed, Return, WorkerStates
      <4> QED
        BY <4>1 DEF GrantExclusive
    <3> QED
      BY <1>3, <2>1, <3>1, <3>3, <3>4
  <2> QED
    BY <2>2, <2>3
<1>5. CASE Remove(answered)
  <2>1. worker.pc = "remove" /\ worker.key \in Keys
    BY <1>1, <1>5 DEF Remove, WorkerShape, WorkerStates
  <2>2. CASE store[worker.key] = None
    BY <1>2, <1>5, <2>2 DEF Remove, Return
  <2>3. CASE store[worker.key] # None
    <3> DEFINE o == AfterDelete(store[worker.key])
    <3>1. /\ Publish(worker.key, o) /\ UNCHANGED cache
          /\ Answer(answered, Idle)
      BY <1>5, <2>3 DEF Remove
    <3>2. store[worker.key] \in Domains
      BY <2>1, <2>3 DEF TypeOK
    <3>3. o \in Domains \cup {None} /\ Harmless(worker.key, o)
      BY <3>2, AfterDeleteFacts, NoneAssumption DEF Harmless, Accepted, Identity
    <3>4. GrantExclusive'
      BY <3>1, IdleExclusive DEF Answer, Proceed, Return
    <3> HIDE DEF o
    <3> QED
      BY <1>3, <2>1, <3>1, <3>3, <3>4
  <2> QED
    BY <2>2, <2>3
<1>6. ASSUME NEW r \in worker.doomed, DeleteApi(r, answered)
      PROVE  UniquePrimaryInv'
  <2>1. UNCHANGED <<store, cache, watch>>
    BY <1>6 DEF DeleteApi
  <2>2. CASE answered
    BY <1>1, <1>6, <2>1, <2>2, StoreStands
    DEF DeleteApi, Answer, Proceed, WorkerStates, GrantExclusive
  <2>3. CASE ~answered
    BY <1>2, <1>6, <2>1, <2>3 DEF DeleteApi, Answer, Return
  <2> QED
    BY <2>2, <2>3
<1> QED
  BY <1>4, <1>5, <1>6, PutUnique DEF CallStep

LEMMA InitUnique == Init => UniquePrimaryInv
<1> SUFFICES ASSUME Init PROVE UniquePrimaryInv
  OBVIOUS
<1>1. TypeOK /\ WorkerShape /\ CacheTrails /\ CopiesCurrent
  BY InitCurrent DEF CurrentInv, TypeInv
<1>2. AcceptedCached /\ UniquePrimary
  BY DEF Init, AcceptedCached, UniquePrimary, OwnsPrimary, Holds
<1>3. GrantExclusive
  BY IdleFacts DEF Init, GrantExclusive
<1> QED
  BY <1>1, <1>2, <1>3 DEF UniquePrimaryInv

LEMMA NextUnique ==
  ASSUME MaxRestarts = 0, EditsKeepIdentity, UniquePrimaryInv, [Next]_vars
  PROVE  UniquePrimaryInv'
<1> USE DEF UniquePrimaryInv, CurrentInv, TypeInv
<1>0. CurrentInv'
  BY NextCurrent
<1>1. CASE User \/ Informer
  BY <1>0, <1>1, UserUnique, InformerUnique
<1>2. CASE Ingress \/ UNCHANGED vars
  <2>1. UNCHANGED <<store, cache, watch, worker>>
    BY <1>2 DEF Ingress, IngressCheck, IngressRoute, vars
  <2> QED
    BY <1>0, <2>1, StoreStands DEF GrantExclusive, Holds
<1>3. ASSUME NEW k \in Keys, Start(k) PROVE UniquePrimaryInv'
  <2>1. worker'.pc = "sync" /\ UNCHANGED <<store, cache, watch>>
    BY <1>3 DEF Start, Idle
  <2> QED
    BY <1>0, <2>1, StoreStands DEF GrantExclusive
<1>4. CASE SyncStep
  BY <1>0, <1>4, SyncUnique
<1>5. CASE SkipUpdate
  <2>1. worker'.pc # "put" /\ UNCHANGED <<store, cache, watch>>
    BY <1>5, IdleFacts DEF SkipUpdate, Proceed, AfterUpdate, TypeOK, WorkerStates
  <2> QED
    BY <1>0, <2>1, StoreStands DEF GrantExclusive
<1>6. CASE ListApis \/ Sweep
  <2>1. worker'.pc # "put" /\ UNCHANGED <<store, cache, watch>>
    BY <1>6 DEF ListApis, Sweep, Proceed, OtherUnchanged, TypeOK, WorkerStates
  <2> QED
    BY <1>0, <2>1, StoreStands DEF GrantExclusive
<1>7. ASSUME NEW answered \in BOOLEAN, CallStep(answered) PROVE UniquePrimaryInv'
  BY <1>0, <1>7, CallUnique
<1>8. CASE CallFails
  BY <1>0, <1>8, IdleExclusive, StoreStands DEF CallFails, Return
<1>9. CASE Restart
  BY <1>9, ClaimsAssumption DEF Restart, Spend, TypeOK, Budgets
<1> QED
  BY <1>1, <1>2, <1>3, <1>4, <1>5, <1>6, <1>7, <1>8, <1>9
  DEF Next, WorkerStep, Fault

(* The parts of the argument hold together: the cache trails the store, a   *)
(* copy that syncDomain can still PUT is current, what it has accepted is   *)
(* cached, and a grant on its way has no accepted rival.                    *)
THEOREM UniqueInvariant ==
  ASSUME MaxRestarts = 0, EditsKeepIdentity
  PROVE  Spec => []UniquePrimaryInv
<1>1. UniquePrimaryInv /\ [Next]_vars => UniquePrimaryInv'
  BY NextUnique
<1> QED
  BY <1>1, InitUnique, PTL DEF Spec

(* syncDomain never makes two primary domains of the same name OK, as long  *)
(* as the process is not restarted and edits keep what a resource claims:   *)
(* the rival check reads a cache that lags behind, and the PUT is refused   *)
(* unless the copy it was decided on is still the stored one.               *)
THEOREM OnePrimary ==
  ASSUME MaxRestarts = 0, EditsKeepIdentity
  PROVE  Spec => []UniquePrimary
<1>1. UniquePrimaryInv => UniquePrimary
  BY DEF UniquePrimaryInv
<1> QED
  BY <1>1, UniqueInvariant, PTL

-----------------------------------------------------------------------------
(* The sweep.  Edits that keep what a resource claims leave no copies, so   *)
(* every OK domain of the API server is an accepted one, which the cache    *)
(* knows for its host.                                                      *)

SameClaim ==
  {p \in Versions \X Versions :
     p[1] # None /\ p[2] # None => Identity(p[1]) = Identity(p[2])}

ClaimsKept ==
  /\ \A k \in Keys : store[k] # None => ~store[k].discarded
  /\ EventsIn(SameClaim)
  /\ NotesIn(SameClaim)

LEMMA NotRenamed ==
  ASSUME TypeOK, ClaimsKept, notes # <<>>
  PROVE  ~Renamed(Head(notes))
<1>1. Head(notes) = notes[1] /\ Len(notes) \in Nat /\ Len(notes) > 0
  BY TailFacts DEF TypeOK
<1>2. 1 \in 1..Len(notes)
  BY <1>1
<1> QED
  BY <1>1, <1>2 DEF ClaimsKept, NotesIn, SameClaim, Renamed

(* No write changes what a resource claims, and all but the worker's PUT    *)
(* leave its phase alone or start it again.                                 *)
LEMMA WriteKeepsClaim ==
  ASSUME EditsKeepIdentity, CurrentInv, ClaimsKept, NEW k \in Keys,
         NEW o \in Domains \cup {None}, Writes(k, o)
  PROVE  /\ <<store[k], o>> \in SameClaim
         /\ o # None => ~o.discarded
         /\ worker.pc # "put" => Harmless(k, o)
<1> USE DEF CurrentInv, TypeInv
<1>0. store[k] \in Versions /\ o \in Versions
  BY DEF TypeOK, Versions
<1>1. CASE Created(k, o)
  BY <1>0, <1>1, NotRenamed DEF Created, SameClaim, Harmless, Accepted
<1>2. CASE Edited(k, o)
  <2>1. store[k] \in Domains /\ store[k] # None /\ ~store[k].discarded
    BY <1>2, NoneAssumption DEF Edited, ClaimsKept
  <2>2. Identity(store[k]) = Identity(o)
    BY <1>2 DEF Edited, EditsKeepIdentity, Identity
  <2> QED
    BY <1>0, <1>2, <2>1, <2>2 DEF Edited, SameClaim, Harmless, Accepted
<1>3. CASE Removed(k, o) \/ Patched(k, o)
  <2>1. store[k] \in Domains /\ store[k] # None /\ ~store[k].discarded
    BY <1>3, NoneAssumption DEF Removed, Patched, ClaimsKept
  <2>2. o # None => /\ o.spec = store[k].spec /\ o.phase = store[k].phase
                    /\ o.discarded = store[k].discarded
    BY <1>3, <2>1, AfterDeleteFacts, AfterPatchFacts DEF Removed, Patched
  <2> QED
    BY <1>0, <2>1, <2>2 DEF SameClaim, Identity, Harmless, Accepted
<1>4. CASE Stored(k, o)
  <2> DEFINE d == worker.cur.obj
  <2>1. d \in Domains /\ worker.verdict \in Verdicts /\ store[k] = d
    BY <1>4, StoredFacts
  <2>2. o = Updated(d, worker.verdict, worker.mode) /\ worker.pc = "put"
    BY <1>4 DEF Stored
  <2> HIDE DEF d
  <2>3. o.spec = d.spec /\ o.discarded = d.discarded
    BY <2>1, <2>2, UpdatedFacts
  <2>4. ~d.discarded
    BY <2>1, NoneAssumption DEF ClaimsKept
  <2> QED
    BY <1>0, <2>1, <2>2, <2>3, <2>4 DEF SameClaim, Identity
<1> QED
  BY <1>1, <1>2, <1>3, <1>4 DEF Writes

LEMMA NextClaims ==
  ASSUME EditsKeepIdentity, CurrentInv, ClaimsKept, [Next]_vars
  PROVE  ClaimsKept'
<1> USE DEF CurrentInv, TypeInv
<1>1. EventsIn(SameClaim)'
  <2>1. \A d \in Domains : <<None, d>> \in SameClaim
    BY DEF SameClaim, Versions
  <2>2. \A k \in Keys, o \in Domains \cup {None} :
          Writes(k, o) /\ o # store[k] => <<store[k], o>> \in SameClaim
    BY WriteKeepsClaim
  <2> QED
    BY <2>1, <2>2, NextEvents DEF ClaimsKept
<1>2. NotesIn(SameClaim)'
  <2>1. \A d \in Versions : <<d, d>> \in SameClaim
    BY DEF SameClaim
  <2> QED
    BY <2>1, NextNotes DEF ClaimsKept
<1>3. \A k \in Keys : store'[k] # None => ~store'[k].discarded
  <2>1. CASE UNCHANGED store
    BY <2>1 DEF ClaimsKept
  <2>2. ASSUME NEW k \in Keys, NEW o \in Domains \cup {None}, Writes(k, o)
        PROVE  \A j \in Keys : store'[j] # None => ~store'[j].discarded
    <3>1. store' = [store EXCEPT ![k] = o]
      BY <2>2, PublishStore DEF Writes
    <3>2. o # None => ~o.discarded
      BY <2>2, WriteKeepsClaim
    <3> QED
      BY <3>1, <3>2 DEF ClaimsKept, TypeOK
  <2> QED
    BY <2>1, <2>2, StoreSteps DEF Observe, Restart
<1> QED
  BY <1>1, <1>2, <1>3 DEF ClaimsKept

(* An OK domain of the API server has this host. *)
InUseHost(h) ==
  \E k \in Keys : Holds(k, LAMBDA d : d.phase = "OK" /\ GetDomain(d) = h)

Sweeping == worker.pc = "delete" /\ worker.cur = None

SweepInv == Sweeping => \A r \in worker.doomed : ~InUseHost(r.host)

(* What the sweep is about to delete, it has just decided or was about to   *)
(* delete before.                                                           *)
LEMMA SweepSteps ==
  ASSUME TypeInv, [Next]_vars, Sweeping'
  PROVE  \/ /\ Sweeping /\ worker'.doomed \subseteq worker.doomed
         \/ /\ worker.pc = "hosts" /\ UNCHANGED store
            /\ \A r \in worker'.doomed : ~KnownHost(r.host)
<1> USE DEF TypeInv, Sweeping
<1>1. worker \in WorkerStates /\ WorkerShape
  BY DEF TypeOK
<1>2. CASE User \/ Informer \/ Ingress \/ UNCHANGED vars
  <2>1. /\ worker'.pc = worker.pc /\ worker'.cur = worker.cur
        /\ worker'.doomed = worker.doomed
    BY <1>1, <1>2
    DEF User, Create, Edit, AutoClaim, Delete, Informer, Observe, Resync,
        HandleEvent, Ingress, IngressCheck, IngressRoute, vars, Outdate,
        WorkerStates
  <2> QED
    BY <2>1
<1>3. CASE \E k \in Keys : Start(k)
  BY <1>3 DEF Start, Idle
<1>4. CASE SyncStep
  <2>1. ASSUME NEW r \in worker.listed, SweepHost(r.host)
        PROVE  /\ worker.pc = "hosts" /\ UNCHANGED store
               /\ \A s \in worker'.doomed : ~KnownHost(s.host)
    <3>1. /\ worker.pc = "hosts" /\ UNCHANGED store
          /\ worker'.doomed = IF KnownHost(r.host) THEN {}
                              ELSE {s \in worker.listed : s.host = r.host}
      BY <1>1, <2>1 DEF SweepHost, Proceed, OtherUnchanged, WorkerStates
    <3> QED
      BY <3>1
  <2>2. CASE \E r \in worker.listed : SweepHost(r.host)
    BY <2>1, <2>2
  <2>3. CASE \/ Reject \/ AcceptNew \/ ClaimPrimary \/ Retry \/ SearchShared
             \/ SearchHit \/ SearchMiss \/ SearchOver
    BY <1>1, <2>3, IdleFacts
    DEF Reject, AcceptNew, ClaimPrimary, Retry, SearchShared, SearchHit,
        SearchMiss, SearchOver, Decide, Proceed, Return, WorkerStates
  <2>4. CASE Vanished \/ KeepPrimary \/ Wait \/ SweepDone
    BY <2>4, IdleFacts DEF Vanished, KeepPrimary, Wait, SweepDone, Return
  <2>5. CASE \/ Collect \/ ListShared \/ LoopDone \/ ApisDeleted
             \/ \E c \in worker.todo : NextDomain(c)
    BY <1>1, <2>5
    DEF Collect, ListShared, LoopDone, ApisDeleted, NextDomain, Decide,
        Proceed, WorkerStates
  <2> QED
    BY <1>4, <2>2, <2>3, <2>4, <2>5 DEF SyncStep
<1>5. CASE SkipUpdate \/ ListApis \/ Sweep
  BY <1>1, <1>5, IdleFacts
  DEF SkipUpdate, ListApis, Sweep, AfterUpdate, Proceed, WorkerStates, WorkerShape
<1>6. ASSUME NEW answered \in BOOLEAN, CallStep(answered)
      PROVE  Sweeping /\ worker'.doomed \subseteq worker.doomed
  <2>1. CASE Put(answered) \/ Unfinalize(answered) \/ Remove(answered)
    BY <1>1, <2>1, IdleFacts
    DEF Put, Unfinalize, Remove, Answer, AfterUpdate, Proceed, Return,
        WorkerStates
  <2>2. ASSUME NEW r \in worker.doomed, DeleteApi(r, answered)
        PROVE  Sweeping /\ worker'.doomed \subseteq worker.doomed
    BY <1>1, <2>2, IdleFacts DEF DeleteApi, Answer, Proceed, Return, WorkerStates
  <2> QED
    BY <1>6, <2>1, <2>2 DEF CallStep
<1>7. CASE CallFails \/ Restart
  BY <1>7, IdleFacts DEF CallFails, Restart, Return
<1> QED
  BY <1>2, <1>3, <1>4, <1>5, <1>6, <1>7 DEF Next, WorkerStep, Fault

(* No host comes into use while the worker is not at a PUT. *)
LEMMA HostsInUse ==
  ASSUME EditsKeepIdentity, CurrentInv, ClaimsKept, [Next]_vars,
         worker.pc # "put", NEW h, InUseHost(h)'
  PROVE  InUseHost(h)
<1> USE DEF CurrentInv, TypeInv
<1>1. CASE UNCHANGED store
  BY <1>1 DEF InUseHost, Holds
<1>2. ASSUME NEW k \in Keys, NEW o \in Domains \cup {None}, Writes(k, o)
      PROVE  InUseHost(h)
  <2>1. store' = [store EXCEPT ![k] = o] /\ Harmless(k, o)
    BY <1>2, PublishStore, WriteKeepsClaim DEF Writes
  <2>2. o # None => ~o.discarded
    BY <1>2, WriteKeepsClaim
  <2>3. PICK j \in Keys : /\ store'[j] # None /\ store'[j].phase = "OK"
                          /\ GetDomain(store'[j]) = h
    BY DEF InUseHost, Holds
  <2>4. CASE j = k
    <3>1. store'[k] = o
      BY <2>1 DEF TypeOK
    <3>2. Accepted(o)
      BY <2>2, <2>3, <2>4, <3>1 DEF Accepted
    <3>3. /\ Accepted(store[k]) /\ store[k].phase = "OK"
          /\ Identity(store[k]) = Identity(o)
      BY <2>1, <2>3, <2>4, <3>1, <3>2 DEF Harmless
    <3>4. GetDomain(store[k]) = h
      BY <2>3, <2>4, <3>1, <3>3 DEF Identity, GetDomain
    <3> QED
      BY <3>3, <3>4 DEF InUseHost, Holds, Accepted
  <2>5. CASE j # k
    BY <2>1, <2>3, <2>5 DEF InUseHost, Holds, TypeOK
  <2> QED
    BY <2>4, <2>5
<1> QED
  BY <1>1, <1>2, StoreSteps DEF Observe, Restart

LEMMA NextSweep ==
  ASSUME EditsKeepIdentity, UniquePrimaryInv, ClaimsKept, SweepInv, [Next]_vars
  PROVE  SweepInv'
<1> USE DEF CurrentInv, TypeInv
<1>0. CurrentInv
  BY DEF UniquePrimaryInv
<1> SUFFICES ASSUME Sweeping', NEW r \in worker'.doomed, InUseHost(r.host)'
             PROVE  FALSE
  BY DEF SweepInv
<1>1. CASE Sweeping /\ worker'.doomed \subseteq worker.doomed
  <2>1. InUseHost(r.host)
    BY <1>0, <1>1, HostsInUse DEF Sweeping
  <2> QED
    BY <1>1, <2>1 DEF SweepInv
<1>2. CASE UNCHANGED store /\ ~KnownHost(r.host)
  <2>1. PICK k \in Keys : /\ store[k] # None /\ store[k].phase = "OK"
                          /\ GetDomain(store[k]) = r.host
    BY <1>2 DEF InUseHost, Holds
  <2>2. SameIdentity(cache[k], store[k])
    BY <2>1, AcceptedCachedKnown
    DEF UniquePrimaryInv, Known, Accepted, ClaimsKept
  <2> QED
    BY <1>2, <2>1, <2>2 DEF SameIdentity, Identity, GetDomain, KnownHost
<1> QED
  BY <1>0, <1>1, <1>2, SweepSteps

(* The sweep of a deleted resource deletes no route of a host an OK domain  *)
(* has, though it decides on the cache and deletes some calls later: in     *)
(* between no host comes into use, because the worker that grants them is   *)
(* the one that sweeps.  The assumptions are those of OnePrimary: after a   *)
(* restart the sweep may run before the cache is filled, and the copy that  *)
(* updateDomain posts for the former host of an edited OK domain is OK      *)
(* before it is cached.                                                     *)
THEOREM SweepKeepsRoutes ==
  ASSUME MaxRestarts = 0, EditsKeepIdentity
  PROVE  Spec => SweepSpares
<1> DEFINE Inv == UniquePrimaryInv /\ ClaimsKept /\ SweepInv
<1> DEFINE Spares ==
      \A r \in apis \ apis' :
        worker.mode = "wipe" /\ worker.cur = None =>
          ~\E k \in Keys : Holds(k, LAMBDA d : d.phase = "OK"
                                               /\ GetDomain(d) = r.host)
<1>1. Init => Inv
  <2> SUFFICES ASSUME Init PROVE Inv
    OBVIOUS
  <2>1. ClaimsKept
    BY DEF Init, ClaimsKept, EventsIn, NotesIn
  <2>2. SweepInv
    BY IdleFacts DEF Init, SweepInv, Sweeping
  <2> QED
    BY <2>1, <2>2, InitUnique
<1>2. Inv /\ [Next]_vars => Inv'
  BY NextUnique, NextClaims, NextSweep DEF UniquePrimaryInv, CurrentInv, TypeInv
<1>3. Inv /\ [Next]_vars => [Spares]_vars
  <2> SUFFICES ASSUME Inv, Next, NEW r \in apis \ apis', worker.cur = None
               PROVE  ~InUseHost(r.host)
    BY DEF InUseHost, vars
  <2>1. worker.pc = "delete" /\ r \in worker.doomed
    <3>1. ASSUME NEW answered \in BOOLEAN, NEW s \in worker.doomed,
                 DeleteApi(s, answered)
          PROVE  worker.pc = "delete" /\ r \in worker.doomed
      BY <3>1 DEF DeleteApi
    <3>2. CASE Ingress
      BY <3>2 DEF Ingress, IngressCheck, IngressRoute
    <3>3. UNCHANGED apis => FALSE
      OBVIOUS
    <3>4. CASE User \/ Informer \/ \E k \in Keys : Start(k)
      BY <3>3, <3>4
      DEF User, Create, Edit, AutoClaim, Delete, Informer, Observe, Resync,
          HandleEvent, Start
    <3>5. CASE SyncStep \/ SkipUpdate \/ ListApis \/ Sweep
      BY <3>3, <3>5
      DEF SyncStep, OtherUnchanged, Vanished, Reject, AcceptNew, ClaimPrimary,
          SearchShared, KeepPrimary, Retry, Wait, SearchHit, SearchMiss,
          SearchOver, Collect, ListShared, LoopDone, ApisDeleted, SweepDone,
          NextDomain, SweepHost, SkipUpdate, ListApis, Sweep
    <3>6. CASE CallFails \/ Restart
      BY <3>3, <3>6 DEF CallFails, Restart
    <3>7. ASSUME NEW answered \in BOOLEAN,
                 Put(answered) \/ Unfinalize(answered) \/ Remove(answered)
          PROVE  FALSE
      BY <3>3, <3>7 DEF Put, Unfinalize, Remove
    <3> QED
      BY <3>1, <3>2, <3>4, <3>5, <3>6, <3>7
      DEF Next, WorkerStep, Fault, CallStep
  <2> QED
    BY <2>1 DEF SweepInv, Sweeping
<1>4. SweepSpares <=> [][Spares]_vars
  BY DEF SweepSpares
<1> HIDE DEF Inv, Spares
<1> QED
  BY <1>1, <1>2, <1>3, <1>4, PTL DEF Spec
=============================================================================
