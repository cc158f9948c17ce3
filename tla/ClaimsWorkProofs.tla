-------------------------- MODULE ClaimsWorkProofs --------------------------
(***************************************************************************)
(* What syncDomain never loses: a domain in use keeps its finalizer, no    *)
(* claim and no deletion is forgotten, and no PUT undoes what a user did.  *)
(* For every set of keys and specs, every edit, and every number of user   *)
(* operations, failing calls, lost answers and restarts.                   *)
(***************************************************************************)
EXTENDS DomainClaimsProofs

Marked(o) == o # None /\ IsMarkedForDeletion(o)

(* Accepted, and not on its way out. *)
InUse(o) ==
  /\ o # None /\ ~IsMarkedForDeletion(o)
  /\ o.phase \in {"Pending", "OK"}

-----------------------------------------------------------------------------
(* The branch of syncDomain the worker is in. *)

Looping == worker.mode \in {"purge", "wipe"}

(* Outside of its loops the worker holds the domain of its key; it searches *)
(* a primary for a domain in use; it removes what it purges.                *)
BranchShape ==
  /\ worker.pc = "idle" => worker.key = None /\ worker.mode = "claim"
  /\ worker.pc # "idle" /\ ~Looping =>
       /\ worker.pc \in {"sync", "search", "put"}
       /\ worker.cur # None => worker.cur.key = worker.key
  /\ worker.pc = "sync" => worker.mode = "claim"
  /\ worker.pc \in {"unfinalize", "remove"} => worker.mode = "purge"
  /\ \/ worker.pc \in {"sweep", "hosts"}
     \/ worker.pc = "delete" /\ worker.cur = None
     => worker.mode = "wipe"
  /\ worker.pc = "search" => worker.mode # "purge"
  /\ worker.pc = "search" /\ ~Looping => InUse(worker.cur.obj)

(* Which domain gets which phase from the PUT of each branch. *)
Decided(mode, d, p) ==
  \/ mode = "accept" /\ d.phase = "New" /\ ~Marked(d) /\ p = "Pending"
  \/ mode = "claim" /\ InUse(d) /\ p \in {"OK", "Failed"}
  \/ mode = "retry" /\ d.phase = "Failed" /\ ~Marked(d) /\ p = "New"
  \/ /\ mode = "retry" /\ d.phase = "Failed" /\ ~Marked(d)
     /\ p = "Pending" /\ d.finalizer
  \/ mode = "invalid" /\ ~IsValidDomain(d) /\ p = "Failed"
  \/ mode \in {"purge", "wipe"} /\ p = "Failed"

VerdictShape ==
  worker.pc = "put" =>
    Decided(worker.mode, worker.cur.obj, worker.verdict.phase)

BranchInv == BranchShape /\ VerdictShape

LEMMA IdleBranch ==
  ASSUME worker' = Idle
  PROVE  BranchInv'
BY DEF Idle, BranchInv, BranchShape, VerdictShape, Looping

SameWork == SameGrant /\ worker'.key = worker.key /\ worker'.mode = worker.mode

LEMMA SameBranch ==
  ASSUME BranchInv, SameWork
  PROVE  BranchInv'
BY DEF BranchInv, BranchShape, VerdictShape, Looping, SameWork, SameGrant

(* One of the domains of a loop, or none. *)
LEMMA LoopBranch ==
  ASSUME worker'.mode \in {"purge", "wipe"},
         worker'.pc \in {"each", "list", "delete", "search"},
         worker'.mode = "purge" =>
           /\ worker'.pc # "search"
           /\ worker'.pc = "delete" => worker'.cur # None
  PROVE  BranchInv'
BY DEF BranchInv, BranchShape, VerdictShape, Looping

LEMMA DecideBranch ==
  ASSUME worker \in WorkerStates, NEW mode, NEW v,
         worker' = Decide(mode, v),
         Decided(mode, worker.cur.obj, v.phase),
         mode \in {"purge", "wipe"} \/ worker.cur.key = worker.key
  PROVE  BranchInv'
<1>1. /\ worker'.pc = "put" /\ worker'.mode = mode /\ worker'.verdict = v
      /\ worker'.cur = worker.cur /\ worker'.key = worker.key
  BY DEF Decide, WorkerStates
<1> QED
  BY <1>1 DEF BranchInv, BranchShape, VerdictShape, Looping

(* A valid, unmarked domain of the worker's own key. *)
LEMMA InPhaseFacts ==
  ASSUME TypeInv, BranchInv, NEW p, InPhase(p)
  PROVE  /\ worker.cur \in Copies /\ worker.cur.obj \in Domains
         /\ worker.cur.obj # None
         /\ worker.cur.key = worker.key
         /\ ~Marked(worker.cur.obj) /\ worker.cur.obj.phase = p
         /\ p \in {"Pending", "OK"} => InUse(worker.cur.obj)
BY NoneAssumption
DEF TypeInv, TypeOK, WorkerStates, Copies, InPhase, BranchInv, BranchShape,
    Looping, Marked, InUse

LEMMA SyncBranch ==
  ASSUME TypeInv, BranchInv, SyncStep
  PROVE  BranchInv'
<1>1. worker \in WorkerStates /\ WorkerShape
  BY DEF TypeInv, TypeOK
<1>2. \A p, r : Verdict(p, r).phase = p
  BY DEF Verdict
<1>3. CASE Vanished \/ KeepPrimary \/ Wait \/ SweepDone
  BY <1>3, IdleBranch DEF Vanished, KeepPrimary, Wait, SweepDone, Return
<1>4. CASE Reject
  <2>1. worker.cur.key = worker.key /\ ~IsValidDomain(worker.cur.obj)
    BY <1>4 DEF Reject, BranchInv, BranchShape, Looping
  <2>2. worker' = Decide("invalid", Verdict("Failed", "Invalid"))
    BY <1>4 DEF Reject, Proceed
  <2> QED
    BY <1>1, <1>2, <2>1, <2>2, DecideBranch DEF Decided
<1>5. CASE AcceptNew
  <2>1. worker' = Decide("accept", Verdict("Pending", worker.cur.obj.reason))
    BY <1>5 DEF AcceptNew, Proceed
  <2>2. /\ worker.cur.key = worker.key /\ ~Marked(worker.cur.obj)
        /\ worker.cur.obj.phase = "New"
    BY <1>5, InPhaseFacts DEF AcceptNew
  <2> QED
    BY <1>1, <1>2, <2>1, <2>2, DecideBranch DEF Decided
<1>6. CASE ClaimPrimary
  <2>1. PICK p \in {"Failed", "OK"} :
          \E r : worker' = Decide("claim", Verdict(p, r))
    BY <1>6 DEF ClaimPrimary, Proceed
  <2>2. worker.cur.key = worker.key /\ InUse(worker.cur.obj)
    BY <1>6, InPhaseFacts DEF ClaimPrimary
  <2> QED
    BY <1>1, <1>2, <2>1, <2>2, DecideBranch DEF Decided
<1>7. CASE Retry
  <2>1. PICK p \in {"Pending", "New"} :
          /\ worker' = Decide("retry", Verdict(p, ""))
          /\ p = "Pending" => HasKongFinalizer(worker.cur.obj)
    BY <1>7 DEF Retry, Proceed
  <2>2. /\ worker.cur.key = worker.key /\ ~Marked(worker.cur.obj)
        /\ worker.cur.obj.phase = "Failed"
    BY <1>7, InPhaseFacts DEF Retry
  <2> QED
    BY <1>1, <1>2, <2>1, <2>2, DecideBranch DEF Decided, HasKongFinalizer
<1>8. CASE SearchShared
  <2>1. worker.cur.key = worker.key /\ InUse(worker.cur.obj)
    BY <1>8, InPhaseFacts DEF SearchShared
  <2>2. /\ worker'.pc = "search" /\ worker'.mode = worker.mode
        /\ worker'.cur = worker.cur /\ worker'.key = worker.key
    BY <1>1, <1>8 DEF SearchShared, Proceed, WorkerStates
  <2>3. worker.mode = "claim"
    BY <1>8 DEF SearchShared, InPhase, BranchInv, BranchShape
  <2> QED
    BY <2>1, <2>2, <2>3 DEF BranchInv, BranchShape, VerdictShape, Looping
<1>9. CASE SearchHit
  <2>1. CASE worker.mode = "wipe"
    BY <1>1, <1>9, <2>1, LoopBranch DEF SearchHit, Proceed, WorkerStates
  <2>2. CASE worker.mode # "wipe" /\ worker.cur.obj.phase = "Pending"
    <3>1. worker' = [worker EXCEPT !.pc = "put", !.mode = "claim",
                           !.verdict = Verdict("OK", ""), !.left = <<>>]
      BY <1>9, <2>2 DEF SearchHit, Proceed, Decide
    <3>2. /\ worker'.pc = "put" /\ worker'.mode = "claim"
          /\ worker'.verdict.phase = "OK"
          /\ worker'.cur = worker.cur /\ worker'.key = worker.key
      BY <1>1, <1>2, <3>1 DEF WorkerStates
    <3>3. worker.pc = "search" /\ worker.cur # None
      BY <1>1, <1>9 DEF SearchHit, WorkerShape
    <3>4. CASE worker.mode = "purge"
      BY <1>9, <3>4 DEF SearchHit, BranchInv, BranchShape
    <3>5. CASE ~Looping
      BY <3>2, <3>3, <3>5 DEF BranchInv, BranchShape, VerdictShape, Decided, Looping
    <3> QED
      BY <2>2, <3>4, <3>5 DEF Looping
  <2>3. CASE ~(worker.mode = "wipe") /\ ~(worker.cur.obj.phase = "Pending")
    BY <1>9, <2>3, IdleBranch DEF SearchHit, Return
  <2> QED
    BY <2>1, <2>2, <2>3
<1>10. CASE SearchMiss
  BY <1>1, <1>10, SameBranch
  DEF SearchMiss, Proceed, WorkerStates, SameWork, SameGrant
<1>11. CASE SearchOver
  <2>1. CASE worker.mode = "wipe"
    BY <1>1, <1>11, <2>1, LoopBranch DEF SearchOver, Proceed, WorkerStates
  <2>2. CASE worker.mode # "wipe"
    <3>1. worker' = Decide("claim", Verdict("Failed", "DomainNotFound"))
      BY <1>11, <2>2 DEF SearchOver, Proceed
    <3>2. ~Looping /\ worker.pc = "search" /\ worker.cur # None
      BY <1>1, <1>11, <2>2 DEF SearchOver, WorkerShape, BranchInv, BranchShape, Looping
    <3>3. worker.cur.key = worker.key /\ InUse(worker.cur.obj)
      BY <3>2 DEF BranchInv, BranchShape
    <3> QED
      BY <1>1, <1>2, <3>1, <3>3, DecideBranch DEF Decided
  <2> QED
    BY <2>1, <2>2
<1>12. CASE Collect \/ ListShared
  BY <1>1, <1>12, LoopBranch DEF Collect, ListShared, Proceed, WorkerStates
<1>13. CASE LoopDone
  <2>1. Looping
    BY <1>13 DEF LoopDone, BranchInv, BranchShape
  <2>2. /\ worker'.mode = worker.mode /\ worker'.cur = worker.cur
        /\ worker'.pc = IF worker.mode = "wipe" THEN "sweep" ELSE "unfinalize"
    BY <1>1, <1>13 DEF LoopDone, Proceed, WorkerStates
  <2> QED
    BY <2>1, <2>2 DEF BranchInv, BranchShape, VerdictShape, Looping
<1>14. CASE ApisDeleted
  <2>1. Looping
    BY <1>14 DEF ApisDeleted, BranchInv, BranchShape
  <2>2. CASE worker.cur = None
    BY <1>1, <1>14, <2>1, <2>2
    DEF ApisDeleted, Proceed, WorkerStates, BranchInv, BranchShape,
        VerdictShape, Looping
  <2>3. CASE worker.cur # None
    <3>1. worker' = Decide(worker.mode, Verdict("Failed", "DomainDeleted"))
      BY <1>14, <2>3 DEF ApisDeleted, Proceed
    <3> QED
      BY <1>1, <1>2, <2>1, <3>1, DecideBranch DEF Decided, Looping
  <2> QED
    BY <2>2, <2>3
<1>15. ASSUME NEW c \in worker.todo, NextDomain(c)
       PROVE  BranchInv'
  <2>1. Looping
    BY <1>15 DEF NextDomain, BranchInv, BranchShape
  <2> QED
    BY <1>1, <1>15, <2>1, LoopBranch DEF NextDomain, Proceed, WorkerStates, Looping
<1>16. ASSUME NEW r \in worker.listed, SweepHost(r.host)
       PROVE  BranchInv'
  <2>1. worker.mode = "wipe"
    BY <1>16 DEF SweepHost, BranchInv, BranchShape
  <2> QED
    BY <1>1, <1>16, <2>1, LoopBranch DEF SweepHost, Proceed, WorkerStates
<1> QED
  BY <1>3, <1>4, <1>5, <1>6, <1>7, <1>8, <1>9, <1>10, <1>11, <1>12, <1>13,
     <1>14, <1>15, <1>16 DEF SyncStep

LEMMA UserSame ==
  ASSUME TypeInv, User
  PROVE  SameWork
<1>1. PICK k \in Keys : Outdate(k)
  BY ClaimsAssumption DEF User, Create, Edit, AutoClaim, Delete
<1> QED
  BY <1>1, OutdateFacts DEF SameWork

LEMMA InformerSame ==
  ASSUME TypeInv, Informer
  PROVE  SameWork
<1>1. CASE UNCHANGED worker
  BY <1>1 DEF SameWork, SameGrant
<1>2. ASSUME NEW posted \in BOOLEAN, HandleEvent(posted)
      PROVE  SameWork
  <2> DEFINE n == Head(notes)
  <2> DEFINE k == CopyKey(n.key, n.new)
  <2>1. CASE Renamed(n) /\ posted /\ store[k] = None
    <3>1. k \in Keys /\ Outdate(k)
      BY <1>2, <2>1 DEF HandleEvent, Renamed
    <3> HIDE DEF k, n
    <3> QED
      BY <3>1, OutdateFacts DEF SameWork
  <2>2. CASE ~(Renamed(n) /\ posted /\ store[k] = None)
    BY <1>1, <1>2, <2>2 DEF HandleEvent
  <2> QED
    BY <2>1, <2>2
<1> QED
  BY <1>1, <1>2 DEF Informer, Observe, Resync

LEMMA IngressSame ==
  ASSUME Ingress \/ UNCHANGED vars
  PROVE  SameWork
BY DEF Ingress, IngressCheck, IngressRoute, vars, SameWork, SameGrant

LEMMA StartFacts ==
  ASSUME TypeInv, NEW k \in Keys, Start(k)
  PROVE  /\ worker'.pc = "sync" /\ worker'.mode = "claim" /\ worker'.key = k
         /\ worker'.cur = IF cache[k] = None THEN None
                          ELSE [key |-> k, obj |-> cache[k]]
         /\ worker'.cur # None => worker'.cur.key = k /\ worker'.cur.obj = cache[k]
BY DEF Start, Idle

LEMMA AfterUpdateBranch ==
  ASSUME TypeInv, BranchInv, worker' = AfterUpdate
  PROVE  BranchInv'
<1>1. worker \in WorkerStates
  BY DEF TypeInv, TypeOK
<1>2. CASE Looping
  <2>1. worker'.pc = "each" /\ worker'.mode = worker.mode
    BY <1>1, <1>2 DEF AfterUpdate, Looping, WorkerStates
  <2> QED
    BY <1>2, <2>1, LoopBranch DEF Looping
<1>3. CASE ~Looping
  BY <1>3, IdleBranch DEF AfterUpdate, Looping
<1> QED
  BY <1>2, <1>3

LEMMA CallBranch ==
  ASSUME TypeInv, BranchInv, NEW answered \in BOOLEAN, CallStep(answered)
  PROVE  BranchInv'
<1>1. worker \in WorkerStates
  BY DEF TypeInv, TypeOK
<1>2. CASE worker' = Idle
  BY <1>2, IdleBranch
<1>3. CASE Put(answered)
  BY <1>2, <1>3, AfterUpdateBranch DEF Put, Answer, Proceed, Return
<1>4. CASE Unfinalize(answered)
  <2>1. CASE store[worker.key] # None /\ answered
    <3>1. /\ worker'.pc = "remove" /\ worker'.mode = worker.mode
          /\ worker'.cur = worker.cur
      BY <1>1, <1>4, <2>1 DEF Unfinalize, Answer, Proceed, WorkerStates
    <3>2. worker.mode = "purge"
      BY <1>4 DEF Unfinalize, BranchInv, BranchShape
    <3> QED
      BY <3>1, <3>2 DEF BranchInv, BranchShape, VerdictShape, Looping
  <2>2. CASE ~(store[worker.key] # None /\ answered)
    BY <1>2, <1>4, <2>2 DEF Unfinalize, Answer, Return
  <2> QED
    BY <2>1, <2>2
<1>5. CASE Remove(answered)
  BY <1>2, <1>5 DEF Remove, Answer, Proceed, Return
<1>6. ASSUME NEW r \in worker.doomed, DeleteApi(r, answered)
      PROVE  BranchInv'
  <2>1. CASE answered
    BY <1>1, <1>6, <2>1, SameBranch
    DEF DeleteApi, Answer, Proceed, WorkerStates, SameWork, SameGrant
  <2>2. CASE ~answered
    BY <1>2, <1>6, <2>2 DEF DeleteApi, Answer, Return
  <2> QED
    BY <2>1, <2>2
<1> QED
  BY <1>3, <1>4, <1>5, <1>6 DEF CallStep

LEMMA NextBranch ==
  ASSUME TypeInv, BranchInv, [Next]_vars
  PROVE  BranchInv'
<1>1. worker \in WorkerStates
  BY DEF TypeInv, TypeOK
<1>2. CASE User \/ Informer \/ Ingress \/ UNCHANGED vars
  BY <1>2, UserSame, InformerSame, IngressSame, SameBranch
<1>3. ASSUME NEW k \in Keys, Start(k) PROVE BranchInv'
  <2>1. /\ worker'.pc = "sync" /\ worker'.mode = "claim" /\ worker'.key = k
        /\ worker'.cur # None => worker'.cur.key = k
    BY <1>3, StartFacts
  <2> QED
    BY <2>1 DEF BranchInv, BranchShape, VerdictShape, Looping
<1>4. CASE SkipUpdate
  BY <1>4, AfterUpdateBranch DEF SkipUpdate, Proceed
<1>5. CASE ListApis
  <2>1. Looping /\ worker.cur # None
    BY <1>5 DEF ListApis, BranchInv, BranchShape, TypeInv, WorkerShape
  <2>2. /\ worker'.pc = "delete" /\ worker'.mode = worker.mode
        /\ worker'.cur = worker.cur
    BY <1>1, <1>5 DEF ListApis, Proceed, WorkerStates
  <2> QED
    BY <2>1, <2>2, LoopBranch DEF Looping
<1>6. CASE Sweep
  <2>1. worker.mode = "wipe"
    BY <1>6 DEF Sweep, BranchInv, BranchShape
  <2>2. worker'.pc = "hosts" /\ worker'.mode = worker.mode
    BY <1>1, <1>6 DEF Sweep, Proceed, WorkerStates
  <2> QED
    BY <2>1, <2>2 DEF BranchInv, BranchShape, VerdictShape, Looping
<1>7. ASSUME NEW answered \in BOOLEAN, CallStep(answered) PROVE BranchInv'
  BY <1>7, CallBranch
<1>8. CASE CallFails \/ Restart
  BY <1>8, IdleBranch DEF CallFails, Restart, Return
<1> QED
  BY <1>2, <1>3, <1>4, <1>5, <1>6, <1>7, <1>8, SyncBranch
  DEF Next, WorkerStep, Fault

-----------------------------------------------------------------------------
(* What a step does to the worker. *)

(* The next step of a loop, or of a branch that has only read the cache. *)
GoesOn ==
  /\ worker.pc # "idle" /\ worker'.pc \notin {"idle", "sync"}
  /\ worker'.key = worker.key
  /\ \/ Looping /\ worker'.mode = worker.mode
     \/ /\ ~Looping /\ ~Looping'
        /\ worker'.cur = worker.cur
        /\ UNCHANGED <<store, cache, watch, notes, queue>>
  /\ worker'.pc = "remove" => Unfinalize(TRUE)

Moves ==
  \/ SameWork \/ worker' = Idle \/ GoesOn
  \/ Collect \/ ListShared
  \/ \E k \in Keys : Start(k)

LEMMA DecideGoesOn ==
  ASSUME worker \in WorkerStates, NEW mode, NEW v, worker' = Decide(mode, v),
         worker.pc # "idle",
         \/ Looping /\ mode = worker.mode
         \/ /\ ~Looping /\ mode \notin {"purge", "wipe"}
            /\ UNCHANGED <<store, cache, watch, notes, queue>>
  PROVE  GoesOn
<1>1. /\ worker'.pc = "put" /\ worker'.mode = mode
      /\ worker'.cur = worker.cur /\ worker'.key = worker.key
  BY DEF Decide, WorkerStates
<1> QED
  BY <1>1 DEF GoesOn, Looping

LEMMA SyncMoves ==
  ASSUME TypeInv, BranchInv, SyncStep
  PROVE  Moves
<1>1. worker \in WorkerStates
  BY DEF TypeInv, TypeOK
<1>2. CASE Vanished \/ KeepPrimary \/ Wait \/ SweepDone
  BY <1>2 DEF Vanished, KeepPrimary, Wait, SweepDone, Return, Moves
<1>3. CASE Reject \/ AcceptNew \/ ClaimPrimary \/ Retry
  <2>1. /\ worker.pc = "sync" /\ ~Looping
        /\ UNCHANGED <<store, cache, watch, notes, queue>>
    BY <1>3 DEF Reject, AcceptNew, ClaimPrimary, Retry, InPhase, OtherUnchanged,
                Proceed, BranchInv, BranchShape, Looping
  <2>2. \E mode \in {"invalid", "accept", "claim", "retry"} : \E v :
          worker' = Decide(mode, v)
    BY <1>3 DEF Reject, AcceptNew, ClaimPrimary, Retry, Proceed
  <2> QED
    BY <1>1, <2>1, <2>2, DecideGoesOn DEF Moves
<1>4. CASE SearchShared
  <2>1. /\ worker.pc = "sync" /\ ~Looping
        /\ UNCHANGED <<store, cache, watch, notes, queue>>
    BY <1>4 DEF SearchShared, InPhase, OtherUnchanged, Proceed, BranchInv,
                BranchShape, Looping
  <2>2. /\ worker'.pc = "search" /\ worker'.mode = worker.mode
        /\ worker'.cur = worker.cur /\ worker'.key = worker.key
    BY <1>1, <1>4 DEF SearchShared, Proceed, WorkerStates
  <2> QED
    BY <2>1, <2>2 DEF Moves, GoesOn, Looping
<1>5. CASE SearchHit
  <2>1. CASE worker.mode = "wipe"
    BY <1>1, <1>5, <2>1
    DEF SearchHit, Proceed, WorkerStates, Moves, GoesOn, Looping
  <2>2. CASE worker.mode # "wipe" /\ worker.cur.obj.phase = "Pending"
    <3>1. worker' = [worker EXCEPT !.pc = "put", !.mode = "claim",
                           !.verdict = Verdict("OK", ""), !.left = <<>>]
      BY <1>5, <2>2 DEF SearchHit, Proceed, Decide
    <3>2. /\ worker'.pc = "put" /\ worker'.mode = "claim"
          /\ worker'.cur = worker.cur /\ worker'.key = worker.key
      BY <1>1, <3>1 DEF WorkerStates
    <3>3. /\ worker.pc = "search" /\ ~Looping
          /\ UNCHANGED <<store, cache, watch, notes, queue>>
      BY <1>5, <2>2
      DEF SearchHit, OtherUnchanged, Proceed, BranchInv, BranchShape, Looping
    <3> QED
      BY <3>2, <3>3 DEF Moves, GoesOn, Looping
  <2>3. CASE ~(worker.mode = "wipe") /\ ~(worker.cur.obj.phase = "Pending")
    BY <1>5, <2>3 DEF SearchHit, Return, Moves
  <2> QED
    BY <2>1, <2>2, <2>3
<1>6. CASE SearchMiss
  BY <1>1, <1>6
  DEF SearchMiss, Proceed, WorkerStates, Moves, SameWork, SameGrant
<1>7. CASE SearchOver
  <2>1. CASE worker.mode = "wipe"
    BY <1>1, <1>7, <2>1
    DEF SearchOver, Proceed, WorkerStates, Moves, GoesOn, Looping
  <2>2. CASE worker.mode # "wipe"
    <3>1. worker' = Decide("claim", Verdict("Failed", "DomainNotFound"))
      BY <1>7, <2>2 DEF SearchOver, Proceed
    <3>2. /\ worker.pc = "search" /\ ~Looping
          /\ UNCHANGED <<store, cache, watch, notes, queue>>
      BY <1>7, <2>2
      DEF SearchOver, OtherUnchanged, Proceed, BranchInv, BranchShape, Looping
    <3> QED
      BY <1>1, <3>1, <3>2, DecideGoesOn DEF Moves
  <2> QED
    BY <2>1, <2>2
<1>8. ASSUME worker.pc \in {"each", "delete", "hosts"}
      PROVE  Looping
  BY <1>8 DEF BranchInv, BranchShape
<1>9. CASE LoopDone
  BY <1>1, <1>8, <1>9 DEF LoopDone, Proceed, WorkerStates, Moves, GoesOn
<1>10. CASE ApisDeleted
  <2>1. CASE worker.cur = None
    BY <1>1, <1>8, <1>10, <2>1
    DEF ApisDeleted, Proceed, WorkerStates, Moves, GoesOn
  <2>2. CASE worker.cur # None
    <3>1. worker' = Decide(worker.mode, Verdict("Failed", "DomainDeleted"))
      BY <1>10, <2>2 DEF ApisDeleted, Proceed
    <3>2. worker.pc = "delete"
      BY <1>10 DEF ApisDeleted
    <3> QED
      BY <1>1, <1>8, <3>1, <3>2, DecideGoesOn DEF Moves
  <2> QED
    BY <2>1, <2>2
<1>11. ASSUME NEW c \in worker.todo, NextDomain(c)
       PROVE  Moves
  BY <1>1, <1>8, <1>11 DEF NextDomain, Proceed, WorkerStates, Moves, GoesOn
<1>12. ASSUME NEW r \in worker.listed, SweepHost(r.host)
       PROVE  Moves
  BY <1>1, <1>8, <1>12 DEF SweepHost, Proceed, WorkerStates, Moves, GoesOn
<1>13. CASE Collect \/ ListShared
  BY <1>13 DEF Moves
<1> QED
  BY <1>2, <1>3, <1>4, <1>5, <1>6, <1>7, <1>9, <1>10, <1>11, <1>12, <1>13
  DEF SyncStep

LEMMA AfterUpdateMoves ==
  ASSUME TypeInv, worker.pc = "put", worker' = AfterUpdate
  PROVE  worker' = Idle \/ GoesOn
BY DEF TypeInv, TypeOK, WorkerStates, AfterUpdate, GoesOn, Looping

LEMMA CallMoves ==
  ASSUME TypeInv, BranchInv, NEW answered \in BOOLEAN, CallStep(answered)
  PROVE  Moves
<1>1. worker \in WorkerStates
  BY DEF TypeInv, TypeOK
<1>2. CASE Put(answered)
  BY <1>2, AfterUpdateMoves DEF Put, Answer, Proceed, Return, Moves
<1>3. CASE Unfinalize(answered)
  <2>1. CASE store[worker.key] # None /\ answered
    <3>1. /\ worker'.pc = "remove" /\ worker'.mode = worker.mode
          /\ worker'.key = worker.key
      BY <1>1, <1>3, <2>1 DEF Unfinalize, Answer, Proceed, WorkerStates
    <3>2. worker.pc = "unfinalize" /\ Looping /\ Unfinalize(TRUE)
      BY <1>3, <2>1 DEF Unfinalize, BranchInv, BranchShape, Looping
    <3> QED
      BY <3>1, <3>2 DEF Moves, GoesOn
  <2>2. CASE ~(store[worker.key] # None /\ answered)
    BY <1>3, <2>2 DEF Unfinalize, Answer, Return, Moves
  <2> QED
    BY <2>1, <2>2
<1>4. CASE Remove(answered)
  BY <1>4 DEF Remove, Answer, Proceed, Return, Moves
<1>5. ASSUME NEW r \in worker.doomed, DeleteApi(r, answered)
      PROVE  Moves
  <2>1. CASE answered
    BY <1>1, <1>5, <2>1
    DEF DeleteApi, Answer, Proceed, WorkerStates, Moves, SameWork, SameGrant
  <2>2. CASE ~answered
    BY <1>5, <2>2 DEF DeleteApi, Answer, Return, Moves
  <2> QED
    BY <2>1, <2>2
<1> QED
  BY <1>2, <1>3, <1>4, <1>5 DEF CallStep

LEMMA NextMoves ==
  ASSUME TypeInv, BranchInv, [Next]_vars
  PROVE  Moves
<1>1. worker \in WorkerStates
  BY DEF TypeInv, TypeOK
<1>2. CASE User \/ Informer \/ Ingress \/ UNCHANGED vars
  BY <1>2, UserSame, InformerSame, IngressSame DEF Moves
<1>3. CASE SkipUpdate
  BY <1>3, AfterUpdateMoves DEF SkipUpdate, Proceed, Moves
<1>4. CASE ListApis \/ Sweep
  <2>1. Looping /\ worker.pc # "idle"
    BY <1>4 DEF ListApis, Sweep, BranchInv, BranchShape
  <2> QED
    BY <1>1, <1>4, <2>1
    DEF ListApis, Sweep, Proceed, WorkerStates, Moves, GoesOn
<1>5. ASSUME NEW answered \in BOOLEAN, CallStep(answered) PROVE Moves
  BY <1>5, CallMoves
<1>6. CASE CallFails \/ Restart
  BY <1>6 DEF CallFails, Restart, Return, Moves
<1>7. CASE \E k \in Keys : Start(k)
  BY <1>7 DEF Moves
<1> QED
  BY <1>2, <1>3, <1>4, <1>5, <1>6, <1>7, SyncMoves
  DEF Next, WorkerStep, Fault

-----------------------------------------------------------------------------
(* A domain in use keeps its finalizer. *)

(* What the informer still has to learn of a domain in use does not mark it *)
(* for deletion: a mark stays until the resource is gone, or New again.     *)
MarksKept ==
  \A k \in Keys : InUse(store[k]) =>
    /\ ~Marked(cache[k])
    /\ \A i \in 1..Len(watch[k]) : ~Marked(watch[k][i])

(* The domain whose finalizer a purge will take off is not in use. *)
PurgeTarget ==
  \/ worker.pc = "sync" /\ worker.cur # None /\ Marked(worker.cur.obj)
  \/ worker.mode = "purge"
  => ~InUse(store[worker.key])

HeldInv == MarksKept /\ PurgeTarget /\ FinalizerHeld

LEMMA HeldFacts ==
  FinalizerHeld <=> \A k \in Keys : InUse(store[k]) => store[k].finalizer
BY DEF FinalizerHeld, Holds, InUse, HasKongFinalizer

LEMMA UpdatedMarks ==
  ASSUME NEW d \in Domains, NEW v \in Verdicts, NEW mode
  PROVE  /\ Updated(d, v, mode).deleted = d.deleted
         /\ Updated(d, v, mode).discarded = d.discarded
         /\ Updated(d, v, mode).finalizer = (mode = "accept" \/ d.finalizer)
         /\ Updated(d, v, mode).reason = v.reason
BY DEF Updated, Domains, Verdicts

(* A write that leaves a domain in use: it was in use before, or the worker *)
(* has just accepted or granted it and is done.                             *)
LEMMA WriteInUse ==
  ASSUME CurrentInv, BranchInv, HeldInv, NEW k \in Keys,
         NEW o \in Domains \cup {None}, Writes(k, o), InUse(o)
  PROVE  /\ o.finalizer
         /\ ~Marked(cache[k])
         /\ \A i \in 1..Len(watch[k]) : ~Marked(watch[k][i])
         /\ InUse(store[k]) \/ worker' = Idle
<1>1. CASE Created(k, o)
  BY <1>1 DEF Created, InUse, IsMarkedForDeletion
<1>2. CASE Edited(k, o)
  <2>1. InUse(store[k]) /\ o.finalizer = store[k].finalizer
    BY <1>2, NoneAssumption DEF Edited, InUse, IsMarkedForDeletion
  <2> QED
    BY <2>1, HeldFacts DEF HeldInv, MarksKept
<1>3. CASE Removed(k, o)
  BY <1>3 DEF Removed, AfterDelete, InUse, IsMarkedForDeletion, Domains
<1>4. CASE Patched(k, o)
  <2>1. InUse(store[k])
    BY <1>4, AfterPatchFacts, NoneAssumption
    DEF Patched, AfterPatch, InUse, IsMarkedForDeletion, Domains
  <2>2. worker.mode = "purge" /\ k = worker.key
    BY <1>4 DEF Patched, BranchInv, BranchShape
  <2> QED
    BY <2>1, <2>2 DEF HeldInv, PurgeTarget
<1>5. CASE Stored(k, o)
  <2> DEFINE d == worker.cur.obj
  <2> DEFINE p == worker.verdict.phase
  <2>1. /\ d \in Domains /\ worker.verdict \in Verdicts
        /\ store[k] = d /\ cache[k] = d /\ watch[k] = <<>>
    BY <1>5, StoredFacts
  <2>2. o = Updated(d, worker.verdict, worker.mode)
    BY <1>5 DEF Stored
  <2>3. /\ o.phase = p /\ o.deleted = d.deleted /\ o.discarded = d.discarded
        /\ o.finalizer = (worker.mode = "accept" \/ d.finalizer)
    BY <2>1, <2>2, UpdatedFacts, UpdatedMarks
  <2>4. Decided(worker.mode, d, p) /\ worker' \in {AfterUpdate, Idle}
    BY <1>5 DEF Stored, BranchInv, VerdictShape
  <2> HIDE DEF d, p
  <2>5. p \in {"Pending", "OK"} /\ ~Marked(d)
    BY <2>3 DEF InUse, Marked, IsMarkedForDeletion
  <2>6. \A i \in 1..Len(watch[k]) : ~Marked(watch[k][i])
    BY <2>1
  <2>7. o.finalizer
    BY <2>1, <2>3, <2>4, <2>5, HeldFacts DEF Decided, HeldInv
  <2>8. worker' = Idle
    BY <2>4, <2>5 DEF Decided, AfterUpdate
  <2> QED
    BY <2>1, <2>5, <2>6, <2>7, <2>8
<1> QED
  BY <1>1, <1>2, <1>3, <1>4, <1>5 DEF Writes

LEMMA NextMarks ==
  ASSUME CurrentInv, BranchInv, HeldInv, [Next]_vars
  PROVE  MarksKept' /\ FinalizerHeld'
<1> USE DEF CurrentInv, TypeInv
<1>0. /\ \A k \in Keys : InUse(store[k]) => store[k].finalizer
      /\ MarksKept
  BY HeldFacts DEF HeldInv
<1>1. CASE UNCHANGED <<store, cache, watch>>
  BY <1>0, <1>1 DEF MarksKept, HeldInv, FinalizerHeld, Holds
<1>2. CASE Restart
  <2>1. MarksKept'
    <3> SUFFICES ASSUME NEW k \in Keys, InUse(store[k])
                 PROVE  /\ ~Marked(cache'[k])
                        /\ \A i \in 1..Len(watch'[k]) : ~Marked(watch'[k][i])
      BY <1>2, RestartFacts DEF MarksKept
    <3>1. /\ cache'[k] = None
          /\ Len(watch'[k]) = 1 /\ watch'[k][1] = store[k]
      BY <1>2, RestartFacts DEF InUse
    <3> QED
      BY <3>1 DEF Marked, InUse
  <2> QED
    BY <1>2, <2>1, RestartFacts DEF HeldInv, FinalizerHeld, Holds
<1>3. ASSUME NEW k \in Keys, Observe(k) PROVE MarksKept' /\ FinalizerHeld'
  <2>1. MarksKept'
    <3> SUFFICES ASSUME NEW j \in Keys, InUse(store[j])
                 PROVE  /\ ~Marked(cache'[j])
                        /\ \A i \in 1..Len(watch'[j]) : ~Marked(watch'[j][i])
      BY <1>3, ObserveFacts DEF MarksKept
    <3>1. \A i \in 1..Len(watch[j]) : ~Marked(watch[j][i])
      BY <1>0 DEF MarksKept
    <3>2. CASE j # k
      BY <1>0, <1>3, <3>2, ObserveFacts DEF MarksKept
    <3>3. CASE j = k
      <4>1. /\ Len(watch[k]) \in Nat /\ Len(watch[k]) > 0
            /\ cache'[k] = watch[k][1]
            /\ Len(watch'[k]) = Len(watch[k]) - 1
            /\ \A i \in 1..Len(watch'[k]) : watch'[k][i] = watch[k][i + 1]
        BY <1>3, ObserveFacts
      <4>2. /\ 1 \in 1..Len(watch[k])
            /\ \A i \in 1..Len(watch'[k]) : i + 1 \in 1..Len(watch[k])
        BY <4>1
      <4> QED
        BY <3>1, <3>3, <4>1, <4>2
    <3> QED
      BY <3>2, <3>3
  <2> QED
    BY <1>3, <2>1, ObserveFacts DEF HeldInv, FinalizerHeld, Holds
<1>4. ASSUME NEW k \in Keys, NEW o \in Domains \cup {None}, Writes(k, o)
      PROVE  MarksKept' /\ FinalizerHeld'
  <2>1. store' = [store EXCEPT ![k] = o] /\ UNCHANGED cache
        /\ store \in [Keys -> Domains \cup {None}]
    BY <1>4, PublishStore DEF Writes, TypeOK
  <2>2. FinalizerHeld'
    <3>1. \A j \in Keys : InUse(store'[j]) => store'[j].finalizer
      BY <1>0, <1>4, <2>1, WriteInUse
    <3> QED
      BY <3>1 DEF FinalizerHeld, Holds, InUse, HasKongFinalizer
  <2>3. MarksKept'
    <3> SUFFICES ASSUME NEW j \in Keys, InUse(store'[j])
                 PROVE  /\ ~Marked(cache[j])
                        /\ \A i \in 1..Len(watch'[j]) : ~Marked(watch'[j][i])
      BY <2>1 DEF MarksKept
    <3>1. CASE o = store[k]
      BY <1>0, <1>4, <2>1, <3>1 DEF Writes, Publish, MarksKept
    <3>2. CASE o # store[k] /\ j # k
      <4>1. watch'[j] = watch[j] /\ store'[j] = store[j]
        BY <1>4, <2>1, <3>2, PublishAppends DEF Writes
      <4> QED
        BY <1>0, <4>1 DEF MarksKept
    <3>3. CASE o # store[k] /\ j = k
      <4>1. /\ Len(watch[k]) \in Nat
            /\ Len(watch'[k]) = Len(watch[k]) + 1
            /\ watch'[k][Len(watch[k]) + 1] = o
            /\ \A i \in 1..Len(watch[k]) : watch'[k][i] = watch[k][i]
        BY <1>4, <3>3, PublishAppends DEF Writes
      <4>2. \A i \in 1..Len(watch'[k]) :
              i \in 1..Len(watch[k]) \/ i = Len(watch[k]) + 1
        BY <4>1
      <4>3. InUse(o)
        BY <2>1, <3>3
      <4>4. /\ ~Marked(cache[k])
            /\ \A i \in 1..Len(watch[k]) : ~Marked(watch[k][i])
        BY <1>4, <4>3, WriteInUse
      <4>5. ~Marked(o)
        BY <4>3 DEF InUse, Marked
      <4> QED
        BY <3>3, <4>1, <4>2, <4>4, <4>5
    <3> QED
      BY <3>1, <3>2, <3>3
  <2> QED
    BY <2>2, <2>3
<1> QED
  BY <1>1, <1>2, <1>3, <1>4, StoreSteps

LEMMA InUseBefore ==
  ASSUME CurrentInv, BranchInv, HeldInv, [Next]_vars, NEW k \in Keys,
         InUse(store'[k])
  PROVE  InUse(store[k]) \/ worker' = Idle
<1> USE DEF CurrentInv, TypeInv
<1>1. CASE UNCHANGED store
  BY <1>1
<1>2. ASSUME NEW j \in Keys, NEW o \in Domains \cup {None}, Writes(j, o)
      PROVE  InUse(store[k]) \/ worker' = Idle
  <2>1. store' = [store EXCEPT ![j] = o]
        /\ store \in [Keys -> Domains \cup {None}]
    BY <1>2, PublishStore DEF Writes, TypeOK
  <2> QED
    BY <1>2, <2>1, WriteInUse
<1> QED
  BY <1>1, <1>2, StoreSteps DEF Observe, Restart

LEMMA NextTarget ==
  ASSUME CurrentInv, BranchInv, HeldInv, [Next]_vars
  PROVE  PurgeTarget'
<1> USE DEF CurrentInv, TypeInv
<1>1. CASE worker' = Idle
  BY <1>1 DEF Idle, PurgeTarget
<1>2. worker \in WorkerStates /\ PurgeTarget /\ WorkerShape
  BY DEF TypeOK, HeldInv
<1>3. ASSUME NEW k \in Keys, ~InUse(store[k]), worker'.key = k, worker' # Idle
      PROVE  PurgeTarget'
  BY <1>3, InUseBefore DEF PurgeTarget
<1>4. ASSUME worker' # Idle, worker'.pc # "idle", worker'.key = worker.key,
             ~InUse(store[worker.key]), worker.pc # "idle"
      PROVE  PurgeTarget'
  BY <1>2, <1>3, <1>4 DEF WorkerShape, WorkerStates
<1>5. CASE SameWork
  <2>1. CASE ~(\/ worker.pc = "sync" /\ worker.cur # None /\ Marked(worker.cur.obj)
               \/ worker.mode = "purge")
    BY <1>5, <2>1 DEF PurgeTarget, SameWork, SameGrant
  <2>2. CASE \/ worker.pc = "sync" /\ worker.cur # None /\ Marked(worker.cur.obj)
             \/ worker.mode = "purge"
    <3>1. worker.pc # "idle" /\ ~InUse(store[worker.key])
      BY <1>2, <2>2 DEF PurgeTarget, BranchInv, BranchShape
    <3> QED
      BY <1>1, <1>4, <1>5, <3>1 DEF SameWork, SameGrant
  <2> QED
    BY <2>1, <2>2
<1>6. CASE GoesOn
  <2>1. CASE worker'.mode # "purge"
    BY <1>6, <2>1 DEF GoesOn, PurgeTarget
  <2>2. CASE worker'.mode = "purge"
    <3>1. worker.mode = "purge"
      BY <1>6, <2>2 DEF GoesOn, Looping
    <3> QED
      BY <1>1, <1>2, <1>4, <1>6, <3>1 DEF GoesOn, PurgeTarget
  <2> QED
    BY <2>1, <2>2
<1>7. CASE Collect
  <2>1. /\ worker.pc = "sync" /\ worker.cur # None
        /\ IsMarkedForDeletion(worker.cur.obj)
        /\ worker'.pc = "each" /\ worker'.key = worker.key
    BY <1>2, <1>7 DEF Collect, Proceed, WorkerStates
  <2>2. worker.cur.obj # None
    BY <1>2, <2>1, NoneAssumption DEF WorkerStates, Copies
  <2>3. ~InUse(store[worker.key])
    BY <1>2, <2>1, <2>2 DEF PurgeTarget, Marked
  <2> QED
    BY <1>1, <1>4, <2>1, <2>3
<1>8. CASE ListShared
  BY <1>2, <1>8 DEF ListShared, Proceed, WorkerStates, PurgeTarget
<1>9. ASSUME NEW k \in Keys, Start(k) PROVE PurgeTarget'
  <2>1. /\ worker'.mode = "claim" /\ worker'.key = k
        /\ worker'.cur # None => worker'.cur.obj = cache[k]
        /\ UNCHANGED store
    BY <1>9, StartFacts DEF Start
  <2>2. Marked(cache[k]) => ~InUse(store[k])
    BY DEF HeldInv, MarksKept
  <2> QED
    BY <2>1, <2>2 DEF PurgeTarget
<1> QED
  BY <1>1, <1>5, <1>6, <1>7, <1>8, <1>9, NextMoves DEF Moves

LEMMA NextHeld ==
  ASSUME CurrentInv, BranchInv, HeldInv, [Next]_vars
  PROVE  HeldInv'
BY NextMarks, NextTarget DEF HeldInv

-----------------------------------------------------------------------------
(* No work is lost: the events. *)

(* Every event the informer has not applied yet changes the object. *)
Changes == {p \in Versions \X Versions : p[1] # p[2]}

EventsDistinct == EventsIn(Changes)

LEMMA NextDistinct ==
  ASSUME CurrentInv, EventsDistinct, [Next]_vars
  PROVE  EventsDistinct'
<1>1. \A d \in Domains : <<None, d>> \in Changes
  BY NoneAssumption DEF Changes, Versions
<1>2. ASSUME NEW k \in Keys, NEW o \in Domains \cup {None}, o # store[k]
      PROVE  <<store[k], o>> \in Changes
  BY <1>2 DEF Changes, Versions, CurrentInv, TypeInv, TypeOK
<1> QED
  BY <1>1, <1>2, NextEvents DEF EventsDistinct

(* A notification that will put k in the queue. *)
Noted(k) == \E i \in 1..Len(notes) : notes[i].key = k /\ Enqueues(notes[i])

(* The worker will be given k, and will then know of every write so far. *)
Awaited(k) == k \in queue \/ k \in Lagging \/ Noted(k)

LEMMA AppendNoted ==
  ASSUME TypeOK, NEW n \in Notes, notes' = Append(notes, n)
  PROVE  /\ \A k \in Keys : Noted(k) => Noted(k)'
         /\ Enqueues(n) => Noted(n.key)'
<1>1. /\ notes \in Seq(Notes) /\ Len(notes) \in Nat
      /\ Len(notes') = Len(notes) + 1
      /\ notes'[Len(notes) + 1] = n
      /\ \A i \in 1..Len(notes) : notes'[i] = notes[i]
  BY AppendFacts DEF TypeOK
<1>2. Len(notes) + 1 \in 1..Len(notes')
  BY <1>1
<1>3. \A i \in 1..Len(notes) : i \in 1..Len(notes')
  BY <1>1
<1>4. Noted(n.key)' <=> \E i \in 1..Len(notes') : notes'[i].key = n.key
                                                  /\ Enqueues(notes'[i])
  BY DEF Noted, Enqueues
<1>5. \A k \in Keys : Noted(k)' <=> \E i \in 1..Len(notes') :
                                       notes'[i].key = k /\ Enqueues(notes'[i])
  BY DEF Noted, Enqueues
<1>6. ASSUME NEW k \in Keys, Noted(k) PROVE Noted(k)'
  BY <1>1, <1>3, <1>5, <1>6 DEF Noted
<1> QED
  BY <1>1, <1>2, <1>4, <1>6

LEMMA TailNoted ==
  ASSUME TypeOK, notes # <<>>, notes' = Tail(notes), NEW k \in Keys, Noted(k)
  PROVE  Noted(k)' \/ (Head(notes).key = k /\ Enqueues(Head(notes)))
<1>1. /\ notes \in Seq(Notes) /\ Len(notes) \in Nat /\ Len(notes) > 0
      /\ Head(notes) = notes[1]
      /\ Len(notes') = Len(notes) - 1
      /\ \A i \in 1..Len(notes') : notes'[i] = notes[i + 1]
  BY TailFacts DEF TypeOK
<1>2. PICK i \in 1..Len(notes) : notes[i].key = k /\ Enqueues(notes[i])
  BY DEF Noted
<1>3. CASE i = 1
  BY <1>1, <1>2, <1>3
<1>4. CASE i # 1
  <2>1. i - 1 \in 1..Len(notes') /\ notes'[i - 1] = notes[i]
    BY <1>1, <1>4
  <2> QED
    BY <1>2, <2>1 DEF Noted, Enqueues
<1> QED
  BY <1>3, <1>4

LEMMA LaggingStays ==
  ASSUME CurrentInv, [Next]_vars, ~Restart, NEW k \in Keys, k \in Lagging
  PROVE  k \in Lagging' \/ Observe(k)
<1> USE DEF CurrentInv, TypeInv
<1>1. CASE UNCHANGED <<store, cache, watch>>
  BY <1>1 DEF Lagging
<1>2. ASSUME NEW j \in Keys, Observe(j), j # k PROVE k \in Lagging'
  BY <1>2, ObserveFacts DEF Lagging
<1>3. ASSUME NEW j \in Keys, NEW o \in Domains \cup {None}, Writes(j, o)
      PROVE  k \in Lagging'
  <2>1. CASE o = store[j]
    BY <1>3, <2>1 DEF Writes, Publish, Lagging
  <2>2. CASE o # store[j]
    BY <1>3, <2>2, PublishAppends DEF Writes, Lagging
  <2> QED
    BY <2>1, <2>2
<1> QED
  BY <1>1, <1>2, <1>3, StoreSteps

(* A write is an event the informer has to learn of. *)
LEMMA ChangedLags ==
  ASSUME CurrentInv, [Next]_vars, NEW k \in Keys, store'[k] # store[k]
  PROVE  k \in Lagging'
<1> USE DEF CurrentInv, TypeInv
<1>1. ASSUME NEW j \in Keys, NEW o \in Domains \cup {None}, Writes(j, o)
      PROVE  k \in Lagging'
  <2>1. o # store[j]
    BY <1>1 DEF Writes, Publish
  <2>2. store' = [store EXCEPT ![j] = o] /\ watch'[j] # <<>>
    BY <1>1, <2>1, PublishAppends DEF Writes
  <2>3. j = k
    BY <2>2 DEF TypeOK
  <2> QED
    BY <2>2, <2>3 DEF Lagging
<1> QED
  BY <1>1, StoreSteps DEF Observe, Restart

(* The queue loses a key only to the worker. *)
LEMMA QueueStays ==
  ASSUME [Next]_vars, ~Restart, NEW k \in Keys, k \in queue, ~Start(k)
  PROVE  k \in queue'
<1>1. CASE User \/ Ingress \/ UNCHANGED vars
  BY <1>1 DEF User, Create, Edit, AutoClaim, Delete, Ingress, IngressCheck,
              IngressRoute, vars
<1>2. CASE Informer
  BY <1>2 DEF Informer, Observe, Resync, HandleEvent
<1>3. ASSUME NEW j \in Keys, Start(j) PROVE k \in queue'
  BY <1>3 DEF Start
<1>4. ASSUME NEW answered \in BOOLEAN, CallStep(answered) PROVE k \in queue'
  BY <1>4 DEF CallStep, Put, Unfinalize, Remove, DeleteApi, Answer, Proceed, Return
<1>5. CASE CallFails
  BY <1>5 DEF CallFails, Return
<1> QED
  BY <1>1, <1>2, <1>3, <1>4, <1>5, SyncQueue DEF Next, WorkerStep, Fault

(* A notification is only dropped when its handler has run. *)
LEMMA NotedStays ==
  ASSUME TypeInv, [Next]_vars, ~Restart, NEW k \in Keys, Noted(k)
  PROVE  Noted(k)' \/ k \in queue'
<1> USE DEF TypeInv
<1>1. CASE UNCHANGED notes
  BY <1>1 DEF Noted, Enqueues
<1>2. CASE User \/ Ingress \/ UNCHANGED vars
  BY <1>1, <1>2 DEF User, Create, Edit, AutoClaim, Delete, Ingress,
                    IngressCheck, IngressRoute, vars
<1>3. ASSUME NEW j \in Keys, Observe(j) \/ Resync(j) PROVE Noted(k)'
  <2>1. PICK n \in Notes : notes' = Append(notes, n)
    <3>1. CASE Observe(j)
      <4>1. Head(watch[j]) \in Domains \cup {None}
        BY <3>1, TailFacts DEF Observe, Lagging, TypeOK
      <4>2. [key |-> j, old |-> cache[j], new |-> Head(watch[j])] \in Notes
        BY <4>1 DEF Notes, TypeOK
      <4> QED
        BY <3>1, <4>2 DEF Observe
    <3>2. CASE Resync(j)
      <4>1. [key |-> j, old |-> cache[j], new |-> cache[j]] \in Notes
        BY DEF Notes, TypeOK
      <4> QED
        BY <3>2, <4>1 DEF Resync
    <3> QED
      BY <1>3, <3>1, <3>2
  <2> QED
    BY <2>1, AppendNoted
<1>4. ASSUME NEW posted \in BOOLEAN, HandleEvent(posted)
      PROVE  Noted(k)' \/ k \in queue'
  <2>1. /\ notes # <<>> /\ notes' = Tail(notes)
        /\ Enqueues(Head(notes)) => Head(notes).key \in queue'
    BY <1>4 DEF HandleEvent
  <2> QED
    BY <2>1, TailNoted
<1>5. CASE \/ \E j \in Keys : Start(j)
           \/ CallFails \/ \E answered \in BOOLEAN : CallStep(answered)
  BY <1>1, <1>5
  DEF Start, CallFails, CallStep, Put, Unfinalize, Remove, DeleteApi
<1> QED
  BY <1>1, <1>2, <1>3, <1>4, <1>5, SyncQueue
  DEF Next, Informer, WorkerStep, Fault

(* A key stays on its way until the worker takes it. *)
LEMMA AwaitedStays ==
  ASSUME CurrentInv, EventsDistinct, [Next]_vars, ~Restart,
         NEW k \in Keys, ~Start(k), Awaited(k)
  PROVE  Awaited(k)'
<1> USE DEF CurrentInv, TypeInv
<1>1. CASE k \in queue
  BY <1>1, QueueStays DEF Awaited
<1>2. CASE Noted(k)
  BY <1>2, NotedStays DEF Awaited
<1>3. CASE Observe(k)
  <2> DEFINE n == [key |-> k, old |-> cache[k], new |-> Head(watch[k])]
  <2>1. /\ watch[k] \in Seq(Domains \cup {None}) /\ watch[k] # <<>>
        /\ cache[k] \in Domains \cup {None}
    BY <1>3 DEF Observe, Lagging, TypeOK
  <2>2. /\ Head(watch[k]) \in Domains \cup {None} /\ Head(watch[k]) = watch[k][1]
        /\ 1 \in 1..Len(watch[k])
    BY <2>1, TailFacts
  <2>3. n \in Notes /\ n.key = k
    BY <2>1, <2>2 DEF Notes
  <2>4. cache[k] # watch[k][1]
    BY <2>2 DEF EventsDistinct, EventsIn, Before, Changes
  <2>5. Enqueues(n)
    BY <2>2, <2>4 DEF Enqueues
  <2>6. notes' = Append(notes, n)
    BY <1>3 DEF Observe
  <2> HIDE DEF n
  <2> QED
    BY <2>3, <2>5, <2>6, AppendNoted DEF Awaited
<1>4. CASE k \in Lagging /\ ~Observe(k)
  BY <1>4, LaggingStays DEF Awaited
<1> QED
  BY <1>1, <1>2, <1>3, <1>4 DEF Awaited

-----------------------------------------------------------------------------
(* No work is lost: the worker. *)

(* What the store holds for the worker's key is what the worker knows. *)
Stands == store[worker.key] = IF worker.cur = None THEN None ELSE worker.cur.obj

(* The worker acts on the latest version of its domain, or will be given it *)
(* again; it wipes only for a key that is gone; and what it removes has no  *)
(* finalizer any more.                                                      *)
Fresh ==
  /\ worker.pc # "idle" /\ ~Looping => Awaited(worker.key) \/ Stands
  /\ worker.mode = "wipe" => Awaited(worker.key) \/ store[worker.key] = None
  /\ worker.pc = "remove" =>
       store[worker.key] = None \/ ~store[worker.key].finalizer

(* A valid domain that waits for the controller. *)
Needs(o) ==
  /\ o # None /\ IsValidDomain(o)
  /\ o.phase \in {"New", "Pending"} \/ IsMarkedForDeletion(o)

WorkInv ==
  /\ CurrentInv /\ BranchInv /\ EventsDistinct /\ Fresh
  /\ \A k \in Keys : Needs(store[k]) => Awaited(k) \/ worker.key = k

LEMMA WorkFacts ==
  (\A k \in Keys : Needs(store[k]) => Awaited(k) \/ worker.key = k)
    => NoLostWork
BY DEF NoLostWork, Needs, Holds, Awaited, Noted, Scheduled

(* The key of a call in progress. *)
LEMMA BusyKey ==
  ASSUME TypeInv, worker.pc # "idle"
  PROVE  worker.key \in Keys
BY DEF TypeInv, TypeOK, WorkerShape, WorkerStates

(* What the worker leaves behind when it returns to its queue. *)
Served(k) == Awaited(k)' \/ ~Needs(store'[k])

LEMMA SyncServed ==
  ASSUME WorkInv, SyncStep, worker' = Idle,
         NEW k \in Keys, k = worker.key, ~Awaited(k)
  PROVE  ~Needs(store[k])
<1> USE DEF WorkInv, CurrentInv, TypeInv
<1>1. worker \in WorkerStates /\ WorkerShape /\ worker'.pc = "idle"
  BY IdleFacts DEF TypeOK
<1>2. /\ worker.pc # "idle" /\ ~Looping => Stands
      /\ worker.mode = "wipe" => store[k] = None
  BY DEF Fresh
<1>3. CASE Vanished
  BY <1>2, <1>3 DEF Vanished, Stands, Needs, BranchInv, BranchShape, Looping
<1>4. CASE KeepPrimary \/ Wait
  <2>1. PICK p \in {"OK", "Failed"} : InPhase(p)
    BY <1>4 DEF KeepPrimary, Wait
  <2>2. worker.pc # "idle" /\ ~Looping /\ worker.cur # None
    BY <2>1 DEF InPhase, BranchInv, BranchShape, Looping
  <2>3. /\ store[k] = worker.cur.obj /\ store[k] # None
        /\ ~Marked(store[k]) /\ store[k].phase = p
    BY <1>2, <2>1, <2>2, InPhaseFacts DEF Stands
  <2> QED
    BY <2>3 DEF Needs, Marked
<1>5. CASE SweepDone
  BY <1>2, <1>5 DEF SweepDone, BranchInv, BranchShape, Needs
<1>6. CASE SearchHit
  <2>1. worker.pc = "search" /\ worker.cur # None /\ worker.mode # "purge"
    BY <1>1, <1>6 DEF SearchHit, WorkerShape, BranchInv, BranchShape
  <2>2. CASE worker.mode = "wipe"
    BY <1>2, <2>2 DEF Needs
  <2>3. CASE worker.mode # "wipe"
    <3>1. InUse(worker.cur.obj) /\ store[k] = worker.cur.obj
      BY <1>2, <2>1, <2>3 DEF BranchInv, BranchShape, Looping, Stands
    <3>2. CASE worker.cur.obj.phase = "Pending"
      <4>1. worker' = [worker EXCEPT !.pc = "put", !.mode = "claim",
                             !.verdict = Verdict("OK", ""), !.left = <<>>]
        BY <1>6, <2>3, <3>2 DEF SearchHit, Proceed, Decide
      <4> QED
        BY <1>1, <4>1 DEF WorkerStates
    <3>3. CASE worker.cur.obj.phase # "Pending"
      BY <3>1, <3>3 DEF InUse, Needs
    <3> QED
      BY <3>2, <3>3
  <2> QED
    BY <2>2, <2>3
<1>7. CASE Reject \/ AcceptNew \/ ClaimPrimary \/ Retry
  <2>1. \E mode, v : worker' = Decide(mode, v)
    BY <1>7 DEF Reject, AcceptNew, ClaimPrimary, Retry, Proceed
  <2> QED
    BY <1>1, <2>1 DEF Decide, WorkerStates
<1>8. CASE SearchShared \/ SearchMiss \/ Collect \/ ListShared
  BY <1>1, <1>8
  DEF SearchShared, SearchMiss, Collect, ListShared, Proceed, WorkerStates
<1>9. CASE SearchOver \/ ApisDeleted
  BY <1>1, <1>9 DEF SearchOver, ApisDeleted, Proceed, Decide, WorkerStates
<1>10. CASE LoopDone
  BY <1>1, <1>10 DEF LoopDone, Proceed, WorkerStates
<1>11. ASSUME NEW c \in worker.todo, NextDomain(c) PROVE ~Needs(store[k])
  BY <1>1, <1>11 DEF NextDomain, Proceed, WorkerStates
<1>12. ASSUME NEW r \in worker.listed, SweepHost(r.host) PROVE ~Needs(store[k])
  BY <1>1, <1>12 DEF SweepHost, Proceed, WorkerStates
<1> QED
  BY <1>3, <1>4, <1>5, <1>6, <1>7, <1>8, <1>9, <1>10, <1>11, <1>12
  DEF SyncStep

(* An update that is not made, refused, or fails without effect on the      *)
(* branches that swallow the error: the domain needed nothing more.         *)
LEMMA PutUnneeded ==
  ASSUME WorkInv, worker.pc = "put", ~Looping, NEW k \in Keys, k = worker.key,
         ~Awaited(k),
         NoUpdate \/ worker.mode \in {"invalid", "retry"}
  PROVE  ~Needs(store[k])
<1> USE DEF WorkInv, CurrentInv, TypeInv
<1>1. worker.cur # None /\ worker.cur \in Copies /\ worker.verdict \in Verdicts
  BY DEF TypeOK, WorkerShape, WorkerStates
<1>2. store[k] = worker.cur.obj /\ worker.cur.obj \in Domains
  BY <1>1 DEF Fresh, Stands, Copies
<1>3. Decided(worker.mode, worker.cur.obj, worker.verdict.phase)
  BY DEF BranchInv, VerdictShape
<1>4. NoUpdate => /\ worker.mode # "accept"
                  /\ worker.cur.obj.phase = worker.verdict.phase
  BY DEF NoUpdate, SameStatus
<1>5. worker.mode \notin {"purge", "wipe"}
  BY DEF Looping
<1> QED
  BY <1>2, <1>3, <1>4, <1>5, NoneAssumption
  DEF Decided, Needs, InUse, Marked, IsMarkedForDeletion

(* An update that is made changes the domain. *)
LEMMA PutChanges ==
  ASSUME CurrentInv, BranchInv, NEW k \in Keys, NEW o, Stored(k, o)
  PROVE  o # store[k]
<1> DEFINE d == worker.cur.obj
<1>1. d \in Domains /\ worker.verdict \in Verdicts /\ store[k] = d
  BY StoredFacts
<1>2. /\ o = Updated(d, worker.verdict, worker.mode) /\ ~NoUpdate
      /\ Decided(worker.mode, d, worker.verdict.phase)
  BY DEF Stored, BranchInv, VerdictShape
<1>3. o.phase = worker.verdict.phase /\ o.reason = worker.verdict.reason
  BY <1>1, <1>2, UpdatedFacts, UpdatedMarks
<1>4. CASE worker.mode = "accept"
  BY <1>1, <1>2, <1>3, <1>4 DEF Decided
<1>5. CASE worker.mode # "accept"
  BY <1>1, <1>2, <1>3, <1>5 DEF NoUpdate, SameStatus
<1> QED
  BY <1>4, <1>5

LEMMA PutServed ==
  ASSUME WorkInv, NEW answered \in BOOLEAN, Put(answered), worker' = Idle,
         NEW k \in Keys, k = worker.key, ~Awaited(k), k \notin queue',
         store'[k] = store[k]
  PROVE  ~Needs(store[k])
<1> USE DEF WorkInv, CurrentInv, TypeInv
<1>1. /\ worker.pc = "put" /\ worker \in WorkerStates /\ worker'.pc = "idle"
      /\ worker.cur \in Copies
  BY IdleFacts DEF Put, TypeOK, WorkerShape, WorkerStates
<1>2. ASSUME Return(TRUE) PROVE ~Looping /\ worker.mode \in {"invalid", "retry"}
  BY <1>2 DEF Return, Swallowed, Looping
<1>3. CASE Conflicts(worker.cur.key)
  BY <1>1, <1>2, <1>3, PutUnneeded DEF Put
<1>4. CASE ~Conflicts(worker.cur.key)
  <2> DEFINE o == Updated(worker.cur.obj, worker.verdict, worker.mode)
  <2>1. /\ Publish(worker.cur.key, o)
        /\ Answer(answered, AfterUpdate)
        /\ ~NoUpdate
    BY <1>4 DEF Put
  <2>2. ~Looping
    <3>1. CASE answered
      BY <1>1, <2>1, <3>1
      DEF Answer, Proceed, AfterUpdate, WorkerStates, Looping
    <3>2. CASE ~answered
      BY <1>2, <2>1, <3>2 DEF Answer
    <3> QED
      BY <3>1, <3>2
  <2>3. worker.cur.key = k
    BY <1>1, <2>2, AbsentAssumption DEF BranchInv, BranchShape
  <2>4. Stored(k, o)
    BY <1>1, <1>4, <2>1, <2>3 DEF Stored, Answer, Proceed, Return
  <2>5. store' = [store EXCEPT ![k] = o] /\ store \in [Keys -> Domains \cup {None}]
    BY <2>1, <2>3, PublishStore DEF TypeOK
  <2> HIDE DEF o
  <2> QED
    BY <2>4, <2>5, PutChanges
<1> QED
  BY <1>3, <1>4

LEMMA CallServed ==
  ASSUME WorkInv, NEW answered \in BOOLEAN, CallStep(answered), worker' = Idle,
         NEW k \in Keys, k = worker.key, ~Awaited(k), k \notin queue',
         store'[k] = store[k]
  PROVE  ~Needs(store[k])
<1> USE DEF WorkInv, CurrentInv, TypeInv
<1>1. worker \in WorkerStates /\ worker'.pc = "idle"
  BY IdleFacts DEF TypeOK
<1>2. ASSUME Return(TRUE) PROVE worker.pc = "put"
  BY <1>2 DEF Return, Swallowed
<1>3. CASE Put(answered)
  BY <1>3, PutServed
<1>4. CASE Unfinalize(answered)
  BY <1>1, <1>2, <1>4 DEF Unfinalize, Answer, Proceed, WorkerStates
<1>5. CASE Remove(answered)
  <2>1. CASE store[k] = None
    BY <2>1 DEF Needs
  <2>2. CASE store[k] # None
    <3>1. Publish(k, AfterDelete(store[k])) /\ worker.pc = "remove"
      BY <1>5, <2>2 DEF Remove
    <3>2. ~store[k].finalizer
      BY <2>2, <3>1 DEF Fresh
    <3>3. store'[k] = None
      BY <3>1, <3>2, PublishStore DEF AfterDelete, TypeOK
    <3> QED
      BY <3>3 DEF Needs
  <2> QED
    BY <2>1, <2>2
<1>6. ASSUME NEW r \in worker.doomed, DeleteApi(r, answered)
      PROVE  ~Needs(store[k])
  BY <1>1, <1>2, <1>6 DEF DeleteApi, Answer, Proceed, WorkerStates
<1> QED
  BY <1>3, <1>4, <1>5, <1>6 DEF CallStep

(* The worker leaves nothing undone behind. *)
LEMMA NextServed ==
  ASSUME WorkInv, [Next]_vars, ~Restart, worker.pc # "idle", worker' = Idle,
         NEW k \in Keys, k = worker.key
  PROVE  Served(k)
<1> USE DEF WorkInv, CurrentInv, TypeInv
<1> SUFFICES ASSUME ~Awaited(k)' PROVE ~Needs(store'[k])
  BY DEF Served
<1>1. worker \in WorkerStates /\ worker'.pc = "idle"
  BY IdleFacts DEF TypeOK
<1>2. \A j \in Keys : ~Start(j)
  BY DEF Start
<1>3. ~Awaited(k)
  BY <1>2, AwaitedStays
<1>4. store'[k] = store[k] /\ k \notin queue'
  BY ChangedLags DEF Awaited
<1>5. SUFFICES ~Needs(store[k])
  BY <1>4
<1>6. CASE User \/ Informer \/ Ingress \/ UNCHANGED vars
  BY <1>1, <1>6, UserSame, InformerSame, IngressSame DEF SameWork, SameGrant
<1>7. CASE SyncStep
  BY <1>3, <1>7, SyncServed
<1>8. CASE SkipUpdate
  <2>1. worker.pc = "put" /\ NoUpdate /\ ~Looping
    BY <1>1, <1>8
    DEF SkipUpdate, Proceed, AfterUpdate, WorkerStates, Looping
  <2> QED
    BY <1>3, <2>1, PutUnneeded
<1>9. CASE ListApis \/ Sweep
  BY <1>1, <1>9 DEF ListApis, Sweep, Proceed, WorkerStates
<1>10. ASSUME NEW answered \in BOOLEAN, CallStep(answered) PROVE ~Needs(store[k])
  BY <1>3, <1>4, <1>10, CallServed
<1>11. CASE CallFails
  <2>1. worker.pc = "put" /\ worker.mode \in {"invalid", "retry"}
    BY <1>4, <1>11 DEF CallFails, Return, Swallowed
  <2>2. ~Looping
    BY <2>1 DEF Looping
  <2> QED
    BY <1>3, <2>1, <2>2, PutUnneeded
<1> QED
  BY <1>2, <1>6, <1>7, <1>8, <1>9, <1>10, <1>11 DEF Next, WorkerStep, Fault

(* What is removed keeps no finalizer until it is removed. *)
LEMMA WriteUnheld ==
  ASSUME CurrentInv, NEW k \in Keys, NEW o \in Domains \cup {None},
         Writes(k, o), worker.pc = "remove",
         store[k] = None \/ ~store[k].finalizer
  PROVE  o = None \/ ~o.finalizer
<1>1. CASE Created(k, o)
  BY <1>1 DEF Created
<1>2. CASE Edited(k, o)
  BY <1>2, NoneAssumption DEF Edited
<1>3. CASE Removed(k, o)
  BY <1>3, NoneAssumption DEF Removed, AfterDelete
<1>4. CASE Patched(k, o) \/ Stored(k, o)
  BY <1>4 DEF Patched, Stored
<1> QED
  BY <1>1, <1>2, <1>3, <1>4 DEF Writes

LEMMA UnheldStays ==
  ASSUME CurrentInv, [Next]_vars, NEW k \in Keys, worker.pc = "remove",
         store[k] = None \/ ~store[k].finalizer
  PROVE  store'[k] = None \/ ~store'[k].finalizer
<1> USE DEF CurrentInv, TypeInv
<1>1. ASSUME NEW j \in Keys, NEW o \in Domains \cup {None}, Writes(j, o)
      PROVE  store'[k] = None \/ ~store'[k].finalizer
  <2>1. store' = [store EXCEPT ![j] = o] /\ store \in [Keys -> Domains \cup {None}]
    BY <1>1, PublishStore DEF Writes, TypeOK
  <2>2. CASE j = k
    BY <1>1, <2>1, <2>2, WriteUnheld
  <2>3. CASE j # k
    BY <2>1, <2>3
  <2> QED
    BY <2>2, <2>3
<1> QED
  BY <1>1, StoreSteps DEF Observe, Restart

LEMMA NextFresh ==
  ASSUME WorkInv, [Next]_vars
  PROVE  Fresh'
<1> USE DEF WorkInv, CurrentInv, TypeInv
<1>1. CASE worker' = Idle
  BY <1>1 DEF Idle, Fresh, Looping
<1>2. worker \in WorkerStates
  BY DEF TypeOK
<1>3. ASSUME NEW k \in Keys, k = worker.key, worker.pc # "idle", worker' # Idle,
             Awaited(k) \/ store'[k] # store[k]
      PROVE  Awaited(k)'
  <2>1. ~Restart /\ ~Start(k)
    BY <1>3 DEF Restart, Start
  <2> QED
    BY <1>3, <2>1, AwaitedStays, ChangedLags DEF Awaited
<1>4. CASE SameWork /\ worker' # Idle
  <2>1. CASE worker.pc = "idle"
    BY <1>4, <2>1 DEF SameWork, SameGrant, BranchInv, BranchShape, Fresh, Looping
  <2>2. CASE worker.pc # "idle"
    <3>1. PICK k \in Keys : k = worker.key
      BY <2>2, BusyKey
    <3>2. /\ worker'.pc = worker.pc /\ worker'.mode = worker.mode
          /\ worker'.key = k /\ worker'.cur = worker.cur
      BY <1>4, <3>1 DEF SameWork, SameGrant
    <3>3. ~Looping => Awaited(k) \/ Stands
      BY <2>2, <3>1 DEF Fresh
    <3>4. worker.mode = "wipe" => Awaited(k) \/ store[k] = None
      BY <3>1 DEF Fresh
    <3>5. Awaited(k)' \/ (~Awaited(k) /\ store'[k] = store[k])
      BY <1>3, <1>4, <2>2, <3>1
    <3>6. worker.pc = "remove" => store'[k] = None \/ ~store'[k].finalizer
      BY <3>1, UnheldStays DEF Fresh
    <3>7. Awaited(worker.key)' <=> Awaited(k)'
      BY <3>2
    <3>8. ~Looping => Awaited(worker.key)' \/ Stands'
      BY <3>1, <3>2, <3>3, <3>5, <3>7 DEF Stands
    <3>9. worker.mode = "wipe" => Awaited(worker.key)' \/ store'[k] = None
      BY <3>4, <3>5, <3>7
    <3> QED
      BY <3>2, <3>6, <3>8, <3>9 DEF Fresh, Looping
  <2> QED
    BY <2>1, <2>2
<1>5. CASE GoesOn /\ worker' # Idle
  <2>1. PICK k \in Keys : k = worker.key
    BY <1>5, BusyKey DEF GoesOn
  <2>2. worker.pc # "idle" /\ worker'.key = k
    BY <1>5, <2>1 DEF GoesOn
  <2>3. Awaited(k)' \/ (~Awaited(k) /\ store'[k] = store[k])
    BY <1>3, <1>5, <2>1, <2>2
  <2>4. Awaited(worker.key)' <=> Awaited(k)'
    BY <2>2
  <2>5. worker'.pc = "remove" => store'[k] = None \/ ~store'[k].finalizer
    <3> SUFFICES ASSUME Unfinalize(TRUE), worker'.pc = "remove"
                 PROVE  store'[k] = None \/ ~store'[k].finalizer
      BY <1>5 DEF GoesOn
    <3>1. store[k] # None
      BY <2>1, IdleFacts DEF Unfinalize, Return
    <3>2. Publish(k, AfterPatch(store[k])) /\ store[k] \in Domains
      BY <2>1, <3>1 DEF Unfinalize, TypeOK
    <3>3. store'[k] = AfterPatch(store[k])
      BY <3>2, PublishStore DEF TypeOK
    <3> QED
      BY <3>2, <3>3 DEF AfterPatch, Domains
  <2>6. CASE ~Looping
    <3>1. ~Looping' /\ worker'.cur = worker.cur /\ store' = store
      BY <1>5, <2>6 DEF GoesOn
    <3>2. Awaited(k) \/ Stands
      BY <2>1, <2>2, <2>6 DEF Fresh
    <3>3. Awaited(worker.key)' \/ Stands'
      BY <2>1, <2>2, <2>3, <2>4, <3>1, <3>2 DEF Stands
    <3> QED
      BY <2>2, <2>5, <3>1, <3>3 DEF Fresh, Looping
  <2>7. CASE Looping
    <3>1. worker'.mode = worker.mode
      BY <1>5, <2>7 DEF GoesOn, Looping
    <3>2. worker.mode = "wipe" => Awaited(k) \/ store[k] = None
      BY <2>1 DEF Fresh
    <3>3. worker.mode = "wipe" => Awaited(worker.key)' \/ store'[k] = None
      BY <2>3, <2>4, <3>2
    <3> QED
      BY <2>2, <2>5, <2>7, <3>1, <3>3 DEF Fresh, Looping
  <2> QED
    BY <2>6, <2>7
<1>6. CASE Collect
  <2>1. worker'.pc = "each" /\ worker'.mode = "purge"
    BY <1>2, <1>6 DEF Collect, Proceed, WorkerStates
  <2> QED
    BY <2>1 DEF Fresh, Looping
<1>7. CASE ListShared
  <2>1. /\ worker'.pc = "each" /\ worker'.mode = "wipe" /\ worker'.key = worker.key
        /\ worker.pc = "sync" /\ worker.cur = None /\ store' = store
    BY <1>2, <1>7 DEF ListShared, Proceed, OtherUnchanged, WorkerStates
  <2>2. PICK k \in Keys : k = worker.key
    BY <2>1, BusyKey
  <2>3. Awaited(k) \/ store[k] = None
    BY <2>1, <2>2 DEF Fresh, Stands, BranchInv, BranchShape, Looping
  <2>4. Awaited(k)' \/ store'[k] = None
    BY <1>3, <2>1, <2>2, <2>3, IdleFacts
  <2>5. Awaited(worker.key)' \/ store'[worker'.key] = None
    BY <2>1, <2>2, <2>4
  <2> QED
    BY <2>1, <2>5 DEF Fresh, Looping
<1>8. ASSUME NEW k \in Keys, Start(k) PROVE Fresh'
  <2>1. /\ worker'.pc = "sync" /\ worker'.mode = "claim" /\ worker'.key = k
        /\ worker'.cur = IF cache[k] = None THEN None
                         ELSE [key |-> k, obj |-> cache[k]]
        /\ UNCHANGED <<store, watch>>
    BY <1>8, StartFacts DEF Start
  <2>2. CASE k \in Lagging
    BY <2>1, <2>2 DEF Fresh, Looping, Awaited, Lagging
  <2>3. CASE k \notin Lagging
    <3>1. store'[k] = cache[k]
      BY <2>1, <2>3 DEF Lagging, CacheTrails
    <3>2. store'[k] = IF worker'.cur = None THEN None ELSE worker'.cur.obj
      <4>1. CASE cache[k] = None
        BY <2>1, <3>1, <4>1
      <4>2. CASE cache[k] # None
        <5>1. [key |-> k, obj |-> cache[k]] \in Copies
          BY <4>2 DEF Copies, TypeOK
        <5> QED
          BY <2>1, <3>1, <4>2, <5>1, AbsentAssumption
      <4> QED
        BY <4>1, <4>2
    <3> QED
      BY <2>1, <3>2 DEF Fresh, Looping, Stands
  <2> QED
    BY <2>2, <2>3
<1> QED
  BY <1>1, <1>4, <1>5, <1>6, <1>7, <1>8, NextMoves DEF Moves

LEMMA NextNeeds ==
  ASSUME WorkInv, [Next]_vars, NEW k \in Keys, Needs(store'[k])
  PROVE  Awaited(k)' \/ worker'.key = k
<1> USE DEF WorkInv, CurrentInv, TypeInv
<1>1. CASE Restart
  <2>1. store'[k] # None /\ UNCHANGED store
    BY <1>1 DEF Needs, Restart
  <2>2. watch'[k] # <<>>
    BY <1>1, <2>1, RestartFacts
  <2> QED
    BY <2>2 DEF Awaited, Lagging
<1>2. CASE Start(k)
  BY <1>2, StartFacts
<1>3. CASE ~Restart /\ ~Start(k)
  <2>1. CASE store'[k] # store[k]
    BY <2>1, ChangedLags DEF Awaited
  <2>2. CASE Awaited(k)
    BY <1>3, <2>2, AwaitedStays
  <2>3. CASE store'[k] = store[k] /\ worker.key = k
    <3>0. worker \in WorkerStates
      BY DEF TypeOK
    <3>1. worker.pc # "idle"
      BY <2>3, AbsentAssumption DEF BranchInv, BranchShape
    <3>2. CASE worker' = Idle
      BY <1>3, <2>3, <3>1, <3>2, NextServed DEF Served
    <3>3. CASE Collect \/ ListShared
      BY <2>3, <3>0, <3>3 DEF Collect, ListShared, Proceed, WorkerStates
    <3>4. CASE SameWork \/ GoesOn
      BY <2>3, <3>4 DEF SameWork, GoesOn
    <3>5. \A j \in Keys : ~Start(j)
      BY <3>1 DEF Start
    <3> QED
      BY <3>2, <3>3, <3>4, <3>5, NextMoves DEF Moves
  <2> QED
    BY <2>1, <2>2, <2>3
<1> QED
  BY <1>1, <1>2, <1>3

LEMMA InitWork == Init => WorkInv /\ HeldInv
<1> SUFFICES ASSUME Init PROVE WorkInv /\ HeldInv
  OBVIOUS
<1>1. CurrentInv
  BY InitCurrent
<1>2. worker.pc = "idle" /\ worker.mode = "claim" /\ worker.key = None
  BY DEF Init, Idle
<1>3. BranchInv
  BY <1>2 DEF BranchInv, BranchShape, VerdictShape, Looping
<1>4. EventsDistinct /\ Fresh /\ \A k \in Keys : ~Needs(store[k])
  BY <1>2 DEF Init, EventsDistinct, EventsIn, Fresh, Looping, Needs
<1>5. HeldInv
  BY <1>2 DEF Init, HeldInv, MarksKept, PurgeTarget, FinalizerHeld, Holds, InUse
<1> QED
  BY <1>1, <1>3, <1>4, <1>5 DEF WorkInv

LEMMA NextWork == WorkInv /\ [Next]_vars => WorkInv'
<1> SUFFICES ASSUME WorkInv, [Next]_vars PROVE WorkInv'
  OBVIOUS
<1>1. CurrentInv' /\ BranchInv' /\ EventsDistinct'
  BY NextCurrent, NextBranch, NextDistinct DEF WorkInv, CurrentInv
<1>2. \A k \in Keys : Needs(store'[k]) => Awaited(k)' \/ worker'.key = k
  BY NextNeeds
<1> QED
  BY <1>1, <1>2, NextFresh DEF WorkInv, Needs

(* A claim or a deletion syncDomain still has to serve is queued, noted or  *)
(* about to be observed, or it is the one being served: no interleaving of  *)
(* users, informer and worker, no failed or refused call, no lost answer    *)
(* and no restart loses it.                                                 *)
THEOREM NothingLost == Spec => []NoLostWork
<1>1. WorkInv => NoLostWork
  BY WorkFacts DEF WorkInv
<1> QED
  BY <1>1, InitWork, NextWork, PTL DEF Spec

(* A Pending or OK domain that is not marked for deletion carries the       *)
(* finalizer: the purge takes it off by name, but the domain it was called  *)
(* for stays marked, and no domain created again under the name can be      *)
(* accepted before the purge is over.                                       *)
THEOREM FinalizerStays == Spec => []FinalizerHeld
<1>1. /\ WorkInv /\ HeldInv /\ [Next]_vars => WorkInv' /\ HeldInv'
      /\ HeldInv => FinalizerHeld
  BY NextWork, NextHeld DEF WorkInv, HeldInv
<1> QED
  BY <1>1, InitWork, PTL DEF Spec

-----------------------------------------------------------------------------
(* What every write leaves of the user's intent. *)

Preserves(old, new) ==
  old # None /\ new # None =>
    /\ ~UserStep => new.spec = old.spec
    /\ old.deleted => new.deleted
    /\ old.deleted /\ new.phase = "OK" => old.phase = "OK"

LEMMA WritePreserves ==
  ASSUME CurrentInv, BranchInv, NEW k \in Keys,
         NEW o \in Domains \cup {None}, Writes(k, o)
  PROVE  Preserves(store[k], o)
<1>1. CASE Created(k, o)
  BY <1>1 DEF Created, Preserves
<1>2. CASE Removed(k, o)
  BY <1>2 DEF Removed, AfterDelete, Preserves, Domains
<1>3. CASE Patched(k, o)
  BY <1>3 DEF Patched, AfterPatch, Preserves, Domains
<1>4. CASE Edited(k, o)
  BY <1>4 DEF Edited, Preserves
<1>5. CASE Stored(k, o)
  <2> DEFINE d == worker.cur.obj
  <2>1. d \in Domains /\ worker.verdict \in Verdicts /\ store[k] = d
    BY <1>5, StoredFacts
  <2>2. o = Updated(d, worker.verdict, worker.mode)
    BY <1>5 DEF Stored
  <2>3. Decided(worker.mode, d, worker.verdict.phase)
    BY <1>5 DEF Stored, BranchInv, VerdictShape
  <2> HIDE DEF d
  <2>4. /\ o.spec = d.spec /\ o.phase = worker.verdict.phase
        /\ o.deleted = d.deleted
    BY <2>1, <2>2, UpdatedFacts, UpdatedMarks
  <2>5. worker.verdict.phase = "OK" => ~d.deleted
    BY <2>3 DEF Decided, InUse, IsMarkedForDeletion
  <2> QED
    BY <2>1, <2>4, <2>5 DEF Preserves
<1> QED
  BY <1>1, <1>2, <1>3, <1>4, <1>5 DEF Writes

LEMMA StepPreserves ==
  ASSUME CurrentInv, BranchInv, [Next]_vars, NEW j \in Keys
  PROVE  Preserves(store[j], store'[j])
<1> USE DEF CurrentInv, TypeInv
<1>1. CASE UNCHANGED store
  BY <1>1 DEF Preserves
<1>2. ASSUME NEW k \in Keys, NEW o \in Domains \cup {None}, Writes(k, o)
      PROVE  Preserves(store[j], store'[j])
  <2>1. store' = [store EXCEPT ![k] = o]
    BY <1>2, PublishStore DEF Writes
  <2>2. Preserves(store[k], o)
    BY <1>2, WritePreserves
  <2> QED
    BY <2>1, <2>2 DEF Preserves, TypeOK
<1> QED
  BY <1>1, <1>2, StoreSteps DEF Observe, Restart

(* A PUT of a whole object, by syncDomain on a copy that may be old or by   *)
(* claimDomains, never undoes what a user did meanwhile: a deletion is not  *)
(* taken back, nor is the domain granted again; and of the two only         *)
(* claimDomains, which means to, changes a spec.                            *)
THEOREM IntentSurvives == Spec => UserIntentSurvives
<1> DEFINE Survives ==
      \A k \in Keys :
        store[k] # None /\ store'[k] # None =>
          /\ ~UserStep => store'[k].spec = store[k].spec
          /\ store[k].deleted => store'[k].deleted
          /\ store[k].deleted /\ store'[k].phase = "OK"
               => store[k].phase = "OK"
<1>1. WorkInv /\ [Next]_vars => [Survives]_vars
  BY StepPreserves DEF Preserves, WorkInv
<1>2. UserIntentSurvives <=> [][Survives]_vars
  BY DEF UserIntentSurvives
<1> HIDE DEF Survives
<1> QED
  BY <1>1, <1>2, InitWork, NextWork, PTL DEF Spec
=============================================================================
