---------------------------- MODULE DomainClaims ----------------------------
(***************************************************************************)
(* The domain half of the controller: who may claim a host.  The API server*)
(* keeps the Domain resources; the domain informer mirrors them, late, in  *)
(* the cache; its event handlers (addDomain, updateDomain, deleteDomain)   *)
(* fill the domain queue; one worker runs syncDomain for one key at a time.*)
(* Users, and claimDomains on the ingress worker, write the same resources.*)
(*                                                                         *)
(* Every call syncDomain makes to the API server or to Kong, and every list*)
(* of the cache, is a step of its own, so that the other actors run between*)
(* any two of them.                                                        *)
(***************************************************************************)
EXTENDS DomainTypes

CONSTANTS
  UserKeys,       \* the keys users create
  Wanted,         \* Wanted[k]: the specs a user creates at key k
  Edits,          \* the spec changes <<old, new>> a user makes
  Routes,         \* the Kong apis of the instance: [host, ns]
  Matches(_, _),  \* Matches(p, h): regexp  p~.+  finds the apis of host h
  WipeOnDelete,   \* cfg.WipeOnDelete
  FinalizerRemovalDeletes,
    \* does the API server drop a deleted resource with its last finalizer?
  MaxUserOps, MaxFaults, MaxRestarts,   \* how often these may happen
  MaxNotes        \* notifications of one key pending in the listener

ASSUME ClaimsAssumption ==
  /\ UserKeys \subseteq Keys
  /\ Wanted \in [UserKeys -> SUBSET Specs]
  /\ Edits \subseteq Specs \X Specs
  /\ \A k \in UserKeys : \A e \in Edits :
       Identity(NewDomain(e[1])) # Identity(NewDomain(e[2]))
         => CopyKey(k, NewDomain(e[2])) \in Keys
  /\ \A r \in Routes : DOMAIN r = {"host", "ns"} /\ r.ns \in Namespaces
  /\ \A h \in Hosts : Matches(h, h)
  /\ WipeOnDelete \in BOOLEAN /\ FinalizerRemovalDeletes \in BOOLEAN
  /\ MaxUserOps \in Nat /\ MaxFaults \in Nat /\ MaxRestarts \in Nat
  /\ MaxNotes \in Nat \ {0}

VARIABLES
  store,    \* the Domain resources in the API server
  cache,    \* the informer's indexer
  watch,    \* per key, the events the informer has not applied yet
  notes,    \* notifications the event handlers have not run yet
  queue,    \* the keys in domQueue, waiting or delayed by its rate limiter
  worker,   \* the syncDomain call in progress, or Idle
  apis,     \* the Kong apis
  granted,  \* routes the ingress worker is about to add: isClaimed said yes
  budget    \* user operations, faults and restarts still to come

vars == <<store, cache, watch, notes, queue, worker, apis, granted, budget>>

(* A copy of a resource, as syncDomain holds it. *)
Copies == [key : Keys, obj : Domains]

Verdicts == [phase : Phases, reason : Reasons]

Verdict(p, r) == [phase |-> p, reason |-> r]

(* Between two syncDomain calls. *)
Idle == [pc |-> "idle", mode |-> "claim", key |-> None, cur |-> None,
         left |-> <<>>, todo |-> {}, listed |-> {}, doomed |-> {},
         verdict |-> None, stale |-> {}]

(***************************************************************************)
(* worker.pc is the call syncDomain makes next, worker.mode the branch it  *)
(* is in: the deletion of a domain (purge), the clean-up after one is gone *)
(* (wipe), or one of the branches that end in one PUT.  worker.stale are   *)
(* the keys whose resourceVersion has moved on since the worker took its   *)
(* copies: a PUT of such a copy is refused with a conflict.                *)
(***************************************************************************)
WorkerStates ==
  [pc      : {"idle", "sync", "search", "put", "each", "list", "delete",
              "unfinalize", "remove", "sweep", "hosts"},
   mode    : {"accept", "claim", "invalid", "retry", "purge", "wipe"},
   key     : Keys \cup {None},
   cur     : Copies \cup {None},
   left    : Seq(Namespaces),
   todo    : SUBSET Copies,
   listed  : SUBSET Routes,
   doomed  : SUBSET Routes,
   verdict : Verdicts \cup {None},
   stale   : SUBSET Keys]

Notes == [key : Keys, old : Domains \cup {None}, new : Domains \cup {None}]

Budgets == [user : 0..MaxUserOps, fault : 0..MaxFaults,
            restart : 0..MaxRestarts]

ASSUME AbsentAssumption == None \notin Keys \cup Copies \cup Verdicts

TypeOK ==
  /\ store \in [Keys -> Domains \cup {None}]
  /\ cache \in [Keys -> Domains \cup {None}]
  /\ watch \in [Keys -> Seq(Domains \cup {None})]
  /\ notes \in Seq(Notes)
  /\ queue \subseteq Keys
  /\ worker \in WorkerStates
  /\ apis \subseteq Routes
  /\ granted \subseteq Routes
  /\ budget \in Budgets

Init ==
  /\ store = [k \in Keys |-> None]
  /\ cache = [k \in Keys |-> None]
  /\ watch = [k \in Keys |-> <<>>]
  /\ notes = <<>>
  /\ queue = {}
  /\ worker = Idle
  /\ apis = {}
  /\ granted = {}
  /\ budget = [user |-> MaxUserOps, fault |-> MaxFaults,
               restart |-> MaxRestarts]

-----------------------------------------------------------------------------
(* The API server: a write of key k is stored and sent to the watch; one    *)
(* that changes nothing is neither.                                         *)
Publish(k, o) ==
  IF o = store[k]
  THEN UNCHANGED <<store, watch>>
  ELSE /\ store' = [store EXCEPT ![k] = o]
       /\ watch' = [watch EXCEPT ![k] = Append(@, o)]

(* The keys whose cached object is not the stored one. *)
Lagging == {k \in Keys : watch[k] # <<>>}

(* Another actor's write of k outdates the copies the worker holds. *)
Outdate(k) ==
  worker' = IF worker.pc = "idle" THEN worker
            ELSE [worker EXCEPT !.stale = @ \cup {k}]

(* DELETE: a resource with a finalizer is only marked. *)
AfterDelete(o) == IF o.finalizer THEN [o EXCEPT !.deleted = TRUE] ELSE None

(* The merge patch {"metadata": {"finalizers": []}}. *)
AfterPatch(o) == IF FinalizerRemovalDeletes /\ o.deleted THEN None
                 ELSE [o EXCEPT !.finalizer = FALSE]

Spend(what) == /\ budget[what] > 0
               /\ budget' = [budget EXCEPT ![what] = @ - 1]

-----------------------------------------------------------------------------
(* Users. *)

Create(k, s) ==
  /\ Spend("user")
  /\ store[k] = None
  /\ Publish(k, NewDomain(s))
  /\ Outdate(k)
  /\ UNCHANGED <<cache, notes, queue, apis, granted>>

Delete(k) ==
  /\ Spend("user")
  /\ store[k] # None
  /\ AfterDelete(store[k]) # store[k]
  /\ Publish(k, AfterDelete(store[k]))
  /\ Outdate(k)
  /\ UNCHANGED <<cache, notes, queue, apis, granted>>

Edit(k, s) ==
  /\ Spend("user")
  /\ store[k] # None
  /\ <<store[k].spec, s>> \in Edits
  /\ Publish(k, [store[k] EXCEPT !.spec = s])
  /\ Outdate(k)
  /\ UNCHANGED <<cache, notes, queue, apis, granted>>

(* claimDomains, on the ingress worker: an ingress whose hosts want another *)
(* spec at k updates the cached resource.  The status of an OK domain is    *)
(* kept, any other starts again as New.  The PUT is accepted only while the *)
(* cached version is the stored one; otherwise it changes nothing.          *)
AutoClaim(k, s) ==
  /\ Spend("user")
  /\ cache[k] # None /\ store[k] # None /\ k \notin Lagging
  /\ <<cache[k].spec, s>> \in Edits
  /\ s.delegates = {}
  /\ Publish(k, IF cache[k].phase = "OK"
                THEN [cache[k] EXCEPT !.spec = s]
                ELSE [cache[k] EXCEPT !.spec = s, !.phase = "New",
                                      !.reason = "", !.discarded = FALSE])
  /\ Outdate(k)
  /\ UNCHANGED <<cache, notes, queue, apis, granted>>

-----------------------------------------------------------------------------
(* The informer and its event handlers. *)

Backlog(k) == {i \in 1..Len(notes) : notes[i].key = k}

(* The indexer takes the next event of k and the listener is told.  The     *)
(* delta queue hands out the events of a key together, so the order between *)
(* keys is left open.                                                       *)
Observe(k) ==
  /\ k \in Lagging
  /\ Cardinality(Backlog(k)) < MaxNotes
  /\ cache' = [cache EXCEPT ![k] = Head(watch[k])]
  /\ watch' = [watch EXCEPT ![k] = Tail(@)]
  /\ notes' = Append(notes, [key |-> k, old |-> cache[k],
                             new |-> Head(watch[k])])
  /\ UNCHANGED <<store, queue, worker, apis, granted, budget>>

(* The periodic resync repeats every cached object that has no event        *)
(* waiting as an update to itself; updateDomain acts on it only when the    *)
(* object is Failed.                                                        *)
Resync(k) ==
  /\ k \notin Lagging
  /\ cache[k] # None
  /\ cache[k].phase = "Failed"
  /\ Cardinality(Backlog(k)) < MaxNotes
  /\ notes' = Append(notes, [key |-> k, old |-> cache[k], new |-> cache[k]])
  /\ UNCHANGED <<store, cache, watch, queue, worker, apis, granted, budget>>

(* Mutant: updateDomain forgets the Failed domains. *)
EnqueuesChangedOnly(n) == n.old # n.new

(* addDomain and deleteDomain always enqueue the key; updateDomain does     *)
(* when the version changed or the domain is Failed.                        *)
Enqueues(n) ==
  \/ n.old = None
  \/ n.new = None
  \/ n.old # n.new
  \/ n.new.phase = "Failed"

(* updateDomain: the identity of the resource was edited.  Only the keys of *)
(* users are, so the copy's key is in the instance (ClaimsAssumption).      *)
Renamed(n) ==
  /\ n.old # None /\ n.new # None
  /\ Identity(n.old) # Identity(n.new)
  /\ CopyKey(n.key, n.new) \in Keys

(* The copy that stands for the old identity, to be cleaned up. *)
Recovered(n) ==
  [n.old EXCEPT !.finalizer = FALSE, !.deleted = FALSE, !.discarded = TRUE]

(* updateDomain first POSTs the recovered copy; a POST that fails, or finds *)
(* the name taken, is only logged.                                          *)
HandleEvent(posted) ==
  /\ notes # <<>>
  /\ LET n == Head(notes) IN
       /\ notes' = Tail(notes)
       /\ queue' = IF Enqueues(n) THEN queue \cup {n.key} ELSE queue
       /\ IF Renamed(n) /\ posted
          THEN LET k == CopyKey(n.key, n.new) IN
                 /\ Publish(k, IF store[k] = None THEN Recovered(n)
                                                  ELSE store[k])
                 /\ IF store[k] = None THEN Outdate(k) ELSE UNCHANGED worker
          ELSE UNCHANGED <<store, watch, worker>>
       /\ IF posted THEN UNCHANGED budget ELSE Renamed(n) /\ Spend("fault")
  /\ UNCHANGED <<cache, apis, granted>>

-----------------------------------------------------------------------------
(* The ingress worker, as far as it touches domains: isClaimed looks for an *)
(* OK domain of the host in the ingress' namespace, in the cache; the route *)
(* is written to Kong some calls later.                                     *)
IngressCheck(r) ==
  /\ r \notin granted
  /\ \E k \in Keys : /\ k.ns = r.ns
                     /\ cache[k] # None
                     /\ cache[k].phase = "OK"
                     /\ GetDomain(cache[k]) = r.host
  /\ granted' = granted \cup {r}
  /\ UNCHANGED <<store, cache, watch, notes, queue, worker, apis, budget>>

IngressRoute(r) ==
  /\ r \in granted
  /\ granted' = granted \ {r}
  /\ apis' = apis \cup {r}
  /\ UNCHANGED <<store, cache, watch, notes, queue, worker, budget>>

-----------------------------------------------------------------------------
(* The domain worker: TaskQueue.worker calls syncDomain(key), and puts the  *)
(* key back, rate limited, when that returns an error.                      *)

(* updateDomainStatus errors are dropped on the Invalid and retry branches. *)
Swallowed == worker.pc = "put" /\ worker.mode \in {"invalid", "retry"}

(* Mutant: a key whose sync failed is forgotten. *)
ReturnForgets(failed) ==
  /\ worker' = Idle
  /\ UNCHANGED queue

Return(failed) ==
  /\ worker' = Idle
  /\ queue' = IF failed /\ ~Swallowed THEN queue \cup {worker.key} ELSE queue

(* A call has been answered and syncDomain goes on as w. *)
Proceed(w) == worker' = w /\ UNCHANGED queue

(* The call took effect; its answer arrives, or is lost and the call fails. *)
Answer(answered, w) ==
  IF answered THEN Proceed(w) /\ UNCHANGED budget
              ELSE Return(TRUE) /\ Spend("fault")

(* Mutant: the missing "exists" test of GetByKey. *)
StartUnchecked(k) ==
  /\ worker.pc = "idle"
  /\ k \in queue
  /\ queue' = queue \ {k}
  /\ worker' = [Idle EXCEPT !.pc = "sync", !.key = k, !.stale = Lagging,
                            !.cur = [key |-> k, obj |-> cache[k]]]
  /\ UNCHANGED <<store, cache, watch, notes, apis, granted, budget>>

(* GetByKey, with what the informer knows at this moment. *)
Start(k) ==
  /\ worker.pc = "idle"
  /\ k \in queue
  /\ queue' = queue \ {k}
  /\ worker' = [Idle EXCEPT !.pc = "sync", !.key = k, !.stale = Lagging,
                            !.cur = IF cache[k] = None THEN None
                                    ELSE [key |-> k, obj |-> cache[k]]]
  /\ UNCHANGED <<store, cache, watch, notes, apis, granted, budget>>

(* Any call to the API server or to Kong may fail without effect. *)
CallFails ==
  /\ worker.pc \in {"put", "list", "delete", "unfinalize", "remove", "sweep"}
  /\ Spend("fault")
  /\ Return(TRUE)
  /\ UNCHANGED <<store, cache, watch, notes, apis, granted>>

(* updateDomainStatus leaves a domain alone that has the status already;    *)
(* the PUT that accepts a New domain is always made.                        *)
SameStatus(d, v) == d.phase = v.phase /\ d.reason = v.reason

NoUpdate == /\ worker.mode # "accept"
            /\ SameStatus(worker.cur.obj, worker.verdict)

(* What the PUT stores: the worker's copy with the new status. *)
Updated(d, v, mode) ==
  [d EXCEPT !.phase = v.phase, !.reason = v.reason,
            !.finalizer = IF mode = "accept" THEN TRUE ELSE @]

(* The API server refuses a PUT whose resourceVersion is not the stored     *)
(* one, or whose resource is gone.                                          *)
Conflicts(k) == k \in worker.stale \/ store[k] = None

(* Where syncDomain goes after a status update: purge and wipe take the     *)
(* next domain of their loop, the other branches return.                    *)
AfterUpdate ==
  IF worker.mode \in {"purge", "wipe"}
  THEN [worker EXCEPT !.pc = "each", !.cur = None, !.verdict = None,
                      !.stale = @ \cup {worker.cur.key}]
  ELSE Idle

(* Mutant: the PUT carries no resourceVersion. *)
PutUnversioned(answered) ==
  /\ worker.pc = "put"
  /\ ~NoUpdate
  /\ LET k == worker.cur.key IN
       IF store[k] = None
       THEN /\ answered
            /\ Return(TRUE)
            /\ UNCHANGED <<store, watch, budget>>
       ELSE /\ Publish(k, Updated(worker.cur.obj, worker.verdict, worker.mode))
            /\ Answer(answered, AfterUpdate)
  /\ UNCHANGED <<cache, notes, apis, granted>>

Put(answered) ==
  /\ worker.pc = "put"
  /\ ~NoUpdate
  /\ LET k == worker.cur.key IN
       IF Conflicts(k)
       THEN /\ answered
            /\ Return(TRUE)
            /\ UNCHANGED <<store, watch, budget>>
       ELSE /\ Publish(k, Updated(worker.cur.obj, worker.verdict, worker.mode))
            /\ Answer(answered, AfterUpdate)
  /\ UNCHANGED <<cache, notes, apis, granted>>

SkipUpdate ==
  /\ worker.pc = "put"
  /\ NoUpdate
  /\ Proceed(AfterUpdate)
  /\ UNCHANGED <<store, cache, watch, notes, apis, granted, budget>>

-----------------------------------------------------------------------------
(* syncDomain, the branches on the state of the resource. *)

Decide(mode, v) ==
  [worker EXCEPT !.pc = "put", !.mode = mode, !.verdict = v]

OtherUnchanged == UNCHANGED <<store, cache, watch, notes, apis, granted, budget>>

(* The resource is gone and nothing is to be wiped. *)
Vanished ==
  /\ worker.pc = "sync"
  /\ worker.cur = None
  /\ ~WipeOnDelete
  /\ Return(FALSE)
  /\ OtherUnchanged

Reject ==
  /\ worker.pc = "sync"
  /\ worker.cur # None
  /\ ~IsValidDomain(worker.cur.obj)
  /\ Proceed(Decide("invalid", Verdict("Failed", "Invalid")))
  /\ OtherUnchanged

(* The branches of the switch on the phase of a valid, unmarked domain. *)
InPhase(p) ==
  /\ worker.pc = "sync"
  /\ worker.cur # None
  /\ IsValidDomain(worker.cur.obj)
  /\ ~IsMarkedForDeletion(worker.cur.obj)
  /\ worker.cur.obj.phase = p

(* New: put the finalizer on and go on as Pending. *)
AcceptNew ==
  /\ InPhase("New")
  /\ Proceed(Decide("accept", Verdict("Pending", worker.cur.obj.reason)))
  /\ OtherUnchanged

(* Mutant: only a rival that is OK counts. *)
RivalOK(k, d) ==
  \E j \in Keys \ {k} : /\ cache[j] # None
                        /\ IsPrimary(cache[j])
                        /\ cache[j].phase = "OK"
                        /\ GetPrimaryDomain(cache[j]) = GetPrimaryDomain(d)

(* Another cached primary domain of the same name, in whatever phase. *)
Rival(k, d) ==
  \E j \in Keys \ {k} : /\ cache[j] # None
                        /\ IsPrimary(cache[j])
                        /\ GetPrimaryDomain(cache[j]) = GetPrimaryDomain(d)

ClaimPrimary ==
  /\ InPhase("Pending")
  /\ IsPrimary(worker.cur.obj)
  /\ Proceed(Decide("claim",
               IF Rival(worker.cur.key, worker.cur.obj)
               THEN Verdict("Failed", "DomainAlreadyExists")
               ELSE Verdict("OK", "")))
  /\ OtherUnchanged

(* A shared domain, to be claimed or verified, searches for its primary. *)
SearchShared ==
  /\ InPhase("Pending") \/ InPhase("OK")
  /\ ~IsPrimary(worker.cur.obj)
  /\ Proceed([worker EXCEPT !.pc = "search",
                !.left = SearchOrder(worker.cur.key, worker.cur.obj)])
  /\ OtherUnchanged

KeepPrimary ==
  /\ InPhase("OK")
  /\ IsPrimary(worker.cur.obj)
  /\ Return(FALSE)
  /\ OtherUnchanged

(* Mutant: the retry does not look at the finalizer. *)
RetryPending ==
  /\ InPhase("Failed")
  /\ Proceed(Decide("retry", Verdict("Pending", "")))
  /\ OtherUnchanged

(* Failed, and the last update is older than cfg.ResyncOnFailed. *)
Retry ==
  /\ InPhase("Failed")
  /\ Proceed(Decide("retry",
       Verdict(IF HasKongFinalizer(worker.cur.obj) THEN "Pending" ELSE "New",
               "")))
  /\ OtherUnchanged

(* Failed, and not expired yet. *)
Wait ==
  /\ InPhase("Failed")
  /\ Return(FALSE)
  /\ OtherUnchanged

-----------------------------------------------------------------------------
(* SearchForPrimary, one namespace list at a time. *)

(* searchPrimaryByNamespace returns a domain. *)
FoundIn(ns, k, d) ==
  \E j \in Keys : j.ns = ns /\ cache[j] # None /\ Serves(j, cache[j], k, d)

(* A found primary: a Pending domain is claimed, an OK one is fine, and     *)
(* wipe leaves the domain alone.                                            *)
SearchHit ==
  /\ worker.pc = "search"
  /\ worker.left # <<>>
  /\ FoundIn(Head(worker.left), worker.cur.key, worker.cur.obj)
  /\ CASE worker.mode = "wipe" ->
            Proceed([worker EXCEPT !.pc = "each", !.cur = None, !.left = <<>>])
       [] worker.mode # "wipe" /\ worker.cur.obj.phase = "Pending" ->
            Proceed([Decide("claim", Verdict("OK", "")) EXCEPT !.left = <<>>])
       [] OTHER -> Return(FALSE)
  /\ OtherUnchanged

SearchMiss ==
  /\ worker.pc = "search"
  /\ worker.left # <<>>
  /\ ~FoundIn(Head(worker.left), worker.cur.key, worker.cur.obj)
  /\ Proceed([worker EXCEPT !.left = Tail(@)])
  /\ OtherUnchanged

(* No primary: fail the domain; wipe removes its apis first. *)
SearchOver ==
  /\ worker.pc = "search"
  /\ worker.left = <<>>
  /\ Proceed(IF worker.mode = "wipe" THEN [worker EXCEPT !.pc = "list"]
             ELSE Decide("claim", Verdict("Failed", "DomainNotFound")))
  /\ OtherUnchanged

-----------------------------------------------------------------------------
(* Deletion: purge the apis of the domains of a deleted primary, take the   *)
(* finalizer off and remove the resource.  Wipe: when a key is gone, do the *)
(* same for the OK shared domains left without a primary, then sweep.       *)

CachedCopies(P(_)) ==
  {[key |-> j, obj |-> cache[j]] :
     j \in {i \in Keys : cache[i] # None /\ P(cache[i])}}

(* The domains a purge goes through: for a primary domain, every cached     *)
(* domain of that primary, itself included; for a shared domain, none.      *)
Associated(d) ==
  CachedCopies(LAMBDA o : /\ IsPrimary(d)
                          /\ GetPrimaryDomain(o) = GetPrimaryDomain(d))

Collect ==
  /\ worker.pc = "sync"
  /\ worker.cur # None
  /\ IsValidDomain(worker.cur.obj)
  /\ IsMarkedForDeletion(worker.cur.obj)
  /\ Proceed([worker EXCEPT !.pc = "each", !.mode = "purge", !.cur = None,
                            !.todo = Associated(worker.cur.obj),
                            !.stale = Lagging])
  /\ OtherUnchanged

(* The resource is gone: list the OK shared domains. *)
ListShared ==
  /\ worker.pc = "sync"
  /\ worker.cur = None
  /\ WipeOnDelete
  /\ Proceed([worker EXCEPT !.pc = "each", !.mode = "wipe",
                !.todo = CachedCopies(LAMBDA o : ~IsPrimary(o)
                                                 /\ o.phase = "OK"),
                !.stale = Lagging])
  /\ OtherUnchanged

(* The next domain of either loop, in the order of a Go map. *)
NextDomain(c) ==
  /\ worker.pc = "each"
  /\ c \in worker.todo
  /\ Proceed([worker EXCEPT
       !.todo = @ \ {c}, !.cur = c,
       !.pc = IF worker.mode = "wipe" THEN "search" ELSE "list",
       !.left = IF worker.mode = "wipe" THEN SearchOrder(c.key, c.obj)
                                        ELSE <<>>])
  /\ OtherUnchanged

(* ListByRegexp(GetDomain() + "~.+"). *)
ListApis ==
  /\ worker.pc = "list"
  /\ Proceed([worker EXCEPT !.pc = "delete",
                !.doomed = {r \in apis :
                              Matches(GetDomain(worker.cur.obj), r.host)}])
  /\ OtherUnchanged

DeleteApi(r, answered) ==
  /\ worker.pc = "delete"
  /\ r \in worker.doomed
  /\ apis' = apis \ {r}
  /\ Answer(answered, [worker EXCEPT !.doomed = @ \ {r}])
  /\ UNCHANGED <<store, cache, watch, notes, granted>>

(* All listed apis are deleted: fail the domain they belonged to, or, in    *)
(* the sweep, take the next host.                                           *)
ApisDeleted ==
  /\ worker.pc = "delete"
  /\ worker.doomed = {}
  /\ Proceed(IF worker.cur = None THEN [worker EXCEPT !.pc = "hosts"]
             ELSE Decide(worker.mode, Verdict("Failed", "DomainDeleted")))
  /\ OtherUnchanged

(* Mutant: syncDomain returns after the purge. *)
LoopReturns ==
  /\ worker.pc = "each"
  /\ worker.todo = {}
  /\ IF worker.mode = "wipe" THEN Proceed([worker EXCEPT !.pc = "sweep"])
                             ELSE Return(FALSE)
  /\ OtherUnchanged

LoopDone ==
  /\ worker.pc = "each"
  /\ worker.todo = {}
  /\ Proceed([worker EXCEPT
       !.pc = IF worker.mode = "wipe" THEN "sweep" ELSE "unfinalize"])
  /\ OtherUnchanged

(* PATCH and DELETE name the resource and nothing else: they apply to       *)
(* whatever is stored under the key.                                        *)
Unfinalize(answered) ==
  /\ worker.pc = "unfinalize"
  /\ IF store[worker.key] = None
     THEN answered /\ Return(TRUE) /\ UNCHANGED <<store, watch, budget>>
     ELSE /\ Publish(worker.key, AfterPatch(store[worker.key]))
          /\ Answer(answered, [worker EXCEPT !.pc = "remove",
                                             !.stale = @ \cup {worker.key}])
  /\ UNCHANGED <<cache, notes, apis, granted>>

Remove(answered) ==
  /\ worker.pc = "remove"
  /\ IF store[worker.key] = None
     THEN answered /\ Return(TRUE) /\ UNCHANGED <<store, watch, budget>>
     ELSE /\ Publish(worker.key, AfterDelete(store[worker.key]))
          /\ Answer(answered, Idle)
  /\ UNCHANGED <<cache, notes, apis, granted>>

(* List all apis, and group them by host (getApisByHost). *)
Sweep ==
  /\ worker.pc = "sweep"
  /\ Proceed([worker EXCEPT !.pc = "hosts", !.listed = apis])
  /\ OtherUnchanged

(* Mutant: the sweep looks at primary domains only. *)
KnownPrimary(h) ==
  \E k \in Keys : cache[k] # None /\ GetPrimaryDomain(cache[k]) = h

(* A cached domain, of any phase and namespace, has this host. *)
KnownHost(h) == \E k \in Keys : cache[k] # None /\ GetDomain(cache[k]) = h

SweepHost(h) ==
  /\ worker.pc = "hosts"
  /\ \E r \in worker.listed : r.host = h
  /\ Proceed([worker EXCEPT
       !.pc = "delete",
       !.listed = {r \in @ : r.host # h},
       !.doomed = IF KnownHost(h) THEN {}
                  ELSE {r \in worker.listed : r.host = h}])
  /\ OtherUnchanged

SweepDone ==
  /\ worker.pc = "hosts"
  /\ worker.listed = {}
  /\ Return(FALSE)
  /\ OtherUnchanged

-----------------------------------------------------------------------------
(* Mutant: the informer watches without listing first. *)
RestartWatchOnly ==
  /\ Spend("restart")
  /\ cache' = [k \in Keys |-> None]
  /\ watch' = [k \in Keys |-> <<>>]
  /\ notes' = <<>>
  /\ queue' = {}
  /\ worker' = Idle
  /\ granted' = {}
  /\ UNCHANGED <<store, apis>>

(* The process dies and starts again: what it held in memory is gone.  Run  *)
(* starts the informers and waits for the ingress and the service caches;   *)
(* the domain worker starts while the domain cache is still being filled.   *)
Restart ==
  /\ Spend("restart")
  /\ cache' = [k \in Keys |-> None]
  /\ watch' = [k \in Keys |-> IF store[k] = None THEN <<>> ELSE <<store[k]>>]
  /\ notes' = <<>>
  /\ queue' = {}
  /\ worker' = Idle
  /\ granted' = {}
  /\ UNCHANGED <<store, apis>>

-----------------------------------------------------------------------------
User ==
  \/ \E k \in UserKeys : \/ \E s \in Wanted[k] : Create(k, s)
                         \/ \E s \in Specs : Edit(k, s) \/ AutoClaim(k, s)
  \/ \E k \in Keys : Delete(k)

Informer ==
  \/ \E k \in Keys : Observe(k) \/ Resync(k)
  \/ \E posted \in BOOLEAN : HandleEvent(posted)

Ingress == \E r \in Routes : IngressCheck(r) \/ IngressRoute(r)

(* The steps of the worker that only read the cache. *)
SyncStep ==
  \/ Vanished \/ Reject \/ AcceptNew \/ ClaimPrimary \/ SearchShared
  \/ KeepPrimary \/ Retry \/ Wait
  \/ SearchHit \/ SearchMiss \/ SearchOver
  \/ Collect \/ ListShared \/ LoopDone \/ ApisDeleted \/ SweepDone
  \/ \E c \in worker.todo : NextDomain(c)
  \/ \E r \in worker.listed : SweepHost(r.host)

(* The steps of the worker that call the API server or Kong. *)
CallStep(answered) ==
  \/ Put(answered) \/ Unfinalize(answered) \/ Remove(answered)
  \/ \E r \in worker.doomed : DeleteApi(r, answered)

WorkerStep ==
  \/ SyncStep \/ SkipUpdate \/ ListApis \/ Sweep
  \/ CallStep(TRUE)

Fault == CallFails \/ CallStep(FALSE)

Next ==
  \/ User \/ Informer \/ Ingress
  \/ \E k \in Keys : Start(k)
  \/ WorkerStep \/ Fault \/ Restart

Spec == Init /\ [][Next]_vars

(***************************************************************************)
(* The goroutines of the worker, the informer and its listener run; the    *)
(* work queue hands out its keys in turn; the resync timer fires; a Failed *)
(* domain is looked at again after it expired.  Users and the ingress      *)
(* worker owe nothing; faults are bounded by the budget.                   *)
(***************************************************************************)
Fairness ==
  /\ WF_vars(WorkerStep)
  /\ WF_vars(HandleEvent(TRUE))
  /\ \A k \in Keys : /\ SF_vars(Start(k))
                     /\ WF_vars(Observe(k))
                     /\ WF_vars(Resync(k))
                     /\ SF_vars(Retry /\ worker.key = k)

LiveSpec == Spec /\ Fairness

-----------------------------------------------------------------------------
Holds(k, P(_)) == store[k] # None /\ P(store[k])

(* The domain at k owns its primary domain: it is OK, and it is not the     *)
(* copy of an edited resource that only awaits its clean-up.                *)
OwnsPrimary(k) ==
  Holds(k, LAMBDA d : d.phase = "OK" /\ IsPrimary(d) /\ ~d.discarded)

(* A primary domain is granted once in the cluster, although each grant is  *)
(* decided on a cache that may lag behind the API server.                   *)
UniquePrimary ==
  \A j, k \in Keys :
    /\ OwnsPrimary(j) /\ OwnsPrimary(k)
    /\ GetPrimaryDomain(store[j]) = GetPrimaryDomain(store[k])
    => j = k

(* A domain in use cannot be removed behind the controller's back: until it *)
(* is marked for deletion, a Pending or OK domain carries the finalizer that*)
(* makes the API server wait for the purge of its routes.                   *)
FinalizerHeld ==
  \A k \in Keys :
    Holds(k, LAMBDA d : d.phase \in {"Pending", "OK"}
                        /\ ~IsMarkedForDeletion(d))
      => HasKongFinalizer(store[k])

-----------------------------------------------------------------------------
(* Why UniquePrimary holds (claims_rivals checks it, UniquePrimaryProofs    *)
(* proves it): the parts of its inductive invariant.                        *)

(* What the worker holds in each of its steps. *)
WorkerShape ==
  /\ worker.pc = "idle" => worker.cur = None /\ worker.todo = {}
  /\ worker.pc # "idle" => worker.key # None
  /\ worker.pc \in {"put", "search", "list"} => worker.cur # None
  /\ worker.pc = "put" => worker.verdict # None
  /\ worker.pc = "search" /\ worker.mode # "wipe"
       => ~IsPrimary(worker.cur.obj)

(* The cache trails the API server by exactly the events still to come. *)
CacheTrails ==
  \A k \in Keys :
    store[k] = IF watch[k] = <<>> THEN cache[k] ELSE watch[k][Len(watch[k])]

(* A copy the worker could PUT with success is the stored object, and the   *)
(* informer has nothing newer to learn.                                     *)
CopiesCurrent ==
  \A c \in worker.todo \cup {worker.cur} :
    c # None /\ c.key \notin worker.stale
      => store[c.key] = c.obj /\ watch[c.key] = <<>>

SameIdentity(o, d) == o # None /\ Identity(o) = Identity(d)

(* The cache never forgets a domain the worker has accepted. *)
AcceptedCached ==
  \A k \in Keys :
    Holds(k, LAMBDA d : d.phase # "New" /\ ~d.discarded) =>
      /\ SameIdentity(cache[k], store[k])
      /\ \A i \in 1..Len(watch[k]) : SameIdentity(watch[k][i], store[k])

(* While a grant is on its way, its rivals in the API server are New. *)
GrantExclusive ==
  worker.pc = "put" /\ worker.verdict.phase = "OK" /\ IsPrimary(worker.cur.obj)
    => \A j \in Keys \ {worker.cur.key} :
         Holds(j, LAMBDA d :
           /\ IsPrimary(d) /\ ~d.discarded
           /\ GetPrimaryDomain(d) = GetPrimaryDomain(worker.cur.obj))
         => store[j].phase = "New"

UniquePrimaryInv ==
  /\ TypeOK /\ WorkerShape /\ CacheTrails /\ CopiesCurrent
  /\ AcceptedCached /\ GrantExclusive /\ UniquePrimary

-----------------------------------------------------------------------------
(* Something will make the worker look at k again. *)
Scheduled(k) ==
  \/ k \in queue
  \/ k \in Lagging
  \/ worker.key = k
  \/ \E i \in 1..Len(notes) : notes[i].key = k /\ Enqueues(notes[i])

(* No claim and no deletion is forgotten: a valid domain that waits for the *)
(* controller is on its way to the worker, whatever calls failed, whichever *)
(* updates were refused, and after a restart.  Nothing else would bring it  *)
(* back: the resync only repeats Failed domains.                            *)
NoLostWork ==
  \A k \in Keys :
    Holds(k, LAMBDA d : IsValidDomain(d)
                        /\ (d.phase \in {"New", "Pending"}
                            \/ IsMarkedForDeletion(d)))
      => Scheduled(k)

UserStep == budget'.user # budget.user

(* The full-object PUTs of syncDomain and claimDomains never undo what a    *)
(* user did meanwhile: a deletion a user asked for is never taken back, nor *)
(* does the domain become OK again; and a spec changes only by a user's     *)
(* edit or by claimDomains, whose purpose it is to overwrite it             *)
(* (controller.go:395; the model counts AutoClaim as a user's step).        *)
UserIntentSurvives ==
  [][\A k \in Keys :
       store[k] # None /\ store'[k] # None =>
         /\ ~UserStep => store'[k].spec = store[k].spec
         /\ store[k].deleted => store'[k].deleted
         /\ store[k].deleted /\ store'[k].phase = "OK"
              => store[k].phase = "OK"]_vars

(* The sweep spares the routes of every granted domain: an api is deleted   *)
(* outside of a purge only when no OK domain of the API server has its host.*)
SweepSpares ==
  [][\A r \in apis \ apis' :
       worker.mode = "wipe" /\ worker.cur = None =>
         ~\E k \in Keys : Holds(k, LAMBDA d : d.phase = "OK"
                                              /\ GetDomain(d) = r.host)]_vars

-----------------------------------------------------------------------------
Terminating(k) ==
  Holds(k, LAMBDA d : d.deleted /\ IsValidDomain(d))

(* Someone keeps writing other domains. *)
OthersChange(k) == []<><<\E j \in Keys \ {k} : store'[j] # store[j]>>_vars

(* A deletion a user asked for completes.  Only a purge that loses every    *)
(* race for the status of the domains it goes through, because they are     *)
(* written again and again, may be put off for ever.                        *)
DeletionCompletes ==
  \A k \in Keys : <>[]Terminating(k) => OthersChange(k)

Lone(k) ==
  /\ Holds(k, LAMBDA d : IsPrimary(d) /\ IsValidDomain(d)
                         /\ ~IsMarkedForDeletion(d))
  /\ \A j \in Keys \ {k} :
       ~Holds(j, LAMBDA d : IsPrimary(d)
                 /\ GetPrimaryDomain(d) = GetPrimaryDomain(store[k]))

Granted(k) == Holds(k, LAMBDA d : d.phase = "OK")

(* A primary domain nobody else asks for is granted in the end, even when   *)
(* it failed against a rival that has gone.                                 *)
LonePrimaryGranted == \A k \in Keys : <>[]Lone(k) => <>[]Granted(k)

(* A shared domain whose namespace may use an OK primary domain. *)
Leased(k) ==
  /\ Holds(k, LAMBDA d : IsValidSharedDomain(d) /\ ~IsMarkedForDeletion(d))
  /\ \E j \in Keys : Holds(j, LAMBDA d :
       /\ IsPrimary(d)
       /\ \E i \in 1..Len(SearchOrder(k, store[k])) :
            SearchOrder(k, store[k])[i] = j.ns
       /\ Serves(j, d, k, store[k]))

(* A shared domain with a primary to lease from is granted in the end, in   *)
(* whatever order the two were created and claimed.                         *)
SharedGranted == \A k \in Keys : <>[]Leased(k) => <>[]Granted(k)
=============================================================================
