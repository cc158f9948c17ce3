----------------------------- MODULE RouteSync -----------------------------
(***************************************************************************)
(* The routing half of the controller, in one namespace: the ingress worker*)
(* (syncIngress) writes a Kong api for every path of an ingress, and holds *)
(* the services behind them with a finalizer; the service worker           *)
(* (syncServices) collects the apis of a deleted service and lets it go.   *)
(* Each call to the API server or to Kong is a step.                       *)
(*                                                                         *)
(* The informers' caches of services lag behind the API server.  Ingresses *)
(* are read from their cache only, so only the cache is modelled.  Domains *)
(* are the set of hosts with an OK domain in the domain cache (claimed);   *)
(* DomainClaims shows how it comes about.                                  *)
(***************************************************************************)
EXTENDS Naturals, Sequences, FiniteSets

CONSTANTS
  Ingresses, Services, Hosts, Paths,
  Ports,                \* Ports[s]: the ports of service s, in order
  PortNumbers,          \* ports a backend may name
  Wanted,               \* Wanted[k]: the specs users give ingress k
  AutoClaim,            \* cfg.AutoClaim
  AutoClaimMaxRetries,  \* autoClaimMaxRetries
  None,                 \* no object
  MaxBirths,            \* how often one service is created
  MaxUserOps, MaxFaults, MaxRestarts   \* how often these may happen

Backends == [host : Hosts, path : Paths, svc : Services, port : PortNumbers]

(* The host of every rule, and the paths of the rules that have some. *)
IngressSpecs == [kong : BOOLEAN, hosts : SUBSET Hosts, backends : Seq(Backends)]

IngressObjects == [spec : IngressSpecs, dirty : BOOLEAN]

ServiceObjects == [finalizer : BOOLEAN, deleted : BOOLEAN]

(* Keys of the two queues. *)
Keys == Ingresses \cup Services

(* An api is named host~namespace~hash(path). *)
Names == Hosts \X Paths

(* The upstream_url names a service and a port. *)
Upstreams == Services \X PortNumbers

ASSUME RouteAssumption ==
  /\ Ingresses \cap Services = {}
  /\ Ports \in [Services -> Seq(PortNumbers)]
  /\ Wanted \in [Ingresses -> SUBSET IngressSpecs]
  /\ AutoClaim \in BOOLEAN /\ AutoClaimMaxRetries \in Nat
  /\ MaxBirths \in Nat /\ MaxUserOps \in Nat
  /\ MaxFaults \in Nat /\ MaxRestarts \in Nat

ASSUME AbsentAssumption ==
  None \notin Keys \cup IngressObjects \cup ServiceObjects \cup Upstreams

VARIABLES
  svcs,      \* the services in the API server
  svcCache,  \* the informer's services
  svcWatch,  \* per service, the events the informer has not applied yet
  births,    \* how often a service has been created
  ings,      \* the informer's ingresses
  claimed,   \* hosts with an OK domain in the domain cache
  apis,      \* Kong: the upstream of each api, or None
  told,      \* keys whose event handler has still to run
  queue,     \* ingQueue and svcQueue, their keys are distinct
  requeues,  \* NumRequeues of an ingress, up to AutoClaimMaxRetries + 1
  iw,        \* the syncIngress call in progress
  sw,        \* the syncServices call in progress
  budget     \* user operations, faults and restarts still to come

svcVars == <<svcs, svcWatch>>

(* What lies outside of the two workers and their queues. *)
world == <<svcs, svcCache, svcWatch, births, ings, claimed, apis, told>>

vars == <<svcs, svcCache, svcWatch, births, ings, claimed, apis, told, queue,
          requeues, iw, sw, budget>>

(* iw.pc is the next step of syncIngress, iw.left the paths still to be     *)
(* routed; known says that Get found the api.                               *)
IdleIngress == [pc |-> "idle", key |-> None, spec |-> None, left |-> <<>>,
                known |-> FALSE]

IngressWorkers ==
  [pc    : {"idle", "dirty", "claim", "check", "next", "patch", "get", "put"},
   key   : Ingresses \cup {None},
   spec  : IngressObjects \cup {None},
   left  : Seq(Backends),
   known : BOOLEAN]

(* sw.ports are the ports whose upstreams are still to be collected, doomed *)
(* the apis listed for the first of them.                                   *)
IdleService == [pc |-> "idle", key |-> None, ports |-> <<>>, doomed |-> {}]

ServiceWorkers ==
  [pc     : {"idle", "list", "delete", "unfinalize"},
   key    : Services \cup {None},
   ports  : Seq(PortNumbers),
   doomed : SUBSET Names]

Budgets == [user : 0..MaxUserOps, fault : 0..MaxFaults,
            restart : 0..MaxRestarts]

TypeOK ==
  /\ svcs \in [Services -> ServiceObjects \cup {None}]
  /\ svcCache \in [Services -> ServiceObjects \cup {None}]
  /\ svcWatch \in [Services -> Seq(ServiceObjects \cup {None})]
  /\ births \in [Services -> 0..MaxBirths]
  /\ ings \in [Ingresses -> IngressObjects \cup {None}]
  /\ claimed \subseteq Hosts
  /\ apis \in [Names -> Upstreams \cup {None}]
  /\ told \subseteq Keys
  /\ queue \subseteq Keys
  /\ requeues \in [Ingresses -> 0..(AutoClaimMaxRetries + 1)]
  /\ iw \in IngressWorkers
  /\ sw \in ServiceWorkers
  /\ budget \in Budgets

Init ==
  /\ svcs = [s \in Services |-> None]
  /\ svcCache = [s \in Services |-> None]
  /\ svcWatch = [s \in Services |-> <<>>]
  /\ births = [s \in Services |-> 0]
  /\ ings = [k \in Ingresses |-> None]
  /\ claimed = {}
  /\ apis = [n \in Names |-> None]
  /\ told = {}
  /\ queue = {}
  /\ requeues = [k \in Ingresses |-> 0]
  /\ iw = IdleIngress
  /\ sw = IdleService
  /\ budget = [user |-> MaxUserOps, fault |-> MaxFaults,
               restart |-> MaxRestarts]

Spend(what) == /\ budget[what] > 0
               /\ budget' = [budget EXCEPT ![what] = @ - 1]

-----------------------------------------------------------------------------
(* The API server: a write that changes a service is sent to the watch. *)
Publish(s, o) ==
  IF o = svcs[s]
  THEN UNCHANGED svcVars
  ELSE /\ svcs' = [svcs EXCEPT ![s] = o]
       /\ svcWatch' = [svcWatch EXCEPT ![s] = Append(@, o)]

(* DELETE: a service with a finalizer is only marked. *)
AfterDelete(o) == IF o.finalizer THEN [o EXCEPT !.deleted = TRUE] ELSE None

(* PATCH: a deleted service goes with its last finalizer. *)
AfterPatchOff(o) == IF o.deleted THEN None ELSE [o EXCEPT !.finalizer = FALSE]

CreateService(s) ==
  /\ Spend("user")
  /\ svcs[s] = None
  /\ births[s] < MaxBirths
  /\ births' = [births EXCEPT ![s] = @ + 1]
  /\ Publish(s, [finalizer |-> FALSE, deleted |-> FALSE])
  /\ UNCHANGED <<svcCache, ings, claimed, apis, told, queue, requeues, iw, sw>>

DeleteService(s) ==
  /\ Spend("user")
  /\ svcs[s] # None
  /\ AfterDelete(svcs[s]) # svcs[s]
  /\ Publish(s, AfterDelete(svcs[s]))
  /\ UNCHANGED <<svcCache, births, ings, claimed, apis, told, queue, requeues,
                 iw, sw>>

(* An ingress is created or edited; its handler asks for the class of the   *)
(* new version.                                                             *)
PutIngress(k, spec) ==
  /\ Spend("user")
  /\ ings[k] # None => ings[k].spec # spec
  /\ ings' = [ings EXCEPT ![k] =
                [spec |-> spec,
                 dirty |-> IF @ = None THEN FALSE ELSE @.dirty]]
  /\ told' = IF spec.kong THEN told \cup {k} ELSE told
  /\ UNCHANGED <<svcs, svcCache, svcWatch, births, claimed, apis, queue,
                 requeues, iw, sw>>

DeleteIngress(k) ==
  /\ Spend("user")
  /\ ings[k] # None
  /\ ings' = [ings EXCEPT ![k] = None]
  /\ told' = IF ings[k].spec.kong THEN told \cup {k} ELSE told
  /\ UNCHANGED <<svcs, svcCache, svcWatch, births, claimed, apis, queue,
                 requeues, iw, sw>>

(* The domain worker grants a host. *)
Grant(h) ==
  /\ Spend("user")
  /\ h \notin claimed
  /\ claimed' = claimed \cup {h}
  /\ UNCHANGED <<svcs, svcCache, svcWatch, births, ings, apis, told, queue,
                 requeues, iw, sw>>

(* The domain worker takes a host back and purges its apis. *)
Withdraw(h) ==
  /\ Spend("user")
  /\ h \in claimed
  /\ claimed' = claimed \ {h}
  /\ apis' = [n \in Names |-> IF n[1] = h THEN None ELSE apis[n]]
  /\ UNCHANGED <<svcs, svcCache, svcWatch, births, ings, told, queue,
                 requeues, iw, sw>>

-----------------------------------------------------------------------------
(* The informer applies the next event of a service.  Its resync repeats    *)
(* versions the handlers ignore.                                            *)
Observe(s) ==
  /\ svcWatch[s] # <<>>
  /\ svcCache' = [svcCache EXCEPT ![s] = Head(svcWatch[s])]
  /\ svcWatch' = [svcWatch EXCEPT ![s] = Tail(@)]
  /\ told' = told \cup {s}
  /\ UNCHANGED <<svcs, births, ings, claimed, apis, queue, requeues, iw, sw,
                 budget>>

(* Every service event, and an ingress event of class kong, is enqueued. *)
Handle(k) ==
  /\ k \in told
  /\ told' = told \ {k}
  /\ queue' = queue \cup {k}
  /\ UNCHANGED <<svcs, svcCache, svcWatch, births, ings, claimed, apis,
                 requeues, iw, sw, budget>>

-----------------------------------------------------------------------------
(* syncIngress *)

(* Mutant: a failed ingress is not put back. *)
FailIngressForgets ==
  /\ iw' = IdleIngress
  /\ UNCHANGED <<queue, requeues>>

(* An error: AddRateLimited counts it and puts the key back. *)
FailIngress ==
  /\ iw' = IdleIngress
  /\ queue' = queue \cup {iw.key}
  /\ requeues' = [requeues EXCEPT ![iw.key] =
                    IF @ > AutoClaimMaxRetries THEN @ ELSE @ + 1]

Proceed(w) == iw' = w /\ UNCHANGED <<queue, requeues>>

(* The call took effect; its answer arrives, or is lost and the call fails. *)
Answer(answered, w) ==
  IF answered THEN Proceed(w) /\ UNCHANGED budget
              ELSE FailIngress /\ Spend("fault")

Claiming == IF AutoClaim THEN "claim" ELSE "check"

(* TaskQueue.worker reads NumRequeues, GetByKey the ingress. *)
StartIngress(k) ==
  /\ iw.pc = "idle"
  /\ k \in queue
  /\ queue' = queue \ {k}
  /\ IF ings[k] = None
     THEN /\ requeues' = [requeues EXCEPT ![k] = 0]
          /\ UNCHANGED iw
     ELSE /\ iw' = [IdleIngress EXCEPT
                      !.pc = IF requeues[k] > AutoClaimMaxRetries
                             THEN "dirty" ELSE Claiming,
                      !.key = k, !.spec = ings[k]]
          /\ UNCHANGED requeues
  /\ UNCHANGED <<world, sw, budget>>

(* The annotation is patched unless the copy has it; an error, here of an   *)
(* ingress that is gone, is only logged.  The patch makes a new version.    *)
SetDirty ==
  /\ iw.pc = "dirty"
  /\ Proceed([iw EXCEPT !.pc = Claiming])
  /\ IF iw.spec.dirty \/ ings[iw.key] = None
     THEN UNCHANGED <<ings, told>>
     ELSE /\ ings' = [ings EXCEPT ![iw.key].dirty = TRUE]
          /\ told' = IF ~ings[iw.key].dirty /\ ings[iw.key].spec.kong
                     THEN told \cup {iw.key} ELSE told
  /\ UNCHANGED <<svcs, svcCache, svcWatch, births, claimed, apis, sw, budget>>

(* setDirty fails: syncIngress logs it and goes on. *)
SetDirtyFails ==
  /\ iw.pc = "dirty"
  /\ ~iw.spec.dirty
  /\ Spend("fault")
  /\ Proceed([iw EXCEPT !.pc = Claiming])
  /\ UNCHANGED <<world, sw>>

(* claimDomains has written the domains; the grant is the domain worker's.  *)
ClaimDomains ==
  /\ iw.pc = "claim"
  /\ Proceed([iw EXCEPT !.pc = "check"])
  /\ UNCHANGED <<world, sw, budget>>

(* isClaimed: every rule's host has an OK domain. *)
CheckClaims ==
  /\ iw.pc = "check"
  /\ IF iw.spec.spec.hosts \subseteq claimed
     THEN Proceed([iw EXCEPT !.pc = "next", !.left = iw.spec.spec.backends])
     ELSE FailIngress
  /\ UNCHANGED <<world, sw, budget>>

Backend == Head(iw.left)

(* Mutant: the service is not given its finalizer. *)
NextPathUnheld ==
  /\ iw.pc = "next"
  /\ iw.left # <<>>
  /\ IF svcCache[Backend.svc] = None THEN FailIngress
     ELSE Proceed([iw EXCEPT !.pc = "get"])
  /\ UNCHANGED <<world, sw, budget>>

(* The service of the next path must be in the cache. *)
NextPath ==
  /\ iw.pc = "next"
  /\ iw.left # <<>>
  /\ IF svcCache[Backend.svc] = None THEN FailIngress
     ELSE Proceed([iw EXCEPT !.pc = "patch"])
  /\ UNCHANGED <<world, sw, budget>>

(* All paths are routed: nil, and Forget. *)
IngressDone ==
  /\ iw.pc = "next"
  /\ iw.left = <<>>
  /\ iw' = IdleIngress
  /\ requeues' = [requeues EXCEPT ![iw.key] = 0]
  /\ UNCHANGED <<world, queue, sw, budget>>

(* PATCH the finalizer on. *)
HoldService(answered) ==
  /\ iw.pc = "patch"
  /\ IF svcs[Backend.svc] = None
     THEN answered /\ FailIngress /\ UNCHANGED <<svcVars, budget>>
     ELSE /\ Publish(Backend.svc,
                     [svcs[Backend.svc] EXCEPT !.finalizer = TRUE])
          /\ Answer(answered, [iw EXCEPT !.pc = "get"])
  /\ UNCHANGED <<svcCache, births, ings, claimed, apis, told, sw>>

Name(b) == <<b.host, b.path>>

GetApi ==
  /\ iw.pc = "get"
  /\ Proceed([iw EXCEPT !.pc = "put", !.known = apis[Name(Backend)] # None])
  /\ UNCHANGED <<world, sw, budget>>

(* UpdateOrCreate: a PUT with the id of an api that is gone finds nothing.  *)
PutApi(answered) ==
  /\ iw.pc = "put"
  /\ IF iw.known /\ apis[Name(Backend)] = None
     THEN answered /\ FailIngress /\ UNCHANGED <<apis, budget>>
     ELSE /\ apis' = [apis EXCEPT ![Name(Backend)] =
                        <<Backend.svc, Backend.port>>]
          /\ Answer(answered, [iw EXCEPT !.pc = "next", !.left = Tail(@),
                                         !.known = FALSE])
  /\ UNCHANGED <<svcs, svcCache, svcWatch, births, ings, claimed, told, sw>>

IngressCallFails ==
  /\ iw.pc \in {"claim", "patch", "get", "put"}
  /\ Spend("fault")
  /\ FailIngress
  /\ UNCHANGED <<world, sw>>

-----------------------------------------------------------------------------
(* syncServices *)

(* Mutant: a failed collection is not put back. *)
FailServiceForgets ==
  /\ sw' = IdleService
  /\ UNCHANGED queue

FailService ==
  /\ sw' = IdleService
  /\ queue' = queue \cup {sw.key}

ProceedService(w) == sw' = w /\ UNCHANGED queue

AnswerService(answered, w) ==
  IF answered THEN ProceedService(w) /\ UNCHANGED budget
              ELSE FailService /\ Spend("fault")

(* The next port of the loop, or nil. *)
Collecting(s, ports) ==
  IF ports = <<>> THEN IdleService
  ELSE [IdleService EXCEPT !.pc = "list", !.key = s, !.ports = ports]

(* Mutant: the collection does not wait for the deletion mark. *)
StartServiceUnmarked(s) ==
  /\ sw.pc = "idle"
  /\ s \in queue
  /\ queue' = queue \ {s}
  /\ sw' = IF svcCache[s] # None THEN Collecting(s, Ports[s]) ELSE IdleService
  /\ UNCHANGED <<world, requeues, iw, budget>>

(* Only a cached service that is marked for deletion is collected. *)
StartService(s) ==
  /\ sw.pc = "idle"
  /\ s \in queue
  /\ queue' = queue \ {s}
  /\ sw' = IF svcCache[s] # None /\ svcCache[s].deleted
           THEN Collecting(s, Ports[s]) ELSE IdleService
  /\ UNCHANGED <<world, requeues, iw, budget>>

(* Mutant: a port without apis is passed over, the finalizer with it. *)
ListUpstreamSkips ==
  /\ sw.pc = "list"
  /\ LET found == {n \in Names : apis[n] = <<sw.key, Head(sw.ports)>>} IN
       ProceedService(IF found = {} THEN Collecting(sw.key, Tail(sw.ports))
                      ELSE [sw EXCEPT !.pc = "delete", !.doomed = found])
  /\ UNCHANGED <<world, requeues, iw, budget>>

(* List the apis with this upstream_url. *)
ListUpstream ==
  /\ sw.pc = "list"
  /\ ProceedService([sw EXCEPT !.pc = "delete",
       !.doomed = {n \in Names : apis[n] = <<sw.key, Head(sw.ports)>>}])
  /\ UNCHANGED <<world, requeues, iw, budget>>

(* DELETE by name; an api that is gone meanwhile is an error. *)
DeleteRoute(n, answered) ==
  /\ sw.pc = "delete"
  /\ n \in sw.doomed
  /\ IF apis[n] = None
     THEN answered /\ FailService /\ UNCHANGED <<apis, budget>>
     ELSE /\ apis' = [apis EXCEPT ![n] = None]
          /\ AnswerService(answered, [sw EXCEPT !.doomed = @ \ {n}])
  /\ UNCHANGED <<svcs, svcCache, svcWatch, births, ings, claimed, told,
                 requeues, iw>>

RoutesDeleted ==
  /\ sw.pc = "delete"
  /\ sw.doomed = {}
  /\ ProceedService([sw EXCEPT !.pc = "unfinalize"])
  /\ UNCHANGED <<world, requeues, iw, budget>>

(* PATCH the finalizers away, after every port. *)
ReleaseService(answered) ==
  /\ sw.pc = "unfinalize"
  /\ IF svcs[sw.key] = None
     THEN answered /\ FailService /\ UNCHANGED <<svcVars, budget>>
     ELSE /\ Publish(sw.key, AfterPatchOff(svcs[sw.key]))
          /\ AnswerService(answered, Collecting(sw.key, Tail(sw.ports)))
  /\ UNCHANGED <<svcCache, births, ings, claimed, apis, told, requeues, iw>>

ServiceCallFails ==
  /\ sw.pc \in {"list", "delete", "unfinalize"}
  /\ Spend("fault")
  /\ FailService
  /\ UNCHANGED <<world, requeues, iw>>

-----------------------------------------------------------------------------
(* The process dies and starts again: Run waits until the ingress and the   *)
(* service caches are filled, and their add handlers enqueue what they hold.*)
Restart ==
  /\ Spend("restart")
  /\ svcCache' = svcs
  /\ svcWatch' = [s \in Services |-> <<>>]
  /\ told' = {s \in Services : svcs[s] # None}
               \cup {k \in Ingresses : ings[k] # None /\ ings[k].spec.kong}
  /\ queue' = {}
  /\ requeues' = [k \in Ingresses |-> 0]
  /\ iw' = IdleIngress
  /\ sw' = IdleService
  /\ UNCHANGED <<svcs, births, ings, claimed, apis>>

-----------------------------------------------------------------------------
User ==
  \/ \E s \in Services : CreateService(s) \/ DeleteService(s)
  \/ \E k \in Ingresses : DeleteIngress(k)
                          \/ \E spec \in Wanted[k] : PutIngress(k, spec)
  \/ \E h \in Hosts : Grant(h) \/ Withdraw(h)

IngressStep ==
  \/ SetDirty \/ ClaimDomains \/ CheckClaims \/ NextPath \/ IngressDone
  \/ HoldService(TRUE) \/ GetApi \/ PutApi(TRUE)

ServiceStep ==
  \/ ListUpstream \/ RoutesDeleted \/ ReleaseService(TRUE)
  \/ \E n \in sw.doomed : DeleteRoute(n, TRUE)

Fault ==
  \/ SetDirtyFails \/ IngressCallFails \/ ServiceCallFails
  \/ HoldService(FALSE) \/ PutApi(FALSE) \/ ReleaseService(FALSE)
  \/ \E n \in sw.doomed : DeleteRoute(n, FALSE)

Next ==
  \/ User
  \/ \E s \in Services : Observe(s) \/ StartService(s)
  \/ \E k \in Keys : Handle(k)
  \/ \E k \in Ingresses : StartIngress(k)
  \/ IngressStep \/ ServiceStep \/ Fault \/ Restart

Spec == Init /\ [][Next]_vars

(***************************************************************************)
(* The goroutines of the two workers, the informers and the handlers run,  *)
(* and a queue hands out its keys in turn.                                 *)
(***************************************************************************)
Fairness ==
  /\ WF_vars(IngressStep) /\ WF_vars(ServiceStep)
  /\ \A k \in Keys : WF_vars(Handle(k))
  /\ \A s \in Services : WF_vars(Observe(s)) /\ SF_vars(StartService(s))
  /\ \A k \in Ingresses : SF_vars(StartIngress(k))

LiveSpec == Spec /\ Fairness

-----------------------------------------------------------------------------
Routes(s) == {n \in Names : apis[n] # None /\ apis[n][1] = s}

(* A service that Kong routes to cannot vanish: while it is in the API      *)
(* server it carries the finalizer that makes a deletion wait for the       *)
(* collection of its apis, whatever ingresses, deletions and collections    *)
(* overlap.  (For services that are not created again under the same name.) *)
RoutedHeld ==
  \A s \in Services : Routes(s) # {} /\ svcs[s] # None => svcs[s].finalizer

(* Why RoutedHeld holds, the parts of its inductive invariant.              *)

(* What the workers hold in each of their steps. *)
WorkerShape ==
  /\ iw.pc # "idle" => iw.key # None /\ iw.spec # None
  /\ iw.pc \in {"patch", "get", "put"} => iw.left # <<>>
  /\ sw.pc # "idle" => sw.key # None /\ sw.ports # <<>>

(* A service that was never created has left no trace. *)
Unborn ==
  \A s \in Services : births[s] = 0 =>
    /\ svcs[s] = None /\ svcCache[s] = None /\ svcWatch[s] = <<>>
    /\ Routes(s) = {}

(* A service the informer has seen marked is marked or gone. *)
Doomed(s) == svcs[s] = None \/ svcs[s].deleted

Marked(o) == o # None /\ o.deleted

DeletionLasts ==
  \A s \in Services :
    \/ Marked(svcCache[s])
    \/ \E i \in 1..Len(svcWatch[s]) : Marked(svcWatch[s][i])
    => births[s] > 0 /\ Doomed(s)

(* Only a service that is marked or gone is collected. *)
CollectsDoomed == sw.pc # "idle" => births[sw.key] > 0 /\ Doomed(sw.key)

(* The service of the path being routed has its finalizer, or is gone. *)
PathHeld ==
  iw.pc \in {"get", "put"} =>
    /\ births[Backend.svc] > 0
    /\ svcs[Backend.svc] # None => svcs[Backend.svc].finalizer

(* The finalizer of a marked service is what keeps it. *)
MarkedHeld == \A s \in Services : Marked(svcs[s]) => svcs[s].finalizer

RoutedHeldInv ==
  /\ TypeOK /\ WorkerShape /\ Unborn /\ DeletionLasts /\ CollectsDoomed
  /\ PathHeld /\ MarkedHeld /\ RoutedHeld

-----------------------------------------------------------------------------
(* A deletion is never forgotten: a service that waits for its collection   *)
(* is on its way to the worker, whatever calls failed and after a restart.  *)
(* Nothing else would bring it back: the handlers ignore the resync.        *)
CollectionScheduled ==
  \A s \in Services :
    Marked(svcs[s]) /\ Ports[s] # <<>> =>
      s \in queue \cup told \/ svcWatch[s] # <<>> \/ sw.key = s

(* A deleted service that has a port is let go in the end. *)
ServiceReleased ==
  \A s \in Services :
    Ports[s] # <<>> => Marked(svcs[s]) ~> svcs[s] = None

(* The ingress has this version, and what the version needs: its hosts are  *)
(* claimed, and its services are there to stay.                             *)
Routable(k, spec) ==
  /\ ings[k] # None /\ ings[k].spec = spec /\ spec.hosts \subseteq claimed
  /\ \A i \in 1..Len(spec.backends) : ~Doomed(spec.backends[i].svc)

(* Each path of an ingress of class kong that waits in the queue is routed  *)
(* once its hosts and services are there and stay, in whatever order they   *)
(* and the ingress came, whatever version is being synced at that time, and *)
(* however often it failed before.  (One path at a time, and not for ever:  *)
(* a collection, or another ingress, may take a path over afterwards.)      *)
IngressServed ==
  \A k \in Ingresses : \A spec \in {v \in Wanted[k] : v.kong} :
    \A i \in 1..Len(spec.backends) :
      LET b == spec.backends[i] IN
        k \in queue /\ []Routable(k, spec) ~> apis[Name(b)] = <<b.svc, b.port>>

-----------------------------------------------------------------------------
(* "the resources are only cleaned when a Kubernetes service or the domain  *)
(* resource is deleted" (docs/README.md): no api is left of a service that  *)
(* was created and is gone, once nothing is under way any more.             *)
CollectedAll ==
  \A s \in Services :
    births[s] > 0 /\ svcs[s] = None /\ iw.pc = "idle" /\ sw.pc = "idle"
      /\ s \notin queue \cup told /\ svcWatch[s] = <<>>
      => Routes(s) = {}
=============================================================================
