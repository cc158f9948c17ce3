----------------------------- MODULE AutoClaim -----------------------------
(***************************************************************************)
(* Auto-claim mode: the ingress worker claims a domain for every host of   *)
(* an ingress (getHostsFromIngress, claimDomains) and goes on to its routes*)
(* once they are all OK (isClaimed), while the process that runs it starts,*)
(* dies and starts again (Lifecycle).  One namespace, Home.                *)
(*                                                                         *)
(* The domain worker is here by what DomainClaims shows of it: it accepts, *)
(* grants, fails, retries and purges domains, each in one step.  What      *)
(* comes after isClaimed is the subject of RouteSync.                      *)
(*                                                                         *)
(* A label of a host is the sequence of its parts between hyphens:         *)
(* my-shop.org is <<<<"my", "shop">>, <<"org">>>>.                          *)
(***************************************************************************)
EXTENDS DomainTypes, Lifecycle, SequencesExt

CONSTANTS
  Home,         \* the namespace
  Ingresses,    \* names of ingresses
  Shapes,       \* what users write into them
  Given,        \* the ingresses that are there at the start
  Revisions,    \* pairs <<old, new>> of them: how users edit, None to delete
  Written,      \* the domains users write themselves: [key, spec]
  Lent,         \* primary domains another namespace lends to Home
  MaxUserOps

ASSUME ClaimAssumption ==
  /\ Home \in Namespaces
  /\ \A k \in Keys : k.ns = Home
  /\ \A g \in Shapes : /\ DOMAIN g = {"rules", "primaries", "parent"}
                       /\ g.rules \in Seq(Seq(Labels))
                       /\ g.parent \in Namespaces \cup {NoParent}
  /\ \A w \in Written : w.key \in Keys /\ w.spec \in Specs
  /\ None \notin Shapes
  /\ Given \subseteq [Ingresses -> Shapes \cup {None}]
  /\ Revisions \subseteq (Shapes \cup {None}) \X (Shapes \cup {None})
  /\ MaxUserOps \in Nat

VARIABLES
  ings,     \* the ingresses, as the ingress informer shows them
  store,    \* the domains in the API server
  watch,    \* per domain, the events the informer has still to apply
  cache,    \* the domain informer's indexer
  queue,    \* keys of the ingress queue, waiting or delayed
  sync,     \* the syncIngress call in progress
  served,   \* ingresses whose last change was synced without an error
  ops       \* operations users may still do

domainVars == <<store, watch, cache>>
workVars == <<ings, store, watch, cache, queue, sync, served, ops>>
vars == <<lifecycleVars, workVars>>

-----------------------------------------------------------------------------
(* The hosts of an ingress. *)

(* Dots become hyphens: the boundary of a label is no longer visible. *)
genMetaNameFromHost(host) == FlattenSeq(host)

(* A subdomain has at least three labels. *)
extractPrimaryFromHost(host) ==
  IF Len(host) < 3 THEN [primary |-> host, sub |-> <<>>]
  ELSE [primary |-> Tail(host), sub |-> <<Head(host)>>]

(* The domain of one rule.  The annotation kolihub.io/<host>: primary makes *)
(* the whole host a primary domain, which has no parent.                    *)
HostDomain(g, host) ==
  LET parts == extractPrimaryFromHost(host) IN
  [key  |-> [ns |-> Home, name |-> genMetaNameFromHost(host)],
   spec |-> IF host \in g.primaries
            THEN [primary |-> host, sub |-> <<>>, parent |-> NoParent,
                  delegates |-> {}]
            ELSE [primary |-> parts.primary, sub |-> parts.sub,
                  parent |-> g.parent, delegates |-> {}]]

(* The instance has the domains its ingresses ask for. *)
ASSUME RulesAssumption ==
  \A g \in Shapes : \A n \in 1..Len(g.rules) :
    LET d == HostDomain(g, g.rules[n]) IN
    d.spec \in Specs /\ (IsValidDomain(d) => d.key \in Keys)

(* Mutant: every domain is appended. *)
getHostsInOrder(g) ==
  FoldLeft(LAMBDA hosts, host : Append(hosts, HostDomain(g, host)),
           <<>>, g.rules)

(* Primary domains are prepended, shared ones appended. *)
getHostsFromIngress(g) ==
  FoldLeft(LAMBDA hosts, host :
             LET d == HostDomain(g, host) IN
             IF IsPrimary(d) THEN <<d>> \o hosts ELSE Append(hosts, d),
           <<>>, g.rules)

-----------------------------------------------------------------------------
Idle == [pc |-> "idle", key |-> None, ing |-> None, todo |-> <<>>]

TypeOK ==
  /\ LifecycleTypeOK
  /\ ings \in [Ingresses -> Shapes \cup {None}]
  /\ store \in [Keys -> Domains \cup {None}]
  /\ watch \in [Keys -> Seq(Domains \cup {None})]
  /\ cache \in [Keys -> Domains \cup {None}]
  /\ queue \subseteq Ingresses
  /\ served \subseteq Ingresses
  /\ ops \in 0..MaxUserOps
  /\ \/ sync = Idle
     \/ /\ sync.pc \in {"claim", "check"}
        /\ sync.key \in Ingresses
        /\ sync.ing \in Shapes

Init ==
  /\ LifecycleInit
  /\ ings \in Given
  /\ store = [k \in Keys |-> None]
  /\ watch = [k \in Keys |-> <<>>]
  /\ cache = [k \in Keys |-> None]
  /\ queue = {}
  /\ sync = Idle
  /\ served = {}
  /\ ops = MaxUserOps

(* The API server stores d at every key of the function writes, or drops    *)
(* the key; an informer that has its first list will hear of it.            *)
PublishAll(writes) ==
  /\ store' = [k \in Keys |-> IF k \in DOMAIN writes THEN writes[k] ELSE store[k]]
  /\ watch' = [k \in Keys |-> IF k \in DOMAIN writes /\ "domain" \in proc.listed
                              THEN Append(watch[k], writes[k]) ELSE watch[k]]

Publish(k, d) == PublishAll([j \in {k} |-> d])

(* The cached object of k carries the stored resourceVersion. *)
Current(k) == watch[k] = <<>>

-----------------------------------------------------------------------------
(* Users *)

Spend == ops > 0 /\ ops' = ops - 1

(* The ingress handlers add the key; before its first list the informer     *)
(* tells nobody.                                                            *)
PutIngress(i, g) ==
  /\ Spend
  /\ <<ings[i], g>> \in Revisions
  /\ ings' = [ings EXCEPT ![i] = g]
  /\ queue' = IF "ingress" \in proc.listed THEN queue \cup {i} ELSE queue
  /\ served' = served \ {i}
  /\ UNCHANGED <<lifecycleVars, domainVars, sync>>

(* A user creates or edits a domain. *)
WriteDomain(w) ==
  /\ Spend
  /\ cluster.crd = "established"
  /\ \/ store[w.key] = None
     \/ store[w.key] # None /\ store[w.key].spec # w.spec
  /\ Publish(w.key, IF store[w.key] = None THEN NewDomain(w.spec)
                    ELSE [store[w.key] EXCEPT !.spec = w.spec])
  /\ UNCHANGED <<lifecycleVars, ings, cache, queue, sync, served>>

DeleteDomain(k) ==
  /\ Spend
  /\ store[k] # None /\ ~store[k].deleted
  /\ Publish(k, IF HasKongFinalizer(store[k])
                THEN [store[k] EXCEPT !.deleted = TRUE] ELSE None)
  /\ UNCHANGED <<lifecycleVars, ings, cache, queue, sync, served>>

-----------------------------------------------------------------------------
(* The informers *)

(* The first list of the ingresses adds every key to the queue; the domains *)
(* arrive one after the other.                                              *)
List(kind) ==
  /\ FirstList(kind)
  /\ queue' = IF kind = "ingress" THEN {i \in Ingresses : ings[i] # None}
              ELSE queue
  /\ watch' = IF kind = "domain"
              THEN [k \in Keys |-> IF store[k] = None THEN <<>> ELSE <<store[k]>>]
              ELSE watch
  /\ UNCHANGED <<ings, store, cache, sync, served, ops>>

Observe(k) ==
  /\ watch[k] # <<>>
  /\ cache' = [cache EXCEPT ![k] = Head(watch[k])]
  /\ watch' = [watch EXCEPT ![k] = Tail(@)]
  /\ UNCHANGED <<lifecycleVars, ings, store, queue, sync, served, ops>>

-----------------------------------------------------------------------------
(* syncIngress *)

Start(i) ==
  /\ "ingress" \in proc.workers
  /\ sync.pc = "idle" /\ i \in queue
  /\ queue' = queue \ {i}
  /\ sync' = IF ings[i] = None THEN sync
             ELSE [pc |-> "claim", key |-> i, ing |-> ings[i],
                   todo |-> getHostsFromIngress(ings[i])]
  /\ UNCHANGED <<lifecycleVars, ings, domainVars, served, ops>>

(* syncIngress returns an error: the key comes back after a delay. *)
Fail ==
  /\ queue' = queue \cup {sync.key}
  /\ sync' = Idle

Proceed == sync' = [sync EXCEPT !.todo = Tail(@)] /\ UNCHANGED queue

Claiming == sync.pc = "claim" /\ sync.todo # <<>>

Missing(d) == cache[d.key] = None

(* Mutants: a resource that exists is never updated; or always. *)
NeverDiffers(d) == FALSE
AlwaysDiffers(d) == cache[d.key] # None

Differs(d) == cache[d.key] # None /\ cache[d.key].spec # d.spec

(* claimDomains, for the next host d: the cached resource is as wanted. *)
ClaimKept ==
  /\ Claiming
  /\ LET d == Head(sync.todo) IN
       IsValidDomain(d) /\ ~Missing(d) /\ ~Differs(d)
  /\ Proceed
  /\ UNCHANGED <<lifecycleVars, ings, domainVars, served, ops>>

(* The body of the PUT: the cached resource with the spec of the host.  The *)
(* status of a domain that is not OK starts again.                          *)
Reclaimed(old, spec) ==
  IF old.phase = "OK" THEN [old EXCEPT !.spec = spec]
  ELSE [old EXCEPT !.spec = spec, !.phase = "New", !.reason = "",
                   !.discarded = FALSE]

(* The PUT of a cached resource that is not as wanted, or the POST of one   *)
(* that is not cached, succeeds.                                            *)
ClaimWritten ==
  LET d == Head(sync.todo) IN
  /\ IsValidDomain(d)
  /\ \/ /\ Differs(d) /\ Current(d.key) /\ store[d.key] # None
        /\ Publish(d.key, Reclaimed(cache[d.key], d.spec))
     \/ /\ Missing(d) /\ store[d.key] = None
        /\ Publish(d.key, NewDomain(d.spec))
  /\ UNCHANGED <<cache, ings, served, ops, cluster, proc>>

ClaimDomain == Claiming /\ ClaimWritten /\ Proceed /\ UNCHANGED fuel

(* The write succeeds and its answer is lost. *)
ClaimUnanswered == Claiming /\ ClaimWritten /\ Fail /\ Failure

(* The domain is invalid, the PUT is refused because the cached version is  *)
(* not the stored one, or the POST because the resource exists.             *)
ClaimRefused ==
  /\ Claiming
  /\ LET d == Head(sync.todo) IN
       \/ ~IsValidDomain(d)
       \/ /\ IsValidDomain(d)
          /\ \/ Differs(d) /\ (~Current(d.key) \/ store[d.key] = None)
             \/ Missing(d) /\ store[d.key] # None
  /\ Fail
  /\ UNCHANGED <<lifecycleVars, ings, domainVars, served, ops>>

(* A write that does not reach the API server. *)
ClaimLost ==
  /\ Claiming
  /\ LET d == Head(sync.todo) IN
       IsValidDomain(d) /\ (Missing(d) \/ Differs(d))
  /\ Fail
  /\ Failure
  /\ UNCHANGED <<cluster, proc, ings, domainVars, served, ops>>

(* All hosts have been gone through; after the pause isClaimed starts. *)
ClaimsDone ==
  /\ sync.pc = "claim" /\ sync.todo = <<>>
  /\ sync' = [sync EXCEPT !.pc = "check", !.todo = sync.ing.rules]
  /\ UNCHANGED <<lifecycleVars, ings, domainVars, queue, served, ops>>

(* isClaimed, for the next rule: the namespace has an OK domain for it. *)
isClaimed(host) ==
  \E k \in Keys : /\ cache[k] # None
                  /\ cache[k].phase = "OK"
                  /\ GetDomain(cache[k]) = host

CheckRule ==
  /\ sync.pc = "check" /\ sync.todo # <<>>
  /\ IF isClaimed(Head(sync.todo)) THEN Proceed ELSE Fail
  /\ UNCHANGED <<lifecycleVars, ings, domainVars, served, ops>>

(* The routes may be written.  served keeps the ingresses that came this    *)
(* far with their present content.                                          *)
Serve ==
  /\ sync.pc = "check" /\ sync.todo = <<>>
  /\ served' = IF ings[sync.key] = sync.ing THEN served \cup {sync.key}
               ELSE served
  /\ sync' = Idle
  /\ UNCHANGED <<lifecycleVars, ings, domainVars, queue, ops>>

-----------------------------------------------------------------------------
(* The domain worker, one step per decision of syncDomain. *)

(* syncDomain has a current copy of the domain at k, in the given phase. *)
Syncs(k, phase) ==
  /\ "domain" \in proc.workers
  /\ cache[k] # None /\ Current(k)
  /\ ~IsMarkedForDeletion(cache[k])
  /\ cache[k].phase = phase

AcceptDomain(k) ==
  /\ Syncs(k, "New")
  /\ Publish(k, [cache[k] EXCEPT !.phase = "Pending", !.finalizer = TRUE])
  /\ UNCHANGED <<lifecycleVars, cache, ings, queue, sync, served, ops>>

(* A primary domain needs to be without a rival, a shared one needs an OK   *)
(* domain of its primary in the namespace, or a lender.                     *)
Grantable(k) ==
  LET d == cache[k]
      Same(j) == cache[j] # None /\ GetPrimaryDomain(cache[j]) = GetPrimaryDomain(d)
  IN IF IsPrimary(d)
     THEN ~\E j \in Keys \ {k} : Same(j) /\ IsPrimary(cache[j])
     ELSE \/ GetPrimaryDomain(d) \in Lent
          \/ \E j \in Keys : Same(j) /\ cache[j].phase = "OK"

DecideDomain(k) ==
  /\ Syncs(k, "Pending")
  /\ Publish(k, [cache[k] EXCEPT !.phase  = IF Grantable(k) THEN "OK" ELSE "Failed",
                                 !.reason = IF Grantable(k) THEN ""
                                            ELSE IF IsPrimary(cache[k])
                                                 THEN "DomainAlreadyExists"
                                                 ELSE "DomainNotFound"])
  /\ UNCHANGED <<lifecycleVars, cache, ings, queue, sync, served, ops>>

(* After ResyncOnFailed a Failed domain is tried again, as a New one if it  *)
(* has no finalizer.                                                        *)
RetryDomain(k) ==
  /\ Syncs(k, "Failed")
  /\ Publish(k, [cache[k] EXCEPT
                   !.phase  = IF HasKongFinalizer(cache[k]) THEN "Pending" ELSE "New",
                   !.reason = ""])
  /\ UNCHANGED <<lifecycleVars, cache, ings, queue, sync, served, ops>>

(* A purge outside of this model takes the grant: of a primary domain of    *)
(* another namespace, or of the copy updateDomain left of a former identity.*)
Setback(k) ==
  /\ Syncs(k, "OK")
  /\ Failure
  /\ Publish(k, [cache[k] EXCEPT !.phase = "Failed", !.reason = "DomainDeleted"])
  /\ UNCHANGED <<cluster, proc, cache, ings, queue, sync, served, ops>>

(* The purge of a deleted domain fails the domains of the same primary, if  *)
(* it is a primary domain itself, and removes it.                           *)
PurgeDomain(k) ==
  /\ "domain" \in proc.workers
  /\ cache[k] # None /\ IsMarkedForDeletion(cache[k]) /\ Current(k)
  /\ LET others == {j \in Keys \ {k} :
                      /\ IsPrimary(cache[k]) /\ store[j] # None
                      /\ GetPrimaryDomain(store[j]) = GetPrimaryDomain(cache[k])}
     IN PublishAll([j \in others \cup {k} |->
          IF j = k THEN None
          ELSE [store[j] EXCEPT !.phase = "Failed", !.reason = "DomainDeleted"]])
  /\ UNCHANGED <<lifecycleVars, cache, ings, queue, sync, served, ops>>

-----------------------------------------------------------------------------
(* The process *)

(* Queue, caches and calls in progress die with the process. *)
Forget ==
  /\ watch' = [k \in Keys |-> <<>>]
  /\ cache' = [k \in Keys |-> None]
  /\ queue' = {}
  /\ sync' = Idle
  /\ served' = {}
  /\ UNCHANGED <<ings, store, ops>>

Boot == BootStep /\ IF Dies THEN Forget ELSE UNCHANGED workVars

Trouble ==
  /\ FatalOutage \/ ListenFails \/ Crash
  /\ IF Dies THEN Forget ELSE UNCHANGED workVars

Judge == (\E v \in {"established", "refused"} : JudgeCRD(v)) /\ UNCHANGED workVars

-----------------------------------------------------------------------------
Users ==
  \/ \E i \in Ingresses, g \in Shapes \cup {None} : PutIngress(i, g)
  \/ \E w \in Written : WriteDomain(w)
  \/ \E k \in Keys : DeleteDomain(k)

SyncStep ==
  \/ ClaimKept \/ ClaimDomain \/ ClaimRefused \/ ClaimsDone
  \/ CheckRule \/ Serve

DomainStep(k) ==
  AcceptDomain(k) \/ DecideDomain(k) \/ RetryDomain(k) \/ PurgeDomain(k)

Next ==
  \/ Boot \/ Trouble \/ Judge \/ Users
  \/ \E kind \in Kinds : List(kind)
  \/ \E i \in Ingresses : Start(i)
  \/ SyncStep \/ ClaimUnanswered \/ ClaimLost
  \/ \E k \in Keys : Observe(k) \/ DomainStep(k) \/ Setback(k)

Spec == Init /\ [][Next]_vars

(***************************************************************************)
(* The kubelet, the API server, main, Run, the server's goroutine, the     *)
(* informers and the two workers go on; the queue hands out its keys in    *)
(* turn.  Users owe nothing, failures are bounded by the budget.           *)
(***************************************************************************)
Fairness ==
  /\ WF_vars(Boot \/ \E kind \in Kinds : List(kind))
  /\ WF_vars(Judge)
  /\ WF_vars(SyncStep)
  /\ \A i \in Ingresses : SF_vars(Start(i))
  /\ \A k \in Keys : WF_vars(Observe(k)) /\ WF_vars(DomainStep(k))

LiveSpec == Spec /\ Fairness

-----------------------------------------------------------------------------
Present == {i \in Ingresses : ings[i] # None}

RuleHosts(g) == {g.rules[n] : n \in 1..Len(g.rules)}

(* The domains the namespace's ingresses ask for. *)
Wants(i) == {HostDomain(ings[i], h) : h \in RuleHosts(ings[i])}

(* No two rules, of one ingress or of two, want different domains under one *)
(* resource name.                                                           *)
Agreement ==
  \A i, j \in Present : \A c \in Wants(i), d \in Wants(j) :
    c.key = d.key => c.spec = d.spec

(* The namespace may have every domain of the ingress: it is valid, and a   *)
(* shared one has its primary among them, or lent by another namespace.     *)
Claimable(i) ==
  /\ i \in Present
  /\ \A d \in Wants(i) :
       /\ IsValidDomain(d)
       /\ \/ IsPrimary(d)
          \/ GetPrimaryDomain(d) \in Lent
          \/ \E c \in Wants(i) : /\ IsPrimary(c)
                                  /\ GetPrimaryDomain(c) = GetPrimaryDomain(d)

(* What getHostsFromIngress makes of an ingress: one domain per rule, whose *)
(* host is the rule's (isClaimed compares them), the primary domains before *)
(* the shared ones that may need them; a host of two labels or more is a    *)
(* valid domain.                                                            *)
HostsExact ==
  \A i \in Present :
    LET ds == getHostsFromIngress(ings[i]) IN
    /\ Len(ds) = Len(ings[i].rules)
    /\ {GetDomain(ds[n]) : n \in 1..Len(ds)} = RuleHosts(ings[i])
    /\ \A m, n \in 1..Len(ds) : m < n /\ IsPrimary(ds[n]) => IsPrimary(ds[m])
    /\ \A n \in 1..Len(ds) : Len(GetDomain(ds[n])) >= 2 => IsValidDomain(ds[n])

(* A domain of the ingress that still has another spec fails and is retried *)
(* for ever, and each PUT of claimDomains meets such a retry.               *)
LosesEveryRace(i) ==
  []<><<i \in Present /\ \E d \in Wants(i) : /\ IsValidDomain(d) /\ Differs(d)
                                            /\ RetryDomain(d.key)>>_vars

(* Auto-claim keeps its promise: an ingress whose domains the namespace may *)
(* have is served in the end, whatever a user, a former ingress or a former *)
(* life of the process left behind under their names, whichever writes were *)
(* refused or lost, and although the worker may start before the domain     *)
(* cache is filled.  Only a race lost again and again may prevent it.       *)
IngressClaimed ==
  \A i \in Ingresses :
    <>[](Claimable(i) /\ Agreement /\ cluster.crd = "established")
      => <>[](i \in served) \/ LosesEveryRace(i)

(* claimDomains comes to rest: when the ingresses agree, it does not write  *)
(* domains for ever, also if some of them are never granted.                *)
ClaimsSettle ==
  <>[]Agreement
    => <>[][sync.pc = "claim" /\ sync'.todo # sync.todo => UNCHANGED store]_vars
=============================================================================
