--------------------------- MODULE PrimarySearch ---------------------------
(***************************************************************************)
(* SearchForPrimary (pkg/controller/utils.go): which domain, if any, lets a*)
(* shared domain be claimed.  It lists up to three namespaces; the callback*)
(* of searchPrimaryByNamespace sees the domains of a namespace in the order*)
(* of a Go map, that is in any order, and overwrites its result as it goes.*)
(*                                                                         *)
(* DomainClaims uses the search by its outcome (FoundIn, SearchOrder); this*)
(* module shows that the loop computes it.  The domain cache and the domain*)
(* searched for are inputs, chosen in Init.                                *)
(***************************************************************************)
EXTENDS DomainTypes

CONSTANTS
  Caches,     \* the contents of the domain cache to search
  Askers      \* the shared domains that search: [key, obj]

ASSUME SearchAssumption ==
  /\ Caches \subseteq [Keys -> Domains \cup {None}]
  /\ \A a \in Askers : a.key \in Keys /\ a.obj \in Domains
  /\ None \notin Keys

VARIABLES
  cache,   \* the indexer
  asker,   \* the domain whose primary is searched
  left,    \* the namespaces still to be listed, the current one first
  unseen,  \* the keys of the current list the callback has not seen
  found,   \* primaryDomain: a key, or None
  done     \* the search has returned

vars == <<cache, asker, left, unseen, found, done>>

(* ListAllByNamespace. *)
InNamespace(ns) == {j \in Keys : j.ns = ns /\ cache[j] # None}

TypeOK ==
  /\ cache \in Caches
  /\ asker \in Askers
  /\ left \in Seq(Namespaces)
  /\ unseen \subseteq Keys
  /\ found \in Keys \cup {None}
  /\ done \in BOOLEAN

Init ==
  /\ cache \in Caches
  /\ asker \in Askers
  /\ left = SearchOrder(asker.key, asker.obj)
  /\ unseen = InNamespace(Head(left))
  /\ found = None
  /\ done = FALSE

(* Mutant: delegation is checked, ownership of the namespace is not. *)
AcceptsDelegated(j) ==
  /\ cache[j].phase = "OK"
  /\ GetPrimaryDomain(cache[j]) = GetPrimaryDomain(asker.obj)
  /\ cache[j].spec.delegates \cap {asker.key.ns, Wildcard} # {}

(* The callback's test on the domain at j, with its two ways to succeed. *)
Accepts(j) ==
  /\ cache[j].phase = "OK"
  /\ GetPrimaryDomain(cache[j]) = GetPrimaryDomain(asker.obj)
  /\ \/ j.ns = asker.key.ns
     \/ \E n \in cache[j].spec.delegates : n = asker.key.ns \/ n = Wildcard

(* Mutant: "already found" skips every further domain. *)
SkipsAll(j) == found # None

(* "skip, the primaryDomain was already found": only shared domains are. *)
Skips(j) == found # None /\ ~IsPrimary(cache[j])

Visit(j) ==
  /\ ~done
  /\ j \in unseen
  /\ unseen' = unseen \ {j}
  /\ found' = IF ~Skips(j) /\ Accepts(j) THEN j ELSE found
  /\ UNCHANGED <<cache, asker, left, done>>

(* Mutant: the search goes on after a namespace that had an answer. *)
NextNamespaceAlways ==
  /\ ~done
  /\ unseen = {}
  /\ Len(left) > 1
  /\ left' = Tail(left)
  /\ unseen' = InNamespace(left[2])
  /\ UNCHANGED <<cache, asker, found, done>>

(* One namespace is through: return what was found, or list the next. *)
NextNamespace ==
  /\ ~done
  /\ unseen = {}
  /\ found = None
  /\ Len(left) > 1
  /\ left' = Tail(left)
  /\ unseen' = InNamespace(left[2])
  /\ UNCHANGED <<cache, asker, found, done>>

Finish ==
  /\ ~done
  /\ unseen = {}
  /\ found # None \/ Len(left) = 1
  /\ done' = TRUE
  /\ UNCHANGED <<cache, asker, left, unseen, found>>

Next == (\E j \in Keys : Visit(j)) \/ NextNamespace \/ Finish

Spec == Init /\ [][Next]_vars

-----------------------------------------------------------------------------
(* What DomainClaims says of one list. *)
Servers(ns) ==
  {j \in InNamespace(ns) : Serves(j, cache[j], asker.key, asker.obj)}

Order == SearchOrder(asker.key, asker.obj)

Searched == {Order[i] : i \in 1..Len(Order)}

(* The search finds a domain exactly when one of the namespaces it looks    *)
(* into has a domain that serves the asker, and what it finds serves him,   *)
(* whatever the order of the lists.                                         *)
FindsServer ==
  done =>
    /\ found = None <=> \A ns \in Searched : Servers(ns) = {}
    /\ found # None => \E ns \in Searched : found \in Servers(ns)

(* Among the domains of one namespace a primary one is preferred: a shared  *)
(* domain is returned only when no primary domain there serves the asker.   *)
PrefersPrimary ==
  done /\ found # None /\ ~IsPrimary(cache[found])
    => \A j \in Servers(found.ns) : ~IsPrimary(cache[j])

(* The parent comes before the asker's own namespace, and that before the   *)
(* system namespace: no namespace earlier in the order serves the asker.    *)
KeepsOrder ==
  done /\ found # None =>
    \E i \in 1..Len(Order) : /\ Order[i] = found.ns
                            /\ \A h \in 1..(i - 1) : Servers(Order[h]) = {}

-----------------------------------------------------------------------------
(* How far the search is: the namespaces before the current one have no     *)
(* server, and of the current one the domains not left unseen decided found.*)
Current == Len(Order) - Len(left) + 1

Position ==
  /\ Current \in 1..Len(Order)
  /\ \A h \in 1..Len(left) : left[h] = Order[Current + h - 1]
  /\ \A h \in 1..(Current - 1) : Servers(Order[h]) = {}
  /\ unseen \subseteq InNamespace(Order[Current])
  /\ IF found = None
     THEN Servers(Order[Current]) \subseteq unseen
     ELSE /\ found \in Servers(Order[Current])
          /\ ~IsPrimary(cache[found])
               => \A j \in Servers(Order[Current]) \ unseen : ~IsPrimary(cache[j])
  /\ done => unseen = {} /\ (found # None \/ Len(left) = 1)

SearchInv == TypeOK /\ Position
=============================================================================
