---------------------------- MODULE DomainTypes ----------------------------
(***************************************************************************)
(* The Domain custom resource (pkg/kong/types.go) and the predicates the   *)
(* controller computes from one resource alone (pkg/kong/spec.go).         *)
(*                                                                         *)
(* A host name is the sequence of its labels: acme.org is <<"acme","org">>,*)
(* and the empty Sub of a primary domain is <<>>.  A resource key is its   *)
(* namespace and its name; a name is a sequence too, because the copy that *)
(* updateDomain posts is named after its original (CopyKey).               *)
(***************************************************************************)
EXTENDS Naturals, Sequences, FiniteSets

CONSTANTS
  Labels,            \* labels of host names
  Namespaces,        \* Kubernetes namespaces
  SystemNamespace,   \* cfg.PodNamespace, the controller's own namespace
  NoParent,          \* Spec.Parent = ""
  Wildcard,          \* the delegate "*"
  Specs,             \* the DomainSpecs users write
  Keys,              \* the resource keys of the instance
  None               \* no object

Hosts == {s.sub \o s.primary : s \in Specs}

ASSUME TypesAssumption ==
  /\ SystemNamespace \in Namespaces
  /\ NoParent \notin Namespaces
  /\ \A s \in Specs : /\ DOMAIN s = {"primary", "sub", "parent", "delegates"}
                      /\ s.primary \in Seq(Labels)
                      /\ s.sub \in Seq(Labels)
                      /\ s.parent \in Namespaces \cup {NoParent}
                      /\ s.delegates \subseteq Namespaces \cup {Wildcard}
  /\ \A k \in Keys : k.ns \in Namespaces

Phases == {"New", "Pending", "OK", "Failed"}

(* The (reason, message) pairs of the code, named by the reason; "" is the  *)
(* reason of a New, Pending or OK domain.                                   *)
Reasons == {"", "Invalid", "DomainDeleted", "DomainAlreadyExists",
            "DomainNotFound"}

(* metadata.deletionTimestamp is deleted, status.deletionTimestamp is       *)
(* discarded; only the finalizer kolihub.io/kong is kept.  resourceVersion  *)
(* is modelled where it is compared (DomainClaims, worker.stale).           *)
Domains == [spec      : Specs,
            phase     : Phases,
            reason    : Reasons,
            finalizer : BOOLEAN,
            deleted   : BOOLEAN,
            discarded : BOOLEAN]

ASSUME NoneAssumption == None \notin Domains

(* A resource as a user, or claimDomains, creates it. *)
NewDomain(s) == [spec |-> s, phase |-> "New", reason |-> "",
                 finalizer |-> FALSE, deleted |-> FALSE, discarded |-> FALSE]

-----------------------------------------------------------------------------
HasKongFinalizer(d) == d.finalizer

IsMarkedForDeletion(d) == d.deleted \/ d.discarded

IsPrimary(d) == d.spec.sub = <<>>

(* Sub has at most one label, the primary domain at least two. *)
IsValidDomain(d) == Len(d.spec.sub) =< 1 /\ Len(d.spec.primary) >= 2

IsValidSharedDomain(d) == ~IsPrimary(d) /\ IsValidDomain(d)

GetDomain(d) == d.spec.sub \o d.spec.primary

GetPrimaryDomain(d) == d.spec.primary

(* What updateDomain compares: PrimaryDomain and Sub. *)
Identity(d) == <<d.spec.primary, d.spec.sub>>

(* old.Name-hash(new.PrimaryDomain + new.Sub) in old.Namespace.  The two    *)
(* strings are joined without a separator before they are hashed.           *)
CopyKey(k, new) ==
  [k EXCEPT !.name = Append(@, new.spec.primary \o new.spec.sub)]

-----------------------------------------------------------------------------
(* searchPrimaryByNamespace: may the domain dom, at key kd, answer a search *)
(* for the primary of d, at key k?  An OK domain of the same PrimaryDomain  *)
(* serves its own namespace, and the namespaces it delegates to.  The code  *)
(* does not ask that dom be a primary domain itself.                        *)
Serves(kd, dom, k, d) ==
  /\ dom.phase = "OK"
  /\ GetPrimaryDomain(dom) = GetPrimaryDomain(d)
  /\ \/ kd.ns = k.ns
     \/ dom.spec.delegates \cap {k.ns, Wildcard} # {}

(* SearchForPrimary: the namespaces it lists, in order: the parent if one   *)
(* is given, the resource's own, and the system namespace unless it is one  *)
(* of those.                                                                *)
SearchOrder(k, d) ==
  (IF d.spec.parent = NoParent THEN <<>> ELSE <<d.spec.parent>>)
    \o <<k.ns>>
    \o (IF SystemNamespace \in {k.ns, d.spec.parent}
        THEN <<>> ELSE <<SystemNamespace>>)
=============================================================================
