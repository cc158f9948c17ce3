-------------------------- MODULE AutoClaimProofs --------------------------
(***************************************************************************)
(* Proofs about the life of the process, for every set of ingresses and    *)
(* domains, any number of operations, failures, crashes and restarts, and  *)
(* whatever the process does in between.                                   *)
(***************************************************************************)
EXTENDS AutoClaim, TLAPS

(* Why an informer finds its resource served.  Prepared looks at a process  *)
(* whose informers run; that it holds is the order of main's calls, each of *)
(* which leaves something in the cluster that later lives do not undo.      *)
BootOrder ==
  /\ proc.main \in {"create", "poll", "launch", "block"}
       => InPod \/ cluster.namespace
  /\ proc.main \in {"launch", "block"} => cluster.crd = "established"
  /\ proc.informers # {} => proc.main = "block"

LifeInv == LifecycleTypeOK /\ BootOrder

-----------------------------------------------------------------------------
LEMMA LifeInit == LifecycleInit => LifeInv
BY LifecycleAssumption
DEF LifecycleInit, LifeInv, LifecycleTypeOK, BootOrder, Booting, Processes

LEMMA FailureType ==
  ASSUME LifecycleTypeOK, Failure
  PROVE  fuel' \in 0..MaxFailures
BY LifecycleAssumption DEF LifecycleTypeOK, Failure

(* A process that has died, or has just begun, owes nothing. *)
LEMMA Fresh ==
  /\ Dead \in Processes /\ Booting \in Processes
  /\ Dead.main = "dead" /\ Booting.main = "version"
  /\ Dead.informers = {} /\ Booting.informers = {}
BY LifecycleAssumption DEF Dead, Booting, Processes

LEMMA DeadInv ==
  ASSUME LifeInv, proc' \in {Dead, Booting}, fuel' \in 0..MaxFailures,
         \/ UNCHANGED cluster
         \/ cluster' = [cluster EXCEPT !.namespace = TRUE]
         \/ cluster' = [cluster EXCEPT !.crd = "pending"]
  PROVE  LifeInv'
<1>1. LifecycleTypeOK'
  BY Fresh DEF LifeInv, LifecycleTypeOK
<1>2. BootOrder'
  BY Fresh DEF BootOrder
<1> QED
  BY <1>1, <1>2 DEF LifeInv

(* main up to Launch. *)
LEMMA MainInv ==
  ASSUME LifeInv,
         CheckVersion \/ CreateNamespace \/ CreateCRD \/ waitCRDReady \/ Launch
  PROVE  LifeInv'
<1> USE LifecycleAssumption
<1>1. CASE CheckVersion
  BY <1>1 DEF CheckVersion, LifeInv, LifecycleTypeOK, BootOrder, Processes
<1>2. CASE CreateNamespace
  BY <1>2 DEF CreateNamespace, LifeInv, LifecycleTypeOK, BootOrder, Processes
<1>3. CASE CreateCRD
  <2>1. 0 \in 0..MaxPolls
    OBVIOUS
  <2>2. /\ proc' \in Processes
        /\ proc'.main = "poll" /\ proc'.informers = proc.informers
    BY <1>3, <2>1 DEF CreateCRD, LifeInv, LifecycleTypeOK, Processes
  <2>3. LifecycleTypeOK' /\ cluster'.namespace = cluster.namespace
    BY <1>3, <2>2 DEF CreateCRD, LifeInv, LifecycleTypeOK
  <2>4. BootOrder'
    BY <1>3, <2>2, <2>3 DEF CreateCRD, LifeInv, BootOrder
  <2> QED
    BY <2>3, <2>4 DEF LifeInv
<1>4. CASE waitCRDReady
  <2>1. CASE proc' = Dead
    BY <1>4, <2>1, DeadInv DEF waitCRDReady, LifeInv, LifecycleTypeOK
  <2>2. CASE cluster.crd = "established"
    BY <1>4, <2>2 DEF waitCRDReady, LifeInv, LifecycleTypeOK, BootOrder, Processes
  <2>3. CASE cluster.crd = "pending" /\ proc.polls < MaxPolls
    BY <1>4, <2>3 DEF waitCRDReady, LifeInv, LifecycleTypeOK, BootOrder, Processes
  <2> QED
    BY <1>4, <2>1, <2>2, <2>3 DEF waitCRDReady
<1>5. CASE Launch
  BY <1>5
  DEF Launch, InstallHandler, LifeInv, LifecycleTypeOK, BootOrder, Processes
<1> QED
  BY <1>1, <1>2, <1>3, <1>4, <1>5

(* Run and the server. *)
LEMMA RunInv ==
  ASSUME LifeInv,
         \/ StartInformers \/ StartWorkers
         \/ \E kind \in Kinds : FirstList(kind)
  PROVE  LifeInv'
BY DEF StartInformers, StartWorkers, FirstList, Kinds, LifeInv,
       LifecycleTypeOK, BootOrder, Processes

LEMMA ServerInv ==
  ASSUME LifeInv, Listen \/ ListenFails
  PROVE  LifeInv'
<1>1. CASE proc' = Dead
  BY <1>1, DeadInv, FailureType
  DEF Listen, ListenFails, LifeInv, LifecycleTypeOK
<1>2. CASE Listen /\ proc' # Dead
  BY <1>2 DEF Listen, LifeInv, LifecycleTypeOK, BootOrder, Processes
<1>3. CASE ListenFails
  BY <1>3, FailureType
  DEF ListenFails, LifeInv, LifecycleTypeOK, BootOrder, Processes
<1> QED
  BY <1>1, <1>2, <1>3

(* Failures, the kubelet and the API server. *)
LEMMA WorldInv ==
  ASSUME LifeInv,
         \/ FatalOutage \/ Crash \/ Reboot
         \/ \E v \in {"established", "refused"} : JudgeCRD(v)
  PROVE  LifeInv'
<1>1. CASE FatalOutage
  BY <1>1, DeadInv, FailureType DEF FatalOutage, LifeInv
<1>2. CASE Crash
  BY <1>2, DeadInv, FailureType DEF Crash, LifeInv
<1>3. CASE Reboot
  BY <1>3, DeadInv DEF Reboot, LifeInv, LifecycleTypeOK
<1>4. CASE \E v \in {"established", "refused"} : JudgeCRD(v)
  BY <1>4 DEF JudgeCRD, LifeInv, LifecycleTypeOK, BootOrder, Processes
<1> QED
  BY <1>1, <1>2, <1>3, <1>4

(* The work of the process leaves its life alone, except for the failures.  *)
LEMMA WorkInv ==
  ASSUME LifeInv, UNCHANGED <<cluster, proc>>, UNCHANGED fuel \/ Failure
  PROVE  LifeInv'
<1>1. fuel' \in 0..MaxFailures
  BY FailureType DEF LifeInv, LifecycleTypeOK
<1> QED
  BY <1>1 DEF LifeInv, LifecycleTypeOK, BootOrder

LEMMA UsersInv ==
  ASSUME LifeInv, Users
  PROVE  LifeInv'
<1>1. UNCHANGED lifecycleVars
  BY DEF Users, PutIngress, WriteDomain, DeleteDomain
<1> QED
  BY <1>1, WorkInv DEF lifecycleVars

LEMMA SyncInv ==
  ASSUME LifeInv,
         SyncStep \/ ClaimUnanswered \/ ClaimLost
           \/ \E i \in Ingresses : Start(i)
  PROVE  LifeInv'
<1>1. UNCHANGED <<cluster, proc>>
  BY DEF SyncStep, ClaimKept, ClaimDomain, ClaimWritten, ClaimRefused,
         ClaimsDone, CheckRule, Serve, ClaimUnanswered, ClaimLost, Start,
         lifecycleVars
<1>2. UNCHANGED fuel \/ Failure
  BY DEF SyncStep, ClaimKept, ClaimDomain, ClaimRefused, ClaimsDone, CheckRule,
         Serve, ClaimUnanswered, ClaimLost, Start, lifecycleVars
<1> QED
  BY <1>1, <1>2, WorkInv

LEMMA DomainInv ==
  ASSUME LifeInv, NEW k \in Keys, Observe(k) \/ DomainStep(k) \/ Setback(k)
  PROVE  LifeInv'
<1>1. UNCHANGED <<cluster, proc>> /\ (UNCHANGED fuel \/ Failure)
  BY DEF Observe, DomainStep, AcceptDomain, DecideDomain, RetryDomain,
         PurgeDomain, Setback, lifecycleVars
<1> QED
  BY <1>1, WorkInv

LEMMA LifeNext == LifeInv /\ [Next]_vars => LifeInv'
<1> SUFFICES ASSUME LifeInv, [Next]_vars
             PROVE  LifeInv'
  OBVIOUS
<1>1. CASE Boot
  BY <1>1, MainInv, RunInv, ServerInv, WorldInv DEF Boot, BootStep
<1>2. CASE Trouble
  BY <1>2, ServerInv, WorldInv DEF Trouble
<1>3. CASE Judge
  BY <1>3, WorldInv DEF Judge
<1>4. CASE Users
  BY <1>4, UsersInv
<1>5. CASE \E kind \in Kinds : List(kind)
  BY <1>5, RunInv DEF List
<1>6. CASE SyncStep \/ ClaimUnanswered \/ ClaimLost \/ \E i \in Ingresses : Start(i)
  BY <1>6, SyncInv
<1>7. CASE \E k \in Keys : Observe(k) \/ DomainStep(k) \/ Setback(k)
  BY <1>7, DomainInv
<1>8. CASE UNCHANGED vars
  BY <1>8, WorkInv DEF vars, lifecycleVars
<1> QED
  BY <1>1, <1>2, <1>3, <1>4, <1>5, <1>6, <1>7, <1>8 DEF Next

(* No life of the process starts an informer before the custom resource is  *)
(* served and the namespace is there, wherever earlier lives were cut short *)
(* (main, CreateCRD, waitCRDReady, Run).                                    *)
THEOREM InformersPrepared == Spec => []Prepared
<1>1. Init => LifeInv
  BY LifeInit DEF Init
<1>2. LifeInv => Prepared
  BY DEF LifeInv, BootOrder, Prepared
<1> QED
  BY <1>1, <1>2, LifeNext, PTL DEF Spec
=============================================================================
