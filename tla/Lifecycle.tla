----------------------------- MODULE Lifecycle -----------------------------
(***************************************************************************)
(* The process: main (cmd/main.go), the set-up of the custom resource      *)
(* (CreateCRD), KongController.Run, and the health and metrics server.     *)
(* The process may die between any two steps: a call that fails before Run *)
(* is fatal, and a panic anywhere ends the process, because the HandleCrash*)
(* of this client-go version panics again.  What it leaves behind is in    *)
(* the cluster; the kubelet starts it again.                               *)
(*                                                                         *)
(* The module has the actions only; AutoClaim composes them with the work  *)
(* the process does.                                                       *)
(***************************************************************************)
EXTENDS Naturals

CONSTANTS
  InPod,         \* POD_NAMESPACE is set
  HealthzPort,   \* cfg.HealthzPort; 0 switches the server off
  MaxPolls,      \* polls of the CRD before wait.Poll times out (30 s / 1 s)
  MaxFailures    \* panics, kills, calls that fail or lose their answer

ASSUME LifecycleAssumption ==
  /\ InPod \in BOOLEAN
  /\ HealthzPort \in Nat
  /\ MaxPolls \in Nat \ {0}
  /\ MaxFailures \in Nat

VARIABLES
  cluster,   \* what the API server keeps: the default namespace, the CRD
  proc,      \* the memory of the process
  fuel       \* failures that may still happen

lifecycleVars == <<cluster, proc, fuel>>

(* The informers, the task queues and the workers come in three kinds. *)
Kinds == {"ingress", "service", "domain"}

(* The kinds WaitForCacheSync waits for. *)
Awaited == {"ingress", "service"}

(* main     what main does next                                             *)
(* polls    polls of the CRD so far                                         *)
(* informers, listed, workers   the kinds whose informer runs, whose first  *)
(*          list has arrived, whose worker runs                             *)
(* patterns the patterns registered with http.DefaultServeMux               *)
(* server   what the goroutine of ListenAndServeAll does next               *)
Processes ==
  [main      : {"version", "namespace", "create", "poll", "launch", "block",
                "dead"},
   polls     : 0..MaxPolls,
   informers : SUBSET Kinds,
   listed    : SUBSET Kinds,
   workers   : SUBSET Kinds,
   patterns  : SUBSET {"/healthz", "/healthz/ping", "/metrics"},
   server    : {"off", "listen", "up"}]

LifecycleTypeOK ==
  /\ cluster \in [namespace : BOOLEAN,
                  crd : {"absent", "pending", "established", "refused"}]
  /\ proc \in Processes
  /\ fuel \in 0..MaxFailures

Booting == [main |-> "version", polls |-> 0, informers |-> {}, listed |-> {},
            workers |-> {}, patterns |-> {}, server |-> "off"]

Dead == [Booting EXCEPT !.main = "dead"]

LifecycleInit ==
  /\ cluster = [namespace |-> FALSE, crd |-> "absent"]
  /\ proc = Booting
  /\ fuel = MaxFailures

Failure == fuel > 0 /\ fuel' = fuel - 1

-----------------------------------------------------------------------------
(* main *)

(* Whatever Kong answers, or if it does not, is only logged. *)
CheckVersion ==
  /\ proc.main = "version"
  /\ proc' = [proc EXCEPT !.main = "namespace"]
  /\ UNCHANGED <<cluster, fuel>>

(* createDefaultNamespace, unless POD_NAMESPACE names the namespace; that   *)
(* it exists already is no error.                                           *)
CreateNamespace ==
  /\ proc.main = "namespace"
  /\ cluster' = [cluster EXCEPT !.namespace = @ \/ ~InPod]
  /\ proc' = [proc EXCEPT !.main = "create"]
  /\ UNCHANGED fuel

(* Mutants: a CRD that exists already is taken for ready; or for an error. *)
CreateCRDUnawaited ==
  /\ proc.main = "create"
  /\ cluster' = [cluster EXCEPT !.crd = IF @ = "absent" THEN "pending" ELSE @]
  /\ proc' = [proc EXCEPT !.main = IF cluster.crd = "absent" THEN "poll"
                                   ELSE "launch", !.polls = 0]
  /\ UNCHANGED fuel

CreateCRDOnce ==
  /\ proc.main = "create"
  /\ cluster' = [cluster EXCEPT !.crd = IF @ = "absent" THEN "pending" ELSE @]
  /\ proc' = IF cluster.crd = "absent" THEN [proc EXCEPT !.main = "poll"] ELSE Dead
  /\ UNCHANGED fuel

(* CreateCRD: a CRD that exists already, from an earlier life of the        *)
(* process, is waited for like a new one.                                   *)
CreateCRD ==
  /\ proc.main = "create"
  /\ cluster' = [cluster EXCEPT !.crd = IF @ = "absent" THEN "pending" ELSE @]
  /\ proc' = [proc EXCEPT !.main = "poll", !.polls = 0]
  /\ UNCHANGED fuel

(* Mutant: one poll more than the timeout allows. *)
waitCRDReadyLonger ==
  /\ proc.main = "poll"
  /\ proc' = CASE cluster.crd = "established" -> [proc EXCEPT !.main = "launch"]
               [] cluster.crd = "pending" /\ proc.polls =< MaxPolls ->
                    [proc EXCEPT !.polls = @ + 1]
               [] OTHER -> Dead
  /\ UNCHANGED <<cluster, fuel>>

(* waitCRDReady: one poll.  A refused name and the last poll are fatal. *)
waitCRDReady ==
  /\ proc.main = "poll"
  /\ proc' = CASE cluster.crd = "established" -> [proc EXCEPT !.main = "launch"]
               [] cluster.crd = "pending" /\ proc.polls < MaxPolls ->
                    [proc EXCEPT !.polls = @ + 1]
               [] OTHER -> Dead
  /\ UNCHANGED <<cluster, fuel>>

(* A call of main to the API server fails, with or without effect; either   *)
(* is fatal.                                                                *)
FatalOutage ==
  /\ proc.main \in {"namespace", "create", "poll"}
  /\ Failure
  /\ \/ UNCHANGED cluster
     \/ /\ proc.main = "namespace" /\ ~InPod
        /\ cluster' = [cluster EXCEPT !.namespace = TRUE]
     \/ /\ proc.main = "create" /\ cluster.crd = "absent"
        /\ cluster' = [cluster EXCEPT !.crd = "pending"]
  /\ proc' = Dead

(* DefaultHealthz: the handlers of the default checks, the ping alone. *)
InstallHandler(patterns) == patterns \cup {"/healthz", "/healthz/ping"}

(* The goroutine of Run is started, the health handlers are installed, the  *)
(* goroutine of the server is started, and main blocks for ever.            *)
Launch ==
  /\ proc.main = "launch"
  /\ proc' = [proc EXCEPT !.main = "block",
                !.patterns = IF HealthzPort > 0 THEN InstallHandler(@) ELSE @,
                !.server   = IF HealthzPort > 0 THEN "listen" ELSE @]
  /\ UNCHANGED <<cluster, fuel>>

-----------------------------------------------------------------------------
(* KongController.Run *)

StartInformers ==
  /\ proc.main = "block" /\ proc.informers = {}
  /\ proc' = [proc EXCEPT !.informers = Kinds]
  /\ UNCHANGED <<cluster, fuel>>

(* The first list of an informer arrives: HasSynced. *)
FirstList(kind) ==
  /\ kind \in proc.informers \ proc.listed
  /\ proc' = [proc EXCEPT !.listed = @ \cup {kind}]
  /\ UNCHANGED <<cluster, fuel>>

(* WaitForCacheSync does not name the domain informer. *)
StartWorkers ==
  /\ proc.informers # {} /\ proc.workers = {}
  /\ Awaited \subseteq proc.listed
  /\ proc' = [proc EXCEPT !.workers = Kinds]
  /\ UNCHANGED <<cluster, fuel>>

-----------------------------------------------------------------------------
(* ListenAndServeAll *)

(* One round of the function under Until: http.Handle panics on a pattern   *)
(* that is registered already, otherwise ListenAndServe takes the port.     *)
Listen ==
  /\ proc.server = "listen"
  /\ proc' = IF "/metrics" \in proc.patterns THEN Dead
             ELSE [proc EXCEPT !.patterns = @ \cup {"/metrics"}, !.server = "up"]
  /\ UNCHANGED <<cluster, fuel>>

(* ListenAndServe returns, because the port is taken or accepting fails;    *)
(* Until calls the function again five seconds later.                       *)
ListenFails ==
  /\ Failure
  /\ \/ proc.server = "up"
     \/ proc.server = "listen" /\ "/metrics" \notin proc.patterns
  /\ proc' = [proc EXCEPT !.patterns = @ \cup {"/metrics"}, !.server = "listen"]
  /\ UNCHANGED cluster

-----------------------------------------------------------------------------
(* The process is killed, or a goroutine panics. *)
Crash ==
  /\ proc.main # "dead"
  /\ Failure
  /\ proc' = Dead
  /\ UNCHANGED cluster

(* The kubelet starts the container again. *)
Reboot ==
  /\ proc.main = "dead"
  /\ proc' = Booting
  /\ UNCHANGED <<cluster, fuel>>

(* The API server accepts the names of the CRD, or finds them taken; a      *)
(* conflict may be resolved later.                                          *)
JudgeCRD(verdict) ==
  /\ \/ cluster.crd = "pending" /\ verdict \in {"established", "refused"}
     \/ cluster.crd = "refused" /\ verdict = "established"
  /\ cluster' = [cluster EXCEPT !.crd = verdict]
  /\ UNCHANGED <<proc, fuel>>

-----------------------------------------------------------------------------
(* The steps that lead to a running controller. *)
BootStep ==
  \/ CheckVersion \/ CreateNamespace \/ CreateCRD \/ waitCRDReady \/ Launch
  \/ StartInformers \/ StartWorkers \/ Listen \/ Reboot

(* Some goroutine of the process dies, and the process with it. *)
Dies == proc.main # "dead" /\ proc'.main = "dead"

-----------------------------------------------------------------------------
(* No informer is started before its resource is served and the namespace   *)
(* of the cluster's own domains is there, whichever calls of this or of an  *)
(* earlier life of the process were cut short: a CRD that an earlier life   *)
(* created need not be established yet (CreateCRD, waitCRDReady).           *)
Prepared ==
  proc.informers # {} => /\ cluster.crd = "established"
                         /\ InPod \/ cluster.namespace

(* After the last failure the controller comes up, with its workers and its *)
(* server, and stays up: no start is blocked by what an earlier one left    *)
(* behind, and none waits for what never comes.  Only a CRD whose names     *)
(* stay refused prevents it.                                                *)
ControllerUp ==
  <>[](\/ cluster.crd = "refused"
       \/ proc.workers = Kinds /\ (HealthzPort > 0 => proc.server = "up"))
=============================================================================
