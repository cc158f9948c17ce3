-------------------------- MODULE RouteSyncProofs --------------------------
(***************************************************************************)
(* Proofs about RouteSync, for every number of ingresses, services, ports, *)
(* operations, faults and restarts.                                        *)
(***************************************************************************)
EXTENDS RouteSync, TLAPS

TypeInv == TypeOK /\ WorkerShape

-----------------------------------------------------------------------------
(* Type correctness, from the parts of the steps. *)

LEMMA IdleFacts ==
  /\ IdleIngress \in IngressWorkers /\ IdleIngress.pc = "idle"
  /\ IdleService \in ServiceWorkers /\ IdleService.pc = "idle"
BY DEF IdleIngress, IngressWorkers, IdleService, ServiceWorkers

LEMMA SpendType ==
  ASSUME budget \in Budgets, NEW what \in {"user", "fault", "restart"},
         Spend(what)
  PROVE  budget' \in Budgets
BY RouteAssumption DEF Budgets, Spend

LEMMA AppendFacts ==
  ASSUME NEW S, NEW q \in Seq(S), NEW e \in S
  PROVE  /\ Append(q, e) \in Seq(S)
         /\ Append(q, e) # <<>>
         /\ \A i \in 1..Len(Append(q, e)) :
              (\E j \in 1..Len(q) : Append(q, e)[i] = q[j]) \/ Append(q, e)[i] = e
OBVIOUS

LEMMA TailFacts ==
  ASSUME NEW S, NEW q \in Seq(S), q # <<>>
  PROVE  /\ Head(q) \in S /\ Head(q) = q[1] /\ 1 \in 1..Len(q)
         /\ Tail(q) \in Seq(S)
         /\ \A i \in 1..Len(Tail(q)) : \E j \in 1..Len(q) : Tail(q)[i] = q[j]
OBVIOUS

LEMMA WriteFacts ==
  ASSUME NEW o \in ServiceObjects
  PROVE  /\ AfterDelete(o) \in ServiceObjects \cup {None}
         /\ AfterPatchOff(o) \in ServiceObjects \cup {None}
         /\ [o EXCEPT !.finalizer = TRUE] \in ServiceObjects
BY DEF AfterDelete, AfterPatchOff, ServiceObjects

LEMMA PublishType ==
  ASSUME TypeOK, NEW s \in Services, NEW o \in ServiceObjects \cup {None},
         Publish(s, o)
  PROVE  /\ svcs' \in [Services -> ServiceObjects \cup {None}]
         /\ svcWatch' \in [Services -> Seq(ServiceObjects \cup {None})]
         /\ svcs' = [svcs EXCEPT ![s] = o]
         /\ \A t \in Services \ {s} : svcWatch'[t] = svcWatch[t]
         /\ \A i \in 1..Len(svcWatch'[s]) :
              \/ \E j \in 1..Len(svcWatch[s]) : svcWatch'[s][i] = svcWatch[s][j]
              \/ svcWatch'[s][i] = o
<1> DEFINE S == ServiceObjects \cup {None}
<1>1. /\ svcWatch \in [Services -> Seq(S)] /\ svcWatch[s] \in Seq(S)
      /\ o \in S /\ svcs \in [Services -> S]
  BY DEF TypeOK
<1> HIDE DEF S
<1>2. CASE o = svcs[s]
  <2>1. svcs' = svcs /\ svcWatch' = svcWatch
    BY <1>2 DEF Publish, svcVars
  <2>2. svcs = [svcs EXCEPT ![s] = o]
    BY <1>1, <1>2
  <2> QED
    BY <1>1, <2>1, <2>2 DEF S
<1>3. CASE o # svcs[s]
  <2>1. /\ svcWatch' = [svcWatch EXCEPT ![s] = Append(svcWatch[s], o)]
        /\ svcs' = [svcs EXCEPT ![s] = o]
    BY <1>3 DEF Publish
  <2>2. /\ Append(svcWatch[s], o) \in Seq(S)
        /\ \A i \in 1..Len(Append(svcWatch[s], o)) :
             \/ \E j \in 1..Len(svcWatch[s]) :
                  Append(svcWatch[s], o)[i] = svcWatch[s][j]
             \/ Append(svcWatch[s], o)[i] = o
    BY <1>1, AppendFacts
  <2>3. svcWatch'[s] = Append(svcWatch[s], o)
    BY <1>1, <2>1
  <2>4. svcWatch' \in [Services -> Seq(S)] /\ svcs' \in [Services -> S]
    BY <1>1, <2>1, <2>2
  <2>5. \A t \in Services \ {s} : svcWatch'[t] = svcWatch[t]
    BY <1>1, <2>1
  <2> QED
    BY <2>1, <2>2, <2>3, <2>4, <2>5 DEF S
<1> QED
  BY <1>2, <1>3

LEMMA FailIngressType ==
  ASSUME TypeInv, iw.pc # "idle", FailIngress
  PROVE  /\ iw' \in IngressWorkers /\ iw'.pc = "idle"
         /\ queue' \subseteq Keys
         /\ requeues' \in [Ingresses -> 0..(AutoClaimMaxRetries + 1)]
<1>1. iw.key \in Ingresses /\ requeues \in [Ingresses -> 0..(AutoClaimMaxRetries + 1)]
  BY DEF TypeInv, TypeOK, WorkerShape, IngressWorkers
<1>2. (IF requeues[iw.key] > AutoClaimMaxRetries
       THEN requeues[iw.key] ELSE requeues[iw.key] + 1)
        \in 0..(AutoClaimMaxRetries + 1)
  BY <1>1, RouteAssumption
<1>3. requeues' \in [Ingresses -> 0..(AutoClaimMaxRetries + 1)]
  BY <1>1, <1>2 DEF FailIngress
<1> QED
  BY <1>1, <1>3, IdleFacts DEF FailIngress, TypeInv, TypeOK, Keys

LEMMA AnswerType ==
  ASSUME TypeInv, iw.pc # "idle", NEW answered \in BOOLEAN,
         NEW w \in IngressWorkers, Answer(answered, w)
  PROVE  /\ iw' \in IngressWorkers
         /\ iw'.pc = "idle" \/ iw' = w
         /\ queue' \subseteq Keys
         /\ requeues' \in [Ingresses -> 0..(AutoClaimMaxRetries + 1)]
         /\ budget' \in Budgets
<1>1. CASE answered
  BY <1>1 DEF Answer, Proceed, TypeInv, TypeOK
<1>2. CASE ~answered
  <2>1. FailIngress /\ Spend("fault")
    BY <1>2 DEF Answer
  <2>2. budget' \in Budgets
    BY <2>1, SpendType DEF TypeInv, TypeOK
  <2> QED
    BY <2>1, <2>2, FailIngressType
<1> QED
  BY <1>1, <1>2

LEMMA FailServiceType ==
  ASSUME TypeInv, sw.pc # "idle", FailService
  PROVE  /\ sw' \in ServiceWorkers /\ sw'.pc = "idle"
         /\ queue' \subseteq Keys
BY IdleFacts DEF FailService, TypeInv, TypeOK, WorkerShape, ServiceWorkers, Keys

LEMMA AnswerServiceType ==
  ASSUME TypeInv, sw.pc # "idle", NEW answered \in BOOLEAN,
         NEW w \in ServiceWorkers, AnswerService(answered, w)
  PROVE  /\ sw' \in ServiceWorkers
         /\ sw'.pc = "idle" \/ sw' = w
         /\ queue' \subseteq Keys
         /\ budget' \in Budgets
<1>1. CASE answered
  BY <1>1 DEF AnswerService, ProceedService, TypeInv, TypeOK
<1>2. CASE ~answered
  <2>1. FailService /\ Spend("fault")
    BY <1>2 DEF AnswerService
  <2>2. budget' \in Budgets
    BY <2>1, SpendType DEF TypeInv, TypeOK
  <2> QED
    BY <2>1, <2>2, FailServiceType
<1> QED
  BY <1>1, <1>2

LEMMA CollectingType ==
  ASSUME NEW s \in Services, NEW p \in Seq(PortNumbers)
  PROVE  /\ Collecting(s, p) \in ServiceWorkers
         /\ Collecting(s, p).pc # "idle"
              => Collecting(s, p).key = s /\ Collecting(s, p).ports # <<>>
BY IdleFacts DEF Collecting, IdleService, ServiceWorkers

(* The shape of one worker is not the other's business. *)
IngressShape == iw.pc # "idle" =>
                  /\ iw.key # None /\ iw.spec # None
                  /\ iw.pc \in {"patch", "get", "put"} => iw.left # <<>>

ServiceShape == sw.pc # "idle" => sw.key # None /\ sw.ports # <<>>

LEMMA Shapes == WorkerShape <=> IngressShape /\ ServiceShape
BY DEF WorkerShape, IngressShape, ServiceShape

LEMMA UserType == ASSUME TypeInv, User PROVE TypeInv'
<1> USE DEF TypeInv
<1>1. ASSUME NEW s \in Services, CreateService(s) PROVE TypeInv'
  <2>1. [finalizer |-> FALSE, deleted |-> FALSE] \in ServiceObjects
    BY DEF ServiceObjects
  <2>2. births' \in [Services -> 0..MaxBirths]
    BY <1>1, RouteAssumption DEF CreateService, TypeOK
  <2>3. budget' \in Budgets
    BY <1>1, SpendType DEF CreateService, TypeOK
  <2>4. /\ svcs' \in [Services -> ServiceObjects \cup {None}]
        /\ svcWatch' \in [Services -> Seq(ServiceObjects \cup {None})]
    BY <1>1, <2>1, PublishType DEF CreateService
  <2> QED
    BY <1>1, <2>2, <2>3, <2>4 DEF CreateService, TypeOK, WorkerShape
<1>2. ASSUME NEW s \in Services, DeleteService(s) PROVE TypeInv'
  <2>1. AfterDelete(svcs[s]) \in ServiceObjects \cup {None}
    BY <1>2, WriteFacts DEF DeleteService, TypeOK
  <2>2. budget' \in Budgets
    BY <1>2, SpendType DEF DeleteService, TypeOK
  <2>3. /\ svcs' \in [Services -> ServiceObjects \cup {None}]
        /\ svcWatch' \in [Services -> Seq(ServiceObjects \cup {None})]
    BY <1>2, <2>1, PublishType DEF DeleteService
  <2> QED
    BY <1>2, <2>2, <2>3 DEF DeleteService, TypeOK, WorkerShape
<1>3. ASSUME NEW k \in Ingresses, DeleteIngress(k) PROVE TypeInv'
  <2>1. budget' \in Budgets
    BY <1>3, SpendType DEF DeleteIngress, TypeOK
  <2> QED
    BY <1>3, <2>1 DEF DeleteIngress, TypeOK, WorkerShape, Keys
<1>4. ASSUME NEW k \in Ingresses, NEW spec \in Wanted[k], PutIngress(k, spec)
      PROVE  TypeInv'
  <2> DEFINE o == [spec |-> spec,
                   dirty |-> IF ings[k] = None THEN FALSE ELSE ings[k].dirty]
  <2>1. budget' \in Budgets
    BY <1>4, SpendType DEF PutIngress, TypeOK
  <2>2. spec \in IngressSpecs
    BY RouteAssumption
  <2>3. o \in IngressObjects
    BY <2>2 DEF IngressObjects, TypeOK
  <2>4. ings' = [ings EXCEPT ![k] = o]
    BY <1>4 DEF PutIngress
  <2> HIDE DEF o
  <2>5. ings' \in [Ingresses -> IngressObjects \cup {None}]
    BY <2>3, <2>4 DEF TypeOK
  <2> QED
    BY <1>4, <2>1, <2>5 DEF PutIngress, TypeOK, WorkerShape, Keys
<1>5. ASSUME NEW h \in Hosts, Grant(h) PROVE TypeInv'
  <2>1. budget' \in Budgets
    BY <1>5, SpendType DEF Grant, TypeOK
  <2> QED
    BY <1>5, <2>1 DEF Grant, TypeOK, WorkerShape
<1>6. ASSUME NEW h \in Hosts, Withdraw(h) PROVE TypeInv'
  <2>1. budget' \in Budgets
    BY <1>6, SpendType DEF Withdraw, TypeOK
  <2> QED
    BY <1>6, <2>1 DEF Withdraw, TypeOK, WorkerShape
<1> QED
  BY <1>1, <1>2, <1>3, <1>4, <1>5, <1>6 DEF User

LEMMA InformerType ==
  ASSUME TypeInv, \/ \E s \in Services : Observe(s)
                  \/ \E k \in Keys : Handle(k)
  PROVE  TypeInv'
<1> USE DEF TypeInv
<1>1. ASSUME NEW s \in Services, Observe(s) PROVE TypeInv'
  <2> DEFINE S == ServiceObjects \cup {None}
  <2>1. /\ svcWatch \in [Services -> Seq(S)] /\ svcWatch[s] \in Seq(S)
        /\ svcWatch[s] # <<>> /\ svcCache \in [Services -> S]
    BY <1>1 DEF Observe, TypeOK
  <2> HIDE DEF S
  <2>2. Head(svcWatch[s]) \in S /\ Tail(svcWatch[s]) \in Seq(S)
    BY <2>1, TailFacts
  <2>3. svcCache' \in [Services -> S] /\ svcWatch' \in [Services -> Seq(S)]
    BY <1>1, <2>1, <2>2 DEF Observe
  <2> QED
    BY <1>1, <2>3 DEF Observe, TypeOK, WorkerShape, Keys, S
<1>2. ASSUME NEW k \in Keys, Handle(k) PROVE TypeInv'
  BY <1>2 DEF Handle, TypeOK, WorkerShape
<1> QED
  BY <1>1, <1>2

(* A step of one worker leaves the shape of the other alone. *)
LEMMA IngressType ==
  ASSUME TypeInv, iw' \in IngressWorkers, IngressShape',
         queue' \subseteq Keys,
         requeues' \in [Ingresses -> 0..(AutoClaimMaxRetries + 1)],
         budget' \in Budgets, UNCHANGED sw,
         svcs' \in [Services -> ServiceObjects \cup {None}],
         svcWatch' \in [Services -> Seq(ServiceObjects \cup {None})],
         ings' \in [Ingresses -> IngressObjects \cup {None}],
         apis' \in [Names -> Upstreams \cup {None}],
         told' \subseteq Keys,
         UNCHANGED <<svcCache, births, claimed>>
  PROVE  TypeInv'
<1>1. ServiceShape'
  BY DEF TypeInv, WorkerShape, ServiceShape
<1>2. WorkerShape'
  BY <1>1 DEF WorkerShape, IngressShape, ServiceShape
<1> QED
  BY <1>2 DEF TypeInv, TypeOK

LEMMA ServiceType ==
  ASSUME TypeInv, sw' \in ServiceWorkers, ServiceShape',
         queue' \subseteq Keys,
         budget' \in Budgets, UNCHANGED <<iw, requeues>>,
         svcs' \in [Services -> ServiceObjects \cup {None}],
         svcWatch' \in [Services -> Seq(ServiceObjects \cup {None})],
         apis' \in [Names -> Upstreams \cup {None}],
         UNCHANGED <<svcCache, births, claimed, ings, told>>
  PROVE  TypeInv'
<1>1. IngressShape'
  BY DEF TypeInv, WorkerShape, IngressShape
<1>2. WorkerShape'
  BY <1>1 DEF WorkerShape, IngressShape, ServiceShape
<1> QED
  BY <1>2 DEF TypeInv, TypeOK

LEMMA BackendType ==
  ASSUME TypeInv, iw.pc \in {"patch", "get", "put"}
  PROVE  /\ iw.left \in Seq(Backends) /\ iw.left # <<>>
         /\ Backend \in Backends
         /\ Backend.svc \in Services /\ Backend.port \in PortNumbers
         /\ Name(Backend) \in Names
         /\ Tail(iw.left) \in Seq(Backends)
<1>1. iw.left \in Seq(Backends) /\ iw.left # <<>>
  BY DEF TypeInv, TypeOK, WorkerShape, IngressWorkers
<1>2. Backend \in Backends /\ Tail(iw.left) \in Seq(Backends)
  BY <1>1, TailFacts DEF Backend
<1> QED
  BY <1>1, <1>2 DEF Backends, Name, Names

(* The steps of syncIngress that do not touch the world. *)
LEMMA IngressLocalType ==
  ASSUME TypeInv, iw.pc # "idle",
         \/ ClaimDomains \/ CheckClaims \/ NextPath \/ IngressDone \/ GetApi
         \/ SetDirtyFails \/ IngressCallFails
  PROVE  TypeInv'
<1> USE DEF TypeInv
<1>0. /\ iw \in IngressWorkers /\ iw.key \in Ingresses
      /\ iw.spec \in IngressObjects /\ iw.left \in Seq(Backends)
  BY DEF TypeOK, WorkerShape, IngressWorkers
<1>1. iw' \in IngressWorkers /\ IngressShape'
  <2>1. CASE FailIngress
    BY <2>1, FailIngressType DEF IngressShape
  <2>2. CASE ClaimDomains
    BY <1>0, <2>2 DEF ClaimDomains, Proceed, IngressWorkers, IngressShape, WorkerShape
  <2>3. CASE CheckClaims /\ ~FailIngress
    <3>1. iw.spec.spec.backends \in Seq(Backends)
      BY <1>0 DEF IngressObjects, IngressSpecs
    <3> QED
      BY <1>0, <2>3, <3>1
      DEF CheckClaims, Proceed, IngressWorkers, IngressShape, WorkerShape
  <2>4. CASE NextPath /\ ~FailIngress
    BY <1>0, <2>4 DEF NextPath, Proceed, IngressWorkers, IngressShape, WorkerShape
  <2>5. CASE IngressDone
    BY <2>5, IdleFacts DEF IngressDone, IngressShape
  <2>6. CASE GetApi
    <3>1. iw' = [iw EXCEPT !.pc = "put", !.known = apis[Name(Backend)] # None]
      BY <2>6 DEF GetApi, Proceed
    <3>2. (apis[Name(Backend)] # None) \in BOOLEAN
      OBVIOUS
    <3>3. iw.left # <<>>
      BY <2>6, BackendType DEF GetApi
    <3> QED
      BY <1>0, <3>1, <3>2, <3>3 DEF IngressWorkers, IngressShape, WorkerShape
  <2>7. CASE SetDirtyFails
    BY <1>0, <2>7
    DEF SetDirtyFails, Proceed, Claiming, IngressWorkers, IngressShape, WorkerShape
  <2> QED
    BY <2>1, <2>2, <2>3, <2>4, <2>5, <2>6, <2>7 DEF IngressCallFails
<1>2. /\ queue' \subseteq Keys
      /\ requeues' \in [Ingresses -> 0..(AutoClaimMaxRetries + 1)]
  <2>1. CASE FailIngress
    BY <2>1, FailIngressType
  <2>2. CASE UNCHANGED <<queue, requeues>>
    BY <2>2 DEF TypeOK
  <2>3. CASE IngressDone
    <3>1. /\ queue' = queue /\ requeues' = [requeues EXCEPT ![iw.key] = 0]
          /\ requeues \in [Ingresses -> 0..(AutoClaimMaxRetries + 1)]
          /\ queue \subseteq Keys
      BY <2>3 DEF IngressDone, TypeOK
    <3>2. 0 \in 0..(AutoClaimMaxRetries + 1)
      BY RouteAssumption
    <3> QED
      BY <1>0, <3>1, <3>2
  <2> QED
    BY <2>1, <2>2, <2>3
    DEF ClaimDomains, CheckClaims, NextPath, GetApi, SetDirtyFails,
        IngressCallFails, Proceed
<1>3. budget' \in Budgets
  <2>1. Spend("fault") \/ UNCHANGED budget
    BY DEF ClaimDomains, CheckClaims, NextPath, IngressDone, GetApi,
           SetDirtyFails, IngressCallFails
  <2> QED
    BY <2>1, SpendType DEF TypeOK
<1>4. UNCHANGED <<world, sw>>
  BY DEF ClaimDomains, CheckClaims, NextPath, IngressDone, GetApi,
         SetDirtyFails, IngressCallFails
<1> QED
  BY <1>1, <1>2, <1>3, <1>4, IngressType DEF TypeOK, world

LEMMA StartIngressType ==
  ASSUME TypeInv, NEW k \in Ingresses, StartIngress(k)
  PROVE  TypeInv'
<1> USE DEF TypeInv
<1>1. CASE ings[k] = None
  <2>1. /\ requeues' = [requeues EXCEPT ![k] = 0]
        /\ requeues \in [Ingresses -> 0..(AutoClaimMaxRetries + 1)]
    BY <1>1 DEF StartIngress, TypeOK
  <2>2. 0 \in 0..(AutoClaimMaxRetries + 1)
    BY RouteAssumption
  <2>3. requeues' \in [Ingresses -> 0..(AutoClaimMaxRetries + 1)]
    BY <2>1, <2>2
  <2> QED
    BY <1>1, <2>3 DEF StartIngress, TypeOK, WorkerShape, world
<1>2. CASE ings[k] # None
  <2>1. ings[k] \in IngressObjects /\ ings[k] # None /\ k # None
    BY <1>2, AbsentAssumption DEF TypeOK, Keys
  <2>2. \E p \in {"dirty", "claim", "check"} :
          iw' = [IdleIngress EXCEPT !.pc = p, !.key = k, !.spec = ings[k]]
    BY <1>2 DEF StartIngress, Claiming
  <2>3. iw' \in IngressWorkers /\ IngressShape'
    <3>1. PICK p \in {"dirty", "claim", "check"} :
            iw' = [IdleIngress EXCEPT !.pc = p, !.key = k, !.spec = ings[k]]
      BY <2>2
    <3>2. <<>> \in Seq(Backends)
      OBVIOUS
    <3>3. iw' = [pc |-> p, key |-> k, spec |-> ings[k], left |-> <<>>,
                 known |-> FALSE]
      BY <3>1 DEF IdleIngress
    <3>4. iw' \in IngressWorkers
      BY <2>1, <3>2, <3>3 DEF IngressWorkers
    <3> QED
      BY <2>1, <3>3, <3>4 DEF IngressShape
  <2>4. queue' \subseteq Keys /\ UNCHANGED <<world, sw, requeues, budget>>
    BY <1>2 DEF StartIngress, TypeOK
  <2> QED
    BY <2>3, <2>4, IngressType DEF TypeOK, world
<1> QED
  BY <1>1, <1>2

LEMMA IngressCallType ==
  ASSUME TypeInv, NEW answered \in BOOLEAN,
         SetDirty \/ HoldService(answered) \/ PutApi(answered)
  PROVE  TypeInv'
<1> USE DEF TypeInv
<1>1. CASE SetDirty
  <2>1. /\ iw.pc = "dirty" /\ iw \in IngressWorkers /\ iw.key \in Ingresses
        /\ iw.spec # None
    BY <1>1 DEF SetDirty, TypeOK, WorkerShape, IngressWorkers
  <2>2. iw' \in IngressWorkers /\ IngressShape'
    BY <1>1, <2>1 DEF SetDirty, Proceed, Claiming, IngressWorkers, IngressShape, WorkerShape
  <2>3. ings' \in [Ingresses -> IngressObjects \cup {None}]
    <3>1. CASE ings[iw.key] = None \/ iw.spec.dirty
      BY <1>1, <3>1 DEF SetDirty, TypeOK
    <3>2. CASE ~(ings[iw.key] = None \/ iw.spec.dirty)
      <4>1. ings' = [ings EXCEPT ![iw.key] = [ings[iw.key] EXCEPT !.dirty = TRUE]]
        BY <1>1, <3>2 DEF SetDirty
      <4>2. [ings[iw.key] EXCEPT !.dirty = TRUE] \in IngressObjects
        BY <2>1, <3>2 DEF TypeOK, IngressObjects
      <4> QED
        BY <4>1, <4>2 DEF TypeOK
    <3> QED
      BY <3>1, <3>2
  <2>4. told' \subseteq Keys
    BY <1>1, <2>1 DEF SetDirty, TypeOK, Keys
  <2> QED
    BY <1>1, <2>2, <2>3, <2>4, IngressType DEF SetDirty, Proceed, TypeOK
<1>2. CASE HoldService(answered)
  <2>1. iw.pc = "patch" /\ Backend.svc \in Services /\ iw.left # <<>>
    BY <1>2, BackendType DEF HoldService
  <2>2. CASE svcs[Backend.svc] = None
    <3>1. FailIngress /\ UNCHANGED <<svcVars, budget, world, sw>>
      BY <1>2, <2>2 DEF HoldService, world, svcVars
    <3>2. IngressShape'
      BY <2>1, <3>1, FailIngressType DEF IngressShape
    <3> QED
      BY <2>1, <3>1, <3>2, FailIngressType, IngressType DEF TypeOK, world
  <2>3. CASE svcs[Backend.svc] # None
    <3> DEFINE o == [svcs[Backend.svc] EXCEPT !.finalizer = TRUE]
               w == [iw EXCEPT !.pc = "get"]
    <3>1. Publish(Backend.svc, o) /\ Answer(answered, w)
      BY <1>2, <2>3 DEF HoldService
    <3>2. o \in ServiceObjects
      BY <2>1, <2>3, WriteFacts DEF TypeOK
    <3>3. w \in IngressWorkers /\ (iw' = w => IngressShape')
      BY <2>1 DEF TypeOK, IngressWorkers, IngressShape, WorkerShape
    <3> HIDE DEF o, w
    <3>4. /\ svcs' \in [Services -> ServiceObjects \cup {None}]
          /\ svcWatch' \in [Services -> Seq(ServiceObjects \cup {None})]
      BY <2>1, <3>1, <3>2, PublishType
    <3>5. /\ iw' \in IngressWorkers /\ IngressShape' /\ queue' \subseteq Keys
          /\ requeues' \in [Ingresses -> 0..(AutoClaimMaxRetries + 1)]
          /\ budget' \in Budgets
      BY <2>1, <3>1, <3>3, AnswerType DEF IngressShape
    <3> QED
      BY <1>2, <3>4, <3>5, IngressType DEF HoldService, TypeOK
  <2> QED
    BY <2>2, <2>3
<1>3. CASE PutApi(answered)
  <2>1. /\ iw.pc = "put" /\ Backend.svc \in Services
        /\ Backend.port \in PortNumbers /\ Name(Backend) \in Names
        /\ Tail(iw.left) \in Seq(Backends)
    BY <1>3, BackendType DEF PutApi
  <2>2. CASE iw.known /\ apis[Name(Backend)] = None
    <3>1. FailIngress /\ UNCHANGED <<budget, world, sw>>
      BY <1>3, <2>2 DEF PutApi, world
    <3>2. IngressShape'
      BY <2>1, <3>1, FailIngressType DEF IngressShape
    <3> QED
      BY <2>1, <3>1, <3>2, FailIngressType, IngressType DEF TypeOK, world
  <2>3. CASE ~(iw.known /\ apis[Name(Backend)] = None)
    <3> DEFINE w == [iw EXCEPT !.pc = "next", !.left = Tail(@), !.known = FALSE]
    <3>1. /\ apis' = [apis EXCEPT ![Name(Backend)] = <<Backend.svc, Backend.port>>]
          /\ Answer(answered, w)
      BY <1>3, <2>3 DEF PutApi
    <3>2. apis' \in [Names -> Upstreams \cup {None}]
      BY <2>1, <3>1 DEF TypeOK, Upstreams
    <3>3. w \in IngressWorkers /\ (iw' = w => IngressShape')
      BY <2>1 DEF TypeOK, IngressWorkers, IngressShape, WorkerShape
    <3> HIDE DEF w
    <3>4. /\ iw' \in IngressWorkers /\ IngressShape' /\ queue' \subseteq Keys
          /\ requeues' \in [Ingresses -> 0..(AutoClaimMaxRetries + 1)]
          /\ budget' \in Budgets
      BY <2>1, <3>1, <3>3, AnswerType DEF IngressShape
    <3> QED
      BY <1>3, <3>2, <3>4, IngressType DEF PutApi, TypeOK
  <2> QED
    BY <2>2, <2>3
<1> QED
  BY <1>1, <1>2, <1>3

LEMMA StartServiceType ==
  ASSUME TypeInv, NEW s \in Services, StartService(s)
  PROVE  TypeInv'
<1>1. Ports[s] \in Seq(PortNumbers) /\ s # None
  BY RouteAssumption, AbsentAssumption DEF Keys
<1>2. sw' \in ServiceWorkers /\ ServiceShape'
  <2>1. sw' = Collecting(s, Ports[s]) \/ sw' = IdleService
    BY DEF StartService
  <2> QED
    BY <1>1, <2>1, CollectingType, IdleFacts DEF ServiceShape
<1>3. queue' \subseteq Keys /\ UNCHANGED <<world, requeues, iw, budget>>
  BY DEF StartService, TypeInv, TypeOK
<1> QED
  BY <1>2, <1>3, ServiceType DEF TypeInv, TypeOK, world

(* What a syncServices call in progress holds. *)
LEMMA CollectorType ==
  ASSUME TypeInv, sw.pc # "idle"
  PROVE  /\ sw \in ServiceWorkers /\ sw.key \in Services
         /\ sw.key # None /\ sw.ports # <<>>
         /\ Tail(sw.ports) \in Seq(PortNumbers)
<1>1. /\ sw \in ServiceWorkers /\ sw.key \in Services
      /\ sw.key # None /\ sw.ports # <<>> /\ sw.ports \in Seq(PortNumbers)
  BY DEF TypeInv, TypeOK, WorkerShape, ServiceWorkers
<1> QED
  BY <1>1, TailFacts

LEMMA ServiceLocalType ==
  ASSUME TypeInv, ListUpstream \/ RoutesDeleted \/ ServiceCallFails
  PROVE  TypeInv'
<1>0. sw.pc # "idle"
  BY DEF ListUpstream, RoutesDeleted, ServiceCallFails
<1>1. sw' \in ServiceWorkers /\ ServiceShape' /\ queue' \subseteq Keys
  <2>1. CASE ListUpstream
    <3> DEFINE D == {n \in Names : apis[n] = <<sw.key, Head(sw.ports)>>}
    <3>1. sw' = [sw EXCEPT !.pc = "delete", !.doomed = D] /\ queue' = queue
      BY <2>1 DEF ListUpstream, ProceedService
    <3>2. D \in SUBSET Names
      OBVIOUS
    <3> HIDE DEF D
    <3> QED
      BY <1>0, <3>1, <3>2, CollectorType
      DEF ServiceWorkers, ServiceShape, TypeInv, TypeOK
  <2>2. CASE RoutesDeleted
    BY <1>0, <2>2, CollectorType
    DEF RoutesDeleted, ProceedService, ServiceWorkers, ServiceShape, TypeInv, TypeOK
  <2>3. CASE ServiceCallFails
    BY <1>0, <2>3, FailServiceType DEF ServiceCallFails, ServiceShape
  <2> QED
    BY <2>1, <2>2, <2>3
<1>2. budget' \in Budgets
  <2>1. Spend("fault") \/ UNCHANGED budget
    BY DEF ListUpstream, RoutesDeleted, ServiceCallFails
  <2> QED
    BY <2>1, SpendType DEF TypeInv, TypeOK
<1>3. UNCHANGED <<world, requeues, iw>>
  BY DEF ListUpstream, RoutesDeleted, ServiceCallFails
<1> QED
  BY <1>1, <1>2, <1>3, ServiceType DEF TypeInv, TypeOK, world

LEMMA DeleteRouteType ==
  ASSUME TypeInv, NEW answered \in BOOLEAN, NEW n, DeleteRoute(n, answered)
  PROVE  TypeInv'
<1>0. /\ sw.pc = "delete" /\ n \in sw.doomed
      /\ UNCHANGED <<svcs, svcCache, svcWatch, births, ings, claimed, told,
                     requeues, iw>>
  BY DEF DeleteRoute
<1>1. CASE apis[n] = None
  <2>1. FailService /\ UNCHANGED <<apis, budget>>
    BY <1>1 DEF DeleteRoute
  <2>2. sw' \in ServiceWorkers /\ ServiceShape' /\ queue' \subseteq Keys
    BY <1>0, <2>1, FailServiceType DEF ServiceShape
  <2> QED
    BY <1>0, <2>1, <2>2, ServiceType DEF TypeInv, TypeOK
<1>2. CASE apis[n] # None
  <2> DEFINE w == [sw EXCEPT !.doomed = @ \ {n}]
  <2>1. apis' = [apis EXCEPT ![n] = None] /\ AnswerService(answered, w)
    BY <1>2 DEF DeleteRoute
  <2>2. apis' \in [Names -> Upstreams \cup {None}]
    BY <2>1 DEF TypeInv, TypeOK
  <2>3. w \in ServiceWorkers /\ (sw' = w => ServiceShape')
    BY <1>0, CollectorType DEF ServiceWorkers, ServiceShape
  <2> HIDE DEF w
  <2>4. /\ sw' \in ServiceWorkers /\ ServiceShape' /\ queue' \subseteq Keys
        /\ budget' \in Budgets
    BY <1>0, <2>1, <2>3, AnswerServiceType DEF ServiceShape
  <2> QED
    BY <1>0, <2>2, <2>4, ServiceType DEF TypeInv, TypeOK
<1> QED
  BY <1>1, <1>2

LEMMA ReleaseServiceType ==
  ASSUME TypeInv, NEW answered \in BOOLEAN, ReleaseService(answered)
  PROVE  TypeInv'
<1>0. /\ sw.pc = "unfinalize" /\ sw.key \in Services /\ sw.key # None
      /\ Tail(sw.ports) \in Seq(PortNumbers)
      /\ UNCHANGED <<svcCache, births, ings, claimed, apis, told, requeues, iw>>
  BY CollectorType DEF ReleaseService
<1>1. CASE svcs[sw.key] = None
  <2>1. FailService /\ UNCHANGED <<svcs, svcWatch, budget>>
    BY <1>1 DEF ReleaseService, svcVars
  <2>2. sw' \in ServiceWorkers /\ ServiceShape' /\ queue' \subseteq Keys
    BY <1>0, <2>1, FailServiceType DEF ServiceShape
  <2> QED
    BY <1>0, <2>1, <2>2, ServiceType DEF TypeInv, TypeOK
<1>2. CASE svcs[sw.key] # None
  <2> DEFINE w == Collecting(sw.key, Tail(sw.ports))
             o == AfterPatchOff(svcs[sw.key])
  <2>1. Publish(sw.key, o) /\ AnswerService(answered, w)
    BY <1>2 DEF ReleaseService
  <2>2. o \in ServiceObjects \cup {None}
    BY <1>0, <1>2, WriteFacts DEF TypeInv, TypeOK
  <2>3. w \in ServiceWorkers /\ (sw' = w => ServiceShape')
    BY <1>0, CollectingType DEF ServiceShape
  <2> HIDE DEF w, o
  <2>4. /\ svcs' \in [Services -> ServiceObjects \cup {None}]
        /\ svcWatch' \in [Services -> Seq(ServiceObjects \cup {None})]
    BY <1>0, <2>1, <2>2, PublishType DEF TypeInv
  <2>5. /\ sw' \in ServiceWorkers /\ ServiceShape' /\ queue' \subseteq Keys
        /\ budget' \in Budgets
    BY <1>0, <2>1, <2>3, AnswerServiceType DEF ServiceShape
  <2> QED
    BY <1>0, <2>4, <2>5, ServiceType DEF TypeInv, TypeOK
<1> QED
  BY <1>1, <1>2

LEMMA RestartType == ASSUME TypeInv, Restart PROVE TypeInv'
<1>1. budget' \in Budgets
  BY SpendType DEF Restart, TypeInv, TypeOK
<1>2. requeues' \in [Ingresses -> 0..(AutoClaimMaxRetries + 1)]
  BY RouteAssumption DEF Restart
<1>3. /\ iw' \in IngressWorkers /\ iw'.pc = "idle"
      /\ sw' \in ServiceWorkers /\ sw'.pc = "idle"
  BY IdleFacts DEF Restart
<1>4. WorkerShape'
  BY <1>3 DEF WorkerShape
<1>5. svcWatch' \in [Services -> Seq(ServiceObjects \cup {None})]
  BY DEF Restart
<1>6. told' \subseteq Keys /\ queue' \subseteq Keys
  BY DEF Restart, Keys
<1> QED
  BY <1>1, <1>2, <1>3, <1>4, <1>5, <1>6 DEF Restart, TypeInv, TypeOK

LEMMA InitType == Init => TypeInv
<1> SUFFICES ASSUME Init PROVE TypeInv
  OBVIOUS
<1>1. /\ iw \in IngressWorkers /\ iw.pc = "idle"
      /\ sw \in ServiceWorkers /\ sw.pc = "idle"
  BY IdleFacts DEF Init
<1>2. budget \in Budgets
  BY RouteAssumption DEF Init, Budgets
<1>3. /\ births \in [Services -> 0..MaxBirths]
      /\ requeues \in [Ingresses -> 0..(AutoClaimMaxRetries + 1)]
  BY RouteAssumption DEF Init
<1>4. svcWatch \in [Services -> Seq(ServiceObjects \cup {None})]
  BY DEF Init
<1> QED
  BY <1>1, <1>2, <1>3, <1>4 DEF Init, TypeInv, TypeOK, WorkerShape

LEMMA NextType == ASSUME TypeInv, [Next]_vars PROVE TypeInv'
<1>1. CASE Next
  <2>1. CASE \E s \in Services : StartService(s)
    BY <2>1, StartServiceType
  <2>2. CASE \E k \in Ingresses : StartIngress(k)
    BY <2>2, StartIngressType
  <2>3. CASE IngressStep
    BY <2>3, IngressLocalType, IngressCallType
    DEF IngressStep, ClaimDomains, CheckClaims, NextPath, IngressDone, GetApi
  <2>4. CASE ServiceStep
    BY <2>4, ServiceLocalType, DeleteRouteType, ReleaseServiceType DEF ServiceStep
  <2>5. CASE Fault
    <3>1. ASSUME SetDirtyFails \/ IngressCallFails PROVE iw.pc # "idle"
      BY <3>1 DEF SetDirtyFails, IngressCallFails
    <3> QED
      BY <2>5, <3>1, IngressLocalType, IngressCallType, ServiceLocalType,
         DeleteRouteType, ReleaseServiceType
      DEF Fault
  <2> QED
    BY <1>1, <2>1, <2>2, <2>3, <2>4, <2>5, UserType, InformerType, RestartType
    DEF Next
<1>2. CASE UNCHANGED vars
  BY <1>2 DEF vars, TypeInv, TypeOK, WorkerShape
<1> QED
  BY <1>1, <1>2

-----------------------------------------------------------------------------
(* The invariant, split into what it says of the services and what it says  *)
(* of the two workers.                                                      *)

ServiceFacts == Unborn /\ DeletionLasts /\ MarkedHeld /\ RoutedHeld

WorkerFacts == CollectsDoomed /\ PathHeld

HeldInv == TypeInv /\ ServiceFacts /\ WorkerFacts

Held(s) == births[s] > 0 /\ (svcs[s] # None => svcs[s].finalizer)

Fated(s) == births[s] > 0 /\ Doomed(s)

(* No step frees a service that is held, or revives one that is doomed. *)
Steady == \A s \in Services : (Held(s) => Held(s)') /\ (Fated(s) => Fated(s)')

LEMMA SameServices ==
  ASSUME ServiceFacts, UNCHANGED <<svcs, svcCache, svcWatch, births>>,
         \A s \in Services : Routes(s)' \subseteq Routes(s)
  PROVE  ServiceFacts' /\ Steady
<1>1. Unborn' /\ RoutedHeld'
  BY DEF ServiceFacts, Unborn, RoutedHeld
<1>2. DeletionLasts' /\ MarkedHeld'
  BY DEF ServiceFacts, DeletionLasts, MarkedHeld, Marked, Doomed
<1>3. Steady
  BY DEF Steady, Held, Fated, Doomed
<1> QED
  BY <1>1, <1>2, <1>3 DEF ServiceFacts

(* A write keeps the services' facts when the service exists, a doomed one  *)
(* stays doomed, and what is left of it has the finalizer.                  *)
LEMMA WriteKeeps ==
  ASSUME TypeOK, ServiceFacts,
         NEW s \in Services, NEW o \in ServiceObjects \cup {None},
         Publish(s, o), UNCHANGED <<svcCache, births, apis>>,
         births[s] > 0, Doomed(s) => o = None \/ o.deleted,
         o # None => o.finalizer
  PROVE  ServiceFacts' /\ Steady
<1>1. /\ svcs' = [svcs EXCEPT ![s] = o] /\ svcs \in [Services -> ServiceObjects \cup {None}]
      /\ \A t \in Services \ {s} : svcWatch'[t] = svcWatch[t]
      /\ \A i \in 1..Len(svcWatch'[s]) :
           \/ \E j \in 1..Len(svcWatch[s]) : svcWatch'[s][i] = svcWatch[s][j]
           \/ svcWatch'[s][i] = o
  BY PublishType DEF TypeOK
<1>2. svcs'[s] = o /\ \A t \in Services \ {s} : svcs'[t] = svcs[t]
  BY <1>1
<1>3. ASSUME NEW t \in Services PROVE Routes(t)' = Routes(t)
  BY DEF Routes
<1>4. Unborn'
  BY <1>1, <1>2, <1>3 DEF ServiceFacts, Unborn
<1>5. RoutedHeld'
  BY <1>2, <1>3 DEF ServiceFacts, RoutedHeld
<1>6. MarkedHeld'
  BY <1>2 DEF ServiceFacts, MarkedHeld, Marked
<1>7. DeletionLasts'
  <2> SUFFICES ASSUME NEW t \in Services,
                      \/ Marked(svcCache'[t])
                      \/ \E i \in 1..Len(svcWatch'[t]) : Marked(svcWatch'[t][i])
               PROVE  births'[t] > 0 /\ Doomed(t)'
    BY DEF DeletionLasts, Marked
  <2>1. CASE t # s
    BY <1>1, <1>2, <2>1 DEF ServiceFacts, DeletionLasts, Doomed
  <2>2. CASE t = s
    <3>1. CASE Marked(o)
      BY <1>2, <2>2, <3>1 DEF Doomed, Marked
    <3>2. CASE ~Marked(o)
      <4>1. \/ Marked(svcCache[s])
            \/ \E j \in 1..Len(svcWatch[s]) : Marked(svcWatch[s][j])
        BY <1>1, <2>2, <3>2
      <4>2. Doomed(s)
        BY <4>1 DEF ServiceFacts, DeletionLasts
      <4> QED
        BY <1>2, <2>2, <4>2 DEF Doomed
    <3> QED
      BY <3>1, <3>2
  <2> QED
    BY <2>1, <2>2
<1>8. Steady
  BY <1>2 DEF Steady, Held, Fated, Doomed
<1> QED
  BY <1>4, <1>5, <1>6, <1>7, <1>8 DEF ServiceFacts

(* A service is created once: it has left no trace before. *)
LEMMA CreateKeeps ==
  ASSUME MaxBirths = 1, TypeOK, ServiceFacts, NEW s \in Services,
         CreateService(s)
  PROVE  ServiceFacts' /\ Steady
<1> DEFINE o == [finalizer |-> FALSE, deleted |-> FALSE]
<1>0. o \in ServiceObjects /\ ~o.deleted
  BY DEF ServiceObjects
<1>1. /\ Publish(s, o) /\ UNCHANGED <<svcCache, apis>>
      /\ births[s] < MaxBirths /\ births' = [births EXCEPT ![s] = births[s] + 1]
  BY DEF CreateService
<1> HIDE DEF o
<1>2. births[s] = 0 /\ births'[s] = 1 /\ \A t \in Services \ {s} : births'[t] = births[t]
  BY <1>1 DEF TypeOK
<1>3. svcCache[s] = None /\ svcWatch[s] = <<>> /\ Routes(s) = {}
  BY <1>2 DEF ServiceFacts, Unborn
<1>4. /\ svcs' = [svcs EXCEPT ![s] = o] /\ svcs \in [Services -> ServiceObjects \cup {None}]
      /\ \A t \in Services \ {s} : svcWatch'[t] = svcWatch[t]
      /\ \A i \in 1..Len(svcWatch'[s]) :
           \/ \E j \in 1..Len(svcWatch[s]) : svcWatch'[s][i] = svcWatch[s][j]
           \/ svcWatch'[s][i] = o
  BY <1>0, <1>1, PublishType DEF TypeOK
<1>5. \A i \in 1..Len(svcWatch'[s]) : svcWatch'[s][i] = o
  BY <1>3, <1>4
<1>6. svcs'[s] = o /\ \A t \in Services \ {s} : svcs'[t] = svcs[t]
  BY <1>4
<1>7. ASSUME NEW t \in Services PROVE Routes(t)' = Routes(t)
  BY <1>1 DEF Routes
<1>8. Unborn'
  BY <1>1, <1>2, <1>4, <1>6, <1>7 DEF ServiceFacts, Unborn
<1>9. RoutedHeld'
  BY <1>3, <1>6, <1>7 DEF ServiceFacts, RoutedHeld
<1>10. MarkedHeld'
  BY <1>0, <1>6 DEF ServiceFacts, MarkedHeld, Marked
<1>11. DeletionLasts'
  <2> SUFFICES ASSUME NEW t \in Services,
                      \/ Marked(svcCache'[t])
                      \/ \E i \in 1..Len(svcWatch'[t]) : Marked(svcWatch'[t][i])
               PROVE  births'[t] > 0 /\ Doomed(t)'
    BY DEF DeletionLasts, Marked
  <2>1. t # s
    BY <1>0, <1>1, <1>3, <1>5 DEF Marked
  <2> QED
    BY <1>1, <1>2, <1>4, <1>6, <2>1 DEF ServiceFacts, DeletionLasts, Doomed
<1>12. Steady
  BY <1>2, <1>6 DEF Steady, Held, Fated, Doomed
<1> QED
  BY <1>8, <1>9, <1>10, <1>11, <1>12 DEF ServiceFacts

(* What the informer has seen it had been sent. *)
LEMMA ObserveKeeps ==
  ASSUME TypeOK, ServiceFacts, NEW s \in Services, Observe(s)
  PROVE  ServiceFacts' /\ Steady
<1>1. /\ svcWatch[s] # <<>> /\ svcWatch[s] \in Seq(ServiceObjects \cup {None})
      /\ svcCache' = [svcCache EXCEPT ![s] = Head(svcWatch[s])]
      /\ svcWatch' = [svcWatch EXCEPT ![s] = Tail(svcWatch[s])]
      /\ svcCache \in [Services -> ServiceObjects \cup {None}]
      /\ svcWatch \in [Services -> Seq(ServiceObjects \cup {None})]
      /\ UNCHANGED <<svcs, births, apis>>
  BY DEF Observe, TypeOK
<1>2. /\ svcCache'[s] = Head(svcWatch[s]) /\ svcWatch'[s] = Tail(svcWatch[s])
      /\ \A t \in Services \ {s} : svcCache'[t] = svcCache[t] /\ svcWatch'[t] = svcWatch[t]
  BY <1>1
<1>3. /\ Head(svcWatch[s]) = svcWatch[s][1] /\ 1 \in 1..Len(svcWatch[s])
      /\ \A i \in 1..Len(Tail(svcWatch[s])) :
           \E j \in 1..Len(svcWatch[s]) : Tail(svcWatch[s])[i] = svcWatch[s][j]
  BY <1>1, TailFacts
<1>4. ASSUME NEW t \in Services PROVE Routes(t)' = Routes(t)
  BY <1>1 DEF Routes
<1>5. Unborn'
  BY <1>1, <1>2, <1>4 DEF ServiceFacts, Unborn
<1>6. RoutedHeld' /\ MarkedHeld'
  BY <1>1, <1>4 DEF ServiceFacts, RoutedHeld, MarkedHeld, Marked
<1>7. DeletionLasts'
  <2> SUFFICES ASSUME NEW t \in Services,
                      \/ Marked(svcCache'[t])
                      \/ \E i \in 1..Len(svcWatch'[t]) : Marked(svcWatch'[t][i])
               PROVE  births'[t] > 0 /\ Doomed(t)'
    BY DEF DeletionLasts, Marked
  <2>1. \/ Marked(svcCache[t])
        \/ \E i \in 1..Len(svcWatch[t]) : Marked(svcWatch[t][i])
    <3>1. CASE t # s
      BY <1>2, <3>1
    <3>2. CASE t = s /\ Marked(svcCache'[t])
      BY <1>2, <1>3, <3>2
    <3>3. CASE t = s /\ \E i \in 1..Len(svcWatch'[t]) : Marked(svcWatch'[t][i])
      <4>1. PICK i \in 1..Len(Tail(svcWatch[s])) : Marked(Tail(svcWatch[s])[i])
        BY <1>2, <3>3
      <4>2. PICK j \in 1..Len(svcWatch[s]) : Tail(svcWatch[s])[i] = svcWatch[s][j]
        BY <1>3
      <4> QED
        BY <3>3, <4>1, <4>2
    <3> QED
      BY <3>1, <3>2, <3>3
  <2> QED
    BY <1>1, <2>1 DEF ServiceFacts, DeletionLasts, Doomed
<1>8. Steady
  BY <1>1 DEF Steady, Held, Fated, Doomed
<1> QED
  BY <1>5, <1>6, <1>7, <1>8 DEF ServiceFacts

LEMMA RestartKeeps ==
  ASSUME TypeOK, ServiceFacts, Restart
  PROVE  ServiceFacts' /\ Steady
<1>1. /\ svcCache' = svcs /\ svcWatch' = [s \in Services |-> <<>>]
      /\ UNCHANGED <<svcs, births, apis>>
  BY DEF Restart
<1>2. ASSUME NEW t \in Services PROVE Routes(t)' = Routes(t)
  BY <1>1 DEF Routes
<1>3. Unborn'
  BY <1>1, <1>2 DEF ServiceFacts, Unborn
<1>4. RoutedHeld' /\ MarkedHeld'
  BY <1>1, <1>2 DEF ServiceFacts, RoutedHeld, MarkedHeld, Marked
<1>5. DeletionLasts'
  <2> SUFFICES ASSUME NEW t \in Services,
                      \/ Marked(svcCache'[t])
                      \/ \E i \in 1..Len(svcWatch'[t]) : Marked(svcWatch'[t][i])
               PROVE  births'[t] > 0 /\ Doomed(t)'
    BY DEF DeletionLasts, Marked
  <2>1. svcWatch'[t] = <<>>
    BY <1>1
  <2>2. Marked(svcs[t])
    BY <1>1, <2>1
  <2>3. births[t] > 0
    BY <2>2 DEF ServiceFacts, Unborn, Marked, TypeOK
  <2> QED
    BY <1>1, <2>2, <2>3 DEF Marked, Doomed
<1>6. Steady
  BY <1>1 DEF Steady, Held, Fated, Doomed
<1> QED
  BY <1>3, <1>4, <1>5, <1>6 DEF ServiceFacts

(* An api is written for a service that is held. *)
LEMMA PutApiKeeps ==
  ASSUME TypeInv, ServiceFacts, WorkerFacts, NEW answered \in BOOLEAN,
         PutApi(answered)
  PROVE  ServiceFacts' /\ Steady
<1>1. UNCHANGED <<svcs, svcCache, svcWatch, births>>
  BY DEF PutApi
<1>2. CASE UNCHANGED apis
  <2>1. \A t \in Services : Routes(t)' \subseteq Routes(t)
    BY <1>2 DEF Routes
  <2> QED
    BY <1>1, <2>1, SameServices
<1>3. CASE apis' = [apis EXCEPT ![Name(Backend)] = <<Backend.svc, Backend.port>>]
  <2>1. Backend.svc \in Services /\ Name(Backend) \in Names
    BY BackendType DEF PutApi
  <2>2. Held(Backend.svc)
    BY DEF PutApi, WorkerFacts, PathHeld, Held
  <2>3. ASSUME NEW t \in Services, t # Backend.svc
        PROVE  Routes(t)' \subseteq Routes(t)
    BY <1>3, <2>1, <2>3 DEF Routes, TypeInv, TypeOK
  <2>4. Unborn' /\ RoutedHeld'
    BY <1>1, <2>1, <2>2, <2>3 DEF ServiceFacts, Unborn, RoutedHeld, Held
  <2>5. DeletionLasts' /\ MarkedHeld'
    BY <1>1 DEF ServiceFacts, DeletionLasts, MarkedHeld, Marked, Doomed
  <2>6. Steady
    BY <1>1 DEF Steady, Held, Fated, Doomed
  <2> QED
    BY <2>4, <2>5, <2>6 DEF ServiceFacts
<1> QED
  BY <1>2, <1>3 DEF PutApi

(* The three writes of a service that exists. *)
LEMMA DeleteKeeps ==
  ASSUME TypeOK, ServiceFacts, NEW s \in Services, DeleteService(s)
  PROVE  ServiceFacts' /\ Steady
<1>1. /\ svcs[s] # None /\ svcs[s] \in ServiceObjects
      /\ Publish(s, AfterDelete(svcs[s])) /\ UNCHANGED <<svcCache, births, apis>>
  BY DEF DeleteService, TypeOK
<1>2. births[s] > 0
  BY <1>1 DEF ServiceFacts, Unborn, TypeOK
<1>3. /\ AfterDelete(svcs[s]) = None \/ AfterDelete(svcs[s]).deleted
      /\ AfterDelete(svcs[s]) # None => AfterDelete(svcs[s]).finalizer
  BY <1>1 DEF AfterDelete, ServiceObjects
<1> QED
  BY <1>1, <1>2, <1>3, WriteFacts, WriteKeeps

LEMMA HoldKeeps ==
  ASSUME TypeInv, ServiceFacts, NEW answered \in BOOLEAN, HoldService(answered)
  PROVE  /\ ServiceFacts' /\ Steady
         /\ svcs[Backend.svc] # None =>
              births'[Backend.svc] > 0 /\ svcs'[Backend.svc].finalizer
<1>0. Backend.svc \in Services /\ UNCHANGED <<svcCache, births, apis>>
  BY BackendType DEF HoldService
<1>1. CASE svcs[Backend.svc] = None
  <2>1. UNCHANGED <<svcs, svcWatch>>
    BY <1>1 DEF HoldService, svcVars
  <2>2. \A t \in Services : Routes(t)' \subseteq Routes(t)
    BY <1>0 DEF Routes
  <2> QED
    BY <1>0, <1>1, <2>1, <2>2, SameServices
<1>2. CASE svcs[Backend.svc] # None
  <2> DEFINE s == Backend.svc
             o == [svcs[s] EXCEPT !.finalizer = TRUE]
  <2>1. svcs[s] \in ServiceObjects /\ Publish(s, o)
    BY <1>0, <1>2 DEF HoldService, TypeInv, TypeOK
  <2>2. births[s] > 0
    BY <1>0, <1>2 DEF ServiceFacts, Unborn, TypeInv, TypeOK
  <2>3. /\ o \in ServiceObjects /\ o.finalizer
        /\ Doomed(s) => o.deleted
    BY <1>2, <2>1, WriteFacts DEF ServiceObjects, Doomed
  <2> HIDE DEF o
  <2>4. svcs' = [svcs EXCEPT ![s] = o]
    BY <1>0, <2>1, <2>3, PublishType DEF TypeInv
  <2>5. svcs'[s] = o
    BY <1>0, <2>4 DEF TypeInv, TypeOK
  <2>6. ServiceFacts' /\ Steady
    BY <1>0, <2>1, <2>2, <2>3, WriteKeeps DEF TypeInv
  <2> QED
    BY <1>0, <2>2, <2>3, <2>5, <2>6
<1> QED
  BY <1>1, <1>2

(* The service that loses its finalizer is marked, so it is gone. *)
LEMMA ReleaseKeeps ==
  ASSUME TypeInv, ServiceFacts, WorkerFacts, NEW answered \in BOOLEAN,
         ReleaseService(answered)
  PROVE  ServiceFacts' /\ Steady
<1>0. sw.key \in Services /\ UNCHANGED <<svcCache, births, apis>> /\ sw.pc # "idle"
  BY CollectorType DEF ReleaseService
<1>1. CASE svcs[sw.key] = None
  <2>1. UNCHANGED <<svcs, svcWatch>>
    BY <1>1 DEF ReleaseService, svcVars
  <2>2. \A t \in Services : Routes(t)' \subseteq Routes(t)
    BY <1>0 DEF Routes
  <2> QED
    BY <1>0, <2>1, <2>2, SameServices
<1>2. CASE svcs[sw.key] # None
  <2>1. births[sw.key] > 0 /\ svcs[sw.key].deleted
    BY <1>0, <1>2 DEF WorkerFacts, CollectsDoomed, Doomed
  <2>2. AfterPatchOff(svcs[sw.key]) = None
    BY <2>1 DEF AfterPatchOff
  <2>3. Publish(sw.key, None)
    BY <1>2, <2>2 DEF ReleaseService
  <2> QED
    BY <1>0, <2>1, <2>3, WriteKeeps DEF TypeInv
<1> QED
  BY <1>1, <1>2

-----------------------------------------------------------------------------
(* A worker that goes on with the same service, or with none, keeps its     *)
(* facts in a steady step.                                                  *)
LEMMA CollectorKeeps ==
  ASSUME TypeInv, WorkerFacts, Steady,
         \/ sw'.pc = "idle" \/ sw' = sw
         \/ sw.pc # "idle" /\ sw'.key = sw.key
  PROVE  CollectsDoomed'
<1> SUFFICES ASSUME sw'.pc # "idle" PROVE (Fated(sw.key))'
  BY DEF CollectsDoomed, Fated, Doomed
<1>1. sw.pc # "idle" /\ sw'.key = sw.key
  OBVIOUS
<1>2. sw.key \in Services /\ Fated(sw.key)
  BY <1>1, CollectorType DEF WorkerFacts, CollectsDoomed, Fated
<1> QED
  BY <1>1, <1>2 DEF Steady, Fated, Doomed

LEMMA RouterKeeps ==
  ASSUME TypeInv, WorkerFacts, Steady,
         \/ iw'.pc \notin {"get", "put"}
         \/ iw.pc \in {"get", "put"} /\ iw'.left = iw.left
  PROVE  PathHeld'
<1> SUFFICES ASSUME iw'.pc \in {"get", "put"} PROVE (Held(Backend.svc))'
  BY DEF PathHeld, Held
<1>1. iw.pc \in {"get", "put"} /\ iw'.left = iw.left
  OBVIOUS
<1>2. Backend.svc \in Services /\ Held(Backend.svc)
  BY <1>1, BackendType DEF WorkerFacts, PathHeld, Held
<1>3. Backend' = Backend
  BY <1>1 DEF Backend
<1> QED
  BY <1>2, <1>3 DEF Steady, Held

(* A syncIngress call that fails is over. *)
LEMMA FailedIdle ==
  /\ FailIngress => iw'.pc = "idle"
  /\ FailService => sw'.pc = "idle"
BY IdleFacts DEF FailIngress, FailService

LEMMA SameRoutes ==
  ASSUME UNCHANGED apis
  PROVE  \A s \in Services : Routes(s)' \subseteq Routes(s)
BY DEF Routes

LEMMA FewerRoutes ==
  ASSUME TypeOK, apis' \in [Names -> Upstreams \cup {None}],
         \A n \in Names : apis'[n] \in {apis[n], None}
  PROVE  \A s \in Services : Routes(s)' \subseteq Routes(s)
BY DEF Routes

LEMMA UserKeeps ==
  ASSUME MaxBirths = 1, HeldInv, User
  PROVE  (ServiceFacts /\ WorkerFacts)'
<1> USE DEF HeldInv
<1>1. UNCHANGED <<iw, sw>>
  BY DEF User, CreateService, DeleteService, PutIngress, DeleteIngress, Grant,
         Withdraw
<1>2. ServiceFacts' /\ Steady
  <2>1. ASSUME NEW s \in Services, CreateService(s) \/ DeleteService(s)
        PROVE  ServiceFacts' /\ Steady
    BY <2>1, CreateKeeps, DeleteKeeps DEF TypeInv
  <2>2. CASE UNCHANGED <<svcs, svcCache, svcWatch, births, apis>>
    BY <2>2, SameRoutes, SameServices
  <2>3. ASSUME NEW h \in Hosts, Withdraw(h) PROVE ServiceFacts' /\ Steady
    <3>1. /\ apis' \in [Names -> Upstreams \cup {None}]
          /\ \A n \in Names : apis'[n] \in {apis[n], None}
          /\ UNCHANGED <<svcs, svcCache, svcWatch, births>>
      BY <2>3 DEF Withdraw, TypeInv, TypeOK
    <3> QED
      BY <3>1, FewerRoutes, SameServices DEF TypeInv
  <2> QED
    BY <2>1, <2>2, <2>3 DEF User, PutIngress, DeleteIngress, Grant
<1>3. CollectsDoomed' /\ PathHeld'
  BY <1>1, <1>2, CollectorKeeps, RouterKeeps
<1> QED
  BY <1>2, <1>3 DEF WorkerFacts

(* The steps of syncIngress. *)
LEMMA IngressKeeps ==
  ASSUME HeldInv, NEW answered \in BOOLEAN,
         \/ \E k \in Ingresses : StartIngress(k)
         \/ SetDirty \/ SetDirtyFails \/ ClaimDomains \/ CheckClaims
         \/ NextPath \/ IngressDone \/ HoldService(answered) \/ GetApi
         \/ PutApi(answered) \/ IngressCallFails
  PROVE  (ServiceFacts /\ WorkerFacts)'
<1> USE DEF HeldInv
<1>1. UNCHANGED sw
  BY DEF StartIngress, SetDirty, SetDirtyFails, ClaimDomains, CheckClaims,
         NextPath, IngressDone, HoldService, GetApi, PutApi, IngressCallFails
<1>2. ServiceFacts' /\ Steady
  <2>1. CASE HoldService(answered)
    BY <2>1, HoldKeeps
  <2>2. CASE PutApi(answered)
    BY <2>2, PutApiKeeps
  <2>3. CASE UNCHANGED <<svcs, svcCache, svcWatch, births, apis>>
    BY <2>3, SameRoutes, SameServices
  <2> QED
    BY <2>1, <2>2, <2>3
    DEF StartIngress, SetDirty, SetDirtyFails, ClaimDomains, CheckClaims,
        NextPath, IngressDone, GetApi, IngressCallFails, world
<1>3. PathHeld'
  <2>0. iw \in IngressWorkers
    BY DEF TypeInv, TypeOK
  <2>1. CASE iw'.pc \notin {"get", "put"}
    BY <1>2, <2>1, RouterKeeps
  <2>2. CASE GetApi
    <3>1. iw.pc = "get" /\ iw'.left = iw.left
      BY <2>0, <2>2 DEF GetApi, Proceed, IngressWorkers
    <3> QED
      BY <1>2, <3>1, RouterKeeps
  <2>3. CASE HoldService(answered) /\ iw'.pc \in {"get", "put"}
    <3>1. ~FailIngress
      BY <2>3, FailedIdle
    <3>2. svcs[Backend.svc] # None /\ iw' = [iw EXCEPT !.pc = "get"]
      BY <2>3, <3>1 DEF HoldService, Answer, Proceed
    <3>3. births'[Backend.svc] > 0 /\ svcs'[Backend.svc].finalizer
      BY <2>3, <3>2, HoldKeeps
    <3>4. Backend' = Backend
      BY <2>0, <3>2 DEF Backend, IngressWorkers
    <3> QED
      BY <3>3, <3>4 DEF PathHeld
  <2>4. ASSUME PutApi(answered) PROVE iw'.pc \notin {"get", "put"}
    BY <2>0, <2>4, FailedIdle DEF PutApi, Answer, Proceed, IngressWorkers
  <2>5. ASSUME \/ SetDirty \/ SetDirtyFails \/ ClaimDomains \/ CheckClaims
               \/ NextPath \/ IngressDone \/ IngressCallFails
        PROVE  iw'.pc \notin {"get", "put"}
    BY <2>0, <2>5, FailedIdle, IdleFacts
    DEF SetDirty, SetDirtyFails, ClaimDomains, CheckClaims, NextPath,
        IngressDone, IngressCallFails, Proceed, Claiming, IngressWorkers
  <2>6. ASSUME NEW k \in Ingresses, StartIngress(k)
        PROVE  iw'.pc \notin {"get", "put"}
    BY <2>6 DEF StartIngress, Claiming, IdleIngress
  <2> QED
    BY <2>1, <2>2, <2>3, <2>4, <2>5, <2>6
<1> QED
  BY <1>1, <1>2, <1>3, CollectorKeeps DEF WorkerFacts

(* The steps of syncServices. *)
LEMMA ServiceKeeps ==
  ASSUME HeldInv, NEW answered \in BOOLEAN,
         \/ \E s \in Services : StartService(s)
         \/ ListUpstream \/ RoutesDeleted \/ ServiceCallFails
         \/ \E n \in sw.doomed : DeleteRoute(n, answered)
         \/ ReleaseService(answered)
  PROVE  (ServiceFacts /\ WorkerFacts)'
<1> USE DEF HeldInv
<1>0. sw \in ServiceWorkers
  BY DEF TypeInv, TypeOK
<1>1. UNCHANGED iw
  BY DEF StartService, ListUpstream, RoutesDeleted, ServiceCallFails,
         DeleteRoute, ReleaseService
<1>2. ServiceFacts' /\ Steady
  <2>1. CASE ReleaseService(answered)
    BY <2>1, ReleaseKeeps
  <2>2. ASSUME NEW n, DeleteRoute(n, answered) PROVE ServiceFacts' /\ Steady
    <3>1. UNCHANGED <<svcs, svcCache, svcWatch, births>>
      BY <2>2 DEF DeleteRoute
    <3>2. apis' = apis \/ apis' = [apis EXCEPT ![n] = None]
      BY <2>2 DEF DeleteRoute
    <3>3. /\ apis' \in [Names -> Upstreams \cup {None}]
          /\ \A m \in Names : apis'[m] \in {apis[m], None}
      BY <3>2 DEF TypeInv, TypeOK
    <3> QED
      BY <3>1, <3>3, FewerRoutes, SameServices DEF TypeInv
  <2>3. CASE UNCHANGED <<svcs, svcCache, svcWatch, births, apis>>
    BY <2>3, SameRoutes, SameServices
  <2> QED
    BY <2>1, <2>2, <2>3
    DEF StartService, ListUpstream, RoutesDeleted, ServiceCallFails, world
<1>3. CollectsDoomed'
  <2>1. ASSUME NEW s \in Services, StartService(s) PROVE CollectsDoomed'
    <3>1. CASE svcCache[s] # None /\ svcCache[s].deleted
      <4>1. Fated(s)
        BY <3>1 DEF ServiceFacts, DeletionLasts, Marked, Fated
      <4>2. sw'.pc # "idle" => sw'.key = s
        BY <2>1, <3>1, RouteAssumption, CollectingType DEF StartService
      <4>3. UNCHANGED <<svcs, births>>
        BY <2>1 DEF StartService, world
      <4> QED
        BY <4>1, <4>2, <4>3 DEF CollectsDoomed, Fated, Doomed
    <3>2. CASE ~(svcCache[s] # None /\ svcCache[s].deleted)
      BY <1>2, <2>1, <3>2, CollectorKeeps, IdleFacts DEF StartService
    <3> QED
      BY <3>1, <3>2
  <2>2. ASSUME \/ ListUpstream \/ RoutesDeleted \/ ServiceCallFails
               \/ \E n \in sw.doomed : DeleteRoute(n, answered)
        PROVE  sw'.pc = "idle" \/ (sw.pc # "idle" /\ sw'.key = sw.key)
    <3>1. CASE ListUpstream \/ RoutesDeleted
      BY <1>0, <3>1
      DEF ListUpstream, RoutesDeleted, ProceedService, ServiceWorkers
    <3>2. CASE ServiceCallFails
      BY <3>2, FailedIdle DEF ServiceCallFails
    <3>3. ASSUME NEW n \in sw.doomed, DeleteRoute(n, answered)
          PROVE  sw'.pc = "idle" \/ (sw.pc # "idle" /\ sw'.key = sw.key)
      <4>1. FailService \/ sw' = [sw EXCEPT !.doomed = @ \ {n}]
        BY <3>3 DEF DeleteRoute, AnswerService, ProceedService
      <4>2. sw.pc # "idle"
        BY <3>3 DEF DeleteRoute
      <4> QED
        BY <1>0, <4>1, <4>2, FailedIdle DEF ServiceWorkers
    <3> QED
      BY <2>2, <3>1, <3>2, <3>3
  <2>3. ASSUME ReleaseService(answered)
        PROVE  sw'.pc = "idle" \/ (sw.pc # "idle" /\ sw'.key = sw.key)
    <3>1. /\ sw.pc # "idle" /\ sw.key \in Services
          /\ Tail(sw.ports) \in Seq(PortNumbers)
      BY <2>3, CollectorType DEF ReleaseService
    <3>2. FailService \/ sw' = Collecting(sw.key, Tail(sw.ports))
      BY <2>3 DEF ReleaseService, AnswerService, ProceedService
    <3>3. Collecting(sw.key, Tail(sw.ports)).pc # "idle"
            => Collecting(sw.key, Tail(sw.ports)).key = sw.key
      BY <3>1, CollectingType
    <3>4. CASE FailService
      BY <3>4, FailedIdle
    <3>5. CASE sw' = Collecting(sw.key, Tail(sw.ports))
      BY <3>1, <3>3, <3>5
    <3> QED
      BY <3>2, <3>4, <3>5
  <2> QED
    BY <1>2, <2>1, <2>2, <2>3, CollectorKeeps
<1>4. PathHeld'
  BY <1>1, <1>2, RouterKeeps
<1> QED
  BY <1>2, <1>3, <1>4 DEF WorkerFacts

LEMMA RestKeeps ==
  ASSUME HeldInv,
         \/ \E s \in Services : Observe(s)
         \/ \E k \in Keys : Handle(k)
         \/ Restart \/ UNCHANGED vars
  PROVE  (ServiceFacts /\ WorkerFacts)'
<1> USE DEF HeldInv
<1>1. ServiceFacts' /\ Steady
  <2>1. CASE UNCHANGED <<svcs, svcCache, svcWatch, births, apis>>
    BY <2>1, SameRoutes, SameServices
  <2> QED
    BY <2>1, ObserveKeeps, RestartKeeps DEF Handle, vars, TypeInv
<1>2. \/ UNCHANGED <<iw, sw>>
      \/ iw'.pc = "idle" /\ sw'.pc = "idle"
  BY IdleFacts DEF Observe, Handle, Restart, vars
<1> QED
  BY <1>1, <1>2, CollectorKeeps, RouterKeeps DEF WorkerFacts

LEMMA InitHeld == Init => HeldInv
<1> SUFFICES ASSUME Init PROVE HeldInv
  OBVIOUS
<1>1. \A s \in Services : /\ svcs[s] = None /\ svcCache[s] = None
                           /\ svcWatch[s] = <<>> /\ Routes(s) = {}
  BY DEF Init, Routes
<1>2. iw.pc = "idle" /\ sw.pc = "idle"
  BY IdleFacts DEF Init
<1>3. ServiceFacts
  BY <1>1 DEF ServiceFacts, Unborn, DeletionLasts, MarkedHeld, RoutedHeld, Marked
<1>4. WorkerFacts
  BY <1>2 DEF WorkerFacts, CollectsDoomed, PathHeld
<1> QED
  BY <1>3, <1>4, InitType DEF HeldInv

LEMMA NextHeld ==
  ASSUME MaxBirths = 1, HeldInv, [Next]_vars
  PROVE  HeldInv'
<1>1. TypeInv'
  BY NextType DEF HeldInv
<1>2. (ServiceFacts /\ WorkerFacts)'
  <2>1. CASE User
    BY <2>1, UserKeeps
  <2>2. CASE IngressStep \/ \E k \in Ingresses : StartIngress(k)
    BY <2>2, IngressKeeps DEF IngressStep
  <2>3. CASE ServiceStep \/ \E s \in Services : StartService(s)
    BY <2>3, ServiceKeeps DEF ServiceStep
  <2>4. CASE Fault
    BY <2>4, IngressKeeps, ServiceKeeps DEF Fault
  <2> QED
    BY <2>1, <2>2, <2>3, <2>4, RestKeeps DEF Next
<1> QED
  BY <1>1, <1>2 DEF HeldInv

-----------------------------------------------------------------------------
(* The state of the controller keeps its shape, whatever number of services *)
(* is created again: a worker in the middle of a call knows its key, and    *)
(* has a path or a port left to work on.                                    *)
THEOREM RouteTypes == Spec => [](TypeOK /\ WorkerShape)
<1>1. Init => TypeInv
  BY InitType
<1>2. TypeInv /\ [Next]_vars => TypeInv'
  BY NextType
<1>3. TypeInv => TypeOK /\ WorkerShape
  BY DEF TypeInv
<1> QED
  BY <1>1, <1>2, <1>3, PTL DEF Spec

(* The parts of RoutedHeldInv support one another through every step of the *)
(* two workers, the informer, the users and a restart.                      *)
THEOREM RoutedInvariant ==
  ASSUME MaxBirths = 1
  PROVE  Spec => []RoutedHeldInv
<1>1. Init => HeldInv
  BY InitHeld
<1>2. HeldInv /\ [Next]_vars => HeldInv'
  BY NextHeld
<1>3. HeldInv => RoutedHeldInv
  BY DEF HeldInv, ServiceFacts, WorkerFacts, TypeInv, RoutedHeldInv
<1> QED
  BY <1>1, <1>2, <1>3, PTL DEF Spec

(* Whatever calls of syncIngress and syncServices overlap, fail or are lost *)
(* in a restart, a service that Kong routes to carries the finalizer.       *)
THEOREM RoutedServicesHeld ==
  ASSUME MaxBirths = 1
  PROVE  Spec => []RoutedHeld
<1>1. RoutedHeldInv => RoutedHeld
  BY DEF RoutedHeldInv
<1> QED
  BY <1>1, RoutedInvariant, PTL

-----------------------------------------------------------------------------
(* No deletion is forgotten.  The informer trails the API server by exactly *)
(* the events still to come; a service that waits for its collection stays  *)
(* queued, told or watched until syncServices takes it, with a cached copy  *)
(* that is marked, and syncServices ends on an error, which puts the key    *)
(* back, or with a PATCH after which the service is not marked any more.    *)

Trails ==
  \A s \in Services :
    svcs[s] = IF svcWatch[s] = <<>> THEN svcCache[s]
              ELSE svcWatch[s][Len(svcWatch[s])]

Awaited(s) == s \in queue \cup told \/ svcWatch[s] # <<>>

CollectInv ==
  /\ TypeInv /\ Trails
  /\ sw.pc = "idle" => sw.key = None
  /\ \A s \in Services :
       Marked(svcs[s]) /\ Ports[s] # <<>> => Awaited(s) \/ sw.key = s

LEMMA LastFacts ==
  ASSUME NEW S, NEW q \in Seq(S), NEW e \in S
  PROVE  /\ Append(q, e) # <<>>
         /\ Append(q, e)[Len(Append(q, e))] = e
         /\ q # <<>> /\ Tail(q) = <<>> => Head(q) = q[Len(q)]
         /\ q # <<>> /\ Tail(q) # <<>> => Tail(q)[Len(Tail(q))] = q[Len(q)]
<1>1. /\ Append(q, e) # <<>>
      /\ Append(q, e)[Len(Append(q, e))] = e
  OBVIOUS
<1>2. ASSUME q # <<>>
      PROVE  /\ Len(Tail(q)) \in Nat /\ Len(Tail(q)) = Len(q) - 1
             /\ Head(q) = q[1]
             /\ \A i \in 1..Len(Tail(q)) : Tail(q)[i] = q[i + 1]
             /\ (Tail(q) = <<>>) <=> (Len(Tail(q)) = 0)
  <2>1. Tail(q) \in Seq(S) /\ Head(q) = q[1]
    BY <1>2, TailFacts
  <2>2. /\ Len(Tail(q)) = Len(q) - 1
        /\ \A i \in 1..Len(Tail(q)) : Tail(q)[i] = q[i + 1]
    BY <1>2
  <2>3. \A t \in Seq(S) : Len(t) \in Nat /\ ((t = <<>>) <=> (Len(t) = 0))
    OBVIOUS
  <2> QED
    BY <2>1, <2>2, <2>3
<1>3. ASSUME q # <<>>, Tail(q) = <<>> PROVE Head(q) = q[Len(q)]
  <2>1. Len(q) = 1
    BY <1>2, <1>3
  <2> QED
    BY <1>2, <1>3, <2>1
<1>4. ASSUME q # <<>>, Tail(q) # <<>>
      PROVE  Tail(q)[Len(Tail(q))] = q[Len(q)]
  <2>1. Len(Tail(q)) \in 1..Len(Tail(q)) /\ Len(Tail(q)) + 1 = Len(q)
    BY <1>2, <1>4
  <2> QED
    BY <1>2, <1>4, <2>1
<1> QED
  BY <1>1, <1>3, <1>4

(* A write of a service: it is stored, and lies before the informer.        *)
LEMMA PublishTrails ==
  ASSUME TypeOK, NEW s \in Services, NEW o \in ServiceObjects \cup {None},
         Publish(s, o)
  PROVE  /\ svcs' = [svcs EXCEPT ![s] = o]
         /\ \A t \in Services \ {s} : svcWatch'[t] = svcWatch[t]
         /\ o # svcs[s] => /\ svcWatch'[s] # <<>>
                           /\ svcWatch'[s][Len(svcWatch'[s])] = o
         /\ o = svcs[s] => svcWatch' = svcWatch
<1> DEFINE S == ServiceObjects \cup {None}
<1>1. svcWatch \in [Services -> Seq(S)] /\ svcWatch[s] \in Seq(S) /\ o \in S
  BY DEF TypeOK
<1>2. /\ svcs' = [svcs EXCEPT ![s] = o]
      /\ \A t \in Services \ {s} : svcWatch'[t] = svcWatch[t]
  BY PublishType
<1>3. o = svcs[s] => svcWatch' = svcWatch
  BY DEF Publish, svcVars
<1>4. o # svcs[s] => svcWatch' = [svcWatch EXCEPT ![s] = Append(svcWatch[s], o)]
  BY DEF Publish
<1> HIDE DEF S
<1>5. o # svcs[s] => svcWatch'[s] = Append(svcWatch[s], o)
  BY <1>1, <1>4
<1> QED
  BY <1>1, <1>2, <1>3, <1>5, LastFacts

Writes(s, o) == Publish(s, o) /\ UNCHANGED svcCache

LEMMA ServiceSteps ==
  ASSUME TypeInv, [Next]_vars
  PROVE  \/ UNCHANGED <<svcs, svcCache, svcWatch>>
         \/ \E s \in Services : Observe(s)
         \/ Restart
         \/ \E s \in Services, o \in ServiceObjects \cup {None} : Writes(s, o)
<1> USE DEF TypeInv
<1>1. ASSUME NEW s \in Services, CreateService(s)
      PROVE  \E o \in ServiceObjects : Writes(s, o)
  BY <1>1 DEF CreateService, ServiceObjects, Writes
<1>2. ASSUME NEW s \in Services, DeleteService(s)
      PROVE  \E o \in ServiceObjects \cup {None} : Writes(s, o)
  BY <1>2, WriteFacts DEF DeleteService, TypeOK, Writes
<1>3. CASE User
  BY <1>1, <1>2, <1>3 DEF User, DeleteIngress, PutIngress, Grant, Withdraw
<1>4. ASSUME NEW answered \in BOOLEAN, HoldService(answered)
      PROVE  \/ UNCHANGED <<svcs, svcCache, svcWatch>>
             \/ \E s \in Services, o \in ServiceObjects \cup {None} : Writes(s, o)
  <2>1. Backend.svc \in Services
    BY <1>4, BackendType DEF HoldService
  <2>2. CASE svcs[Backend.svc] = None
    BY <1>4, <2>2 DEF HoldService, svcVars
  <2>3. CASE svcs[Backend.svc] # None
    <3>1. [svcs[Backend.svc] EXCEPT !.finalizer = TRUE] \in ServiceObjects
      BY <2>1, <2>3, WriteFacts DEF TypeOK
    <3> QED
      BY <1>4, <2>1, <2>3, <3>1 DEF HoldService, Writes
  <2> QED
    BY <2>2, <2>3
<1>5. ASSUME NEW answered \in BOOLEAN, ReleaseService(answered)
      PROVE  \/ UNCHANGED <<svcs, svcCache, svcWatch>>
             \/ \E s \in Services, o \in ServiceObjects \cup {None} : Writes(s, o)
  <2>1. sw.key \in Services
    BY <1>5 DEF ReleaseService, TypeOK, WorkerShape, ServiceWorkers
  <2>2. CASE svcs[sw.key] = None
    BY <1>5, <2>2 DEF ReleaseService, svcVars
  <2>3. CASE svcs[sw.key] # None
    <3>1. AfterPatchOff(svcs[sw.key]) \in ServiceObjects \cup {None}
      BY <2>1, <2>3, WriteFacts DEF TypeOK
    <3> QED
      BY <1>5, <2>1, <2>3, <3>1 DEF ReleaseService, Writes
  <2> QED
    BY <2>2, <2>3
<1>6. CASE \/ \E k \in Keys : Handle(k)
           \/ \E k \in Ingresses : StartIngress(k)
           \/ \E s \in Services : StartService(s)
           \/ UNCHANGED vars
  BY <1>6 DEF Handle, StartIngress, StartService, world, vars
<1>7. CASE \/ SetDirty \/ ClaimDomains \/ CheckClaims \/ NextPath \/ IngressDone
           \/ GetApi \/ SetDirtyFails \/ IngressCallFails
           \/ \E answered \in BOOLEAN : PutApi(answered)
  BY <1>7 DEF SetDirty, ClaimDomains, CheckClaims, NextPath, IngressDone,
              GetApi, SetDirtyFails, IngressCallFails, PutApi, world
<1>8. CASE \/ ListUpstream \/ RoutesDeleted \/ ServiceCallFails
           \/ \E n \in sw.doomed, answered \in BOOLEAN : DeleteRoute(n, answered)
  BY <1>8 DEF ListUpstream, RoutesDeleted, ServiceCallFails, DeleteRoute, world
<1> QED
  BY <1>3, <1>4, <1>5, <1>6, <1>7, <1>8
  DEF Next, IngressStep, ServiceStep, Fault

LEMMA NextTrails ==
  ASSUME TypeInv, Trails, [Next]_vars
  PROVE  Trails'
<1> USE DEF TypeInv
<1>1. CASE UNCHANGED <<svcs, svcCache, svcWatch>>
  BY <1>1 DEF Trails
<1>2. ASSUME NEW s \in Services, Observe(s) PROVE Trails'
  <2> DEFINE S == ServiceObjects \cup {None}
  <2>1. /\ svcWatch \in [Services -> Seq(S)] /\ svcWatch[s] \in Seq(S)
        /\ svcWatch[s] # <<>> /\ svcCache \in [Services -> S]
    BY <1>2 DEF Observe, TypeOK
  <2>2. /\ svcCache' = [svcCache EXCEPT ![s] = Head(svcWatch[s])]
        /\ svcWatch' = [svcWatch EXCEPT ![s] = Tail(svcWatch[s])]
        /\ svcs' = svcs
    BY <1>2 DEF Observe
  <2> HIDE DEF S
  <2>3. svcCache'[s] = Head(svcWatch[s]) /\ svcWatch'[s] = Tail(svcWatch[s])
    BY <2>1, <2>2
  <2>4. Head(svcWatch[s]) \in S
    BY <2>1, TailFacts
  <2>5. svcs[s] = svcWatch[s][Len(svcWatch[s])]
    BY <2>1 DEF Trails
  <2>6. svcs'[s] = IF svcWatch'[s] = <<>> THEN svcCache'[s]
                   ELSE svcWatch'[s][Len(svcWatch'[s])]
    BY <2>1, <2>2, <2>3, <2>4, <2>5, LastFacts
  <2>7. \A t \in Services \ {s} :
          svcCache'[t] = svcCache[t] /\ svcWatch'[t] = svcWatch[t]
    BY <2>1, <2>2
  <2> QED
    BY <2>2, <2>6, <2>7 DEF Trails
<1>3. CASE Restart
  BY <1>3 DEF Restart, Trails
<1>4. ASSUME NEW s \in Services, NEW o \in ServiceObjects \cup {None}, Writes(s, o)
      PROVE  Trails'
  <2>1. /\ svcs' = [svcs EXCEPT ![s] = o] /\ svcCache' = svcCache
        /\ \A t \in Services \ {s} : svcWatch'[t] = svcWatch[t]
        /\ o # svcs[s] => /\ svcWatch'[s] # <<>>
                          /\ svcWatch'[s][Len(svcWatch'[s])] = o
        /\ o = svcs[s] => svcWatch' = svcWatch
    BY <1>4, PublishTrails DEF Writes
  <2>2. svcs'[s] = o /\ \A t \in Services \ {s} : svcs'[t] = svcs[t]
    BY <2>1 DEF TypeOK
  <2> QED
    BY <2>1, <2>2 DEF Trails
<1> QED
  BY <1>1, <1>2, <1>3, <1>4, ServiceSteps

(* A change of a service lies before the informer.                          *)
LEMMA ChangeAwaited ==
  ASSUME TypeInv, [Next]_vars, NEW s \in Services, svcs'[s] # svcs[s]
  PROVE  svcWatch'[s] # <<>>
<1>1. ASSUME NEW t \in Services, NEW o \in ServiceObjects \cup {None}, Writes(t, o)
      PROVE  svcWatch'[s] # <<>>
  <2>1. /\ svcs' = [svcs EXCEPT ![t] = o]
        /\ o # svcs[t] => svcWatch'[t] # <<>>
    BY <1>1, PublishTrails DEF TypeInv, Writes
  <2>2. t = s /\ o # svcs[s]
    BY <2>1 DEF TypeInv, TypeOK
  <2> QED
    BY <2>1, <2>2
<1> QED
  BY <1>1, ServiceSteps DEF Observe, Restart

(* The queue and the handlers lose a service only to syncServices.          *)
LEMMA QueueStays ==
  ASSUME TypeInv, [Next]_vars, ~Restart, NEW s \in Services, ~StartService(s),
         s \in queue \cup told
  PROVE  s \in queue' \cup told'
<1>1. CASE User \/ UNCHANGED vars
  BY <1>1 DEF User, CreateService, DeleteService, DeleteIngress, PutIngress,
              Grant, Withdraw, vars
<1>2. CASE \/ \E t \in Services : Observe(t) \/ StartService(t)
           \/ \E k \in Keys : Handle(k)
  BY <1>2 DEF Observe, StartService, Handle, world
<1>3. CASE \E k \in Ingresses : StartIngress(k)
  BY <1>3, RouteAssumption DEF StartIngress, world
<1>4. queue \subseteq queue' /\ told \subseteq told'
        => s \in queue' \cup told'
  OBVIOUS
<1>5. CASE \/ SetDirty \/ ClaimDomains \/ CheckClaims \/ NextPath \/ IngressDone
           \/ GetApi \/ SetDirtyFails \/ IngressCallFails
           \/ \E answered \in BOOLEAN : HoldService(answered) \/ PutApi(answered)
  BY <1>4, <1>5
  DEF SetDirty, ClaimDomains, CheckClaims, NextPath, IngressDone, GetApi,
      SetDirtyFails, IngressCallFails, HoldService, PutApi, Proceed, Answer,
      FailIngress, world
<1>6. CASE \/ ListUpstream \/ RoutesDeleted \/ ServiceCallFails
           \/ \E answered \in BOOLEAN : ReleaseService(answered)
           \/ \E n \in sw.doomed, answered \in BOOLEAN : DeleteRoute(n, answered)
  BY <1>4, <1>6
  DEF ListUpstream, RoutesDeleted, ServiceCallFails, ReleaseService,
      DeleteRoute, ProceedService, AnswerService, FailService, world
<1> QED
  BY <1>1, <1>2, <1>3, <1>5, <1>6 DEF Next, IngressStep, ServiceStep, Fault

LEMMA AwaitedStays ==
  ASSUME TypeInv, [Next]_vars, ~Restart, NEW s \in Services, ~StartService(s),
         Awaited(s)
  PROVE  Awaited(s)'
<1>1. CASE s \in queue \cup told
  BY <1>1, QueueStays DEF Awaited
<1>2. CASE svcWatch[s] # <<>>
  <2>1. ASSUME NEW t \in Services, Observe(t) PROVE Awaited(s)'
    <3>1. CASE t = s
      BY <2>1, <3>1 DEF Observe, Awaited
    <3>2. CASE t # s
      BY <1>2, <2>1, <3>2 DEF Observe, Awaited, TypeInv, TypeOK
    <3> QED
      BY <3>1, <3>2
  <2>2. ASSUME NEW t \in Services, NEW o \in ServiceObjects \cup {None},
               Writes(t, o)
        PROVE  svcWatch'[s] # <<>>
    <3>1. /\ \A r \in Services \ {t} : svcWatch'[r] = svcWatch[r]
          /\ o # svcs[t] => svcWatch'[t] # <<>>
          /\ o = svcs[t] => svcWatch' = svcWatch
      BY <2>2, PublishTrails DEF TypeInv, Writes
    <3> QED
      BY <1>2, <3>1
  <2> QED
    BY <1>2, <2>1, <2>2, ServiceSteps DEF Awaited
<1> QED
  BY <1>1, <1>2 DEF Awaited

(* The collection under way goes on, fails back into the queue, or has let  *)
(* the service go.                                                          *)
LEMMA CollectionGoesOn ==
  ASSUME TypeInv, [Next]_vars, ~Restart, NEW s \in Services, sw.pc # "idle",
         sw.key = s
  PROVE  sw'.key = s \/ s \in queue' \/ ~Marked(svcs'[s])
<1> USE DEF TypeInv
<1>1. sw \in ServiceWorkers
  BY DEF TypeOK
<1>2. UNCHANGED sw => sw'.key = s
  OBVIOUS
<1>3. CASE User \/ UNCHANGED vars
  BY <1>2, <1>3 DEF User, CreateService, DeleteService, DeleteIngress,
                    PutIngress, Grant, Withdraw, vars
<1>4. CASE \/ \E t \in Services : Observe(t) \/ StartService(t)
           \/ \E k \in Keys : Handle(k)
           \/ \E k \in Ingresses : StartIngress(k)
  BY <1>2, <1>4 DEF Observe, StartService, Handle, StartIngress
<1>5. CASE \/ SetDirty \/ ClaimDomains \/ CheckClaims \/ NextPath \/ IngressDone
           \/ GetApi \/ SetDirtyFails \/ IngressCallFails
           \/ \E answered \in BOOLEAN : HoldService(answered) \/ PutApi(answered)
  BY <1>2, <1>5
  DEF SetDirty, ClaimDomains, CheckClaims, NextPath, IngressDone, GetApi,
      SetDirtyFails, IngressCallFails, HoldService, PutApi
<1>6. FailService => s \in queue'
  BY DEF FailService
<1>7. CASE ListUpstream \/ RoutesDeleted
  BY <1>1, <1>7 DEF ListUpstream, RoutesDeleted, ProceedService, ServiceWorkers
<1>8. CASE ServiceCallFails
  BY <1>6, <1>8 DEF ServiceCallFails
<1>9. ASSUME NEW n \in sw.doomed, NEW answered \in BOOLEAN,
             DeleteRoute(n, answered)
      PROVE  sw'.key = s \/ s \in queue'
  BY <1>1, <1>6, <1>9
  DEF DeleteRoute, AnswerService, ProceedService, ServiceWorkers
<1>10. ASSUME NEW answered \in BOOLEAN, ReleaseService(answered)
       PROVE  s \in queue' \/ ~Marked(svcs'[s])
  <2>1. CASE svcs[s] = None
    BY <1>6, <1>10, <2>1 DEF ReleaseService
  <2>2. CASE svcs[s] # None
    <3>1. svcs[s] \in ServiceObjects
      BY <2>2 DEF TypeOK
    <3>2. AfterPatchOff(svcs[s]) \in ServiceObjects \cup {None}
      BY <3>1, WriteFacts
    <3>3. Publish(s, AfterPatchOff(svcs[s]))
      BY <1>10, <2>2 DEF ReleaseService
    <3>4. svcs'[s] = AfterPatchOff(svcs[s])
      BY <3>2, <3>3, PublishTrails DEF TypeOK
    <3>5. ~Marked(AfterPatchOff(svcs[s]))
      BY <3>1 DEF AfterPatchOff, Marked, ServiceObjects
    <3> QED
      BY <3>4, <3>5
  <2> QED
    BY <2>1, <2>2
<1> QED
  BY <1>3, <1>4, <1>5, <1>7, <1>8, <1>9, <1>10
  DEF Next, IngressStep, ServiceStep, Fault

(* syncServices takes a service off the queue: what it finds in the cache   *)
(* is the marked service, or there is an event to come.                     *)
LEMMA StartCollects ==
  ASSUME TypeInv, Trails, NEW s \in Services, StartService(s),
         Marked(svcs[s]), Ports[s] # <<>>
  PROVE  Awaited(s)' \/ sw'.key = s
<1>1. CASE svcWatch[s] # <<>>
  BY <1>1 DEF StartService, world, Awaited
<1>2. CASE svcWatch[s] = <<>>
  <2>1. svcCache[s] # None /\ svcCache[s].deleted
    BY <1>2 DEF Trails, Marked
  <2>2. sw' = Collecting(s, Ports[s])
    BY <2>1 DEF StartService
  <2> QED
    BY <2>2 DEF Collecting, IdleService
<1> QED
  BY <1>1, <1>2

LEMMA NextIdle ==
  ASSUME TypeInv, [Next]_vars, sw.pc = "idle" => sw.key = None
  PROVE  sw'.pc = "idle" => sw'.key = None
<1>1. sw \in ServiceWorkers
  BY DEF TypeInv, TypeOK
<1>2. UNCHANGED sw => (sw'.pc = "idle" => sw'.key = None)
  OBVIOUS
<1>3. sw' = IdleService => (sw'.pc = "idle" => sw'.key = None)
  BY DEF IdleService
<1>4. \A s, p : sw' = Collecting(s, p) => (sw'.pc = "idle" => sw'.key = None)
  BY DEF Collecting, IdleService
<1>5. CASE User \/ UNCHANGED vars
  BY <1>2, <1>5 DEF User, CreateService, DeleteService, DeleteIngress,
                    PutIngress, Grant, Withdraw, vars
<1>6. CASE \/ \E t \in Services : Observe(t)
           \/ \E k \in Keys : Handle(k)
           \/ \E k \in Ingresses : StartIngress(k)
  BY <1>2, <1>6 DEF Observe, Handle, StartIngress
<1>7. CASE \/ SetDirty \/ ClaimDomains \/ CheckClaims \/ NextPath \/ IngressDone
           \/ GetApi \/ SetDirtyFails \/ IngressCallFails
           \/ \E answered \in BOOLEAN : HoldService(answered) \/ PutApi(answered)
  BY <1>2, <1>7
  DEF SetDirty, ClaimDomains, CheckClaims, NextPath, IngressDone, GetApi,
      SetDirtyFails, IngressCallFails, HoldService, PutApi
<1>8. CASE \E t \in Services : StartService(t)
  BY <1>3, <1>4, <1>8 DEF StartService
<1>9. CASE ListUpstream \/ RoutesDeleted
  BY <1>1, <1>9 DEF ListUpstream, RoutesDeleted, ProceedService, ServiceWorkers
<1>10. CASE ServiceCallFails \/ Restart
  BY <1>3, <1>10 DEF ServiceCallFails, Restart, FailService
<1>11. ASSUME NEW n \in sw.doomed, NEW answered \in BOOLEAN,
              DeleteRoute(n, answered)
       PROVE  sw'.pc = "idle" => sw'.key = None
  BY <1>1, <1>3, <1>11
  DEF DeleteRoute, AnswerService, ProceedService, FailService, ServiceWorkers
<1>12. ASSUME NEW answered \in BOOLEAN, ReleaseService(answered)
       PROVE  sw'.pc = "idle" => sw'.key = None
  BY <1>3, <1>4, <1>12
  DEF ReleaseService, AnswerService, ProceedService, FailService
<1> QED
  BY <1>5, <1>6, <1>7, <1>8, <1>9, <1>10, <1>11, <1>12
  DEF Next, IngressStep, ServiceStep, Fault

LEMMA NextCollect ==
  ASSUME CollectInv, [Next]_vars
  PROVE  CollectInv'
<1> USE DEF CollectInv
<1>1. /\ TypeInv' /\ Trails'
      /\ sw'.pc = "idle" => sw'.key = None
  BY NextType, NextTrails, NextIdle
<1>2. ASSUME NEW s \in Services, Marked(svcs'[s]), Ports[s] # <<>>
      PROVE  Awaited(s)' \/ sw'.key = s
  <2>1. CASE Restart
    BY <1>2, <2>1 DEF Restart, Marked, Awaited
  <2>2. CASE svcs'[s] # svcs[s]
    BY <2>2, ChangeAwaited DEF Awaited
  <2>3. CASE ~Restart /\ svcs'[s] = svcs[s]
    <3>1. Marked(svcs[s])
      BY <1>2, <2>3
    <3>2. CASE StartService(s)
      BY <1>2, <3>1, <3>2, StartCollects
    <3>3. CASE Awaited(s) /\ ~StartService(s)
      BY <2>3, <3>3, AwaitedStays
    <3>4. CASE sw.key = s /\ ~StartService(s)
      <4>1. sw.pc # "idle"
        BY <3>4, AbsentAssumption DEF Keys
      <4> QED
        BY <1>2, <2>3, <3>4, <4>1, CollectionGoesOn DEF Awaited
    <3> QED
      BY <1>2, <3>1, <3>2, <3>3, <3>4
  <2> QED
    BY <2>1, <2>2, <2>3
<1> QED
  BY <1>1, <1>2

(* A deleted service with a port waits for its collection in the queue, in  *)
(* a handler, before the informer or in syncServices: no failed call, lost  *)
(* answer or restart drops it, however often the service is created again.  *)
THEOREM DeletionsScheduled == Spec => []CollectionScheduled
<1>1. Init => CollectInv
  <2> SUFFICES ASSUME Init PROVE CollectInv
    OBVIOUS
  <2>1. Trails /\ \A s \in Services : ~Marked(svcs[s])
    BY DEF Init, Trails, Marked
  <2>2. sw.key = None
    BY DEF Init, IdleService
  <2> QED
    BY <2>1, <2>2, InitType DEF CollectInv
<1>2. CollectInv /\ [Next]_vars => CollectInv'
  BY NextCollect
<1>3. CollectInv => CollectionScheduled
  BY DEF CollectInv, CollectionScheduled, Awaited
<1> QED
  BY <1>1, <1>2, <1>3, PTL DEF Spec
=============================================================================
