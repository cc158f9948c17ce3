------------------------ MODULE PrimarySearchProofs ------------------------
(***************************************************************************)
(* Proofs about PrimarySearch: for every cache and every asker, and every  *)
(* order in which the lists are gone through.                              *)
(***************************************************************************)
EXTENDS PrimarySearch, TLAPS

-----------------------------------------------------------------------------
LEMMA OrderType ==
  ASSUME asker \in Askers
  PROVE  Order \in Seq(Namespaces) /\ Len(Order) \in Nat /\ Len(Order) >= 1
<1>1. /\ asker.key.ns \in Namespaces
      /\ asker.obj.spec.parent \in Namespaces \cup {NoParent}
      /\ SystemNamespace \in Namespaces
  BY TypesAssumption, SearchAssumption DEF Domains
<1> DEFINE A == IF asker.obj.spec.parent = NoParent THEN <<>>
                ELSE <<asker.obj.spec.parent>>
           B == IF SystemNamespace \in {asker.key.ns, asker.obj.spec.parent}
                THEN <<>> ELSE <<SystemNamespace>>
<1>2. A \in Seq(Namespaces) /\ B \in Seq(Namespaces)
  BY <1>1
<1>3. Order = A \o <<asker.key.ns>> \o B
  BY DEF Order, SearchOrder
<1> HIDE DEF A, B
<1> QED
  BY <1>1, <1>2, <1>3

(* The callback's test is the predicate DomainClaims uses. *)
LEMMA AcceptsServes ==
  ASSUME NEW j
  PROVE  Accepts(j) <=> Serves(j, cache[j], asker.key, asker.obj)
BY DEF Accepts, Serves

LEMMA OrderStands ==
  ASSUME UNCHANGED asker
  PROVE  Order' = Order
BY DEF Order

LEMMA SearchInit == Init => SearchInv
<1> SUFFICES ASSUME Init PROVE SearchInv
  OBVIOUS
<1>1. /\ asker \in Askers /\ cache \in Caches /\ left = Order
      /\ found = None /\ done = FALSE /\ unseen = InNamespace(Head(left))
  BY DEF Init, Order
<1>2. Order \in Seq(Namespaces) /\ Len(Order) \in Nat /\ Len(Order) >= 1
  BY <1>1, OrderType
<1>3. Current = 1 /\ Head(left) = Order[1]
  BY <1>1, <1>2 DEF Current
<1>4. TypeOK
  BY <1>1, <1>2 DEF TypeOK, InNamespace
<1>5. Servers(Order[1]) \subseteq unseen
  BY <1>1, <1>3 DEF Servers
<1>6. \A h \in 1..Len(left) : left[h] = Order[Current + h - 1]
  BY <1>1, <1>2, <1>3
<1> QED
  BY <1>1, <1>2, <1>3, <1>4, <1>5, <1>6 DEF SearchInv, Position

LEMMA SearchNext == SearchInv /\ [Next]_vars => SearchInv'
<1> SUFFICES ASSUME SearchInv, [Next]_vars PROVE SearchInv'
  OBVIOUS
<1>1. TypeOK /\ Position
  BY DEF SearchInv
<1>2. Order \in Seq(Namespaces) /\ Len(Order) \in Nat /\ Len(Order) >= 1
  BY <1>1, OrderType DEF TypeOK
<1>3. UNCHANGED <<cache, asker>>
  BY DEF Next, Visit, NextNamespace, Finish, vars
<1>4. ASSUME NEW j \in Keys, Visit(j) PROVE SearchInv'
  <2>1. /\ ~done /\ j \in unseen /\ unseen' = unseen \ {j}
        /\ found' = IF ~Skips(j) /\ Accepts(j) THEN j ELSE found
        /\ UNCHANGED <<left, done>>
    BY <1>4 DEF Visit
  <2>2. TypeOK'
    BY <1>1, <1>3, <2>1 DEF TypeOK
  <2>3. Current' = Current /\ Order' = Order
    BY <1>3, <2>1, OrderStands DEF Current
  <2>4. PICK ns : ns = Order[Current] /\ ns = Order'[Current']
    BY <2>3
  <2>6. j \in InNamespace(ns) /\ (Accepts(j) <=> j \in Servers(ns))
    BY <1>1, <2>1, <2>4, AcceptsServes DEF Position, Servers
  <2>7. /\ found = None => Servers(ns) \subseteq unseen
        /\ found # None =>
             /\ found \in Servers(ns)
             /\ ~IsPrimary(cache[found])
                  => \A i \in Servers(ns) \ unseen : ~IsPrimary(cache[i])
    BY <1>1, <2>4 DEF Position
  <2>8. IF found' = None
        THEN Servers(ns) \subseteq unseen'
        ELSE /\ found' \in Servers(ns)
             /\ ~IsPrimary(cache[found'])
                  => \A i \in Servers(ns) \ unseen' : ~IsPrimary(cache[i])
    <3>1. j # None
      BY SearchAssumption
    <3>2. CASE ~Skips(j) /\ Accepts(j)
      BY <2>1, <2>6, <2>7, <3>1, <3>2 DEF Skips
    <3>3. CASE ~(~Skips(j) /\ Accepts(j))
      BY <2>1, <2>6, <2>7, <3>3 DEF Skips
    <3> QED
      BY <3>2, <3>3
  <2>9. unseen' \subseteq InNamespace(ns)
    BY <1>1, <2>1, <2>4 DEF Position
  <2>10. Position'
    <3>1. /\ Current' \in 1..Len(Order')
          /\ \A h \in 1..Len(left') : left'[h] = Order'[Current' + h - 1]
      BY <1>1, <2>1, <2>3 DEF Position
    <3>2. (\A h \in 1..(Current - 1) : Servers(Order[h]) = {})'
      BY <1>1, <1>3, <2>3 DEF Position, Servers, InNamespace
    <3>3. (unseen \subseteq InNamespace(Order[Current]))'
      BY <1>3, <2>4, <2>9 DEF InNamespace
    <3>4. (IF found = None
           THEN Servers(Order[Current]) \subseteq unseen
           ELSE /\ found \in Servers(Order[Current])
                /\ ~IsPrimary(cache[found])
                     => \A i \in Servers(Order[Current]) \ unseen :
                          ~IsPrimary(cache[i]))'
      BY <1>3, <2>4, <2>8 DEF Servers, InNamespace
    <3> QED
      BY <2>1, <3>1, <3>2, <3>3, <3>4 DEF Position
  <2> QED
    BY <2>2, <2>10 DEF SearchInv
<1>5. CASE NextNamespace
  <2>1. /\ ~done /\ ~done' /\ unseen = {} /\ found = None /\ found' = None
        /\ Len(left) > 1
        /\ left' = Tail(left) /\ unseen' = InNamespace(left[2])
    BY <1>5 DEF NextNamespace
  <2>2. left \in Seq(Namespaces) /\ left # <<>> /\ Len(left) \in Nat
    BY <1>1, <2>1 DEF TypeOK
  <2>3. /\ left' \in Seq(Namespaces) /\ Len(left') = Len(left) - 1
        /\ \A h \in 1..Len(left') : left'[h] = left[h + 1]
    BY <2>1, <2>2
  <2>4. Order' = Order /\ Current' = Current + 1
    <3>1. Order' = Order
      BY <1>3, OrderStands
    <3> QED
      BY <1>2, <2>2, <2>3, <3>1 DEF Current
  <2>6. /\ Current \in 1..Len(Order)
        /\ \A h \in 1..Len(left) : left[h] = Order[Current + h - 1]
        /\ \A h \in 1..(Current - 1) : Servers(Order[h]) = {}
        /\ Servers(Order[Current]) = {}
    BY <1>1, <2>1 DEF Position
  <2>7. Current' \in 1..Len(Order')
    BY <1>2, <2>1, <2>2, <2>4, <2>6 DEF Current
  <2>8. \A h \in 1..Len(left') : left'[h] = Order'[Current' + h - 1]
    <3> SUFFICES ASSUME NEW h \in 1..Len(left')
                 PROVE  left'[h] = Order[Current + h]
      BY <2>4, <2>6
    <3>1. h + 1 \in 1..Len(left) /\ Current + (h + 1) - 1 = Current + h
      BY <2>2, <2>3, <2>6
    <3> QED
      BY <2>3, <2>6, <3>1
  <2>9. left[2] = Order'[Current']
    <3>1. 2 \in 1..Len(left) /\ Current + 2 - 1 = Current + 1
      BY <2>1, <2>2, <2>6
    <3> QED
      BY <2>4, <2>6, <3>1
  <2>10. (\A h \in 1..(Current - 1) : Servers(Order[h]) = {})'
    <3>1. \A h \in 1..(Current' - 1) : h \in 1..(Current - 1) \/ h = Current
      BY <2>4, <2>6
    <3>2. \A h \in 1..(Current' - 1) : Servers(Order[h]) = {}
      BY <2>6, <3>1
    <3> QED
      BY <1>3, <2>4, <3>2 DEF Servers, InNamespace
  <2>11. Position'
    <3>1. (unseen \subseteq InNamespace(Order[Current]))'
      BY <1>3, <2>1, <2>9 DEF InNamespace
    <3>2. (Servers(Order[Current]) \subseteq unseen)'
      BY <1>3, <2>1, <2>9 DEF Servers, InNamespace
    <3> QED
      BY <2>1, <2>7, <2>8, <2>10, <3>1, <3>2 DEF Position
  <2>12. TypeOK'
    BY <1>1, <1>3, <1>5, <2>1, <2>3 DEF TypeOK, InNamespace, NextNamespace
  <2> QED
    BY <2>11, <2>12 DEF SearchInv
<1>6. CASE Finish \/ UNCHANGED vars
  <2>1. /\ UNCHANGED <<left, unseen, found>>
        /\ done' => unseen = {} /\ (found # None \/ Len(left) = 1)
    BY <1>1, <1>6 DEF Finish, vars, Position, TypeOK
  <2>2. Current' = Current /\ Order' = Order
    BY <1>3, <2>1, OrderStands DEF Current
  <2>4. TypeOK'
    BY <1>1, <1>3, <1>6, <2>1 DEF TypeOK, Finish, vars
  <2>5. Position'
    BY <1>1, <1>3, <2>1, <2>2 DEF Position, Servers, InNamespace
  <2> QED
    BY <2>4, <2>5 DEF SearchInv
<1> QED
  BY <1>4, <1>5, <1>6 DEF Next

LEMMA SearchResult ==
  ASSUME SearchInv
  PROVE  FindsServer /\ PrefersPrimary /\ KeepsOrder
<1> SUFFICES ASSUME done PROVE FindsServer /\ PrefersPrimary /\ KeepsOrder
  BY DEF FindsServer, PrefersPrimary, KeepsOrder
<1>1. TypeOK /\ Position /\ unseen = {}
  BY DEF SearchInv, Position
<1>2. Len(Order) \in Nat /\ Current \in 1..Len(Order) /\ Len(left) \in Nat
  BY <1>1, OrderType DEF TypeOK, Position
<1>3. CASE found = None
  <2>1. Len(left) = 1 /\ Servers(Order[Current]) = {}
    BY <1>1, <1>3 DEF Position
  <2>2. Current = Len(Order)
    BY <1>2, <2>1 DEF Current
  <2>3. \A h \in 1..Len(Order) : h \in 1..(Current - 1) \/ h = Current
    BY <1>2, <2>2
  <2>4. \A h \in 1..Len(Order) : Servers(Order[h]) = {}
    BY <1>1, <2>1, <2>3 DEF Position
  <2> QED
    BY <1>3, <2>4 DEF FindsServer, PrefersPrimary, KeepsOrder, Searched
<1>4. CASE found # None
  <2>1. /\ found \in Servers(Order[Current])
        /\ ~IsPrimary(cache[found])
             => \A j \in Servers(Order[Current]) : ~IsPrimary(cache[j])
        /\ \A h \in 1..(Current - 1) : Servers(Order[h]) = {}
    BY <1>1, <1>4 DEF Position
  <2>2. found.ns = Order[Current] /\ Order[Current] \in Searched
    BY <1>2, <2>1 DEF Servers, InNamespace, Searched
  <2>3. FindsServer
    BY <1>4, <2>1, <2>2 DEF FindsServer
  <2>4. PrefersPrimary
    BY <2>1, <2>2 DEF PrefersPrimary
  <2>5. KeepsOrder
    BY <1>2, <2>1, <2>2 DEF KeepsOrder
  <2> QED
    BY <2>3, <2>4, <2>5
<1> QED
  BY <1>3, <1>4

(* At each callback the result stands for the domains seen so far, and the  *)
(* namespaces already left have no server.                                  *)
THEOREM SearchInvariant == Spec => []SearchInv
BY SearchInit, SearchNext, PTL DEF Spec

(* SearchForPrimary returns a domain that serves the asker exactly when one *)
(* of the namespaces it looks into has one, a primary domain before a shared*)
(* one, and from the first namespace of its order that has any.             *)
THEOREM SearchCorrect == Spec => [](FindsServer /\ PrefersPrimary /\ KeepsOrder)
<1>1. SearchInv => FindsServer /\ PrefersPrimary /\ KeepsOrder
  BY SearchResult
<1> QED
  BY <1>1, SearchInvariant, PTL

(* The second half of the callback's test: whichever domain of a namespace  *)
(* comes first, a primary domain that serves the asker is not passed over   *)
(* for a shared one.                                                        *)
THEOREM SearchPrefersPrimary == Spec => []PrefersPrimary
<1>1. SearchInv => PrefersPrimary
  BY SearchResult
<1> QED
  BY <1>1, SearchInvariant, PTL

(* The parent is asked before the asker's own namespace, and that before    *)
(* the system namespace: the answer comes from the first that has one.      *)
THEOREM SearchKeepsOrder == Spec => []KeepsOrder
<1>1. SearchInv => KeepsOrder
  BY SearchResult
<1> QED
  BY <1>1, SearchInvariant, PTL
=============================================================================
