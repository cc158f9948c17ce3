------------------------ MODULE AutoClaimHostsProofs ------------------------
(***************************************************************************)
(* Proofs about what auto-claim makes of the rules of an ingress, for every*)
(* list of rules, and the type correctness of AutoClaim, which rests on it.*)
(*                                                                         *)
(* getHostsFromIngress is a fold, that is a function defined by recursion  *)
(* over sets of positions.  The first part shows that such a function      *)
(* exists and unfolds it into a recursion over the number of rules; the    *)
(* second part goes along the rules.                                       *)
(***************************************************************************)
EXTENDS AutoClaimProofs, WellFoundedInduction

(* Induction, with the numbers that have the property as a set.             *)
LEMMA NatSetInduction ==
  ASSUME NEW S, 0 \in S, \A n \in Nat : n \in S => n + 1 \in S
  PROVE  Nat \subseteq S
<1> DEFINE T == Nat \ S
<1>1. SUFFICES ASSUME T # {} PROVE FALSE
  OBVIOUS
<1>2. IsWellFoundedOn(OpToRel(<, Nat), Nat)
  BY NatLessThanWellFounded
<1>3. PICK n \in T : \A m \in T : ~ (<<m, n>> \in OpToRel(<, Nat))
  BY <1>1, <1>2, WFMin
<1>4. \A m \in T : ~ (m < n)
  BY <1>3 DEF OpToRel
<1>5. n \in Nat /\ n # 0 /\ n - 1 \in Nat /\ n - 1 < n
  <2>1. n \in Nat /\ n \notin S
    BY <1>3
  <2>2. n # 0
    BY <2>1
  <2> QED
    BY <2>1, <2>2
<1>6. n - 1 \in S
  BY <1>4, <1>5
<1>7. (n - 1) + 1 \in S
  BY <1>5, <1>6
<1>8. (n - 1) + 1 = n
  BY <1>5
<1>9. n \in S
  BY <1>7, <1>8
<1> QED
  BY <1>3, <1>9

-----------------------------------------------------------------------------
(* One turn of the loop: a primary domain is prepended, a shared appended.  *)
Place(hosts, d) == IF IsPrimary(d) THEN <<d>> \o hosts ELSE Append(hosts, d)

(* The value at s of the recursion, from a function f of smaller sets.      *)
Placed(g, f, s) ==
  IF s = {} THEN <<>>
  ELSE Place(f[s \ {Max(s)}], HostDomain(g, g.rules[Max(s)]))

Placing(g) ==
  CHOOSE f : f = [s \in SUBSET (DOMAIN g.rules) |->
                    IF s = {} THEN <<>>
                    ELSE Place(f[s \ {Max(s)}], HostDomain(g, g.rules[Max(s)]))]

RuleDomains(g) == {HostDomain(g, g.rules[n]) : n \in 1..Len(g.rules)}

LEMMA Unfolded ==
  ASSUME NEW g
  PROVE  getHostsFromIngress(g) = Placing(g)[DOMAIN g.rules]
BY DEF getHostsFromIngress, FoldLeft, MapThenFoldSet, Placing, Place

LEMMA MaxOfInterval ==
  ASSUME NEW n \in Nat
  PROVE  \A s \in SUBSET (1..(n + 1)) :
           n + 1 \in s => Max(s) = n + 1 /\ s \ {Max(s)} \in SUBSET (1..n)
<1> SUFFICES ASSUME NEW s \in SUBSET (1..(n + 1)), n + 1 \in s
             PROVE  Max(s) = n + 1 /\ s \ {Max(s)} \in SUBSET (1..n)
  OBVIOUS
<1>1. \A y \in s : y \in Nat /\ n + 1 >= y
  OBVIOUS
<1>2. \E x \in s : \A y \in s : x >= y
  BY <1>1
<1>3. Max(s) \in s /\ \A y \in s : Max(s) >= y
  BY <1>2 DEF Max
<1>4. Max(s) = n + 1
  <2>1. Max(s) \in Nat /\ n + 1 >= Max(s) /\ Max(s) >= n + 1
    BY <1>1, <1>3
  <2> QED
    BY <2>1
<1> QED
  BY <1>4

LEMMA PlaceType ==
  ASSUME NEW X, NEW hosts \in Seq(X), NEW d \in X
  PROVE  Place(hosts, d) \in Seq(X)
BY DEF Place

(* The recursion over the positions has a solution. *)
LEMMA PlacingExists ==
  ASSUME NEW g \in Shapes
  PROVE  \E f \in [SUBSET (DOMAIN g.rules) -> Seq(RuleDomains(g))] :
           f = [s \in SUBSET (DOMAIN g.rules) |-> Placed(g, f, s)]
<1> DEFINE N == Len(g.rules)
           X == RuleDomains(g)
           Solves(f, n) == /\ f \in [SUBSET (1..n) -> Seq(X)]
                           /\ f = [s \in SUBSET (1..n) |-> Placed(g, f, s)]
           Solvable(n) == n <= N => \E f : Solves(f, n)
           S == {n \in Nat : Solvable(n)}
<1>1. g.rules \in Seq(Seq(Labels)) /\ N \in Nat /\ DOMAIN g.rules = 1..N
  BY ClaimAssumption
<1>2. \A n \in 1..N : HostDomain(g, g.rules[n]) \in X
  BY DEF RuleDomains
<1> HIDE DEF X
<1>3. Solvable(0)
  <2> DEFINE f == [s \in SUBSET (1..0) |-> <<>>]
  <2>1. SUBSET (1..0) = {{}}
    OBVIOUS
  <2>2. f \in [SUBSET (1..0) -> Seq(X)]
    OBVIOUS
  <2>3. \A s \in SUBSET (1..0) : f[s] = Placed(g, f, s)
    BY <2>1 DEF Placed
  <2>4. f = [s \in SUBSET (1..0) |-> Placed(g, f, s)]
    BY <2>3
  <2> QED
    BY <2>2, <2>4
<1>4. ASSUME NEW n \in Nat, Solvable(n) PROVE Solvable(n + 1)
  <2> SUFFICES ASSUME n + 1 <= N PROVE \E h : Solves(h, n + 1)
    OBVIOUS
  <2>1. n <= N /\ n + 1 \in 1..N
    BY <1>1
  <2>2. PICK f : Solves(f, n)
    BY <1>4, <2>1
  <2> DEFINE h == [s \in SUBSET (1..(n + 1)) |->
                     IF n + 1 \in s
                     THEN Place(f[s \ {n + 1}], HostDomain(g, g.rules[n + 1]))
                     ELSE f[s]]
  <2>3. \A s \in SUBSET (1..(n + 1)) :
          IF n + 1 \in s THEN s \ {n + 1} \in SUBSET (1..n)
                         ELSE s \in SUBSET (1..n)
    OBVIOUS
  <2>4. \A s \in SUBSET (1..n) : s \in SUBSET (1..(n + 1)) /\ n + 1 \notin s
    OBVIOUS
  <2>5. \A s \in SUBSET (1..n) : f[s] \in Seq(X) /\ f[s] = Placed(g, f, s)
    BY <2>2
  <2>6. \A s \in SUBSET (1..n) : h[s] = f[s]
    BY <2>4
  <2>7. ASSUME NEW s \in SUBSET (1..(n + 1))
        PROVE  h[s] \in Seq(X) /\ h[s] = Placed(g, h, s)
    <3>1. CASE n + 1 \in s
      <4>1. s \ {n + 1} \in SUBSET (1..n) /\ Max(s) = n + 1 /\ s # {}
        BY <3>1, <2>3, MaxOfInterval
      <4>2. h[s] = Place(f[s \ {n + 1}], HostDomain(g, g.rules[n + 1]))
        BY <3>1
      <4>3. f[s \ {n + 1}] \in Seq(X) /\ HostDomain(g, g.rules[n + 1]) \in X
        BY <4>1, <2>5, <1>2, <2>1
      <4>4. h[s] \in Seq(X)
        BY <4>2, <4>3, PlaceType
      <4>5. h[s \ {n + 1}] = f[s \ {n + 1}]
        BY <4>1, <2>6
      <4>6. h[s] = Placed(g, h, s)
        BY <4>1, <4>2, <4>5 DEF Placed
      <4> QED
        BY <4>4, <4>6
    <3>2. CASE n + 1 \notin s
      <4>1. s \in SUBSET (1..n)
        BY <3>2, <2>3
      <4>2. h[s] = f[s] /\ f[s] \in Seq(X) /\ f[s] = Placed(g, f, s)
        BY <4>1, <2>5, <2>6
      <4>3. Placed(g, f, s) = Placed(g, h, s)
        <5>1. CASE s = {}
          BY <5>1 DEF Placed
        <5>2. CASE s # {}
          <6>1. s \ {Max(s)} \in SUBSET (1..n)
            BY <4>1
          <6>2. h[s \ {Max(s)}] = f[s \ {Max(s)}]
            BY <6>1, <2>6
          <6> QED
            BY <6>2 DEF Placed
        <5> QED
          BY <5>1, <5>2
      <4> QED
        BY <4>2, <4>3
    <3> QED
      BY <3>1, <3>2
  <2> HIDE DEF h
  <2>8. DOMAIN h = SUBSET (1..(n + 1))
    BY DEF h
  <2>9. h = [s \in SUBSET (1..(n + 1)) |-> h[s]]
    BY DEF h
  <2>10. Solves(h, n + 1)
    BY <2>7, <2>9
  <2> QED
    BY <2>10
<1> HIDE DEF Solvable
<1>5. Nat \subseteq S
  <2>1. 0 \in S
    BY <1>3
  <2>2. \A n \in Nat : n \in S => n + 1 \in S
    BY <1>4
  <2> HIDE DEF S
  <2> QED
    BY <2>1, <2>2, NatSetInduction
<1>6. Solvable(N) /\ N <= N
  <2> HIDE DEF N
  <2> QED
    BY <1>1, <1>5
<1>7. PICK f : Solves(f, N)
  BY <1>6 DEF Solvable
<1> QED
  BY <1>1, <1>7 DEF X

(* The list after the first n rules. *)
First(g, n) == Placing(g)[1..n]

LEMMA FirstRecursion ==
  ASSUME NEW g \in Shapes
  PROVE  /\ First(g, 0) = <<>>
         /\ \A n \in 1..Len(g.rules) :
              First(g, n) = Place(First(g, n - 1), HostDomain(g, g.rules[n]))
         /\ getHostsFromIngress(g) = First(g, Len(g.rules))
<1> DEFINE P == Placing(g)
<1>1. g.rules \in Seq(Seq(Labels)) /\ Len(g.rules) \in Nat
      /\ DOMAIN g.rules = 1..Len(g.rules)
  BY ClaimAssumption
<1>2. P = [s \in SUBSET (DOMAIN g.rules) |-> Placed(g, P, s)]
  <2>1. \E f : f = [s \in SUBSET (DOMAIN g.rules) |-> Placed(g, f, s)]
    BY PlacingExists
  <2>2. P = CHOOSE f : f = [s \in SUBSET (DOMAIN g.rules) |-> Placed(g, f, s)]
    BY DEF Placing, Placed
  <2> HIDE DEF P
  <2> QED
    BY <2>1, <2>2
<1> HIDE DEF P
<1>3. \A s \in SUBSET (1..Len(g.rules)) : P[s] = Placed(g, P, s)
  BY <1>1, <1>2
<1>4. First(g, 0) = <<>>
  <2>1. 1..0 = {} /\ {} \in SUBSET (1..Len(g.rules))
    OBVIOUS
  <2>2. P[{}] = <<>>
    BY <1>3, <2>1 DEF Placed
  <2> QED
    BY <2>1, <2>2 DEF First, P
<1>5. ASSUME NEW n \in 1..Len(g.rules)
      PROVE  First(g, n) = Place(First(g, n - 1), HostDomain(g, g.rules[n]))
  <2>1. /\ n - 1 \in Nat /\ (n - 1) + 1 = n
        /\ 1..n \in SUBSET (1..Len(g.rules)) /\ n \in 1..n /\ 1..n # {}
        /\ (1..n) \ {n} = 1..(n - 1)
    BY <1>1
  <2>2. Max(1..n) = n
    BY <2>1, MaxOfInterval
  <2>3. P[1..n] = Place(P[1..(n - 1)], HostDomain(g, g.rules[n]))
    BY <1>3, <2>1, <2>2 DEF Placed
  <2> QED
    BY <2>3 DEF First, P
<1>6. getHostsFromIngress(g) = First(g, Len(g.rules))
  BY <1>1, Unfolded DEF First
<1> QED
  BY <1>4, <1>5, <1>6

-----------------------------------------------------------------------------
(* What one placement adds, and that it keeps primary domains in front. *)
Elements(hosts) == {hosts[m] : m \in 1..Len(hosts)}

PrimariesFirst(hosts) ==
  \A m, n \in 1..Len(hosts) : m < n /\ IsPrimary(hosts[n]) => IsPrimary(hosts[m])

LEMMA PlaceAdds ==
  ASSUME NEW X, NEW hosts \in Seq(X), NEW d \in X
  PROVE  /\ Place(hosts, d) \in Seq(X)
         /\ Len(Place(hosts, d)) = Len(hosts) + 1
         /\ Elements(Place(hosts, d)) = Elements(hosts) \cup {d}
         /\ PrimariesFirst(hosts) => PrimariesFirst(Place(hosts, d))
<1> DEFINE p == Place(hosts, d)
           N == Len(hosts)
<1>0. N \in Nat /\ p \in Seq(X)
  BY PlaceType
<1>1. CASE IsPrimary(d)
  <2>1. p = <<d>> \o hosts
    BY <1>1 DEF Place
  <2>2. Len(p) = N + 1 /\ p[1] = d /\ \A m \in 1..N : p[m + 1] = hosts[m]
    BY <2>1, <1>0
  <2>3. \A m \in 1..(N + 1) : m = 1 \/ (m - 1 \in 1..N /\ p[m] = hosts[m - 1])
    <3> SUFFICES ASSUME NEW m \in 1..(N + 1), m # 1
                 PROVE  m - 1 \in 1..N /\ p[m] = hosts[m - 1]
      OBVIOUS
    <3>1. m - 1 \in 1..N /\ (m - 1) + 1 = m
      BY <1>0
    <3> QED
      BY <2>2, <3>1
  <2>4. \A m \in 1..N : m + 1 \in 1..(N + 1)
    BY <1>0
  <2>5. 1 \in 1..(N + 1)
    BY <1>0
  <2> HIDE DEF p
  <2>6. Elements(p) = Elements(hosts) \cup {d}
    <3>1. \A x \in Elements(p) : x \in Elements(hosts) \cup {d}
      BY <2>2, <2>3 DEF Elements
    <3>2. \A x \in Elements(hosts) : x \in Elements(p)
      BY <2>2, <2>4 DEF Elements
    <3>3. d \in Elements(p)
      BY <2>2, <2>5 DEF Elements
    <3> QED
      BY <3>1, <3>2, <3>3
  <2>7. ASSUME PrimariesFirst(hosts),
               NEW m \in 1..(N + 1), NEW n \in 1..(N + 1),
               m < n, IsPrimary(p[n])
        PROVE  IsPrimary(p[m])
    <3>1. CASE m = 1
      BY <3>1, <2>2, <1>1
    <3>2. CASE m # 1
      <4>1. n # 1
        BY <1>0, <2>7, <3>2
      <4>2. /\ m - 1 \in 1..N /\ n - 1 \in 1..N /\ m - 1 < n - 1
            /\ p[m] = hosts[m - 1] /\ p[n] = hosts[n - 1]
        BY <2>3, <2>7, <3>2, <4>1
      <4>3. IsPrimary(hosts[n - 1])
        BY <2>7, <4>2
      <4>4. IsPrimary(hosts[m - 1])
        BY <2>7, <4>2, <4>3 DEF PrimariesFirst
      <4> QED
        BY <4>2, <4>4
    <3> QED
      BY <3>1, <3>2
  <2>8. PrimariesFirst(hosts) => PrimariesFirst(p)
    BY <2>2, <2>7 DEF PrimariesFirst
  <2> QED
    BY <1>0, <2>2, <2>6, <2>8 DEF p
<1>2. CASE ~IsPrimary(d)
  <2>1. p = Append(hosts, d)
    BY <1>2 DEF Place
  <2>2. Len(p) = N + 1 /\ p[N + 1] = d /\ \A m \in 1..N : p[m] = hosts[m]
    BY <2>1, <1>0
  <2>3. \A m \in 1..(N + 1) : m = N + 1 \/ m \in 1..N
    BY <1>0
  <2>4. N + 1 \in 1..(N + 1) /\ \A m \in 1..N : m \in 1..(N + 1)
    BY <1>0
  <2> HIDE DEF p
  <2>5. Elements(p) = Elements(hosts) \cup {d}
    <3>1. \A x \in Elements(p) : x \in Elements(hosts) \cup {d}
      BY <2>2, <2>3 DEF Elements
    <3>2. \A x \in Elements(hosts) : x \in Elements(p)
      BY <2>2, <2>4 DEF Elements
    <3>3. d \in Elements(p)
      BY <2>2, <2>4 DEF Elements
    <3> QED
      BY <3>1, <3>2, <3>3
  <2>6. ASSUME PrimariesFirst(hosts),
               NEW m \in 1..(N + 1), NEW n \in 1..(N + 1),
               m < n, IsPrimary(p[n])
        PROVE  IsPrimary(p[m])
    <3>1. n # N + 1
      BY <2>2, <2>6, <1>2
    <3>2. n \in 1..N /\ m \in 1..N
      BY <1>0, <2>6, <3>1
    <3>3. p[n] = hosts[n] /\ p[m] = hosts[m]
      BY <2>2, <3>2
    <3>4. IsPrimary(hosts[n])
      BY <2>6, <3>3
    <3>5. IsPrimary(hosts[m])
      BY <2>6, <3>2, <3>4 DEF PrimariesFirst
    <3> QED
      BY <3>3, <3>5
  <2>7. PrimariesFirst(hosts) => PrimariesFirst(p)
    BY <2>2, <2>6 DEF PrimariesFirst
  <2> QED
    BY <1>0, <2>2, <2>5, <2>7 DEF p
<1> QED
  BY <1>1, <1>2


(* getHostsFromIngress collects the domain of every rule, and no other.     *)
LEMMA HostsCollected ==
  ASSUME NEW g \in Shapes
  PROVE  LET hosts == getHostsFromIngress(g) IN
         /\ hosts \in Seq(RuleDomains(g))
         /\ Len(hosts) = Len(g.rules)
         /\ Elements(hosts) = RuleDomains(g)
         /\ PrimariesFirst(hosts)
<1> DEFINE N == Len(g.rules)
           X == RuleDomains(g)
           Upto(n) == {HostDomain(g, g.rules[m]) : m \in 1..n}
           Collected(n) == n <= N => /\ First(g, n) \in Seq(X)
                                     /\ Len(First(g, n)) = n
                                     /\ Elements(First(g, n)) = Upto(n)
                                     /\ PrimariesFirst(First(g, n))
           S == {n \in Nat : Collected(n)}
<1>1. N \in Nat
  BY ClaimAssumption
<1>2. Collected(0)
  <2>1. First(g, 0) = <<>> /\ 1..0 = {} /\ Len(<<>>) = 0
    BY FirstRecursion
  <2>2. <<>> \in Seq(X) /\ Elements(<<>>) = {} /\ PrimariesFirst(<<>>)
    BY <2>1 DEF Elements, PrimariesFirst
  <2>3. Upto(0) = {}
    BY <2>1
  <2> QED
    BY <2>1, <2>2, <2>3
<1>3. ASSUME NEW n \in Nat, Collected(n) PROVE Collected(n + 1)
  <2> DEFINE d == HostDomain(g, g.rules[n + 1])
  <2> SUFFICES ASSUME n + 1 <= N PROVE /\ First(g, n + 1) \in Seq(X)
                                       /\ Len(First(g, n + 1)) = n + 1
                                       /\ Elements(First(g, n + 1)) = Upto(n + 1)
                                       /\ PrimariesFirst(First(g, n + 1))
    OBVIOUS
  <2>1. n <= N /\ n + 1 \in 1..N /\ (n + 1) - 1 = n
    BY <1>1
  <2>2. /\ First(g, n) \in Seq(X) /\ Len(First(g, n)) = n
        /\ Elements(First(g, n)) = Upto(n) /\ PrimariesFirst(First(g, n))
    BY <1>3, <2>1
  <2>3. d \in X
    BY <2>1 DEF RuleDomains
  <2>4. First(g, n + 1) = Place(First(g, n), d)
    BY <2>1, FirstRecursion
  <2>5. Upto(n + 1) = Upto(n) \cup {d}
    <3>1. \A m : m \in 1..(n + 1) <=> m \in 1..n \/ m = n + 1
      OBVIOUS
    <3> QED
      BY <3>1
  <2> HIDE DEF d, X, Upto
  <2>6. /\ Place(First(g, n), d) \in Seq(X)
        /\ Len(Place(First(g, n), d)) = Len(First(g, n)) + 1
        /\ Elements(Place(First(g, n), d)) = Elements(First(g, n)) \cup {d}
        /\ PrimariesFirst(First(g, n)) => PrimariesFirst(Place(First(g, n), d))
    BY <2>2, <2>3, PlaceAdds
  <2> QED
    BY <2>2, <2>4, <2>5, <2>6
<1> HIDE DEF Collected
<1>4. Nat \subseteq S
  <2>1. 0 \in S
    BY <1>2
  <2>2. \A n \in Nat : n \in S => n + 1 \in S
    BY <1>3
  <2> HIDE DEF S
  <2> QED
    BY <2>1, <2>2, NatSetInduction
<1>5. Collected(N) /\ N <= N
  <2> HIDE DEF N
  <2> QED
    BY <1>1, <1>4
<1>6. /\ First(g, N) \in Seq(X) /\ Len(First(g, N)) = N
      /\ Elements(First(g, N)) = Upto(N) /\ PrimariesFirst(First(g, N))
  BY <1>5 DEF Collected
<1>7. Upto(N) = X
  BY DEF RuleDomains
<1> QED
  BY <1>6, <1>7, FirstRecursion

(* The domain of a rule is the domain of its host, and valid if the host is *)
(* a domain at all.                                                         *)
LEMMA HostDomainExact ==
  ASSUME NEW g, NEW host \in Seq(Labels)
  PROVE  /\ GetDomain(HostDomain(g, host)) = host
         /\ Len(host) >= 2 => IsValidDomain(HostDomain(g, host))
<1> DEFINE d == HostDomain(g, host)
<1>1. CASE host \in g.primaries
  <2>1. d.spec.primary = host /\ d.spec.sub = <<>>
    BY <1>1 DEF HostDomain
  <2> QED
    BY <2>1 DEF GetDomain, IsValidDomain
<1>2. CASE host \notin g.primaries /\ Len(host) < 3
  <2>1. d.spec.primary = host /\ d.spec.sub = <<>>
    BY <1>2 DEF HostDomain, extractPrimaryFromHost
  <2> QED
    BY <2>1 DEF GetDomain, IsValidDomain
<1>3. CASE host \notin g.primaries /\ ~(Len(host) < 3)
  <2>1. d.spec.primary = Tail(host) /\ d.spec.sub = <<Head(host)>>
    BY <1>3 DEF HostDomain, extractPrimaryFromHost
  <2>2. host # <<>> /\ Len(host) \in Nat
    BY <1>3
  <2>3. <<Head(host)>> \o Tail(host) = host
    BY <2>2
  <2>4. Len(Tail(host)) = Len(host) - 1 /\ Len(<<Head(host)>>) = 1
    BY <2>2
  <2> QED
    BY <2>1, <2>2, <2>3, <2>4, <1>3 DEF GetDomain, IsValidDomain
<1> QED
  BY <1>1, <1>2, <1>3

LEMMA HostsOf ==
  ASSUME NEW g \in Shapes
  PROVE  LET ds == getHostsFromIngress(g) IN
         /\ Len(ds) = Len(g.rules)
         /\ {GetDomain(ds[n]) : n \in 1..Len(ds)} = RuleHosts(g)
         /\ \A m, n \in 1..Len(ds) : m < n /\ IsPrimary(ds[n]) => IsPrimary(ds[m])
         /\ \A n \in 1..Len(ds) : Len(GetDomain(ds[n])) >= 2 => IsValidDomain(ds[n])
<1> DEFINE ds == getHostsFromIngress(g)
<1>1. /\ Len(ds) = Len(g.rules) /\ Elements(ds) = RuleDomains(g)
      /\ PrimariesFirst(ds)
  BY HostsCollected
<1>2. g.rules \in Seq(Seq(Labels))
  BY ClaimAssumption
<1>3. \A m \in 1..Len(g.rules) : g.rules[m] \in Seq(Labels)
  BY <1>2
<1> HIDE DEF ds
<1>4. {GetDomain(ds[n]) : n \in 1..Len(ds)} = {GetDomain(d) : d \in Elements(ds)}
  BY DEF Elements
<1>5. {GetDomain(d) : d \in RuleDomains(g)}
        = {GetDomain(HostDomain(g, g.rules[n])) : n \in 1..Len(g.rules)}
  BY DEF RuleDomains
<1>6. \A n \in 1..Len(g.rules) : GetDomain(HostDomain(g, g.rules[n])) = g.rules[n]
  BY <1>3, HostDomainExact
<1>7. {GetDomain(ds[n]) : n \in 1..Len(ds)} = RuleHosts(g)
  BY <1>1, <1>4, <1>5, <1>6 DEF RuleHosts
<1>8. ASSUME NEW n \in 1..Len(ds), Len(GetDomain(ds[n])) >= 2
      PROVE  IsValidDomain(ds[n])
  <2>1. ds[n] \in RuleDomains(g)
    BY <1>1 DEF Elements
  <2>2. PICK m \in 1..Len(g.rules) : ds[n] = HostDomain(g, g.rules[m])
    BY <2>1 DEF RuleDomains
  <2> QED
    BY <1>3, <1>8, <2>2, HostDomainExact
<1> QED
  BY <1>1, <1>7, <1>8 DEF PrimariesFirst, ds

-----------------------------------------------------------------------------
IngsType == ings \in [Ingresses -> Shapes \cup {None}]

LEMMA IngsStep ==
  ASSUME IngsType, [Next]_vars
  PROVE  IngsType'
<1>1. CASE Users
  <2>1. UNCHANGED ings \/ \E i \in Ingresses, g \in Shapes \cup {None} :
                            ings' = [ings EXCEPT ![i] = g]
    BY <1>1 DEF Users, PutIngress, WriteDomain, DeleteDomain
  <2> QED
    BY <2>1 DEF IngsType
<1>2. CASE ~Users
  <2>1. UNCHANGED ings
    BY <1>2
    DEF Next, vars, workVars, Boot, Trouble, Judge, Forget, List, Start,
        SyncStep, ClaimKept, ClaimDomain, ClaimWritten, ClaimRefused,
        ClaimsDone, CheckRule, Serve, ClaimUnanswered, ClaimLost, Observe,
        DomainStep, AcceptDomain, DecideDomain, RetryDomain, PurgeDomain,
        Setback
  <2> QED
    BY <2>1 DEF IngsType
<1> QED
  BY <1>1, <1>2

(* Whatever users write, claimDomains claims one domain per rule, of the    *)
(* rule's host, primary domains first, and valid ones unless the host has   *)
(* only one label (getHostsFromIngress, extractPrimaryFromHost).            *)
THEOREM ClaimsTheRules == Spec => []HostsExact
<1>1. Init => IngsType
  BY ClaimAssumption DEF Init, IngsType
<1>2. IngsType => HostsExact
  <2> SUFFICES ASSUME IngsType, NEW i \in Present PROVE ings[i] \in Shapes
    BY HostsOf DEF HostsExact
  <2> QED
    BY DEF IngsType, Present
<1> QED
  BY <1>1, <1>2, IngsStep, PTL DEF Spec

-----------------------------------------------------------------------------
(* What TypeOK leaves open and its proof needs: claimDomains has domains of *)
(* the ingress's rules left to claim, isClaimed has hosts left to look for. *)
SyncTyped ==
  \/ sync = Idle
  \/ \E i \in Ingresses, g \in Shapes : \E todo \in Seq(RuleDomains(g)) :
       sync = [pc |-> "claim", key |-> i, ing |-> g, todo |-> todo]
  \/ \E i \in Ingresses, g \in Shapes : \E todo \in Seq(Seq(Labels)) :
       sync = [pc |-> "check", key |-> i, ing |-> g, todo |-> todo]

DomainsTyped ==
  /\ store \in [Keys -> Domains \cup {None}]
  /\ watch \in [Keys -> Seq(Domains \cup {None})]
  /\ cache \in [Keys -> Domains \cup {None}]

RestTyped ==
  /\ queue \subseteq Ingresses
  /\ served \subseteq Ingresses
  /\ ops \in 0..MaxUserOps

ClaimsInv == IngsType /\ DomainsTyped /\ RestTyped /\ SyncTyped

LEMMA DomainFields ==
  ASSUME NEW d \in Domains
  PROVE  /\ \A s \in Specs : [d EXCEPT !.spec = s] \in Domains
         /\ [d EXCEPT !.deleted = TRUE] \in Domains
         /\ \A ph \in Phases, r \in Reasons :
              [d EXCEPT !.phase = ph, !.reason = r] \in Domains
         /\ [d EXCEPT !.phase = "Pending", !.finalizer = TRUE] \in Domains
         /\ \A s \in Specs :
              [d EXCEPT !.spec = s, !.phase = "New", !.reason = "",
                        !.discarded = FALSE] \in Domains
BY DEF Domains, Phases, Reasons

LEMMA NewDomainType ==
  ASSUME NEW s \in Specs PROVE NewDomain(s) \in Domains
BY DEF NewDomain, Domains, Phases, Reasons

LEMMA PublishAllType ==
  ASSUME DomainsTyped, NEW writes, PublishAll(writes), UNCHANGED cache,
         \A k \in Keys : k \in DOMAIN writes => writes[k] \in Domains \cup {None}
  PROVE  DomainsTyped'
<1>1. \A k \in Keys : (IF k \in DOMAIN writes THEN writes[k] ELSE store[k])
                        \in Domains \cup {None}
  BY DEF DomainsTyped
<1>2. store' \in [Keys -> Domains \cup {None}]
  BY <1>1 DEF PublishAll
<1>3. ASSUME NEW k \in Keys
      PROVE  (IF k \in DOMAIN writes /\ "domain" \in proc.listed
              THEN Append(watch[k], writes[k]) ELSE watch[k])
                \in Seq(Domains \cup {None})
  BY <1>3 DEF DomainsTyped
<1>4. watch' \in [Keys -> Seq(Domains \cup {None})]
  BY <1>3 DEF PublishAll
<1> QED
  BY <1>2, <1>4 DEF DomainsTyped

LEMMA PublishType ==
  ASSUME DomainsTyped, NEW k \in Keys, NEW d \in Domains \cup {None},
         Publish(k, d), UNCHANGED cache
  PROVE  DomainsTyped'
<1> DEFINE writes == [j \in {k} |-> d]
<1>1. PublishAll(writes)
  BY DEF Publish
<1>2. \A j \in Keys : j \in DOMAIN writes => writes[j] \in Domains \cup {None}
  OBVIOUS
<1> HIDE DEF writes
<1> QED
  BY <1>1, <1>2, PublishAllType

LEMMA DomainsStand ==
  ASSUME DomainsTyped, UNCHANGED domainVars
  PROVE  DomainsTyped'
BY DEF DomainsTyped, domainVars

(* Users. *)
LEMMA UsersTyped ==
  ASSUME ClaimsInv, Users
  PROVE  DomainsTyped' /\ RestTyped' /\ SyncTyped'
<1>1. UNCHANGED sync /\ served' \subseteq Ingresses /\ ops' \in 0..MaxUserOps
  <2>1. UNCHANGED sync /\ Spend /\ served' \subseteq served
    BY DEF Users, PutIngress, WriteDomain, DeleteDomain
  <2>2. ops' \in 0..MaxUserOps
    BY <2>1, ClaimAssumption DEF Spend, ClaimsInv, RestTyped
  <2> QED
    BY <2>1, <2>2 DEF ClaimsInv, RestTyped
<1>2. SyncTyped'
  BY <1>1 DEF ClaimsInv, SyncTyped
<1>3. CASE \E i \in Ingresses, g \in Shapes \cup {None} : PutIngress(i, g)
  <2>1. queue' \subseteq Ingresses /\ UNCHANGED domainVars
    BY <1>3 DEF PutIngress, ClaimsInv, RestTyped
  <2> QED
    BY <1>1, <1>2, <2>1, DomainsStand DEF ClaimsInv, RestTyped
<1>4. CASE \E w \in Written : WriteDomain(w)
  <2>1. PICK w \in Written : WriteDomain(w)
    BY <1>4
  <2>2. w.key \in Keys /\ w.spec \in Specs
    BY ClaimAssumption
  <2>3. store[w.key] # None => store[w.key] \in Domains
    BY <2>2 DEF ClaimsInv, DomainsTyped
  <2>4. /\ NewDomain(w.spec) \in Domains
        /\ store[w.key] # None => [store[w.key] EXCEPT !.spec = w.spec] \in Domains
    BY <2>2, <2>3, NewDomainType, DomainFields
  <2>5. DomainsTyped'
    BY <2>1, <2>2, <2>4, PublishType DEF WriteDomain, ClaimsInv
  <2> QED
    BY <1>1, <1>2, <2>1, <2>5 DEF WriteDomain, ClaimsInv, RestTyped
<1>5. CASE \E k \in Keys : DeleteDomain(k)
  <2>1. PICK k \in Keys : DeleteDomain(k)
    BY <1>5
  <2>2. store[k] \in Domains
    BY <2>1 DEF DeleteDomain, ClaimsInv, DomainsTyped
  <2>3. [store[k] EXCEPT !.deleted = TRUE] \in Domains
    BY <2>2, DomainFields
  <2>4. DomainsTyped'
    BY <2>1, <2>3, PublishType DEF DeleteDomain, ClaimsInv
  <2> QED
    BY <1>1, <1>2, <2>1, <2>4 DEF DeleteDomain, ClaimsInv, RestTyped
<1> QED
  BY <1>3, <1>4, <1>5 DEF Users


(* The informers. *)
LEMMA InformersTyped ==
  ASSUME ClaimsInv,
         (\E kind \in Kinds : List(kind)) \/ (\E k \in Keys : Observe(k))
  PROVE  DomainsTyped' /\ RestTyped' /\ SyncTyped'
<1>1. UNCHANGED <<sync, served, ops, store>>
  BY DEF List, Observe
<1>2. SyncTyped'
  BY <1>1 DEF ClaimsInv, SyncTyped
<1>3. CASE \E kind \in Kinds : List(kind)
  <2>1. UNCHANGED cache /\ queue' \subseteq Ingresses
    BY <1>3 DEF List, ClaimsInv, RestTyped
  <2>2. \A k \in Keys : (IF store[k] = None THEN <<>> ELSE <<store[k]>>)
                          \in Seq(Domains \cup {None})
    <3>1. \A k \in Keys : store[k] \in Domains \cup {None}
      BY DEF ClaimsInv, DomainsTyped
    <3>2. \A x \in Domains \cup {None} : <<x>> \in Seq(Domains \cup {None})
      OBVIOUS
    <3>3. <<>> \in Seq(Domains \cup {None})
      OBVIOUS
    <3> QED
      BY <3>1, <3>2, <3>3
  <2>3. \/ watch' = watch
        \/ watch' = [k \in Keys |-> IF store[k] = None THEN <<>> ELSE <<store[k]>>]
    BY <1>3 DEF List
  <2>4. watch' \in [Keys -> Seq(Domains \cup {None})]
    BY <2>2, <2>3 DEF ClaimsInv, DomainsTyped
  <2> QED
    BY <1>1, <1>2, <2>1, <2>4 DEF ClaimsInv, DomainsTyped, RestTyped
<1>4. CASE \E k \in Keys : Observe(k)
  <2>1. PICK k \in Keys : Observe(k)
    BY <1>4
  <2>2. watch[k] \in Seq(Domains \cup {None}) /\ watch[k] # <<>>
    BY <2>1 DEF Observe, ClaimsInv, DomainsTyped
  <2>3. /\ Head(watch[k]) \in Domains \cup {None}
        /\ Tail(watch[k]) \in Seq(Domains \cup {None})
    BY <2>2
  <2>4. DomainsTyped'
    BY <2>1, <2>3, <1>1 DEF Observe, ClaimsInv, DomainsTyped
  <2>5. UNCHANGED queue
    BY <2>1 DEF Observe
  <2> QED
    BY <1>1, <1>2, <2>4, <2>5 DEF ClaimsInv, RestTyped
<1> QED
  BY <1>3, <1>4

(* syncIngress. *)
LEMMA StartTyped ==
  ASSUME ClaimsInv, NEW i \in Ingresses, Start(i)
  PROVE  DomainsTyped' /\ RestTyped' /\ SyncTyped'
<1>1. DomainsTyped' /\ RestTyped'
  <2>1. DomainsTyped'
    BY DomainsStand DEF Start, ClaimsInv
  <2> QED
    BY <2>1 DEF Start, ClaimsInv, RestTyped
<1>2. CASE ings[i] = None
  BY <1>1, <1>2 DEF Start, ClaimsInv, SyncTyped, Idle
<1>3. CASE ings[i] # None
  <2>1. ings[i] \in Shapes
    BY <1>3 DEF ClaimsInv, IngsType
  <2>2. getHostsFromIngress(ings[i]) \in Seq(RuleDomains(ings[i]))
    BY <2>1, HostsCollected
  <2>3. sync' = [pc |-> "claim", key |-> i, ing |-> ings[i],
                 todo |-> getHostsFromIngress(ings[i])]
    BY <1>3 DEF Start
  <2>4. SyncTyped'
    BY <2>1, <2>2, <2>3 DEF SyncTyped
  <2> QED
    BY <1>1, <2>4
<1> QED
  BY <1>1, <1>2, <1>3

LEMMA Claims ==
  ASSUME ClaimsInv, Claiming
  PROVE  /\ sync.key \in Ingresses
         /\ Head(sync.todo).spec \in Specs
         /\ IsValidDomain(Head(sync.todo)) => Head(sync.todo).key \in Keys
         /\ [sync EXCEPT !.todo = Tail(@)] = sync' => SyncTyped'
<1>1. PICK i \in Ingresses, g \in Shapes : \E todo \in Seq(RuleDomains(g)) :
        sync = [pc |-> "claim", key |-> i, ing |-> g, todo |-> todo]
  BY DEF ClaimsInv, SyncTyped, Claiming, Idle
<1>2. PICK todo \in Seq(RuleDomains(g)) :
        sync = [pc |-> "claim", key |-> i, ing |-> g, todo |-> todo]
  BY <1>1
<1>3. todo # <<>>
  BY <1>2 DEF Claiming
<1>4. Head(todo) \in RuleDomains(g) /\ Tail(todo) \in Seq(RuleDomains(g))
  BY <1>3
<1>5. PICK n \in 1..Len(g.rules) : Head(todo) = HostDomain(g, g.rules[n])
  BY <1>4 DEF RuleDomains
<1>6. /\ Head(todo).spec \in Specs
      /\ IsValidDomain(Head(todo)) => Head(todo).key \in Keys
  BY <1>5, RulesAssumption
<1>7. [sync EXCEPT !.todo = Tail(@)]
        = [pc |-> "claim", key |-> i, ing |-> g, todo |-> Tail(todo)]
  <2>1. sync.todo = todo
    BY <1>2
  <2> DEFINE rest == Tail(todo)
  <2>2. [sync EXCEPT !.todo = Tail(@)] = [sync EXCEPT !.todo = rest]
    BY <2>1
  <2> HIDE DEF rest
  <2>3. [sync EXCEPT !.todo = rest]
          = [pc |-> "claim", key |-> i, ing |-> g, todo |-> rest]
    BY <1>2
  <2> QED
    BY <2>2, <2>3 DEF rest
<1>8. [sync EXCEPT !.todo = Tail(@)] = sync' => SyncTyped'
  BY <1>4, <1>7 DEF SyncTyped
<1> QED
  BY <1>2, <1>6, <1>8

LEMMA ClaimWrites ==
  ASSUME ClaimsInv, Claiming, ClaimWritten
  PROVE  DomainsTyped'
<1> DEFINE d == Head(sync.todo)
<1>1. d.key \in Keys /\ d.spec \in Specs
  BY Claims DEF ClaimWritten
<1>2. UNCHANGED cache
  BY DEF ClaimWritten
<1>3. CASE Differs(d) /\ Publish(d.key, Reclaimed(cache[d.key], d.spec))
  <2>1. cache[d.key] \in Domains
    BY <1>1, <1>3 DEF Differs, ClaimsInv, DomainsTyped
  <2>2. Reclaimed(cache[d.key], d.spec) \in Domains
    BY <1>1, <2>1, DomainFields DEF Reclaimed
  <2> HIDE DEF d
  <2> QED
    BY <1>1, <1>2, <1>3, <2>2, PublishType DEF ClaimsInv
<1>4. CASE Publish(d.key, NewDomain(d.spec))
  <2>1. NewDomain(d.spec) \in Domains
    BY <1>1, NewDomainType
  <2> HIDE DEF d
  <2> QED
    BY <1>1, <1>2, <1>4, <2>1, PublishType DEF ClaimsInv
<1> QED
  BY <1>3, <1>4 DEF ClaimWritten

LEMMA FailTyped ==
  ASSUME ClaimsInv, Fail, sync.key \in Ingresses
  PROVE  queue' \subseteq Ingresses /\ SyncTyped'
<1>1. queue' \subseteq Ingresses
  BY DEF Fail, ClaimsInv, RestTyped
<1>2. SyncTyped'
  BY DEF Fail, SyncTyped, Idle
<1> QED
  BY <1>1, <1>2

LEMMA ClaimTyped ==
  ASSUME ClaimsInv,
         \/ ClaimKept \/ ClaimDomain \/ ClaimRefused
         \/ ClaimUnanswered \/ ClaimLost
  PROVE  DomainsTyped' /\ RestTyped' /\ SyncTyped'
<1>1. Claiming /\ UNCHANGED <<served, ops>>
  BY DEF ClaimKept, ClaimDomain, ClaimRefused, ClaimUnanswered, ClaimLost,
         ClaimWritten
<1>2. DomainsTyped'
  <2>1. UNCHANGED domainVars \/ ClaimWritten
    BY DEF ClaimKept, ClaimDomain, ClaimRefused, ClaimUnanswered, ClaimLost
  <2> QED
    BY <1>1, <2>1, ClaimWrites, DomainsStand DEF ClaimsInv
<1>3. Proceed \/ Fail
  BY DEF ClaimKept, ClaimDomain, ClaimRefused, ClaimUnanswered, ClaimLost
<1>4. CASE Proceed
  BY <1>1, <1>2, <1>4, Claims DEF Proceed, ClaimsInv, RestTyped
<1>5. CASE Fail
  BY <1>1, <1>2, <1>5, Claims, FailTyped DEF ClaimsInv, RestTyped
<1> QED
  BY <1>3, <1>4, <1>5

LEMMA CheckTyped ==
  ASSUME ClaimsInv, ClaimsDone \/ CheckRule \/ Serve
  PROVE  DomainsTyped' /\ RestTyped' /\ SyncTyped'
<1>1. DomainsTyped' /\ UNCHANGED ops
  BY DomainsStand DEF ClaimsInv, ClaimsDone, CheckRule, Serve
<1>2. CASE ClaimsDone
  <2>1. PICK i \in Ingresses, g \in Shapes : \E todo \in Seq(RuleDomains(g)) :
          sync = [pc |-> "claim", key |-> i, ing |-> g, todo |-> todo]
    BY <1>2 DEF ClaimsInv, SyncTyped, ClaimsDone, Idle
  <2>2. g.rules \in Seq(Seq(Labels))
    BY ClaimAssumption
  <2>3. sync' = [pc |-> "check", key |-> i, ing |-> g, todo |-> g.rules]
    <3>1. PICK todo \in Seq(RuleDomains(g)) :
            sync = [pc |-> "claim", key |-> i, ing |-> g, todo |-> todo]
      BY <2>1
    <3>2. sync' = [sync EXCEPT !.pc = "check", !.todo = g.rules]
      BY <1>2, <3>1 DEF ClaimsDone
    <3> QED
      BY <3>1, <3>2
  <2>4. SyncTyped'
    BY <2>2, <2>3 DEF SyncTyped
  <2> QED
    BY <1>1, <1>2, <2>4 DEF ClaimsDone, ClaimsInv, RestTyped
<1>3. CASE CheckRule
  <2>1. PICK i \in Ingresses, g \in Shapes : \E todo \in Seq(Seq(Labels)) :
          sync = [pc |-> "check", key |-> i, ing |-> g, todo |-> todo]
    BY <1>3 DEF ClaimsInv, SyncTyped, CheckRule, Idle
  <2>2. PICK todo \in Seq(Seq(Labels)) :
          sync = [pc |-> "check", key |-> i, ing |-> g, todo |-> todo]
    BY <2>1
  <2>3. Tail(todo) \in Seq(Seq(Labels)) /\ sync.key = i
    BY <1>3, <2>2 DEF CheckRule
  <2>4. CASE Proceed
    <3>1. sync' = [pc |-> "check", key |-> i, ing |-> g, todo |-> Tail(todo)]
      BY <2>2, <2>4 DEF Proceed
    <3>2. SyncTyped'
      BY <2>3, <3>1 DEF SyncTyped
    <3> QED
      BY <1>1, <1>3, <2>4, <3>2 DEF CheckRule, Proceed, ClaimsInv, RestTyped
  <2>5. CASE Fail
    BY <1>1, <1>3, <2>3, <2>5, FailTyped DEF CheckRule, ClaimsInv, RestTyped
  <2> QED
    BY <1>3, <2>4, <2>5 DEF CheckRule
<1>4. CASE Serve
  <2>1. sync.key \in Ingresses
    BY <1>4 DEF Serve, ClaimsInv, SyncTyped, Idle
  <2>2. SyncTyped'
    BY <1>4 DEF Serve, SyncTyped, Idle
  <2> QED
    BY <1>1, <1>4, <2>1, <2>2 DEF Serve, ClaimsInv, RestTyped
<1> QED
  BY <1>2, <1>3, <1>4


(* The domain worker. *)
LEMMA DecisionTyped ==
  ASSUME ClaimsInv, NEW k \in Keys,
         AcceptDomain(k) \/ DecideDomain(k) \/ RetryDomain(k) \/ Setback(k)
  PROVE  DomainsTyped'
<1>1. cache[k] # None /\ UNCHANGED cache
  BY DEF AcceptDomain, DecideDomain, RetryDomain, Setback, Syncs
<1>2. cache[k] \in Domains
  BY <1>1 DEF ClaimsInv, DomainsTyped
<1>3. CASE AcceptDomain(k)
  <2>1. [cache[k] EXCEPT !.phase = "Pending", !.finalizer = TRUE] \in Domains
    BY <1>2, DomainFields
  <2> QED
    BY <1>1, <1>3, <2>1, PublishType DEF AcceptDomain, ClaimsInv
<1>4. CASE DecideDomain(k) \/ RetryDomain(k) \/ Setback(k)
  <2>1. PICK ph \in Phases, r \in Reasons :
          Publish(k, [cache[k] EXCEPT !.phase = ph, !.reason = r])
    <3>1. CASE DecideDomain(k)
      <4> DEFINE ph == IF Grantable(k) THEN "OK" ELSE "Failed"
                 r == IF Grantable(k) THEN ""
                      ELSE IF IsPrimary(cache[k]) THEN "DomainAlreadyExists"
                           ELSE "DomainNotFound"
      <4>1. ph \in Phases /\ r \in Reasons
        BY DEF Phases, Reasons
      <4>2. Publish(k, [cache[k] EXCEPT !.phase = ph, !.reason = r])
        BY <3>1 DEF DecideDomain
      <4> HIDE DEF ph, r
      <4> QED
        BY <4>1, <4>2
    <3>2. CASE RetryDomain(k)
      <4> DEFINE ph == IF HasKongFinalizer(cache[k]) THEN "Pending" ELSE "New"
      <4>1. ph \in Phases /\ "" \in Reasons
        BY DEF Phases, Reasons
      <4>2. Publish(k, [cache[k] EXCEPT !.phase = ph, !.reason = ""])
        BY <3>2 DEF RetryDomain
      <4> HIDE DEF ph
      <4> QED
        BY <4>1, <4>2
    <3>3. CASE Setback(k)
      <4>1. "Failed" \in Phases /\ "DomainDeleted" \in Reasons
        BY DEF Phases, Reasons
      <4> QED
        BY <3>3, <4>1 DEF Setback
    <3> QED
      BY <1>4, <3>1, <3>2, <3>3
  <2>2. [cache[k] EXCEPT !.phase = ph, !.reason = r] \in Domains
    BY <1>2, DomainFields
  <2> QED
    BY <1>1, <2>1, <2>2, PublishType DEF ClaimsInv
<1> QED
  BY <1>3, <1>4

LEMMA PurgeTyped ==
  ASSUME ClaimsInv, NEW k \in Keys, PurgeDomain(k)
  PROVE  DomainsTyped'
<1> DEFINE others == {j \in Keys \ {k} :
                        /\ IsPrimary(cache[k]) /\ store[j] # None
                        /\ GetPrimaryDomain(store[j]) = GetPrimaryDomain(cache[k])}
           writes == [j \in others \cup {k} |->
             IF j = k THEN None
             ELSE [store[j] EXCEPT !.phase = "Failed", !.reason = "DomainDeleted"]]
<1>1. PublishAll(writes) /\ UNCHANGED cache
  BY DEF PurgeDomain
<1>2. \A j \in others : store[j] \in Domains
  BY DEF ClaimsInv, DomainsTyped
<1>3. \A j \in others :
        [store[j] EXCEPT !.phase = "Failed", !.reason = "DomainDeleted"] \in Domains
  <2>1. "Failed" \in Phases /\ "DomainDeleted" \in Reasons
    BY DEF Phases, Reasons
  <2> HIDE DEF others
  <2> QED
    BY <1>2, <2>1, DomainFields
<1>4. \A j \in Keys : j \in DOMAIN writes => writes[j] \in Domains \cup {None}
  <2> HIDE DEF others
  <2> QED
    BY <1>3
<1> HIDE DEF writes
<1> QED
  BY <1>1, <1>4, PublishAllType DEF ClaimsInv

LEMMA WorkerTyped ==
  ASSUME ClaimsInv, NEW k \in Keys, DomainStep(k) \/ Setback(k)
  PROVE  DomainsTyped' /\ RestTyped' /\ SyncTyped'
<1>1. DomainsTyped'
  BY DecisionTyped, PurgeTyped DEF DomainStep
<1>2. UNCHANGED <<queue, served, ops, sync>>
  BY DEF DomainStep, AcceptDomain, DecideDomain, RetryDomain, PurgeDomain, Setback
<1> QED
  BY <1>1, <1>2 DEF ClaimsInv, RestTyped, SyncTyped

(* A death forgets what was in memory; every other step of the process      *)
(* leaves the work alone.                                                   *)
LEMMA ProcessTyped ==
  ASSUME ClaimsInv, Forget \/ UNCHANGED workVars
  PROVE  DomainsTyped' /\ RestTyped' /\ SyncTyped'
<1>1. CASE Forget
  <2>1. DomainsTyped'
    BY <1>1 DEF Forget, ClaimsInv, DomainsTyped
  <2>2. RestTyped' /\ SyncTyped'
    BY <1>1 DEF Forget, ClaimsInv, RestTyped, SyncTyped
  <2> QED
    BY <2>1, <2>2
<1>2. CASE UNCHANGED workVars
  <2>1. DomainsTyped'
    BY <1>2, DomainsStand DEF workVars, domainVars, ClaimsInv
  <2>2. RestTyped' /\ SyncTyped'
    BY <1>2 DEF workVars, ClaimsInv, RestTyped, SyncTyped
  <2> QED
    BY <2>1, <2>2
<1> QED
  BY <1>1, <1>2

LEMMA ClaimsInit == Init => ClaimsInv
<1> SUFFICES ASSUME Init PROVE ClaimsInv
  OBVIOUS
<1>1. IngsType /\ DomainsTyped
  BY ClaimAssumption DEF Init, IngsType, DomainsTyped
<1>2. RestTyped /\ SyncTyped
  BY ClaimAssumption DEF Init, RestTyped, SyncTyped
<1> QED
  BY <1>1, <1>2 DEF ClaimsInv

LEMMA ClaimsNext == ClaimsInv /\ [Next]_vars => ClaimsInv'
<1> SUFFICES ASSUME ClaimsInv, [Next]_vars
             PROVE  DomainsTyped' /\ RestTyped' /\ SyncTyped'
  BY IngsStep DEF ClaimsInv
<1>1. CASE Boot \/ Trouble \/ Judge \/ UNCHANGED vars
  <2>1. Forget \/ UNCHANGED workVars
    BY <1>1 DEF Boot, Trouble, Judge, vars
  <2> QED
    BY <2>1, ProcessTyped
<1>2. CASE Users
  BY <1>2, UsersTyped
<1>3. CASE (\E kind \in Kinds : List(kind)) \/ (\E k \in Keys : Observe(k))
  BY <1>3, InformersTyped
<1>4. CASE \E i \in Ingresses : Start(i)
  BY <1>4, StartTyped
<1>5. CASE SyncStep \/ ClaimUnanswered \/ ClaimLost
  BY <1>5, ClaimTyped, CheckTyped DEF SyncStep
<1>6. CASE \E k \in Keys : DomainStep(k) \/ Setback(k)
  BY <1>6, WorkerTyped
<1> QED
  BY <1>1, <1>2, <1>3, <1>4, <1>5, <1>6 DEF Next

(* Auto-claim keeps its types: what it sends to the API server, under the   *)
(* names and with the specs it derives from the rules, are domains, also    *)
(* when it works on a cache that is filled late, and through every failure  *)
(* and restart.                                                             *)
THEOREM AutoClaimTypes == Spec => []TypeOK
<1>1. Init => LifeInv
  BY LifeInit DEF Init
<1>2. LifeInv /\ ClaimsInv => TypeOK
  <2> SUFFICES ASSUME LifeInv, ClaimsInv PROVE TypeOK
    OBVIOUS
  <2>1. LifecycleTypeOK
    BY DEF LifeInv
  <2>2. \/ sync = Idle
        \/ /\ sync.pc \in {"claim", "check"}
           /\ sync.key \in Ingresses
           /\ sync.ing \in Shapes
    BY DEF ClaimsInv, SyncTyped
  <2> QED
    BY <2>1, <2>2 DEF TypeOK, ClaimsInv, IngsType, DomainsTyped, RestTyped
<1> QED
  BY <1>1, <1>2, LifeNext, ClaimsInit, ClaimsNext, PTL DEF Spec
=============================================================================
