--------------------------- MODULE MCDomainClaims ---------------------------
(* Instances of DomainClaims for TLC. *)
EXTENDS DomainClaims

Acme == <<"acme", "org">>

Primary(p, dels) ==
  [primary |-> p, sub |-> <<>>, parent |-> "", delegates |-> dels]

Shared(p, sub, parent) ==
  [primary |-> p, sub |-> <<sub>>, parent |-> parent, delegates |-> {}]

Key(ns, name) == [ns |-> ns, name |-> <<name>>]

Route(host, ns) == [host |-> host, ns |-> ns]

MCLabels == {"acme", "notacme", "org", "www"}

MCNamespaces == {"n1", "n2", "sys"}

(* The regexp is not anchored: it finds every api whose host ends in the    *)
(* pattern, the subdomains included, and notacme.org for acme.org.          *)
EndsWith(l, m) == l = m \/ <<l, m>> = <<"notacme", "acme">>

MCMatches(p, h) ==
  /\ Len(h) >= Len(p)
  /\ LET off == Len(h) - Len(p) IN
       /\ EndsWith(h[off + 1], p[1])
       /\ \A i \in 2..Len(p) : h[off + i] = p[i]

-----------------------------------------------------------------------------
Open    == Primary(Acme, {"*"})
Closed  == Primary(Acme, {})
Www     == Shared(Acme, "www", "n1")
Invalid == Primary(<<"acme">>, {})

Acme1 == Key("n1", "acme")
Acme2 == Key("n2", "acme")
Www2  == Key("n2", "www")

(* Two namespaces ask for acme.org; the first takes its delegation back.    *)
RivalKeys   == {Acme1, Acme2}
RivalSpecs  == {Open, Closed}
RivalWanted == [k \in RivalKeys |-> IF k = Acme1 THEN {Open} ELSE {Closed}]
RivalEdits  == {<<Open, Closed>>}

(* n1 owns acme.org and lends it, or not, to n2, which asks for             *)
(* www.acme.org and routes it.                                              *)
LeaseKeys   == {Acme1, Www2}
LeaseSpecs  == {Open, Closed, Www}
LeaseWanted == [k \in LeaseKeys |-> IF k = Acme1 THEN {Open} ELSE {Www}]
LeaseEdits  == {<<Open, Closed>>}
LeaseRoutes == {Route(<<"www">> \o Acme, "n2")}

(* n1 creates an invalid domain, mends it, and changes its mind about what  *)
(* it claims: updateDomain leaves a copy for every former identity.         *)
EditUsers  == {Acme1}
EditSpecs  == {Invalid, Closed, Www}
EditWanted == [k \in EditUsers |-> {Invalid, Closed}]
EditEdits  == {<<Invalid, Closed>>, <<Closed, Www>>}
EditKeys   == EditUsers \cup {CopyKey(Acme1, NewDomain(s)) : s \in {Closed, Www}}
=============================================================================
