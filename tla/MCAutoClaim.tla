---------------------------- MODULE MCAutoClaim ----------------------------
(* An instance of AutoClaim for TLC. *)
EXTENDS AutoClaim

Org  == <<"org">>
Acme == <<<<"acme">>, Org>>
Www  == <<<<"www">>>> \o Acme
Shop == <<<<"my", "shop">>, Org>>           \* my-shop.org
My   == <<<<"my">>, <<"shop">>, Org>>       \* my.shop.org, named alike

MCLabels == {<<"acme">>, <<"www">>, <<"my", "shop">>, <<"my">>, <<"shop">>, Org}

Ingress(rules, primaries, parent) ==
  [rules |-> rules, primaries |-> primaries, parent |-> parent]

(* A shared host before its primary; the shared host alone, which nobody    *)
(* lends; the same host as a primary domain, without the parent the         *)
(* annotation names; two hosts of one resource name; a host that is no      *)
(* domain.                                                                  *)
Family  == Ingress(<<Www, Acme>>, {}, "")
Lone    == Ingress(<<Www>>, {}, "")
Single  == Ingress(<<Www>>, {Www}, "sys")
Alike   == Ingress(<<Shop, My>>, {}, "")
Invalid == Ingress(<<<<Org>>>>, {}, "")

MCShapes == {Family, Lone, Single, Alike, Invalid}

(* One ingress, or two that agree on a host until one of them is edited. *)
MCGiven == {[i1 |-> g, i2 |-> None] : g \in {Family, Lone, Alike, Invalid}}
             \cup {[i1 |-> Single, i2 |-> Single]}

MCRevisions == {<<Family, Single>>, <<Lone, Single>>, <<Single, Lone>>,
                <<Family, None>>}

MCLent == {Tail(My)}

RuleDomains == UNION {{HostDomain(g, g.rules[n]) : n \in 1..Len(g.rules)} :
                        g \in MCShapes}

(* A user lends acme.org, under the name auto-claim uses as well. *)
Loan == [HostDomain(CHOOSE g \in MCShapes : TRUE, Acme)
           EXCEPT !.spec.delegates = {"*"}, !.spec.parent = ""]

MCWritten == {Loan}
MCKeys    == {d.key : d \in {c \in RuleDomains : IsValidDomain(c)}}
MCSpecs   == {d.spec : d \in RuleDomains \cup {Loan}}
=============================================================================
