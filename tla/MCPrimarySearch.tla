-------------------------- MODULE MCPrimarySearch --------------------------
(* Every cache over four keys in three namespaces, two of them in one. *)
EXTENDS PrimarySearch

Acme == <<"acme", "org">>

Dom(p, sub, dels, ph) ==
  [NewDomain([primary |-> p, sub |-> sub, parent |-> "", delegates |-> dels])
     EXCEPT !.phase = ph]

MCLabels == {"acme", "other", "org", "www", "api"}

MCNamespaces == {"n1", "n2", "sys"}

MCKeys == {[ns |-> "n1", name |-> <<"a">>], [ns |-> "n1", name |-> <<"b">>],
           [ns |-> "n2", name |-> <<"a">>], [ns |-> "sys", name |-> <<"a">>]}

(* The asker is at n2/a, with or without a parent. *)
Ask(parent) == [primary |-> Acme, sub |-> <<"www">>, parent |-> parent,
                delegates |-> {}]

MCObjects ==
  {Dom(Acme, <<>>, {"*"}, "OK"), Dom(Acme, <<>>, {"n2"}, "Failed"),
   Dom(Acme, <<>>, {"n1"}, "OK"), Dom(Acme, <<"api">>, {"n2"}, "OK"),
   Dom(<<"other", "org">>, <<>>, {"*"}, "OK")}

MCSpecs == {o.spec : o \in MCObjects} \cup {Ask(""), Ask("n1"), Ask("sys")}

MCCaches == [MCKeys -> MCObjects \cup {None}]

MCAskers == {[key |-> [ns |-> n, name |-> <<"a">>], obj |-> NewDomain(s)] :
               n \in {"n2", "sys"}, s \in {Ask(""), Ask("n1"), Ask("sys")}}
=============================================================================
