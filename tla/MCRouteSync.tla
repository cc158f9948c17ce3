---------------------------- MODULE MCRouteSync ----------------------------
(* Two instances: one ingress of two paths, behind two services of one      *)
(* host; and, for the liveness properties, one ingress and one service.     *)
EXTENDS RouteSync

Path(p, s) == [host |-> "acme.org", path |-> p, svc |-> s, port |-> 80]

IngressSpec(cls, bs) == [kong |-> cls, hosts |-> {"acme.org"}, backends |-> bs]

(* The second version sends the first path to the other service; the third  *)
(* is handed to another controller.                                         *)
Both  == IngressSpec(TRUE, <<Path("/", "web"), Path("/api", "hello")>>)
Moved == IngressSpec(TRUE, <<Path("/", "hello")>>)
Other == IngressSpec(FALSE, <<Path("/", "web")>>)

MCPorts  == [s \in {"web", "hello"} |-> IF s = "web" THEN <<80, 443>> ELSE <<80>>]

MCWanted == [k \in {"ing"} |-> {Both, Moved, Other}]

(* One service of two ports.  The second version sends the path to the      *)
(* other port; the third wants the first port again, of another controller. *)
Plain   == IngressSpec(TRUE, <<Path("/", "web")>>)
Secure  == IngressSpec(TRUE, <<[Path("/", "web") EXCEPT !.port = 443]>>)
Foreign == IngressSpec(FALSE, <<Path("/", "web")>>)

LivePorts  == [s \in {"web"} |-> <<80, 443>>]

LiveWanted == [k \in {"ing"} |-> {Plain, Secure, Foreign}]
=============================================================================
