--------------------------- MODULE MCLoadBalancer ---------------------------
(***************************************************************************)
(* Instances of LoadBalancer: one Service, two callers behind one address. *)
(***************************************************************************)
EXTENDS LoadBalancer, TLC

CONSTANTS web, b1, b2

MCServiceName == [b \in Backends |-> web]
MCAddress     == (b1 :> "10.0.0.1") @@ (b2 :> "10.0.0.2")
MCWeight      == (b1 :> 2) @@ (b2 :> 0)
MCHash        == [c \in Clients |-> 5]
MCStarts      == {[s \in Services |-> <<>>], [s \in Services |-> <<b1, b2>>]}
Alike         == Permutations(Clients)
MCConfigs ==
  LET plain(t) == [type |-> t, weights |-> <<>>]
  IN {plain(t) : t \in {"", "leastconnection", "weightedroundrobin", "iphash", "random"}}
     \cup {[type |-> "weightedroundrobin", weights |-> <<[service |-> web, weight |-> 2]>>]}
=============================================================================
