----------------------------- MODULE MCWebhook -----------------------------
(***************************************************************************)
(* Two configs and two users, whose writes are reviewed from a cache that  *)
(* may be outdated.  Two specs share no address, so that configs overlap   *)
(* when they have the same one, in a single address or in several; the     *)
(* third is refused for its fields.                                        *)
(***************************************************************************)
EXTENDS Webhook

WSpec(v4, v6) ==
  [ipRange |-> v4, ipv6Range |-> v6, ports |-> <<[port |-> 80, protocol |-> "TCP"]>>,
   weights |-> <<>>, method |-> "RoundRobin", healthCheck |-> <<>>]

MCConfigs == {[ns |-> "a", name |-> "h1"], [ns |-> "a", name |-> "h2"]}

MCSpecs ==
  {WSpec(Span(1, 2), SingleIP(7)), WSpec(SingleIP(5), NoRange),
   [WSpec(Span(2, 1), NoRange) EXCEPT
      !.ports = <<[port |-> 80, protocol |-> "TCP"], [port |-> 80, protocol |-> "UDP"]>>,
      !.weights = <<[serviceName |-> "s", weight |-> 1]>>,
      !.healthCheck = <<[protocol |-> "HTTP", httpPath |-> ""]>>]}
=============================================================================
