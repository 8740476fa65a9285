--------------------------- MODULE MCHealthChecks ---------------------------
(***************************************************************************)
(* Instances of HealthChecks: two Services with one backend each.          *)
(***************************************************************************)
EXTENDS HealthChecks, TLC

CONSTANTS web, api, w1, a1

MCServiceName == (w1 :> web) @@ (a1 :> api)
MCAddress     == (w1 :> "10.0.0.1") @@ (a1 :> "10.0.0.2")
=============================================================================
