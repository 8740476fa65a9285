------------------------- MODULE BalancerLifecycle --------------------------
(***************************************************************************)
(* What a load balancer promises to whoever stops it: health flags move    *)
(* while it runs and while it winds down, the Stop that ends it returns,   *)
(* and from then on nothing of it is left that writes a flag.              *)
(***************************************************************************)
CONSTANT Backends

VARIABLES phase, flag

pvars == <<phase, flag>>

Init == phase = "running" /\ flag \in [Backends -> BOOLEAN]

Mark ==
  /\ phase \in {"running", "stopping"}
  /\ \E b \in Backends, v \in BOOLEAN : flag' = [flag EXCEPT ![b] = v]
  /\ UNCHANGED phase

StopCalled ==
  /\ phase = "running"
  /\ phase' = "stopping"
  /\ UNCHANGED flag

StopReturned ==
  /\ phase = "stopping"
  /\ phase' = "stopped"
  /\ UNCHANGED flag

Next == Mark \/ StopCalled \/ StopReturned

Safe == Init /\ [][Next]_pvars
Spec == Safe /\ WF_pvars(StopReturned)
=============================================================================
