-------------------------- MODULE BackendRegistry ---------------------------
(***************************************************************************)
(* The backends the load balancer knows.  lb.mu is held only while a list  *)
(* is copied or changed, so each such section is one step.  Nothing stops  *)
(* a caller from adding a backend, or an address, twice.                   *)
(***************************************************************************)
EXTENDS Integers, Sequences, FiniteSets

CONSTANTS
  Services, Backends,   \* names of Services; Backend objects
  ServiceName, Address, \* fields of the Backend objects
  MaxListed             \* bound: the backends listed for a Service

VARIABLE backends       \* lb.backends: the list of each Service

ASSUME RegistryAssumption == ServiceName \in [Backends -> Services]

AddBackend(b) ==
  /\ Len(backends[ServiceName[b]]) < MaxListed
  /\ backends' = [backends EXCEPT ![ServiceName[b]] = Append(@, b)]

\* The first backend with the address goes.
RemoveBackend(address, s) ==
  LET at == {i \in DOMAIN backends[s] : Address[backends[s][i]] = address}
  IN \E i \in at :
       /\ \A j \in at : i <= j
       /\ backends' = [backends EXCEPT ![s] = SubSeq(@, 1, i - 1) \o SubSeq(@, i + 1, Len(@))]

ListStep ==
  \/ \E b \in Backends : AddBackend(b)
  \/ \E b \in Backends, s \in Services : RemoveBackend(Address[b], s)

Listed(b) == \E i \in DOMAIN backends[ServiceName[b]] : backends[ServiceName[b]][i] = b
=============================================================================
