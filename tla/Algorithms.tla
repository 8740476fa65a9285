----------------------------- MODULE Algorithms -----------------------------
(***************************************************************************)
(* The pure part of the balancing algorithms: which position of a list of  *)
(* candidates a counter, a weight or a hash selects.  Positions start at   *)
(* 1 here and at 0 in the code.                                            *)
(***************************************************************************)
EXTENDS Integers, Sequences, FiniteSetsExt

CONSTANT CounterBits    \* the width of RoundRobinState.current, 32 in the code

\* Mutant: a counter that does not wrap.
IncrementWide(current) == current + 1

\* atomic.AddUint32(&state.current, 1)
Increment(current) == (current + 1) % 2^CounterBits

\* NewAlgorithm: what is not one of the other four is round robin.
NewAlgorithm(type) ==
  IF type \in {"leastconnection", "weightedroundrobin", "iphash", "random"} THEN type ELSE "roundrobin"

RoundRobinAt(n, current) == (current % n) + 1

\* The first configured weight of the Service counts, else the backend's own.
ResolveWeight(own, service, configured) ==
  LET of == {k \in DOMAIN configured : configured[k].service = service}
      w  == IF of = {} THEN own ELSE configured[Min(of)].weight
  IN IF w = 0 THEN 1 ELSE w

\* The sum of the first i weights, for every i.
Sums(weights) ==
  LET sum[i \in 0 .. Len(weights)] == IF i = 0 THEN 0 ELSE sum[i - 1] + weights[i]
  IN sum

SumTo(weights, i) == Sums(weights)[i]

\* Mutant: the loop stops when the point reaches zero.
WeightedAtZero(weights, current) ==
  LET point == current % SumTo(weights, Len(weights))
  IN CHOOSE i \in DOMAIN weights :
       /\ point - SumTo(weights, i) <= 0
       /\ \A j \in 1 .. i - 1 : point - SumTo(weights, j) > 0

\* The loop subtracts weight after weight until the point is below zero.
WeightedAt(weights, current) ==
  LET point == current % SumTo(weights, Len(weights))
  IN CHOOSE i \in DOMAIN weights :
       /\ point - SumTo(weights, i) < 0
       /\ \A j \in 1 .. i - 1 : point - SumTo(weights, j) >= 0

HashAt(n, hash) == (hash % n) + 1
=============================================================================
