--------------------------- MODULE HealthTheorems ---------------------------
(***************************************************************************)
(* Stop is complete and the balancer keeps the promise of                  *)
(* BalancerLifecycle, for any number of backends, overlapping checks and   *)
(* callers of Stop.                                                        *)
(***************************************************************************)
EXTENDS HealthChecks, FiniteSetTheorems, SequenceTheorems, WellFoundedInduction, TLAPS

\* The part of the type that the argument about Stop rests on: where the
\* loop, the checks and the calls of Stop are, and the flags.
LifeType ==
  /\ healthy \in [Backends -> BOOLEAN]
  /\ found \in [Checks -> BOOLEAN]
  /\ loop \in {"start", "select", "wait", "done"}
  /\ pc \in [Checks -> {"none", "start", "probe", "set"}]
  /\ stopCh \in BOOLEAN
  /\ stop \in [Stoppers -> {"idle", "close", "early", "waitLoop", "waitChecks", "returned", "panicked"}]

\* A check of a backend has a result.
LEMMA CheckBoolean == ASSUME NEW a PROVE CheckBackendHealth(a) \in BOOLEAN
<1>1. CheckHTTP(a) \in BOOLEAN
  BY DEF CheckHTTP
<1>2. CheckTCP(a) \in BOOLEAN
  BY DEF CheckTCP
<1> QED BY <1>1, <1>2, Zenon DEF CheckBackendHealth

\* Every step keeps the loop, the checks, the calls of Stop and the flags in
\* their types.
LEMMA LifeTypeStep == LifeType /\ [HealthNext]_hvars => LifeType'
<1> SUFFICES ASSUME LifeType, [HealthNext]_hvars PROVE LifeType'
  OBVIOUS
<1>1. CASE UNCHANGED hvars
  BY <1>1 DEF LifeType, hvars, life, lists, checks
<1>2. CASE ListStep /\ UNCHANGED <<answer, healthy, life>>
  BY <1>2 DEF LifeType, life, checks
<1>3. ASSUME NEW b \in Backends, BackendChanges(b) PROVE LifeType'
  BY <1>3 DEF LifeType, BackendChanges, life, checks
<1>4. CASE FirstCheck
  BY <1>4 DEF LifeType, FirstCheck, StartCheck
<1>5. CASE LoopTick
  BY <1>5 DEF LifeType, LoopTick, StartCheck
<1>6. CASE LoopStop
  BY <1>6 DEF LifeType, LoopStop, checks
<1>7. CASE LoopReturns
  BY <1>7 DEF LifeType, LoopReturns, checks
<1>8. ASSUME NEW k \in Checks, CheckStep(k) PROVE LifeType'
  <2>1. CASE Snapshot(k)
    BY <2>1 DEF LifeType, Snapshot
  <2>2. CASE Probe(k)
    <3>1. CheckBackendHealth(answer[Head(todo[k])]) \in BOOLEAN
      BY CheckBoolean
    <3> QED BY <2>2, <3>1 DEF LifeType, Probe
  <2>3. CASE SetHealthy(k)
    BY Zenon, <2>3 DEF LifeType, SetHealthy
  <2>4. CASE CheckDone(k)
    BY <2>4 DEF LifeType, CheckDone
  <2> QED BY <1>8, <2>1, <2>2, <2>3, <2>4 DEF CheckStep
<1>9. ASSUME NEW g \in Stoppers, StopStep(g) PROVE LifeType'
  BY Zenon, <1>9 DEF LifeType, StopStep, StopWaits, StopBegins, CloseStopCh, LoopWaited, ChecksWaited, checks
<1> QED
  BY <1>1, <1>2, <1>3, <1>4, <1>5, <1>6, <1>7, <1>8, <1>9 DEF HealthNext, LoopStep

\* A check that starts is one more of a finite number of checks, one that
\* ends is one less.
LEMMA ActiveCounted ==
  ASSUME NEW S \in SUBSET Checks, NEW k \in Checks
  PROVE  /\ Cardinality(S) \in Nat
         /\ Cardinality(S) = 0 <=> S = {}
         /\ k \notin S => Cardinality(S \cup {k}) = Cardinality(S) + 1
         /\ k \in S => Cardinality(S \ {k}) = Cardinality(S) - 1
<1>1. IsFiniteSet(S)
  BY HealthAssumption, FS_Subset
<1> QED BY Zenon, <1>1, FS_CardinalityType, FS_EmptySet, FS_AddElement, FS_RemoveElement

\* Every step keeps the invariant behind Stop.
LEMMA StopInvStep == LifeType /\ StopInv /\ [HealthNext]_hvars => StopInv'
<1> SUFFICES ASSUME LifeType, StopInv, [HealthNext]_hvars PROVE StopInv'
  OBVIOUS
<1>0. ASSUME UNCHANGED <<loop, pc, wg, checkWg, stopCh, stop>> PROVE StopInv'
  BY <1>0 DEF StopInv, Active
<1>1. CASE UNCHANGED hvars
  BY <1>0, <1>1 DEF hvars, life, checks
<1>2. CASE ListStep /\ UNCHANGED <<answer, healthy, life>>
  BY <1>0, <1>2 DEF life, checks
<1>3. ASSUME NEW b \in Backends, BackendChanges(b) PROVE StopInv'
  BY <1>0, <1>3 DEF BackendChanges, life, checks
<1>4. ASSUME NEW k \in Checks, StartCheck(k), loop \in {"start", "select"}, loop' = "select",
             UNCHANGED <<wg, stopCh, stop>>
      PROVE  StopInv'
  <2>1. k \notin Active /\ Active' = Active \cup {k}
    BY <1>4 DEF LifeType, StartCheck, Active
  <2>2. checkWg' = Cardinality(Active')
    BY <1>4, <2>1, ActiveCounted DEF StopInv, StartCheck, Active
  <2> QED BY <1>4, <2>2 DEF StopInv
<1>5. CASE FirstCheck
  BY <1>4, <1>5 DEF FirstCheck
<1>6. CASE LoopTick
  BY <1>4, <1>6 DEF LoopTick
<1>7. CASE LoopStop
  <2>1. Active' = Active
    BY <1>7 DEF LoopStop, Active, checks
  <2> QED BY <1>7, <2>1 DEF LoopStop, StopInv
<1>8. CASE LoopReturns
  <2>1. Active' = Active
    BY <1>8 DEF LoopReturns, Active, checks
  <2>2. Active = {}
    <3> SUFFICES ASSUME NEW k \in Active PROVE FALSE
      OBVIOUS
    <3> QED BY Zenon, <1>8, ActiveCounted DEF LoopReturns, StopInv, Active
  <2>3. wg' = 0 /\ loop' = "done" /\ checkWg' = checkWg /\ UNCHANGED <<stopCh, stop>>
    BY <1>8 DEF LoopReturns, StopInv
  <2> QED BY <2>1, <2>2, <2>3 DEF StopInv
<1>9. ASSUME NEW k \in Checks, CheckStep(k) PROVE StopInv'
  <2>1. CASE Snapshot(k) \/ Probe(k) \/ SetHealthy(k)
    <3>1. Active' = Active
      BY <2>1 DEF Snapshot, Probe, SetHealthy, Active, LifeType
    <3> QED BY <2>1, <3>1 DEF Snapshot, Probe, SetHealthy, StopInv
  <2>2. CASE CheckDone(k)
    <3>1. k \in Active /\ Active' = Active \ {k}
      BY <2>2 DEF CheckDone, Active, LifeType
    <3>2. checkWg' = Cardinality(Active')
      BY <2>2, <3>1, ActiveCounted DEF StopInv, CheckDone, Active
    <3> QED BY <2>2, <3>1, <3>2 DEF CheckDone, StopInv
  <2> QED BY <1>9, <2>1, <2>2 DEF CheckStep
<1>10. ASSUME NEW g \in Stoppers, StopStep(g) PROVE StopInv'
  <2>1. Active' = Active
    BY <1>10 DEF StopStep, StopWaits, StopBegins, CloseStopCh, LoopWaited, ChecksWaited, Active, checks
  <2>2. CASE StopBegins(g)
    BY <2>1, <2>2 DEF StopBegins, StopInv, LifeType
  <2>3. CASE CloseStopCh(g)
    BY <2>1, <2>3 DEF CloseStopCh, StopInv, LifeType
  <2>4. CASE LoopWaited(g)
    BY <2>1, <2>4 DEF LoopWaited, StopInv, LifeType
  <2>5. CASE ChecksWaited(g)
    BY <2>1, <2>5 DEF ChecksWaited, StopInv, LifeType
  <2> QED BY <1>10, <2>2, <2>3, <2>4, <2>5 DEF StopStep, StopWaits
<1> QED
  BY <1>1, <1>2, <1>3, <1>5, <1>6, <1>7, <1>8, <1>9, <1>10 DEF HealthNext, LoopStep

\* The types and the invariant hold when NewLoadBalancer returns.
LEMMA LifeInit == Init => LifeType /\ StopInv
<1> SUFFICES ASSUME Init PROVE LifeType /\ StopInv
  OBVIOUS
<1>1. LifeType
  BY Zenon DEF Init, LifeType
<1>2. Active = {}
  BY DEF Init, Active
<1>3. StopInv
  BY <1>2, FS_EmptySet DEF Init, StopInv
<1> QED BY <1>1, <1>3

\* The invariant behind Stop holds for any number of checks and callers of
\* Stop, whether or not their calls overlap.
THEOREM StopInvariant == HealthSpec => [](LifeType /\ StopInv)
<1>1. LifeType /\ StopInv /\ [HealthNext]_hvars => (LifeType /\ StopInv)'
  BY LifeTypeStep, StopInvStep
<1> QED BY <1>1, LifeInit, PTL DEF HealthSpec

\* Once the Stop that closed the channel has returned, the loop is over and
\* no check runs.
THEOREM StopIsComplete == HealthSpec => []StopComplete
<1>1. LifeType /\ StopInv => StopComplete
  BY DEF StopInv, StopComplete
<1> QED BY <1>1, StopInvariant, PTL

\* Every step of the goroutines is a step of the lifecycle they promise or
\* leaves it unchanged: no flag moves once Stop has returned.
THEOREM LifecycleKept == HealthSpec => Life!Safe
<1>1. Init => Life!Init
  BY DEF Init, Life!Init, Phase
<1>2. LifeType /\ StopInv /\ [HealthNext]_hvars => [Life!Next]_(Life!pvars)
  <2> SUFFICES ASSUME LifeType, StopInv, [HealthNext]_hvars PROVE [Life!Next]_(Life!pvars)
    OBVIOUS
  <2>0. ASSUME UNCHANGED <<healthy, stopCh, stop>> PROVE UNCHANGED Life!pvars
    BY <2>0 DEF Life!pvars, Phase
  <2>1. CASE UNCHANGED hvars
    BY <2>0, <2>1 DEF hvars, life
  <2>2. CASE ListStep /\ UNCHANGED <<answer, healthy, life>>
    BY <2>0, <2>2 DEF life
  <2>3. ASSUME NEW b \in Backends, BackendChanges(b) PROVE UNCHANGED Life!pvars
    BY <2>0, <2>3 DEF BackendChanges, life
  <2>4. CASE LoopStep
    BY <2>0, <2>4 DEF LoopStep, FirstCheck, LoopTick, LoopStop, LoopReturns
  <2>5. ASSUME NEW k \in Checks, CheckStep(k) PROVE [Life!Next]_(Life!pvars)
    <3>1. CASE SetHealthy(k)
      <4>1. \A g \in Stoppers : stop[g] # "returned"
        BY <3>1 DEF SetHealthy, StopInv, Active
      <4>2. Phase \in {"running", "stopping"} /\ Phase' = Phase
        BY <3>1, <4>1 DEF Phase, SetHealthy
      <4>3. CASE Head(todo[k]) \in Backends
        BY Zenon, <3>1, <4>2, <4>3 DEF SetHealthy, LifeType, Life!Next, Life!Mark
      <4>4. CASE Head(todo[k]) \notin Backends
        <5>1. healthy' = healthy
          BY <3>1, <4>4 DEF SetHealthy, LifeType
        <5> QED BY <4>2, <5>1 DEF Life!pvars
      <4> QED BY <4>3, <4>4
    <3>2. CASE Snapshot(k) \/ Probe(k) \/ CheckDone(k)
      BY <2>0, <3>2 DEF Snapshot, Probe, CheckDone
    <3> QED BY <2>5, <3>1, <3>2 DEF CheckStep
  <2>6. ASSUME NEW g \in Stoppers, StopStep(g) PROVE [Life!Next]_(Life!pvars)
    <3>1. CASE StopBegins(g)
      <4>1. Phase' = Phase
        BY <3>1 DEF StopBegins, Phase, LifeType
      <4> QED BY <3>1, <4>1 DEF StopBegins, Life!pvars
    <3>2. CASE CloseStopCh(g)
      <4>1. CASE stopCh
        <5>1. Phase' = Phase
          BY <3>2, <4>1 DEF CloseStopCh, Phase, LifeType
        <5> QED BY <3>2, <5>1 DEF CloseStopCh, Life!pvars
      <4>2. CASE ~stopCh
        <5>1. Phase = "running" /\ Phase' = "stopping"
          BY <3>2, <4>2 DEF CloseStopCh, Phase, LifeType, StopInv
        <5> QED BY <3>2, <5>1 DEF CloseStopCh, Life!Next, Life!StopCalled
      <4> QED BY <4>1, <4>2
    <3>3. CASE LoopWaited(g)
      <4>1. Phase' = Phase
        BY <3>3 DEF LoopWaited, Phase, LifeType
      <4> QED BY <3>3, <4>1 DEF LoopWaited, Life!pvars
    <3>4. CASE ChecksWaited(g)
      <4>1. Phase' = "stopped" /\ Phase \in {"stopping", "stopped"}
        BY <3>4 DEF ChecksWaited, Phase, LifeType, StopInv
      <4> QED BY <3>4, <4>1 DEF ChecksWaited, Life!Next, Life!StopReturned, Life!pvars
    <3> QED BY <2>6, <3>1, <3>2, <3>3, <3>4 DEF StopStep, StopWaits
  <2> QED
    BY <2>1, <2>2, <2>3, <2>4, <2>5, <2>6 DEF HealthNext
<1> QED BY <1>1, <1>2, StopInvariant, PTL DEF HealthSpec, Life!Safe

\* What serial calls of Stop keep: one call at a time is past the look at
\* the channel, and it is open until that call has closed it.
SerialInv ==
  /\ NoPanic
  /\ \A g \in Stoppers :
       /\ stop[g] = "close" => ~stopCh
       /\ stop[g] \in {"close", "waitLoop", "waitChecks"} =>
            \A h \in Stoppers \ {g} : stop[h] \in {"idle", "early", "returned"}

\* Every step keeps it when calls of Stop do not overlap.
LEMMA SerialStep ==
  ASSUME Serial = TRUE
  PROVE  LifeType /\ SerialInv /\ [HealthNext]_hvars => SerialInv'
<1> SUFFICES ASSUME LifeType, SerialInv, [HealthNext]_hvars PROVE SerialInv'
  OBVIOUS
<1>0. ASSUME UNCHANGED <<stopCh, stop>> PROVE SerialInv'
  BY <1>0 DEF SerialInv, NoPanic, Panicked
<1>1. CASE UNCHANGED hvars
  BY <1>0, <1>1 DEF hvars, life
<1>2. CASE ListStep /\ UNCHANGED <<answer, healthy, life>>
  BY <1>0, <1>2 DEF life
<1>3. ASSUME NEW b \in Backends, BackendChanges(b) PROVE SerialInv'
  BY <1>0, <1>3 DEF BackendChanges, life
<1>4. CASE LoopStep
  BY <1>0, <1>4 DEF LoopStep, FirstCheck, LoopTick, LoopStop, LoopReturns
<1>5. ASSUME NEW k \in Checks, CheckStep(k) PROVE SerialInv'
  BY <1>0, <1>5 DEF CheckStep, Snapshot, Probe, SetHealthy, CheckDone
<1>6. ASSUME NEW g \in Stoppers, StopStep(g) PROVE SerialInv'
  <2>1. CASE StopBegins(g)
    BY <2>1 DEF StopBegins, SerialInv, NoPanic, Panicked, LifeType
  <2>2. CASE CloseStopCh(g)
    BY <2>2 DEF CloseStopCh, SerialInv, NoPanic, Panicked, LifeType
  <2>3. CASE LoopWaited(g)
    BY <2>3 DEF LoopWaited, SerialInv, NoPanic, Panicked, LifeType
  <2>4. CASE ChecksWaited(g)
    BY <2>4 DEF ChecksWaited, SerialInv, NoPanic, Panicked, LifeType
  <2> QED BY <1>6, <2>1, <2>2, <2>3, <2>4 DEF StopStep, StopWaits
<1> QED
  BY <1>1, <1>2, <1>3, <1>4, <1>5, <1>6 DEF HealthNext

\* Stop may be called any number of times by any goroutines, one call after
\* the other, and never closes the channel twice.
THEOREM StopNeverPanics ==
  ASSUME Serial = TRUE
  PROVE  HealthSpec => []NoPanic
<1>1. Init => SerialInv
  BY DEF Init, SerialInv, NoPanic, Panicked
<1>2. LifeType /\ SerialInv /\ [HealthNext]_hvars => SerialInv'
  BY SerialStep
<1>3. SerialInv => NoPanic
  BY DEF SerialInv
<1> QED BY <1>1, <1>2, <1>3, StopInvariant, PTL DEF HealthSpec

-----------------------------------------------------------------------------
(* Types.                                                                  *)

\* A nonempty set of naturals has a least element.
LEMMA LeastOf ==
  ASSUME NEW S \in SUBSET Nat, S # {}
  PROVE  \E m \in S : \A n \in S : m <= n
<1> DEFINE Below == {ss \in Nat \X Nat : ss[1] < ss[2]}
<1>1. IsWellFoundedOn(Below, Nat)
  BY NatLessThanWellFounded, Zenon DEF OpToRel
<1>2. PICK m \in S : \A n \in S : ~ (<<n, m>> \in Below)
  <2> HIDE DEF Below
  <2> QED  BY Zenon, <1>1, WFMin
<1>3. ASSUME NEW n \in S  PROVE  m <= n
  <2>1. m \in Nat /\ n \in Nat
    OBVIOUS
  <2>2. n < m => <<n, m>> \in Below
    BY <2>1
  <2> QED  BY <1>2, <2>1, <2>2
<1> QED  BY <1>3, Zenon

\* The copies of the lists, put one after the other, are a list of backends.
\* Were there a first n up to which the recursion has no solution, the one up
\* to n - 1 could be extended.
LEMMA JoinedIs ==
  ASSUME backends \in [Services -> Seq(Backends)], NEW N \in Nat, NEW order \in [1 .. N -> Services]
  PROVE  Joined(order) \in Seq(Backends)
<1> DEFINE Solves(f, n) == f = [i \in 0 .. n |-> IF i = 0 THEN <<>> ELSE f[i - 1] \o backends[order[i]]]
           Bad == {n \in 0 .. N : ~ \E f \in [0 .. n -> Seq(Backends)] : Solves(f, n)}
<1>1. Bad = {}
  <2> SUFFICES ASSUME Bad # {} PROVE FALSE
    OBVIOUS
  <2>1. Bad \in SUBSET Nat
    <3>1. 0 .. N \in SUBSET Nat
      OBVIOUS
    <3> QED  BY <3>1, Zenon
  <2>2. PICK m \in Bad : \A n \in Bad : m <= n
    <3> HIDE DEF Bad
    <3> QED  BY <2>1, LeastOf
  <2>3. CASE m = 0
    <3>1. [i \in 0 .. 0 |-> <<>>] \in [0 .. 0 -> Seq(Backends)] /\ Solves([i \in 0 .. 0 |-> <<>>], 0)
      <4>1. \A i \in 0 .. 0 : i = 0
        OBVIOUS
      <4>2. <<>> \in Seq(Backends)
        OBVIOUS
      <4> QED  BY <4>1, <4>2, Zenon
    <3> QED  BY Zenon, <2>2, <2>3, <3>1
  <2>4. CASE m # 0
    <3>1. m \in 1 .. N /\ m - 1 \in 0 .. N /\ m - 1 \notin Bad
      <4>1. m \in 0 .. N
        BY <2>2
      <4> HIDE DEF Bad
      <4> QED  BY <2>2, <2>4, <4>1
    <3>2. PICK f \in [0 .. (m - 1) -> Seq(Backends)] : Solves(f, m - 1)
      BY <3>1
    <3> DEFINE last == f[m - 1] \o backends[order[m]]
    <3>3. last \in Seq(Backends)
      <4>1. f[m - 1] \in Seq(Backends) /\ backends[order[m]] \in Seq(Backends)
        BY <3>1
      <4> QED  BY <4>1, ConcatProperties
    <3> HIDE DEF last
    <3> DEFINE g == [i \in 0 .. m |-> IF i = m THEN last ELSE f[i]]
    <3>4. g \in [0 .. m -> Seq(Backends)]
      BY <3>1, <3>3
    <3>5. ASSUME NEW i \in 0 .. m
          PROVE  g[i] = IF i = 0 THEN <<>> ELSE g[i - 1] \o backends[order[i]]
      <4>1. CASE i = m
        <5>1. g[i] = last /\ g[i - 1] = f[m - 1] /\ i # 0
          BY <3>1, <4>1
        <5> QED  BY <4>1, <5>1 DEF last
      <4>2. CASE i # m
        <5>1. i \in 0 .. (m - 1)
          BY <3>1, <4>2
        <5>2. f[i] = IF i = 0 THEN <<>> ELSE f[i - 1] \o backends[order[i]]
          BY Zenon, <3>2, <5>1
        <5>3. g[i] = f[i] /\ (i # 0 => g[i - 1] = f[i - 1])
          BY <3>1, <4>2, <5>1
        <5> QED  BY <5>2, <5>3
      <4> QED  BY <4>1, <4>2
    <3>6. Solves(g, m)
      BY <3>4, <3>5
    <3> QED  BY Zenon, <2>2, <3>4, <3>6
  <2> QED  BY <2>3, <2>4
<1>2. N \in 0 .. N /\ Len(order) = N
  OBVIOUS
<1>3. \E f \in [0 .. N -> Seq(Backends)] : Solves(f, N)
  BY Zenon, <1>1, <1>2
<1> DEFINE F == CHOOSE f : Solves(f, N)
<1>4. Solves(F, N)
  BY Zenon, <1>3
<1>5. Joined(order) = F[N]
  BY <1>2, Zenon DEF Joined
<1> HIDE DEF F
<1>6. \A i \in 0 .. N : F[i] = IF i = 0 THEN <<>> ELSE F[i - 1] \o backends[order[i]]
  BY <1>4, Zenon
<1> DEFINE Ill == {n \in 0 .. N : F[n] \notin Seq(Backends)}
<1>7. Ill = {}
  <2> SUFFICES ASSUME Ill # {} PROVE FALSE
    OBVIOUS
  <2>1. Ill \in SUBSET Nat
    OBVIOUS
  <2>2. PICK m \in Ill : \A n \in Ill : m <= n
    <3> HIDE DEF Ill
    <3> QED  BY <2>1, LeastOf
  <2>3. m \in 0 .. N /\ F[m] \notin Seq(Backends)
    BY <2>2
  <2>4. m # 0
    <3>1. 0 \in 0 .. N /\ <<>> \in Seq(Backends)
      OBVIOUS
    <3>2. F[0] = <<>>
      BY <1>6, <3>1, Zenon
    <3> QED  BY <2>3, <3>1, <3>2
  <2>5. m \in 1 .. N /\ m - 1 \in 0 .. N /\ m - 1 \notin Ill
    <3> HIDE DEF Ill
    <3> QED  BY <2>2, <2>3, <2>4
  <2>6. F[m] = F[m - 1] \o backends[order[m]]
    BY <1>6, <2>3, <2>4, Zenon
  <2>7. F[m - 1] \in Seq(Backends) /\ backends[order[m]] \in Seq(Backends)
    BY <2>5
  <2> QED  BY <2>3, <2>6, <2>7, ConcatProperties
<1> QED  BY <1>2, <1>5, <1>7

\* A list without one of its elements.
LEMMA RemovedIs ==
  ASSUME NEW S, NEW s \in Seq(S), NEW i \in DOMAIN s
  PROVE  SubSeq(s, 1, i - 1) \o SubSeq(s, i + 1, Len(s)) \in Seq(S)
<1>1. i \in 1 .. Len(s) /\ Len(s) \in Nat
  OBVIOUS
<1>2. SubSeq(s, 1, i - 1) \in Seq(S) /\ SubSeq(s, i + 1, Len(s)) \in Seq(S)
  BY <1>1
<1> QED  BY <1>2, ConcatProperties

\* The lists, the copies a check works on, and that a check has a backend to
\* mark when it is about to.
ListType ==
  /\ backends \in [Services -> Seq(Backends)]
  /\ answer \in [Backends -> Answers]
  /\ todo \in [Checks -> Seq(Backends)]
  /\ \A k \in Checks : pc[k] = "set" => todo[k] # <<>>

\* Every step keeps them.
LEMMA ListTypeStep == LifeType /\ ListType /\ [HealthNext]_hvars => ListType'
<1> SUFFICES ASSUME LifeType, ListType, [HealthNext]_hvars PROVE ListType'
  OBVIOUS
<1>0. ASSUME UNCHANGED <<backends, answer, pc, todo>> PROVE ListType'
  BY <1>0 DEF ListType
<1>1. CASE UNCHANGED hvars
  BY <1>0, <1>1 DEF hvars, life, lists, checks
<1>2. CASE ListStep /\ UNCHANGED <<answer, healthy, life>>
  <2>1. UNCHANGED <<answer, pc, todo>>
    BY <1>2 DEF life, checks
  <2>2. ASSUME NEW b \in Backends, AddBackend(b)
        PROVE  backends' \in [Services -> Seq(Backends)]
    <3>1. ServiceName[b] \in Services
      BY RegistryAssumption
    <3> QED  BY <2>2, <3>1 DEF AddBackend, ListType
  <2>3. ASSUME NEW a, NEW s \in Services, RemoveBackend(a, s)
        PROVE  backends' \in [Services -> Seq(Backends)]
    <3>1. PICK i \in DOMAIN backends[s] :
            backends' = [backends EXCEPT ![s] = SubSeq(@, 1, i - 1) \o SubSeq(@, i + 1, Len(@))]
      BY Zenon, <2>3 DEF RemoveBackend
    <3> DEFINE l == SubSeq(backends[s], 1, i - 1) \o SubSeq(backends[s], i + 1, Len(backends[s]))
    <3>2. backends[s] \in Seq(Backends)
      BY DEF ListType
    <3>3. l \in Seq(Backends)
      BY <3>2, RemovedIs
    <3>4. backends' = [backends EXCEPT ![s] = l]
      BY <3>1
    <3> HIDE DEF l
    <3> QED  BY <3>3, <3>4 DEF ListType
  <2>4. backends' \in [Services -> Seq(Backends)]
    BY Zenon, <1>2, <2>2, <2>3 DEF ListStep
  <2> QED  BY <2>1, <2>4 DEF ListType
<1>3. ASSUME NEW b \in Backends, BackendChanges(b) PROVE ListType'
  BY <1>3 DEF ListType, BackendChanges, life, checks
<1>4. ASSUME NEW k \in Checks, StartCheck(k), UNCHANGED lists PROVE ListType'
  BY <1>4 DEF ListType, LifeType, StartCheck, lists
<1>5. CASE FirstCheck \/ LoopTick
  <2>1. PICK k \in Checks : StartCheck(k)
    BY <1>5, Zenon DEF FirstCheck, LoopTick
  <2> QED  BY <1>4, <1>5, <2>1 DEF FirstCheck, LoopTick
<1>6. CASE LoopStop \/ LoopReturns
  BY <1>0, <1>6 DEF LoopStop, LoopReturns, lists, checks
<1>7. ASSUME NEW k \in Checks, CheckStep(k) PROVE ListType'
  <2>1. CASE Snapshot(k)
    <3>1. PICK order \in Bijection(1 .. Cardinality(Services), Services) :
            todo' = [todo EXCEPT ![k] = Joined(order)]
      BY <2>1, Zenon DEF Snapshot
    <3>2. Cardinality(Services) \in Nat
      BY HealthAssumption, FS_CardinalityType
    <3>3. order \in [1 .. Cardinality(Services) -> Services]
      BY Zenon DEF Bijection, Injection
    <3>4. Joined(order) \in Seq(Backends)
      BY <3>2, <3>3, JoinedIs DEF ListType
    <3>5. pc' = [pc EXCEPT ![k] = "probe"] /\ UNCHANGED <<backends, answer>>
      BY <2>1 DEF Snapshot, lists
    <3> QED  BY <3>1, <3>4, <3>5 DEF ListType, LifeType
  <2>2. CASE Probe(k)
    BY <2>2 DEF ListType, LifeType, Probe, lists
  <2>3. CASE SetHealthy(k)
    <3>1. todo[k] \in Seq(Backends) /\ todo[k] # <<>>
      BY <2>3 DEF ListType, SetHealthy
    <3>2. Tail(todo[k]) \in Seq(Backends)
      BY <3>1
    <3>3. pc' = [pc EXCEPT ![k] = "probe"] /\ todo' = [todo EXCEPT ![k] = Tail(todo[k])]
      BY <2>3 DEF SetHealthy
    <3>4. UNCHANGED <<backends, answer>>
      BY <2>3 DEF SetHealthy, lists
    <3> QED  BY <3>2, <3>3, <3>4 DEF ListType, LifeType
  <2>4. CASE CheckDone(k)
    BY <2>4 DEF ListType, LifeType, CheckDone, lists
  <2> QED  BY <1>7, <2>1, <2>2, <2>3, <2>4 DEF CheckStep
<1>8. ASSUME NEW g \in Stoppers, StopStep(g) PROVE ListType'
  BY <1>0, <1>8 DEF StopStep, StopWaits, StopBegins, CloseStopCh, LoopWaited, ChecksWaited, checks, lists
<1> QED
  BY <1>1, <1>2, <1>3, <1>5, <1>6, <1>7, <1>8 DEF HealthNext, LoopStep

\* The state of the checks is well-typed: whatever is added and removed
\* meanwhile, a check only ever probes and marks backends, it has one to mark
\* when it is about to, and the counters of the WaitGroups are not negative.
THEOREM HealthTypes == HealthSpec => []TypeOK
<1>1. Init => ListType
  BY DEF Init, ListType
<1>2. LifeType /\ StopInv /\ ListType => TypeOK
  <2> SUFFICES ASSUME LifeType, StopInv, ListType PROVE TypeOK
    OBVIOUS
  <2>1. Active \in SUBSET Checks
    BY DEF Active
  <2>2. IsFiniteSet(Active)
    BY <2>1, HealthAssumption, FS_Subset
  <2>3. checkWg \in Nat
    BY <2>2, FS_CardinalityType DEF StopInv
  <2>4. wg \in {0, 1}
    BY DEF StopInv
  <2> QED  BY <2>3, <2>4 DEF TypeOK, LifeType, ListType
<1> QED  BY <1>1, <1>2, ListTypeStep, StopInvariant, PTL DEF HealthSpec
=============================================================================
