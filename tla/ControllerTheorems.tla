------------------------ MODULE ControllerTheorems --------------------------
(***************************************************************************)
(* Proofs about HeliosController, for any number of configs and Services,  *)
(* any specs, any budget of disruptions and with or without stale reads:   *)
(* what the operators return, that the types are kept, and that no address *)
(* is recorded by two configs, unless it is the only one of a range.       *)
(***************************************************************************)
EXTENDS ControllerInvariants, AllocatorTheorems


\* Zenon proves the steps that do not name a prover.
USE ZenonT(30)

-----------------------------------------------------------------------------
(* Objects.                                                                *)

\* The absence of an address is no address.
LEMMA NoIPNotAddr == NoIP \notin Addr
BY SMT, AddrSpaceAssumption DEF NoIP, Addr, V4, V6

\* What a user creates is a config.
LEMMA NewConfigShape ==
  ASSUME NEW spec \in ConfigSpecs \cup {NoSpec}
  PROVE  /\ NewConfig(spec) \in ConfigObjects
         /\ [NewConfig(spec) EXCEPT !.exists = FALSE] \in ConfigObjects
BY DEF NewConfig, ConfigObjects, NoIPs

\* An absent config is a config record too.
LEMMA NoConfigShape == NoConfig \in ConfigObjects
BY NewConfigShape DEF NoConfig

\* What a user creates is a Service.
LEMMA NewServiceShape ==
  ASSUME NEW s \in Services, NEW spec \in ServiceSpecs[s]
  PROVE  NewService(spec) \in ServiceObjects
BY SMT, SpecsAssumption DEF NewService, ServiceObjects, ServiceKinds

\* An absent Service is a Service record too.
LEMMA NoServiceShape == NoService \in ServiceObjects
BY DEF NoService, ServiceObjects, ServiceKinds

\* At the start of a Reconcile call nothing has been missed.
LEMMA NothingMissedShape ==
  NothingMissed \in [configs : SUBSET Configs, services : SUBSET Services, names : SUBSET Names]
BY DEF NothingMissed

\* What each kind of write makes of a config.  p is o with something changed
\* other than what it records.
EditOf(p, o) == p \in ConfigObjects /\ Recorded(p) = Recorded(o) /\ p.exists = o.exists

\* What a config records depends on its two maps only.
LEMMA RecordedSame ==
  ASSUME NEW o \in ConfigObjects, NEW p \in ConfigObjects,
         p.allocatedIPs = o.allocatedIPs, p.allocatedIPv6s = o.allocatedIPv6s
  PROVE  Recorded(p) = Recorded(o)
BY DEF Recorded

\* Adding the finalizer.
LEMMA EditFinalizer ==
  ASSUME NEW o \in ConfigObjects
  PROVE  EditOf(WithFinalizer(o), o) /\ WithFinalizer(o).finalizer
<1> DEFINE p == WithFinalizer(o)
<1>1. p \in ConfigObjects /\ p.allocatedIPs = o.allocatedIPs /\ p.allocatedIPv6s = o.allocatedIPv6s
      /\ p.exists = o.exists /\ p.finalizer
  BY DEF ConfigObjects, WithFinalizer
<1> HIDE DEF p
<1>2. EditOf(p, o) /\ p.finalizer
  BY <1>1, RecordedSame DEF EditOf
<1> QED  BY <1>2 DEF p

\* Setting the initial condition.
LEMMA EditReady ==
  ASSUME NEW o \in ConfigObjects
  PROVE  EditOf(WithInitialCondition(o), o) /\ WithInitialCondition(o).finalizer = o.finalizer
<1> DEFINE p == WithInitialCondition(o)
<1>1. p \in ConfigObjects /\ p.allocatedIPs = o.allocatedIPs /\ p.allocatedIPv6s = o.allocatedIPv6s
      /\ p.exists = o.exists /\ p.finalizer = o.finalizer
  BY DEF ConfigObjects, WithInitialCondition
<1> HIDE DEF p
<1>2. EditOf(p, o) /\ p.finalizer = o.finalizer
  BY <1>1, RecordedSame DEF EditOf
<1> QED  BY <1>2 DEF p

\* Reporting a conflict.
LEMMA EditDegraded ==
  ASSUME NEW o \in ConfigObjects
  PROVE  EditOf(WithConflict(o), o) /\ WithConflict(o).finalizer = o.finalizer
<1> DEFINE p == WithConflict(o)
<1>1. p \in ConfigObjects /\ p.allocatedIPs = o.allocatedIPs /\ p.allocatedIPv6s = o.allocatedIPv6s
      /\ p.exists = o.exists /\ p.finalizer = o.finalizer
  BY DEF ConfigObjects, WithConflict
<1> HIDE DEF p
<1>2. EditOf(p, o) /\ p.finalizer = o.finalizer
  BY <1>1, RecordedSame DEF EditOf
<1> QED  BY <1>2 DEF p

\* Reporting a failed allocation.
LEMMA EditFailed ==
  ASSUME NEW o \in ConfigObjects
  PROVE  EditOf(WithFailure(o), o) /\ WithFailure(o).finalizer = o.finalizer
<1> DEFINE p == WithFailure(o)
<1>1. p \in ConfigObjects /\ p.allocatedIPs = o.allocatedIPs /\ p.allocatedIPv6s = o.allocatedIPv6s
      /\ p.exists = o.exists /\ p.finalizer = o.finalizer
  BY DEF ConfigObjects, WithFailure
<1> HIDE DEF p
<1>2. EditOf(p, o) /\ p.finalizer = o.finalizer
  BY <1>1, RecordedSame DEF EditOf
<1> QED  BY <1>2 DEF p

\* Marking a config as deleted.
LEMMA EditDeleting ==
  ASSUME NEW o \in ConfigObjects
  PROVE  EditOf(WithDeletion(o), o) /\ WithDeletion(o).finalizer = o.finalizer
<1> DEFINE p == WithDeletion(o)
<1>1. p \in ConfigObjects /\ p.allocatedIPs = o.allocatedIPs /\ p.allocatedIPv6s = o.allocatedIPv6s
      /\ p.exists = o.exists /\ p.finalizer = o.finalizer
  BY DEF ConfigObjects, WithDeletion
<1> HIDE DEF p
<1>2. EditOf(p, o) /\ p.finalizer = o.finalizer
  BY <1>1, RecordedSame DEF EditOf
<1> QED  BY <1>2 DEF p

\* Changing the spec.
LEMMA EditSpec ==
  ASSUME NEW o \in ConfigObjects, NEW spec \in ConfigSpecs
  PROVE  EditOf(WithSpec(o, spec), o) /\ WithSpec(o, spec).finalizer = o.finalizer
<1> DEFINE p == WithSpec(o, spec)
<1>1. p \in ConfigObjects /\ p.allocatedIPs = o.allocatedIPs /\ p.allocatedIPv6s = o.allocatedIPv6s
      /\ p.exists = o.exists /\ p.finalizer = o.finalizer
  BY DEF ConfigObjects, WithSpec
<1> HIDE DEF p
<1>2. EditOf(p, o) /\ p.finalizer = o.finalizer
  BY <1>1, RecordedSame DEF EditOf
<1> QED  BY <1>2 DEF p

\* The status write after an allocation.
LEMMA EditRecord ==
  ASSUME NEW o \in ConfigObjects, NEW n \in Names,
         NEW i \in Addr \cup {NoIP}, NEW j \in Addr \cup {NoIP}
  PROVE  /\ WithAllocation(o, n, i, j) \in ConfigObjects
         /\ WithAllocation(o, n, i, j).exists = o.exists
         /\ WithAllocation(o, n, i, j).finalizer = o.finalizer
         /\ Recorded(WithAllocation(o, n, i, j)) \subseteq Recorded(o) \cup ({i, j} \ {NoIP})
<1> DEFINE p == WithAllocation(o, n, i, j)
<1>1. /\ p \in ConfigObjects /\ p.exists = o.exists /\ p.finalizer = o.finalizer
      /\ p.allocatedIPs = [o.allocatedIPs EXCEPT ![n] = i]
      /\ p.allocatedIPv6s = [o.allocatedIPv6s EXCEPT ![n] = IF j = NoIP THEN @ ELSE j]
  BY DEF ConfigObjects, WithAllocation
<1>2. o.allocatedIPs \in [Names -> Addr \cup {NoIP}] /\ o.allocatedIPv6s \in [Names -> Addr \cup {NoIP}]
  BY DEF ConfigObjects
<1> HIDE DEF p
<1>3. \A m \in Names : p.allocatedIPs[m] \in {o.allocatedIPs[m], i}
  BY <1>1, <1>2
<1>4. \A m \in Names : p.allocatedIPv6s[m] \in {o.allocatedIPv6s[m], j}
  BY <1>1, <1>2
<1>5. Recorded(p) \subseteq Recorded(o) \cup ({i, j} \ {NoIP})
  BY <1>3, <1>4 DEF Recorded
<1> QED  BY <1>1, <1>5 DEF p

-----------------------------------------------------------------------------
(* Helpers of the actions.                                                 *)

\* allocateIP answers an address or fails.
LEMMA AllocateOneAnswer ==
  ASSUME NEW u, NEW r \in Ranges, NEW want \in Addr \cup {NoIP}
  PROVE  LET a == AllocateOne(u, r, want)
         IN  \/ a = NoIP
             \/ a \in Addr /\ (a \notin u \/ (OneAddress(r) /\ a = ParseIPRange(r).start))
<1>1. CASE want = NoIP
  BY <1>1, AllocateIPAnswer DEF AllocateOne, OneAddress
<1>2. CASE want # NoIP
  BY SMT, <1>2, AllocateSpecificIPAnswer DEF AllocateOne
<1> QED  BY <1>1, <1>2

\* The ranges of a config are ranges the parser knows.
LEMMA SpecRanges ==
  ASSUME NEW o \in ConfigObjects
  PROVE  o.spec.ipRange \in Ranges /\ o.spec.ipv6Range \in Ranges
<1>1. NoRange \in Ranges
  BY SMT DEF Ranges
<1>2. o.spec \in ConfigSpecs \cup {NoSpec}
  BY DEF ConfigObjects
<1> QED  BY SMT, <1>1, <1>2, SpecsAssumption DEF NoSpec

\* A config records addresses.
LEMMA RecordedTypes ==
  ASSUME NEW o \in ConfigObjects
  PROVE  Recorded(o) \subseteq Addr
<1>1. o.allocatedIPs \in [Names -> Addr \cup {NoIP}] /\ o.allocatedIPv6s \in [Names -> Addr \cup {NoIP}]
  BY DEF ConfigObjects
<1> QED  BY <1>1 DEF Recorded

-----------------------------------------------------------------------------
(* Types.                                                                  *)

\* The types hold when the controller starts.
LEMMA TypeInit == Init => TypeOK
<1> SUFFICES ASSUME Init PROVE TypeOK
  OBVIOUS
<1>1. cfg \in [Configs -> ConfigObjects]
  <2>1. {NoConfig} \cup {NewConfig(spec) : spec \in ConfigSpecs} \subseteq ConfigObjects
    BY NewConfigShape, NoConfigShape
  <2> QED  BY <2>1 DEF Init
<1>2. svc \in [Services -> ServiceObjects]
  <2>1. ASSUME NEW o \in {NewService(spec) : spec \in UNION {ServiceSpecs[s] : s \in Services}}
        PROVE  o \in ServiceObjects
    BY NewServiceShape
  <2> QED  BY <2>1, NoServiceShape DEF Init
<1>3. CacheTypes
  BY <1>1, <1>2 DEF Init, CacheTypes
<1>4. RequestTypes
  BY NoConfigShape, NothingMissedShape DEF Init, RequestTypes, PCs
<1>5. JobTypes
  <2>1. tries \in 0 .. MaxTries
    BY SMT, BoundsAssumption DEF Init
  <2> QED  BY <2>1 DEF Init, JobTypes
<1>6. left \in [Disruptions -> Nat]
  BY BoundsAssumption DEF Init
<1> QED  BY <1>1, <1>2, <1>3, <1>4, <1>5, <1>6 DEF Init, TypeOK, ServerTypes

\* What AllocateAndAssign has computed when it starts to write the Service:
\* both addresses are new, or the one address of their range.
LEMMA AllocateAnswer ==
  ASSUME TypeOK, NEW item \in todo, Allocate(item)
  PROVE  /\ used' \subseteq Addr
         /\ \/ pc' = "fail" /\ UNCHANGED <<target, ip, ipv6, tries, todo>>
            \/ /\ pc' = "assign" /\ target' = item.key /\ tries' = 1 /\ todo' = todo \ {item}
               /\ ip' \in Addr /\ ipv6' \in Addr \cup {NoIP}
<1> DEFINE want   == item.loadBalancerIP
           marked == used \cup OthersRecorded(cur)
           first  == AllocateOne(marked, hc.spec.ipRange, RequestedV4(want))
           taken  == MarkUsed(marked, first)
           dual   == hc.spec.ipv6Range # NoRange
           second == IF dual THEN AllocateOne(taken, hc.spec.ipv6Range, RequestedV6(want)) ELSE NoIP
<1>1. RequestedV4(want) \in Addr \cup {NoIP} /\ RequestedV6(want) \in Addr \cup {NoIP}
  BY DEF TypeOK, RequestTypes, RequestedV4, RequestedV6
<1>2. hc.spec.ipRange \in Ranges /\ hc.spec.ipv6Range \in Ranges
  BY SpecRanges DEF TypeOK, RequestTypes
<1>3. first \in Addr \cup {NoIP}
  BY <1>1, <1>2, AllocateOneAnswer
<1>4. second \in Addr \cup {NoIP}
  BY <1>1, <1>2, AllocateOneAnswer
<1>5. marked \subseteq Addr
  BY RecordedTypes DEF OthersRecorded, TypeOK, CacheTypes
<1>6. taken \subseteq Addr
  BY <1>3, <1>5 DEF MarkUsed
<1>7. CASE /\ first # NoIP /\ (dual => second # NoIP)
           /\ used' = MarkUsed(taken, second)
           /\ target' = item.key /\ ip' = first /\ ipv6' = second /\ tries' = 1
           /\ todo' = todo \ {item}
           /\ pc' = "assign"
  <2> HIDE DEF first, second, taken
  <2> QED  BY <1>3, <1>4, <1>6, <1>7 DEF MarkUsed
<1>8. CASE /\ used' = ReleaseIP(taken, first)
           /\ pc' = "fail"
           /\ UNCHANGED <<target, ip, ipv6, tries, todo>>
  <2> HIDE DEF first, second, taken
  <2> QED  BY <1>6, <1>8 DEF ReleaseIP
<1> QED  BY <1>7, <1>8 DEF Allocate

\* and so by every step.
LEMMA TypeNext ==
  TypeOK /\ [Next]_vars
    => TypeOK'
\* Writing the ingress of a Service.
<1>EditIngress.
  ASSUME NEW o \in ServiceObjects, NEW I \in SUBSET Addr
  PROVE  WithIngress(o, I) \in ServiceObjects
  BY DEF ServiceObjects, WithIngress
\* A write of a config at the server keeps the types.
<1>StoreConfigTypes.
  ASSUME TypeOK, NEW c \in Configs, NEW o \in ConfigObjects, StoreConfig(c, o)
  PROVE  cfg' \in [Configs -> ConfigObjects] /\ staleCfg' \subseteq Configs
  BY <1>StoreConfigTypes DEF TypeOK, ServerTypes, CacheTypes, StoreConfig
\* A write of a Service at the server keeps the types.
<1>StoreServiceTypes.
  ASSUME TypeOK, NEW s \in Services, NEW o \in ServiceObjects, StoreService(s, o)
  PROVE  svc' \in [Services -> ServiceObjects] /\ staleSvc' \subseteq Services
  BY <1>StoreServiceTypes DEF TypeOK, ServerTypes, CacheTypes, StoreService
\* So does a disruption,
<1>SpendTypes.
  ASSUME TypeOK, NEW d \in Disruptions, Spend(d)
  PROVE  left' \in [Disruptions -> Nat]
  BY SMT, <1>SpendTypes DEF TypeOK, Spend
\* and a status write, accepted or refused.
<1>ConfigWriteTypes.
  ASSUME TypeOK, ConfigAccepted \/ ConfigRefused
  PROVE  left' \in [Disruptions -> Nat]
  BY <1>ConfigWriteTypes, <1>SpendTypes DEF TypeOK, ConfigAccepted, ConfigRefused, Disruptions
\* The job of a worker that assigns nothing.
<1>NoJobTypes.
  ASSUME NoJob, pc' \notin {"assign", "specUpdate", "record"}
  PROVE  JobTypes'
  <2> USE <1>NoJobTypes
  <2>1. target' = NoKey /\ ip' = NoIP /\ ipv6' = NoIP /\ tries' = 0 /\ svcFresh' = FALSE
    BY DEF NoJob
  <2>2. tries' \in 0 .. MaxTries
    BY SMT, <2>1, BoundsAssumption
  <2> QED  BY <2>1, <2>2 DEF JobTypes
\* The state Reconcile returns in.
<1>ReturnTypes.
  ASSUME TypeOK, NEW requeue \in SUBSET Configs, Return(requeue)
  PROVE  RequestTypes' /\ JobTypes' /\ queue' \subseteq Configs
  BY <1>ReturnTypes, NoConfigShape, NothingMissedShape, <1>NoJobTypes DEF TypeOK, Return, RequestTypes, PCs
\* Giving up an assignment.
<1>AssignFailsTypes.
  ASSUME TypeOK, AssignFails
  PROVE  JobTypes' /\ used' \subseteq Addr /\ pc' = "fail"
  BY <1>AssignFailsTypes, <1>NoJobTypes DEF TypeOK, AssignFails, ReleaseIP
\* Another attempt at an assignment, or giving up.
<1>TryAgainTypes.
  ASSUME TypeOK, pc \in {"assign", "specUpdate"}, TryAgain
  PROVE  JobTypes' /\ used' \subseteq Addr /\ pc' \in {"fail", "assign"}
  <2> USE <1>TryAgainTypes
  <2>1. CASE tries < MaxTries
    <3>1. tries' = tries + 1 /\ pc' = "assign" /\ svcFresh' = FALSE
          /\ UNCHANGED <<used, target, ip, ipv6>>
      BY SMT, <2>1, BoundsAssumption DEF TypeOK, JobTypes, TryAgain
    <3>2. tries' \in 0 .. MaxTries
      BY SMT, <2>1, <3>1, BoundsAssumption DEF TypeOK, JobTypes
    <3> QED  BY <3>1, <3>2 DEF TypeOK, JobTypes
  <2>2. CASE tries >= MaxTries
    BY SMT, <2>2, <1>AssignFailsTypes, BoundsAssumption DEF TypeOK, JobTypes, TryAgain
  <2> QED  BY SMT, <2>1, <2>2, BoundsAssumption DEF TypeOK, JobTypes
\* They are kept by the steps of Reconcile that assign nothing,
<1>TypeRequest.
  ASSUME TypeOK,
         \/ \E c \in Configs : ReconcileGet(c)
         \/ AddFinalizer \/ InitialCondition \/ ListServices \/ ReportConflict
         \/ LoopEnds \/ AllocateListFails \/ RecordAllocation \/ ReportFailure
  PROVE  TypeOK'
  <2> USE <1>TypeRequest
  <2>1. ASSUME NEW c \in Configs, ReconcileGet(c)  PROVE  TypeOK'
    <3>1. RequestTypes'
      BY <2>1 DEF ReconcileGet, TypeOK, RequestTypes, CacheTypes, PCs
    <3> QED  BY <2>1, <3>1 DEF ReconcileGet, TypeOK, ServerTypes, CacheTypes, JobTypes, RequestTypes,
                               api, cache, job, PCs
  <2>2. CASE AddFinalizer
    <3>1. CASE ConfigRefused /\ Return({cur}) /\ UNCHANGED <<cfg, staleCfg>>
      BY <2>2, <3>1, <1>ReturnTypes, <1>ConfigWriteTypes
      DEF AddFinalizer, TypeOK, ServerTypes, CacheTypes, RequestTypes
    <3>2. CASE ConfigAccepted /\ hc' = WithFinalizer(hc) /\ StoreConfig(cur, hc')
               /\ pc' = "initialCondition" /\ UNCHANGED <<cur, hcFresh, todo, clear, missed, job, queue>>
      <4>1. hc' \in ConfigObjects /\ cur \in Configs
        <5>1. hc \in ConfigObjects /\ cur \in Configs
          BY <2>2 DEF AddFinalizer, TypeOK, RequestTypes
        <5> QED  BY <3>2, <5>1, EditFinalizer DEF EditOf
      <4>2. ServerTypes' /\ CacheTypes'
        BY <2>2, <3>2, <4>1, <1>StoreConfigTypes DEF AddFinalizer, TypeOK, ServerTypes, CacheTypes
      <4> QED  BY <2>2, <3>2, <4>1, <4>2, <1>ConfigWriteTypes
               DEF AddFinalizer, TypeOK, RequestTypes, JobTypes, PCs, job
    <3> QED  BY <2>2, <3>1, <3>2 DEF AddFinalizer
  <2>3. CASE InitialCondition
    <3>1. CASE ConfigRefused /\ Return({cur}) /\ UNCHANGED <<cfg, staleCfg>>
      BY <2>3, <3>1, <1>ReturnTypes, <1>ConfigWriteTypes
      DEF InitialCondition, TypeOK, ServerTypes, CacheTypes, RequestTypes
    <3>2. CASE ConfigAccepted /\ hc' = WithInitialCondition(hc) /\ StoreConfig(cur, hc')
               /\ pc' = (IF hc.deleting THEN "release" ELSE "list")
               /\ UNCHANGED <<cur, hcFresh, todo, clear, missed, job, queue>>
      <4>1. hc' \in ConfigObjects /\ cur \in Configs
        <5>1. hc \in ConfigObjects /\ cur \in Configs
          BY <2>3 DEF InitialCondition, TypeOK, RequestTypes
        <5> QED  BY <3>2, <5>1, EditReady DEF EditOf
      <4>2. ServerTypes' /\ CacheTypes'
        BY <2>3, <3>2, <4>1, <1>StoreConfigTypes DEF InitialCondition, TypeOK, ServerTypes, CacheTypes
      <4> QED  BY <2>3, <3>2, <4>1, <4>2, <1>ConfigWriteTypes
               DEF InitialCondition, TypeOK, RequestTypes, JobTypes, PCs, job
    <3> QED  BY <2>3, <3>1, <3>2 DEF InitialCondition
  <2>4. CASE ListServices
    <3>1. Eligible(hc.spec) \subseteq [key : Services, loadBalancerIP : Addr \cup {NoIP}]
      BY SMT DEF Eligible, TypeOK, CacheTypes, ServiceObjects
    <3>2. CASE ListFails
      BY <2>4, <3>2, <1>ReturnTypes, <1>SpendTypes
      DEF ListServices, ListFails, TypeOK, ServerTypes, CacheTypes, RequestTypes, Disruptions, api, cache
    <3>3. missed' \in [configs : SUBSET Configs, services : SUBSET Services, names : SUBSET Names]
      <4>1. \/ missed' = missed \/ missed' = NothingMissed
            \/ missed' = [missed EXCEPT !.configs = staleCfg \ {cur},
                                        !.services = {s \in staleSvc : IsEligible(s, hc.spec)}]
        BY <2>4 DEF ListServices, ListFails, Return
      <4> QED  BY <4>1, NothingMissedShape DEF TypeOK, CacheTypes, RequestTypes
    <3>4. CASE UNCHANGED left /\ UNCHANGED <<cur, hc, hcFresh, clear, job, queue>>
               /\ ((pc' = "conflict" /\ todo' = todo) \/ (pc' = "loop" /\ todo' = Eligible(hc.spec)))
      BY <2>4, <3>1, <3>3, <3>4
      DEF ListServices, TypeOK, ServerTypes, CacheTypes, RequestTypes, JobTypes, PCs, api, cache, job
    <3> QED  BY <2>4, <3>2, <3>4 DEF ListServices
  <2>5. CASE ReportConflict
    <3>1. cur \in Configs /\ WithConflict(hc) \in ConfigObjects
      <4>1. hc \in ConfigObjects /\ cur \in Configs
        BY <2>5 DEF ReportConflict, TypeOK, RequestTypes
      <4> QED  BY <4>1, EditDegraded DEF EditOf
    <3>2. cfg' \in [Configs -> ConfigObjects] /\ staleCfg' \subseteq Configs
      BY <2>5, <3>1, <1>StoreConfigTypes DEF ReportConflict, TypeOK, ServerTypes, CacheTypes
    <3>3. RequestTypes' /\ JobTypes' /\ queue' \subseteq Configs
      BY <2>5, <3>1, <1>ReturnTypes DEF ReportConflict
    <3> QED  BY <2>5, <3>2, <3>3, <1>ConfigWriteTypes DEF ReportConflict, TypeOK, ServerTypes, CacheTypes
  <2>6. CASE LoopEnds
    <3>1. RequestTypes' /\ JobTypes' /\ queue' \subseteq Configs
      BY <2>6, <1>ReturnTypes DEF LoopEnds, TypeOK, RequestTypes
    <3> QED  BY <2>6, <3>1 DEF LoopEnds, TypeOK, ServerTypes, CacheTypes, api, cache
  <2>7. CASE AllocateListFails
    <3>1. left' \in [Disruptions -> Nat]
      BY <2>7, <1>SpendTypes DEF AllocateListFails, Disruptions
    <3> QED  BY <2>7, <3>1 DEF AllocateListFails, TypeOK, ServerTypes, CacheTypes, RequestTypes, JobTypes,
                               PCs, api, cache, job
  <2>8. CASE RecordAllocation
    <3>1. CASE ConfigRefused /\ Return({cur}) /\ UNCHANGED <<cfg, staleCfg>>
      BY <2>8, <3>1, <1>ReturnTypes, <1>ConfigWriteTypes
      DEF RecordAllocation, TypeOK, ServerTypes, CacheTypes, RequestTypes
    <3>2. CASE /\ ConfigAccepted
               /\ hc' = WithAllocation(hc, target.name, ip, ipv6)
               /\ StoreConfig(cur, hc') /\ pc' = "loop" /\ NoJob
               /\ UNCHANGED <<cur, hcFresh, todo, clear, missed, queue>>
      <4>1. cur \in Configs /\ target \in Services /\ target.name \in Names
        BY <2>8 DEF RecordAllocation, TypeOK, RequestTypes, JobTypes, Names
      <4>2. hc' \in ConfigObjects
        <5>1. hc \in ConfigObjects /\ ip \in Addr \cup {NoIP} /\ ipv6 \in Addr \cup {NoIP}
          BY DEF TypeOK, RequestTypes, JobTypes
        <5> QED  BY <3>2, <4>1, <5>1, EditRecord
      <4>3. ServerTypes' /\ CacheTypes'
        BY <2>8, <3>2, <4>1, <4>2, <1>StoreConfigTypes DEF RecordAllocation, TypeOK, ServerTypes, CacheTypes
      <4>4. JobTypes'
        BY <3>2, <1>NoJobTypes
      <4> QED  BY <2>8, <3>2, <4>1, <4>2, <4>3, <4>4, <1>ConfigWriteTypes
               DEF RecordAllocation, TypeOK, RequestTypes, PCs
    <3> QED  BY <2>8, <3>1, <3>2 DEF RecordAllocation
  <2>9. CASE ReportFailure
    <3>1. cur \in Configs
          /\ WithFailure(hc) \in ConfigObjects
      <4>1. hc \in ConfigObjects /\ cur \in Configs
        BY <2>9 DEF ReportFailure, TypeOK, RequestTypes
      <4> QED  BY <4>1, EditFailed DEF EditOf
    <3>2. cfg' \in [Configs -> ConfigObjects] /\ staleCfg' \subseteq Configs
      BY <2>9, <3>1, <1>StoreConfigTypes DEF ReportFailure, TypeOK, ServerTypes, CacheTypes
    <3>3. RequestTypes' /\ JobTypes' /\ queue' \subseteq Configs
      BY <2>9, <3>1, <1>ReturnTypes DEF ReportFailure
    <3> QED  BY <2>9, <3>2, <3>3, <1>ConfigWriteTypes DEF ReportFailure, TypeOK, ServerTypes, CacheTypes
  <2> QED  BY <2>1, <2>2, <2>3, <2>4, <2>5, <2>6, <2>7, <2>8, <2>9
\* by the steps of an assignment,
<1>TypeJob.
  ASSUME TypeOK, (\E item \in todo : Allocate(item)) \/ AssignStatus \/ AssignSpec
  PROVE  TypeOK'
  <2> USE <1>TypeJob
  <2>1. ASSUME NEW item \in todo, Allocate(item)  PROVE  TypeOK'
    <3>1. UNCHANGED <<api, cache, queue, left, cur, hc, hcFresh, clear, missed, svcFresh>> /\ pc = "loop"
      BY <2>1 DEF Allocate
    <3>2. /\ used' \subseteq Addr
          /\ \/ pc' = "fail" /\ UNCHANGED <<target, ip, ipv6, tries, todo>>
             \/ /\ pc' = "assign" /\ target' = item.key /\ tries' = 1 /\ todo' = todo \ {item}
                /\ ip' \in Addr /\ ipv6' \in Addr \cup {NoIP}
      BY <2>1, AllocateAnswer
    <3>3. item.key \in Services
      BY DEF TypeOK, RequestTypes
    <3>4. 1 \in 0 .. MaxTries
      BY SMT, BoundsAssumption
    <3>5. JobTypes'
      BY <3>1, <3>2, <3>3, <3>4 DEF TypeOK, JobTypes
    <3>6. RequestTypes'
      BY <3>1, <3>2 DEF TypeOK, RequestTypes, PCs
    <3> QED  BY <3>1, <3>2, <3>5, <3>6 DEF TypeOK, ServerTypes, CacheTypes, api, cache
  <2>2. CASE AssignStatus
    <3>1. target \in Services /\ cur \in Configs
      BY <2>2 DEF AssignStatus, TypeOK, JobTypes, RequestTypes
    <3>2. WithIngress(svc[target], {ip, ipv6} \ {NoIP}) \in ServiceObjects
      <4>1. svc[target] \in ServiceObjects /\ {ip, ipv6} \ {NoIP} \subseteq Addr
        BY <3>1 DEF TypeOK, ServerTypes, JobTypes
      <4> QED  BY <4>1, <1>EditIngress
    <3>3. svc' \in [Services -> ServiceObjects] /\ staleSvc' \subseteq Services
      BY <2>2, <3>1, <3>2, <1>StoreServiceTypes DEF AssignStatus, TypeOK, ServerTypes, CacheTypes
    <3>4. left' \in [Disruptions -> Nat]
      BY <2>2, <1>SpendTypes DEF AssignStatus, TypeOK, Disruptions
    <3>5. JobTypes' /\ used' \subseteq Addr /\ pc' \in {"assign", "specUpdate", "fail"}
      <4>1. CASE TryAgain
        BY <2>2, <4>1, <1>TryAgainTypes DEF AssignStatus
      <4>2. CASE AssignFails
        BY <4>2, <1>AssignFailsTypes
      <4>3. CASE svcFresh' = TRUE /\ pc' = "specUpdate" /\ UNCHANGED <<used, left, target, ip, ipv6, tries>>
        BY <3>1, <4>3 DEF TypeOK, JobTypes
      <4> QED  BY <2>2, <4>1, <4>2, <4>3 DEF AssignStatus
    <3> QED  BY <2>2, <3>1, <3>3, <3>4, <3>5
             DEF AssignStatus, TypeOK, ServerTypes, CacheTypes, RequestTypes, PCs
  <2>3. CASE AssignSpec
    <3>1. target \in Services /\ cur \in Configs
      BY <2>3 DEF AssignSpec, TypeOK, JobTypes, RequestTypes
    <3>2. left' \in [Disruptions -> Nat]
      BY <2>3, <1>SpendTypes DEF AssignSpec, TypeOK, Disruptions
    <3>3. JobTypes' /\ used' \subseteq Addr /\ pc' \in {"assign", "record", "fail"}
      <4>1. CASE TryAgain
        BY <2>3, <4>1, <1>TryAgainTypes DEF AssignSpec
      <4>2. CASE AssignFails
        BY <4>2, <1>AssignFailsTypes
      <4>3. CASE pc' = "record" /\ UNCHANGED <<used, left, job>>
        BY <3>1, <4>3 DEF TypeOK, JobTypes, job
      <4> QED  BY <2>3, <4>1, <4>2, <4>3 DEF AssignSpec
    <3> QED  BY <2>3, <3>1, <3>2, <3>3
             DEF AssignSpec, TypeOK, ServerTypes, CacheTypes, RequestTypes, PCs, api, cache
  <2> QED  BY <2>1, <2>2, <2>3
\* by the steps of a cleanup,
<1>TypeDeletion.
  ASSUME TypeOK, ReleaseAll \/ (\E n \in Names : ClearIngress(n)) \/ RemoveFinalizer
  PROVE  TypeOK'
  <2> USE <1>TypeDeletion
  <2>1. CASE ReleaseAll
    BY <2>1 DEF ReleaseAll, RecordedNames, TypeOK, ServerTypes, CacheTypes, RequestTypes, JobTypes,
                PCs, api, cache, job
  <2>2. ASSUME NEW n \in Names, ClearIngress(n)  PROVE  TypeOK'
    <3> DEFINE s == [ns |-> cur.ns, name |-> n]
    <3>1. svc' \in [Services -> ServiceObjects] /\ staleSvc' \subseteq Services
      <4>1. CASE s \in Services /\ StoreService(s, WithIngress(svc[s], {}))
        <5>1. WithIngress(svc[s], {}) \in ServiceObjects
          <6>1. svc[s] \in ServiceObjects
            BY <4>1 DEF TypeOK, ServerTypes
          <6> QED  BY <6>1, <1>EditIngress
        <5> QED  BY <4>1, <5>1, <1>StoreServiceTypes
      <4>2. CASE UNCHANGED <<svc, staleSvc>>
        BY <4>2 DEF TypeOK, ServerTypes, CacheTypes
      <4> QED  BY <2>2, <4>1, <4>2 DEF ClearIngress
    <3>2. left' \in [Disruptions -> Nat]
      BY <2>2, <1>SpendTypes DEF ClearIngress, TypeOK, Disruptions
    <3>3. missed' \in [configs : SUBSET Configs, services : SUBSET Services, names : SUBSET Names]
      BY SMT, <2>2 DEF ClearIngress, TypeOK, RequestTypes
    <3> QED  BY <2>2, <3>1, <3>2, <3>3
             DEF ClearIngress, TypeOK, ServerTypes, CacheTypes, RequestTypes, JobTypes, job
  <2>3. CASE RemoveFinalizer
    <3>1. cur \in Configs
      BY <2>3 DEF RemoveFinalizer, TypeOK, RequestTypes
    <3>2. cfg' \in [Configs -> ConfigObjects] /\ staleCfg' \subseteq Configs
      BY <2>3, <3>1, NoConfigShape, <1>StoreConfigTypes DEF RemoveFinalizer, TypeOK, ServerTypes, CacheTypes
    <3>3. RequestTypes' /\ JobTypes' /\ queue' \subseteq Configs
      BY <2>3, <3>1, <1>ReturnTypes DEF RemoveFinalizer
    <3> QED  BY <2>3, <3>2, <3>3, <1>ConfigWriteTypes DEF RemoveFinalizer, TypeOK, ServerTypes, CacheTypes
  <2> QED  BY <2>1, <2>2, <2>3
\* by a user who writes a config
<1>UserWritesConfigTypes.
  ASSUME TypeOK, NEW c \in Configs, NEW o \in ConfigObjects, UserWritesConfig(c, o),
         NEW d \in Disruptions, Spend(d)
  PROVE  TypeOK'
  <2> USE <1>UserWritesConfigTypes
  <2>1. left' \in [Disruptions -> Nat]
    BY <1>SpendTypes
  <2>2. ServerTypes' /\ CacheTypes'
    BY DEF UserWritesConfig, TypeOK, ServerTypes, CacheTypes
  <2>3. RequestTypes' /\ JobTypes'
    BY DEF UserWritesConfig, TypeOK, RequestTypes, JobTypes, job
  <2> QED  BY <2>1, <2>2, <2>3 DEF UserWritesConfig, TypeOK
\* or a Service,
<1>UserWritesServiceTypes.
  ASSUME TypeOK, NEW s \in Services, NEW o \in ServiceObjects, UserWritesService(s, o),
         NEW d \in Disruptions, Spend(d)
  PROVE  TypeOK'
  <2> USE <1>UserWritesServiceTypes
  <2>1. left' \in [Disruptions -> Nat]
    BY <1>SpendTypes
  <2>2. ServerTypes' /\ CacheTypes'
    BY DEF UserWritesService, TypeOK, ServerTypes, CacheTypes
  <2>3. RequestTypes' /\ JobTypes'
    BY DEF UserWritesService, TypeOK, RequestTypes, JobTypes
  <2> QED  BY <2>1, <2>2, <2>3 DEF UserWritesService, TypeOK
\* whichever write that is,
<1>TypeUser.
  ASSUME TypeOK, UserStep
  PROVE  TypeOK'
  <2> USE <1>TypeUser
  <2> USE DEF Disruptions
  <2>1. ASSUME NEW c \in Configs, DeleteConfig(c)  PROVE  TypeOK'
    <3>1. WithDeletion(cfg[c]) \in ConfigObjects
      <4>1. cfg[c] \in ConfigObjects
        BY DEF TypeOK, ServerTypes
      <4> QED  BY <4>1, EditDeleting DEF EditOf
    <3> QED  BY <2>1, <3>1, NoConfigShape, <1>UserWritesConfigTypes DEF DeleteConfig
  <2>2. ASSUME NEW c \in Configs, NEW spec \in ConfigSpecs, CreateConfig(c, spec)  PROVE  TypeOK'
    BY <2>2, NewConfigShape, <1>UserWritesConfigTypes DEF CreateConfig
  <2>3. ASSUME NEW c \in Configs, NEW spec \in ConfigSpecs, UpdateConfig(c, spec)  PROVE  TypeOK'
    <3>1. WithSpec(cfg[c], spec) \in ConfigObjects
      <4>1. cfg[c] \in ConfigObjects
        BY DEF TypeOK, ServerTypes
      <4> QED  BY <4>1, EditSpec DEF EditOf
    <3> QED  BY <2>3, <3>1, <1>UserWritesConfigTypes DEF UpdateConfig
  <2>4. ASSUME NEW s \in Services, DeleteService(s)  PROVE  TypeOK'
    BY <2>4, NoServiceShape, <1>UserWritesServiceTypes DEF DeleteService
  <2>5. ASSUME NEW s \in Services, EditService(s)  PROVE  TypeOK'
    <3>1. svc[s] \in ServiceObjects
      BY DEF TypeOK, ServerTypes
    <3> QED  BY <2>5, <3>1, <1>UserWritesServiceTypes DEF EditService
  <2>6. ASSUME NEW s \in Services, NEW spec \in ServiceSpecs[s], CreateService(s, spec)  PROVE  TypeOK'
    BY <2>6, NewServiceShape, <1>UserWritesServiceTypes DEF CreateService
  <2> QED  BY <2>1, <2>2, <2>3, <2>4, <2>5, <2>6 DEF UserStep
\* by watches and restarts,
<1>TypeEnvironment.
  ASSUME TypeOK,
         \/ \E c \in Configs : WatchConfig(c)
         \/ \E s \in Services : WatchService(s)
         \/ Restart
  PROVE  TypeOK'
  <2> USE <1>TypeEnvironment
  <2>1. ASSUME NEW c \in Configs, WatchConfig(c)  PROVE  TypeOK'
    BY <2>1 DEF WatchConfig, TypeOK, ServerTypes, CacheTypes, RequestTypes, JobTypes, api, worker, job
  <2>2. ASSUME NEW s \in Services, WatchService(s)  PROVE  TypeOK'
    <3>1. queue' \subseteq Configs
      BY <2>2 DEF WatchService, TypeOK, FindLoadBalancerServices
    <3> QED  BY <2>2, <3>1
             DEF WatchService, TypeOK, ServerTypes, CacheTypes, RequestTypes, JobTypes, api, worker, job
  <2>3. CASE Restart
    <3>1. left' \in [Disruptions -> Nat]
      BY <2>3, <1>SpendTypes DEF Restart, Disruptions
    <3>2. JobTypes'
      BY <2>3, <1>NoJobTypes DEF Restart
    <3>3. RequestTypes'
      BY <2>3, NoConfigShape, NothingMissedShape DEF Restart, RequestTypes, PCs
    <3> QED  BY <2>3, <3>1, <3>2, <3>3 DEF Restart, TypeOK, ServerTypes, CacheTypes, api
  <2> QED  BY <2>1, <2>2, <2>3
<1> SUFFICES ASSUME TypeOK, [Next]_vars
             PROVE  TypeOK'
  OBVIOUS
<1>1. CASE Next
  BY <1>1, <1>TypeRequest, <1>TypeJob, <1>TypeDeletion, <1>TypeUser, <1>TypeEnvironment DEF Next, WorkerStep
<1>2. CASE UNCHANGED vars
  BY <1>2 DEF vars, api, cache, worker, job, TypeOK, ServerTypes, CacheTypes, RequestTypes, JobTypes
<1> QED  BY <1>1, <1>2

\* Every variable keeps its type, whatever is stale, fails or restarts; in
\* particular the worker never assigns an address without a Service to assign
\* it to, and never marks anything but addresses.
THEOREM TypeCorrect == Spec => []TypeOK
<1>1. TypeOK /\ [Next]_vars => TypeOK'
  BY TypeNext
<1> QED  BY TypeInit, <1>1, PTL DEF Spec

-----------------------------------------------------------------------------
(* CrossInv is inductive.                                                  *)

\* What each kind of write does to the recorded addresses.
LEMMA RecordedNew ==
  ASSUME NEW spec
  PROVE  Recorded(NewConfig(spec)) = {} /\ Recorded(NoConfig) = {}
BY DEF Recorded, NewConfig, NoConfig, NoIPs

\* A write of a config leaves the cached copy stale, or equal.
LEMMA StoreConfigVersions ==
  ASSUME TypeOK, CacheVersions, NEW c \in Configs, NEW o, StoreConfig(c, o), cfgCache' = cfgCache
  PROVE  CacheVersions' /\ cfg'[c] = o /\ \A d \in Configs \ {c} : cfg'[d] = cfg[d]
BY DEF TypeOK, ServerTypes, CacheTypes, CacheVersions, StoreConfig

\* A one-address range of a config is among the shared ones.
LEMMA SharedStart ==
  ASSUME NEW o \in ConfigObjects, NEW r \in {o.spec.ipRange, o.spec.ipv6Range}, OneAddress(r)
  PROVE  ParseIPRange(r).start \in Shared
<1>1. o.spec \in ConfigSpecs \cup {NoSpec}
  BY DEF ConfigObjects
<1>2. ~OneAddress(NoRange)
  BY DEF OneAddress, ParseIPRange, NoRange
<1>3. o.spec \in ConfigSpecs
  BY SMT, <1>1, <1>2 DEF NoSpec
<1> QED  BY <1>3 DEF Shared

\* It holds when the controller starts, where nothing is recorded,
LEMMA CrossInit == Init => CrossInv
<1> SUFFICES ASSUME Init PROVE CrossInv
  OBVIOUS
<1>1. TypeOK
  BY TypeInit
<1>2. \A c \in Configs : Recorded(cfg[c]) = {}
  <2>1. \A c \in Configs : cfg[c] = NoConfig \/ \E spec \in ConfigSpecs : cfg[c] = NewConfig(spec)
    BY DEF Init
  <2> QED  BY <2>1, RecordedNew
<1>3. cfgCache = cfg /\ pc = "idle"
  BY DEF Init
<1> QED  BY <1>1, <1>2, <1>3
         DEF CrossInv, NoCrossConfigDuplicate, RecordedKnown, CacheForeign, CacheVersions,
             CopyVersion, CopyForeign, InFlightOwned, ReleaseVisible, Assigning

\* and every step keeps it.
LEMMA CrossNext ==
  CrossInv /\ [Next]_vars
    => CrossInv'
\* A step that records nothing new, and unmarks only shared addresses.
<1>ServerQuiet.
  ASSUME CrossInv, cfgCache' = cfgCache, used \subseteq used' \cup Shared,
         \A c \in Configs : Recorded(cfg'[c]) \subseteq Recorded(cfg[c])
  PROVE  NoCrossConfigDuplicate' /\ RecordedKnown' /\ CacheForeign'
  <2> USE <1>ServerQuiet
  <2>1. NoCrossConfigDuplicate'
    BY DEF CrossInv, NoCrossConfigDuplicate
  <2>2. RecordedKnown'
    BY DEF CrossInv, RecordedKnown
  <2>3. CacheForeign'
    BY DEF CrossInv, CacheForeign
  <2> QED  BY <2>1, <2>2, <2>3
\* The steps that write no config and unmark nothing that is recorded: the
\* worker returns, goes on to another part of Reconcile, goes on assigning
\* the same addresses, or does not move at all.
<1>CrossFrame.
  ASSUME CrossInv, TypeOK', UNCHANGED <<cfg, cfgCache, staleCfg>>, used \subseteq used' \cup Shared,
         \/ pc' = "idle"
         \/ /\ UNCHANGED <<cur, hc, hcFresh>> /\ pc # "idle"
            /\ pc' \in {"conflict", "loop", "fail", "clear"}
         \/ UNCHANGED <<cur, hc, hcFresh, ip, ipv6>> /\ Assigning /\ Assigning'
         \/ UNCHANGED <<cur, hc, hcFresh, ip, ipv6, pc>>
  PROVE  CrossInv'
  <2> USE <1>CrossFrame
  <2>1. NoCrossConfigDuplicate' /\ RecordedKnown' /\ CacheForeign'
    BY <1>ServerQuiet
  <2>2. CacheVersions'
    BY DEF CrossInv, CacheVersions
  <2>3. CASE pc' = "idle"
    BY <2>1, <2>2, <2>3
    DEF CrossInv, CopyVersion, CopyForeign, InFlightOwned, ReleaseVisible, Assigning
  <2>4. CASE /\ UNCHANGED <<cur, hc, hcFresh>> /\ pc # "idle"
             /\ pc' \in {"conflict", "loop", "fail", "clear"}
    BY <2>1, <2>2, <2>4
    DEF CrossInv, CopyVersion, CopyForeign, InFlightOwned, ReleaseVisible, Assigning
  <2>5. CASE UNCHANGED <<cur, hc, hcFresh, ip, ipv6>> /\ Assigning /\ Assigning'
    <3>1. CopyVersion' /\ CopyForeign' /\ ReleaseVisible'
      BY <2>5 DEF CrossInv, CopyVersion, CopyForeign, ReleaseVisible, Assigning
    <3>2. InFlightOwned'
      BY <2>5 DEF CrossInv, InFlightOwned, InFlight
    <3> QED  BY <2>1, <2>2, <3>1, <3>2 DEF CrossInv
  <2>6. CASE UNCHANGED <<cur, hc, hcFresh, ip, ipv6, pc>>
    <3>1. CopyVersion' /\ CopyForeign' /\ ReleaseVisible'
      BY <2>6 DEF CrossInv, CopyVersion, CopyForeign, ReleaseVisible
    <3>2. InFlightOwned'
      BY <2>6 DEF CrossInv, InFlightOwned, InFlight, Assigning
    <3> QED  BY <2>1, <2>2, <3>1, <3>2 DEF CrossInv
  <2> QED  BY <2>3, <2>4, <2>5, <2>6
\* A write of the worker that records nothing new.
<1>CrossStatusWrite.
  ASSUME CrossInv, TypeOK', pc # "idle", hcFresh, UNCHANGED <<cfgCache, used>>,
         NEW o \in ConfigObjects, StoreConfig(cur, o), Recorded(o) \subseteq Recorded(hc),
         \/ pc' = "idle"
         \/ /\ cur' = cur /\ hc' = o
            /\ pc \in {"addFinalizer", "initialCondition"}
            /\ pc' \in {"initialCondition", "release", "list"}
  PROVE  CrossInv'
  <2> USE <1>CrossStatusWrite
  <2>1. cur \in Configs /\ cfg[cur] = hc
    BY DEF CrossInv, TypeOK, RequestTypes, CopyVersion
  <2>2. CacheVersions' /\ cfg'[cur] = o /\ \A d \in Configs \ {cur} : cfg'[d] = cfg[d]
    BY <2>1, StoreConfigVersions DEF CrossInv
  <2>3. \A c \in Configs : Recorded(cfg'[c]) \subseteq Recorded(cfg[c])
    BY <2>1, <2>2
  <2>4. NoCrossConfigDuplicate' /\ RecordedKnown' /\ CacheForeign'
    BY <2>3, <1>ServerQuiet
  <2>5. CASE pc' = "idle"
    BY <2>2, <2>4, <2>5
    DEF CrossInv, CopyVersion, CopyForeign, InFlightOwned, ReleaseVisible, Assigning
  <2>6. CASE /\ cur' = cur /\ hc' = o
             /\ pc \in {"addFinalizer", "initialCondition"}
             /\ pc' \in {"initialCondition", "release", "list"}
    <3>1. CopyVersion' /\ InFlightOwned'
      BY <2>2, <2>6 DEF CopyVersion, InFlightOwned, Assigning
    <3>2. CopyForeign'
      BY <2>2, <2>6 DEF CrossInv, CopyForeign
    <3>3. ReleaseVisible'
      BY <2>1, <2>2, <2>6 DEF CrossInv, ReleaseVisible
    <3> QED  BY <2>2, <2>4, <3>1, <3>2, <3>3 DEF CrossInv
  <2> QED  BY <2>5, <2>6
\* The worker gives up an assignment: what it unmarks, no other config has,
\* and what this config has of it the cache shows.
<1>CrossAssignFails.
  ASSUME CrossInv, TypeOK', Assigning, AssignFails, UNCHANGED <<cfg, cfgCache, staleCfg, cur, hc, hcFresh>>
  PROVE  CrossInv'
  <2> USE <1>CrossAssignFails
  <2>1. used' = (used \ {ip}) \ {ipv6} /\ pc' = "fail" /\ cur \in Configs
    BY DEF AssignFails, ReleaseIP, CrossInv, TypeOK, RequestTypes, Assigning
  <2>2. RecordedKnown'
    <3>1. ASSUME NEW c \in Configs, NEW a \in Recorded(cfg[c])
          PROVE  a \in used' \cup Recorded(cfgCache[c]) \cup Shared
      <4>1. a # NoIP
        BY DEF Recorded
      <4>2. CASE a \in InFlight
        BY <4>2 DEF CrossInv, InFlightOwned
      <4>3. CASE a \notin InFlight
        BY <2>1, <4>1, <4>3 DEF CrossInv, RecordedKnown, InFlight
      <4> QED  BY <4>2, <4>3
    <3> QED  BY <3>1 DEF RecordedKnown
  <2>3. NoCrossConfigDuplicate' /\ CacheForeign' /\ CacheVersions'
    BY DEF CrossInv, NoCrossConfigDuplicate, CacheForeign, CacheVersions
  <2>4. CopyVersion' /\ CopyForeign'
    BY <2>1 DEF CrossInv, CopyVersion, CopyForeign, Assigning
  <2>5. InFlightOwned' /\ ReleaseVisible'
    BY <2>1 DEF InFlightOwned, ReleaseVisible, Assigning
  <2> QED  BY <2>2, <2>3, <2>4, <2>5 DEF CrossInv
\* A write of a user: it never adds to what a config records.
<1>CrossUserWrite.
  ASSUME CrossInv, TypeOK', NEW c \in Configs, NEW o \in ConfigObjects, UserWritesConfig(c, o),
         Recorded(o) \subseteq Recorded(cfg[c])
  PROVE  CrossInv'
  <2> USE <1>CrossUserWrite
  <2>1. cfg'[c] = o /\ \A d \in Configs \ {c} : cfg'[d] = cfg[d]
    BY DEF UserWritesConfig, CrossInv, TypeOK, ServerTypes
  <2>2. \A d \in Configs : Recorded(cfg'[d]) \subseteq Recorded(cfg[d])
    BY SMT, <2>1
  <2>3. UNCHANGED <<cfgCache, used, pc, cur, hc, ip, ipv6>> /\ hcFresh' = (hcFresh /\ cur # c)
        /\ staleCfg' = staleCfg \cup {c}
    BY DEF UserWritesConfig, job
  <2>4. NoCrossConfigDuplicate' /\ RecordedKnown' /\ CacheForeign'
    BY <2>2, <2>3, <1>ServerQuiet
  <2>5. CacheVersions'
    BY <2>1, <2>3 DEF CrossInv, CacheVersions
  <2>6. CopyVersion'
    BY <2>1, <2>3 DEF CrossInv, CopyVersion, TypeOK, RequestTypes
  <2>7. CopyForeign'
    BY <2>2, <2>3 DEF CrossInv, CopyForeign
  <2>8. InFlightOwned'
    <3>1. InFlight' = InFlight /\ Assigning' = Assigning
      BY <2>3 DEF InFlight, Assigning
    <3>2. Assigning => cur \in Configs
      BY DEF CrossInv, TypeOK, RequestTypes, Assigning
    <3> QED  BY <2>2, <2>3, <3>1, <3>2 DEF CrossInv, InFlightOwned
  <2>9. ReleaseVisible'
    BY <2>2, <2>3 DEF CrossInv, ReleaseVisible, TypeOK, RequestTypes
  <2> QED  BY <2>4, <2>5, <2>6, <2>7, <2>8, <2>9 DEF CrossInv
\* The addresses AllocateAndAssign picks are marked and were unknown to every
\* other config, or are shared; a failure unmarks at most a shared one.
<1>CrossAllocate.
  ASSUME CrossInv, TypeOK', NEW item \in todo, Allocate(item)
  PROVE  CrossInv'
  <2> USE <1>CrossAllocate
  <2> DEFINE want   == item.loadBalancerIP
             marked == used \cup OthersRecorded(cur)
             first  == AllocateOne(marked, hc.spec.ipRange, RequestedV4(want))
             taken  == MarkUsed(marked, first)
             dual   == hc.spec.ipv6Range # NoRange
             second == IF dual THEN AllocateOne(taken, hc.spec.ipv6Range, RequestedV6(want)) ELSE NoIP
  <2>1. /\ UNCHANGED <<cfg, cfgCache, staleCfg, cur, hc, hcFresh>>
        /\ pc = "loop" /\ cur \in Configs /\ hc \in ConfigObjects
    BY DEF Allocate, api, cache, CrossInv, TypeOK, RequestTypes
  <2>2. RequestedV4(want) \in Addr \cup {NoIP} /\ RequestedV6(want) \in Addr \cup {NoIP}
    BY DEF CrossInv, TypeOK, RequestTypes, RequestedV4, RequestedV6
  <2>3. first = NoIP \/ first \notin marked \/ first \in Shared
    BY <2>1, <2>2, SpecRanges, AllocateOneAnswer, SharedStart
  <2>4. second = NoIP \/ second \notin taken \/ second \in Shared
    BY <2>1, <2>2, SpecRanges, AllocateOneAnswer, SharedStart
  <2>5. used \subseteq marked /\ \A d \in Configs \ {cur} : Recorded(cfgCache[d]) \subseteq marked
    BY DEF OthersRecorded
  <2>6. NoIP \notin used
    BY NoIPNotAddr DEF CrossInv, TypeOK
  <2>7. CASE /\ used' = MarkUsed(taken, second)
             /\ ip' = first /\ ipv6' = second
             /\ pc' = "assign"
    <3> HIDE DEF first, second, marked
    <3>1. used \subseteq used' /\ taken \subseteq used' /\ marked \subseteq taken
      BY <2>5, <2>7 DEF MarkUsed
    <3>2. InFlight' \subseteq used'
      BY <2>7, <3>1 DEF InFlight, MarkUsed
    <3>3. ASSUME NEW a \in InFlight'  PROVE  a \notin marked \/ a \in Shared
      BY SMT, <2>3, <2>4, <2>7, <3>1 DEF InFlight
    <3>4. ASSUME NEW d \in Configs \ {cur}, NEW a \in InFlight', a \in Recorded(cfg[d]) \cup Recorded(cfgCache[d])
          PROVE  a \in Shared
      BY <2>5, <3>3, <3>4 DEF CrossInv, RecordedKnown
    <3>5. ASSUME NEW a \in InFlight', a \in Recorded(cfg[cur])
          PROVE  a \in Recorded(cfgCache[cur]) \cup Shared
      BY <2>1, <2>5, <3>3, <3>5 DEF CrossInv, RecordedKnown
    <3>6. InFlightOwned'
      BY <2>1, <3>2, <3>4, <3>5 DEF InFlightOwned
    <3>7. NoCrossConfigDuplicate' /\ RecordedKnown' /\ CacheForeign'
      BY <2>1, <3>1, <1>ServerQuiet
    <3>8. CacheVersions' /\ CopyVersion' /\ CopyForeign' /\ ReleaseVisible'
      BY <2>1, <2>7 DEF CrossInv, CacheVersions, CopyVersion, CopyForeign, ReleaseVisible
    <3> QED  BY <3>6, <3>7, <3>8 DEF CrossInv
  <2>8. CASE used' = ReleaseIP(taken, first) /\ pc' = "fail"
    <3> HIDE DEF first, second, marked
    <3>1. used \subseteq used' \cup Shared
      BY <2>3, <2>5, <2>6, <2>8 DEF MarkUsed, ReleaseIP
    <3> QED  BY <2>1, <2>8, <3>1, <1>CrossFrame
  <2> QED  BY <2>7, <2>8 DEF Allocate
\* The invariant is kept by the steps of an assignment,
<1>CrossJob.
  ASSUME CrossInv, TypeOK', AssignStatus \/ AssignSpec
  PROVE  CrossInv'
  <2> USE <1>CrossJob
  <2>1. /\ UNCHANGED <<cfg, cfgCache, staleCfg, cur, hc, hcFresh>>
        /\ Assigning
    BY DEF AssignStatus, AssignSpec, Assigning, api, cache
  <2>2. CASE AssignFails
    BY <2>1, <2>2, <1>CrossAssignFails
  <2>3. CASE pc' \in {"assign", "specUpdate", "record"} /\ UNCHANGED <<used, ip, ipv6>>
    BY <2>1, <2>3, <1>CrossFrame DEF Assigning
  <2> QED  BY <2>2, <2>3 DEF AssignStatus, AssignSpec, TryAgain, job
\* The recorded addresses were in flight, so no other config has them.
<1>CrossRecord.
  ASSUME CrossInv, TypeOK', RecordAllocation
  PROVE  CrossInv'
  <2> USE <1>CrossRecord
  <2>1. CASE ConfigRefused /\ Return({cur}) /\ UNCHANGED <<cfg, staleCfg>>
    BY <2>1, <1>CrossFrame DEF RecordAllocation, Return
  <2>2. CASE /\ ConfigAccepted
             /\ hc' = WithAllocation(hc, target.name, ip, ipv6)
             /\ StoreConfig(cur, hc') /\ pc' = "loop" /\ cur' = cur /\ UNCHANGED <<cfgCache, used>>
    <3>1. cur \in Configs /\ hc = cfg[cur] /\ hc \in ConfigObjects /\ target.name \in Names
          /\ Assigning /\ pc # "idle"
      BY <2>2 DEF RecordAllocation, ConfigAccepted, CrossInv, CopyVersion, TypeOK, RequestTypes, JobTypes,
                  Names, Assigning
    <3>2. Recorded(hc') \subseteq Recorded(hc) \cup InFlight
      <4>1. ip \in Addr \cup {NoIP} /\ ipv6 \in Addr \cup {NoIP}
        BY DEF CrossInv, TypeOK, JobTypes
      <4>2. hc \in ConfigObjects /\ target.name \in Names
        BY <3>1
      <4>3. Recorded(WithAllocation(hc, target.name, ip, ipv6)) \subseteq Recorded(hc) \cup ({ip, ipv6} \ {NoIP})
        BY <4>1, <4>2, EditRecord
      <4> QED  BY <2>2, <4>3 DEF InFlight
    <3>3. CacheVersions' /\ cfg'[cur] = hc' /\ \A d \in Configs \ {cur} : cfg'[d] = cfg[d]
      BY <2>2, <3>1, StoreConfigVersions DEF CrossInv
    <3>4. /\ InFlight \subseteq used \cup Shared
          /\ \A d \in Configs \ {cur} :
               InFlight \cap (Recorded(cfg[d]) \cup Recorded(cfgCache[d])) \subseteq Shared
      BY <3>1 DEF CrossInv, InFlightOwned
    <3>5. \A d \in Configs \ {cur} : Recorded(hc') \cap Recorded(cfg[d]) \subseteq Shared
      BY <3>1, <3>2, <3>4 DEF CrossInv, CopyForeign
    <3>6. NoCrossConfigDuplicate'
      BY <3>3, <3>5 DEF CrossInv, NoCrossConfigDuplicate
    <3>7. RecordedKnown'
      BY <2>2, <3>1, <3>2, <3>3, <3>4 DEF CrossInv, RecordedKnown
    <3>8. CacheForeign'
      <4>1. \A d \in Configs \ {cur} : Recorded(cfgCache[d]) \cap Recorded(hc') \subseteq Shared
        BY <3>1, <3>2, <3>4 DEF CrossInv, CacheForeign
      <4> QED  BY <2>2, <3>3, <4>1 DEF CrossInv, CacheForeign
    <3>9. CopyVersion' /\ CopyForeign'
      BY <2>2, <3>3, <3>5 DEF CopyVersion, CopyForeign
    <3>10. InFlightOwned' /\ ReleaseVisible'
      BY <2>2 DEF InFlightOwned, ReleaseVisible, Assigning
    <3> QED  BY <3>3, <3>6, <3>7, <3>8, <3>9, <3>10 DEF CrossInv
  <2> QED  BY <2>1, <2>2 DEF RecordAllocation
\* ReleaseAll unmarks nothing another config records, nor anything this one
\* records that the cache does not show.
<1>CrossRelease.
  ASSUME CrossInv, TypeOK', ReleaseAll
  PROVE  CrossInv'
  <2> USE <1>CrossRelease
  <2>1. /\ UNCHANGED <<cfg, cfgCache, staleCfg, cur, hc, hcFresh>> /\ used' = used \ Recorded(hc)
        /\ pc = "release" /\ pc' = "clear" /\ cur \in Configs
    BY DEF ReleaseAll, api, cache, CrossInv, TypeOK, RequestTypes
  <2>2. RecordedKnown'
    <3>1. ASSUME NEW c \in Configs, NEW a \in Recorded(cfg[c])
          PROVE  a \in used' \cup Recorded(cfgCache[c]) \cup Shared
      <4>1. CASE a \in Recorded(hc) /\ c = cur
        BY <2>1, <4>1 DEF CrossInv, ReleaseVisible
      <4>2. CASE a \in Recorded(hc) /\ c # cur
        BY <2>1, <4>2 DEF CrossInv, CopyForeign
      <4>3. CASE a \notin Recorded(hc)
        BY <2>1, <4>3 DEF CrossInv, RecordedKnown
      <4> QED  BY <4>1, <4>2, <4>3
    <3> QED  BY <2>1, <3>1 DEF RecordedKnown
  <2>3. NoCrossConfigDuplicate' /\ CacheForeign' /\ CacheVersions'
    BY <2>1 DEF CrossInv, NoCrossConfigDuplicate, CacheForeign, CacheVersions
  <2>4. CopyVersion' /\ CopyForeign'
    BY <2>1 DEF CrossInv, CopyVersion, CopyForeign
  <2>5. InFlightOwned' /\ ReleaseVisible'
    BY <2>1 DEF InFlightOwned, ReleaseVisible, Assigning
  <2> QED  BY <2>2, <2>3, <2>4, <2>5 DEF CrossInv
\* by the other steps of Reconcile,
<1>CrossRequest.
  ASSUME CrossInv, TypeOK',
         \/ \E c \in Configs : ReconcileGet(c)
         \/ AddFinalizer \/ InitialCondition \/ ListServices \/ ReportConflict
         \/ LoopEnds \/ AllocateListFails \/ ReportFailure
  PROVE  CrossInv'
  <2> USE <1>CrossRequest
  <2> USE DEF api, cache, job
  <2>0. hc \in ConfigObjects
    BY DEF CrossInv, TypeOK, RequestTypes
  <2>1. ASSUME NEW c \in Configs, ReconcileGet(c)  PROVE  CrossInv'
    <3>1. CASE ~cfgCache[c].exists
      BY <2>1, <3>1, <1>CrossFrame DEF ReconcileGet
    <3>2. CASE cfgCache[c].exists
      <4>1. /\ UNCHANGED <<cfg, cfgCache, staleCfg, used>>
            /\ cur' = c /\ hc' = cfgCache[c] /\ hcFresh' = (c \notin staleCfg)
            /\ pc' \in {"addFinalizer", "release", "list"}
        BY <2>1, <3>2 DEF ReconcileGet
      <4>2. NoCrossConfigDuplicate' /\ RecordedKnown' /\ CacheForeign' /\ CacheVersions'
        BY <4>1 DEF CrossInv, NoCrossConfigDuplicate, RecordedKnown, CacheForeign, CacheVersions
      <4>3. CopyVersion' /\ CopyForeign'
        BY <4>1 DEF CrossInv, CopyVersion, CopyForeign, CacheVersions, CacheForeign
      <4>4. InFlightOwned' /\ ReleaseVisible'
        BY <4>1 DEF InFlightOwned, ReleaseVisible, Assigning
      <4> QED  BY <4>2, <4>3, <4>4 DEF CrossInv
    <3> QED  BY <3>1, <3>2
  <2>2. CASE AddFinalizer
    <3>1. CASE ConfigRefused /\ Return({cur}) /\ UNCHANGED <<cfg, staleCfg>>
      BY <2>2, <3>1, <1>CrossFrame DEF AddFinalizer, Return
    <3>2. CASE ConfigAccepted /\ hc' = WithFinalizer(hc) /\ StoreConfig(cur, hc')
               /\ pc' = "initialCondition" /\ cur' = cur
      <4>1. hc' \in ConfigObjects /\ Recorded(hc') = Recorded(hc)
        BY <2>0, <3>2, EditFinalizer DEF EditOf
      <4> QED  BY <2>2, <3>2, <4>1, <1>CrossStatusWrite DEF AddFinalizer, ConfigAccepted
    <3> QED  BY <2>2, <3>1, <3>2 DEF AddFinalizer
  <2>3. CASE InitialCondition
    <3>1. CASE ConfigRefused /\ Return({cur}) /\ UNCHANGED <<cfg, staleCfg>>
      BY <2>3, <3>1, <1>CrossFrame DEF InitialCondition, Return
    <3>2. CASE ConfigAccepted /\ hc' = WithInitialCondition(hc) /\ StoreConfig(cur, hc')
               /\ pc' \in {"release", "list"} /\ cur' = cur
      <4>1. hc' \in ConfigObjects /\ Recorded(hc') = Recorded(hc)
        BY <2>0, <3>2, EditReady DEF EditOf
      <4> QED  BY <2>3, <3>2, <4>1, <1>CrossStatusWrite DEF InitialCondition, ConfigAccepted
    <3> QED  BY <2>3, <3>1, <3>2 DEF InitialCondition
  <2>4. CASE ListServices
    <3>1. CASE pc' = "idle"
      BY <2>4, <3>1, <1>CrossFrame DEF ListServices
    <3>2. CASE pc' \in {"conflict", "loop"} /\ UNCHANGED <<cur, hc, hcFresh>>
      BY <2>4, <3>2, <1>CrossFrame DEF ListServices
    <3> QED  BY <2>4, <3>1, <3>2 DEF ListServices, ListFails, Return
  <2>5. CASE ReportConflict
    <3>1. CASE ConfigRefused /\ UNCHANGED <<cfg, staleCfg>>
      BY <2>5, <3>1, <1>CrossFrame DEF ReportConflict, Return
    <3>2. CASE ConfigAccepted /\ StoreConfig(cur, WithConflict(hc))
      <4> DEFINE o == WithConflict(hc)
      <4>1. o \in ConfigObjects /\ Recorded(o) = Recorded(hc)
        BY <2>0, EditDegraded DEF EditOf
      <4> QED  BY <2>5, <3>2, <4>1, <1>CrossStatusWrite DEF ReportConflict, ConfigAccepted, Return
    <3> QED  BY <2>5, <3>1, <3>2 DEF ReportConflict
  <2>6. CASE LoopEnds
    BY <2>6, <1>CrossFrame DEF LoopEnds, Return
  <2>7. CASE AllocateListFails
    BY <2>7, <1>CrossFrame DEF AllocateListFails
  <2>8. CASE ReportFailure
    <3>1. CASE ConfigRefused /\ UNCHANGED <<cfg, staleCfg>>
      BY <2>8, <3>1, <1>CrossFrame DEF ReportFailure, Return
    <3> DEFINE o == WithFailure(hc)
    <3>2. CASE ConfigAccepted /\ StoreConfig(cur, o)
      <4>1. o \in ConfigObjects /\ Recorded(o) = Recorded(hc)
        BY <2>0, EditFailed DEF EditOf
      <4> QED  BY <2>8, <3>2, <4>1, <1>CrossStatusWrite DEF ReportFailure, ConfigAccepted, Return
    <3> QED  BY <2>8, <3>1, <3>2 DEF ReportFailure
  <2> QED  BY <2>1, <2>2, <2>3, <2>4, <2>5, <2>6, <2>7, <2>8
\* by the steps of a cleanup,
<1>CrossDeletion.
  ASSUME CrossInv, TypeOK', (\E n \in Names : ClearIngress(n)) \/ RemoveFinalizer
  PROVE  CrossInv'
  <2> USE <1>CrossDeletion
  <2>1. ASSUME NEW n \in Names, ClearIngress(n)  PROVE  CrossInv'
    BY <2>1, <1>CrossFrame DEF ClearIngress, job
  <2>2. CASE RemoveFinalizer
    <3>1. CASE ConfigRefused /\ Return({cur}) /\ UNCHANGED <<cfg, staleCfg>>
      BY <2>2, <3>1, <1>CrossFrame DEF RemoveFinalizer, Return
    <3>2. CASE ConfigAccepted /\ StoreConfig(cur, NoConfig) /\ Return({})
      BY <2>2, <3>2, NoConfigShape, RecordedNew, <1>CrossStatusWrite DEF RemoveFinalizer, ConfigAccepted, Return
    <3> QED  BY <2>2, <3>1, <3>2 DEF RemoveFinalizer
  <2> QED  BY <2>1, <2>2
\* by users, watches and restarts,
<1>CrossEnvironment.
  ASSUME CrossInv, TypeOK',
         \/ UserStep
         \/ \E c \in Configs : WatchConfig(c)
         \/ \E s \in Services : WatchService(s)
         \/ Restart
  PROVE  CrossInv'
  <2> USE <1>CrossEnvironment
  <2>1. ASSUME NEW c \in Configs, NEW spec \in ConfigSpecs, CreateConfig(c, spec)  PROVE  CrossInv'
    BY <2>1, NewConfigShape, RecordedNew, <1>CrossUserWrite DEF CreateConfig
  <2>2. ASSUME NEW c \in Configs, NEW spec \in ConfigSpecs, UpdateConfig(c, spec)  PROVE  CrossInv'
    <3> DEFINE o == WithSpec(cfg[c], spec)
    <3>1. cfg[c] \in ConfigObjects
      BY DEF CrossInv, TypeOK, ServerTypes
    <3>2. o \in ConfigObjects /\ Recorded(o) = Recorded(cfg[c])
      BY <3>1, EditSpec DEF EditOf
    <3> QED  BY <2>2, <3>2, <1>CrossUserWrite DEF UpdateConfig
  <2>3. ASSUME NEW c \in Configs, DeleteConfig(c)  PROVE  CrossInv'
    <3> DEFINE o == WithDeletion(cfg[c])
    <3>1. cfg[c] \in ConfigObjects
      BY DEF CrossInv, TypeOK, ServerTypes
    <3>2. o \in ConfigObjects /\ Recorded(o) = Recorded(cfg[c])
      BY <3>1, EditDeleting DEF EditOf
    <3> QED  BY <2>3, <3>2, NoConfigShape, RecordedNew, <1>CrossUserWrite DEF DeleteConfig
  <2>4. ASSUME NEW s \in Services, NEW o, UserWritesService(s, o)  PROVE  CrossInv'
    BY <2>4, <1>CrossFrame DEF UserWritesService
  <2>5. ASSUME NEW c \in Configs, WatchConfig(c)  PROVE  CrossInv'
    <3>1. /\ UNCHANGED <<cfg, used, pc, cur, hc, hcFresh, ip, ipv6>>
          /\ cfgCache'[c] = cfg[c] /\ \A d \in Configs \ {c} : cfgCache'[d] = cfgCache[d]
          /\ staleCfg' = staleCfg \ {c}
      BY <2>5 DEF WatchConfig, api, worker, job, CrossInv, TypeOK, CacheTypes
    <3>2. NoCrossConfigDuplicate' /\ RecordedKnown' /\ CacheForeign' /\ CacheVersions'
      BY <3>1 DEF CrossInv, NoCrossConfigDuplicate, RecordedKnown, CacheForeign, CacheVersions
    <3>3. CopyVersion' /\ CopyForeign'
      BY <3>1 DEF CrossInv, CopyVersion, CopyForeign
    <3>4. InFlightOwned'
      <4>1. InFlight' = InFlight /\ Assigning' = Assigning /\ (Assigning => cur \in Configs)
        BY <3>1 DEF InFlight, Assigning, CrossInv, TypeOK, RequestTypes
      <4> QED  BY <3>1, <4>1 DEF CrossInv, InFlightOwned
    <3>5. ReleaseVisible'
      BY <3>1 DEF CrossInv, ReleaseVisible, TypeOK, RequestTypes
    <3> QED  BY <3>2, <3>3, <3>4, <3>5 DEF CrossInv
  <2>6. ASSUME NEW s \in Services, WatchService(s)  PROVE  CrossInv'
    BY <2>6, <1>CrossFrame DEF WatchService, api, worker, job
  <2>7. CASE Restart
    <3>1. UNCHANGED cfg /\ cfgCache' = cfg /\ pc' = "idle"
      BY <2>7 DEF Restart, api
    <3> QED  BY <3>1 DEF CrossInv, NoCrossConfigDuplicate, RecordedKnown, CacheForeign, CacheVersions,
                         CopyVersion, CopyForeign, InFlightOwned, ReleaseVisible, Assigning
  <2> QED  BY <2>1, <2>2, <2>3, <2>4, <2>5, <2>6, <2>7
           DEF UserStep, DeleteService, EditService, CreateService
<1> SUFFICES ASSUME CrossInv, [Next]_vars
             PROVE  CrossInv'
  OBVIOUS
<1>1. TypeOK'
  BY TypeNext DEF CrossInv
<1>2. CASE Next
  BY <1>1, <1>2, <1>CrossRequest, <1>CrossAllocate, <1>CrossJob, <1>CrossRecord, <1>CrossRelease, <1>CrossDeletion,
     <1>CrossEnvironment
  DEF Next, WorkerStep
<1>3. CASE UNCHANGED vars
  BY <1>1, <1>3, <1>CrossFrame DEF vars, api, cache, worker, job
<1> QED  BY <1>2, <1>3

\* The strengthening holds in every reachable state.
THEOREM CrossInvariant == Spec => []CrossInv
<1>1. CrossInv /\ [Next]_vars => CrossInv'
  BY CrossNext
<1> QED  BY CrossInit, <1>1, PTL DEF Spec

\* No two HeliosConfigs ever record the same address, unless it is the only
\* one of a range: marking what the other configs record in the cache is
\* enough, although the cache lags and the map of used addresses is lost on a
\* restart.
THEOREM NoCrossConfigDuplicates == Spec => []NoCrossConfigDuplicate
<1>1. CrossInv => NoCrossConfigDuplicate
  BY DEF CrossInv
<1> QED  BY CrossInvariant, <1>1, PTL

-----------------------------------------------------------------------------
(* What a step does to the Services and to the loop.                       *)

\* No Service is written and the worker is not in the loop afterwards.
Elsewhere ==
  /\ UNCHANGED <<svc, svcCache, staleSvc>>
  /\ pc' \notin {"loop", "assign", "specUpdate", "record"}
  /\ svcFresh' => svcFresh /\ ~Assigning
  /\ used' = used \/ pc = "release"
  /\ Assigning => pc = "record" /\ pc' = "idle" /\ UNCHANGED cfg /\ (~hcFresh \/ left["fault"] > 0)
  /\ pc \in {"release", "clear"} \/ pc' = "clear" => ReleaseAll \/ RemoveFinalizer
  /\ pc' = "release" => hc'.deleting

\* Nothing moves that the loop works with.
Aside ==
  UNCHANGED <<svc, svcCache, staleSvc, used, pc, cur, hc, todo, clear, missed, target, ip, ipv6, svcFresh>>

\* The loop begins.
Lists ==
  /\ ListServices /\ pc' = "loop" /\ todo' = Eligible(hc.spec)
  /\ missed'.configs = staleCfg \ {cur}
  /\ missed'.services = {s \in staleSvc : IsEligible(s, hc.spec)}
  /\ UNCHANGED <<svc, svcCache, staleSvc, used, cur, hc, target, ip, ipv6, svcFresh>>

\* The ingress of the target is written,
Writes ==
  /\ pc = "assign" /\ InSync /\ svcCache[target].exists /\ target \notin staleSvc
  /\ StoreService(target, WithIngress(svc[target], InFlight))
  /\ svcFresh' = TRUE /\ pc' = "specUpdate"
  /\ UNCHANGED <<svcCache, used, cur, hc, todo, missed, target, ip, ipv6>>

\* which is tried again,
Retries ==
  /\ pc \in {"assign", "specUpdate"} /\ pc' = "assign" /\ svcFresh' = FALSE
  /\ pc = "specUpdate" => ~svcFresh
  /\ UNCHANGED <<svc, svcCache, staleSvc, used, cur, hc, todo, missed, target, ip, ipv6>>

\* done, or given up.
Proceeds ==
  /\ pc = "specUpdate" /\ pc' = "record" /\ svcFresh
  /\ UNCHANGED <<svc, svcCache, staleSvc, used, cur, hc, todo, missed, target, ip, ipv6, svcFresh>>

GivesUp ==
  /\ pc \in {"assign", "specUpdate"} /\ AssignFails
  /\ pc = "specUpdate" => ~svcFresh \/ left["fault"] > 0
  /\ UNCHANGED <<svc, svcCache, staleSvc>>

\* The allocation is recorded and the loop goes on.
Records ==
  /\ pc = "record" /\ pc' = "loop" /\ NoJob /\ hcFresh /\ hc'.spec = hc.spec
  /\ hc' = WithAllocation(hc, target.name, ip, ipv6) /\ StoreConfig(cur, hc')
  /\ UNCHANGED <<svc, svcCache, staleSvc, used, cur, hcFresh, todo, missed>>

\* A user writes a Service.
WritesService(s) ==
  \/ UserWritesService(s, NoService)
  \/ \E spec \in ServiceSpecs[s] : ~svc[s].exists /\ UserWritesService(s, NewService(spec))
  \/ left["editService"] > 0 /\ UserWritesService(s, svc[s])

\* An allocation leaves the spec of the copy it is recorded in.
LEMMA AllocationSpec ==
  ASSUME NEW o \in ConfigObjects, NEW n \in Names, NEW i, NEW j
  PROVE  WithAllocation(o, n, i, j).spec = o.spec
BY DEF ConfigObjects, WithAllocation

\* All steps.
LEMMA StepKinds ==
  TypeOK /\ [Next]_vars
    => \/ Elsewhere \/ Aside \/ Lists \/ Writes \/ Retries \/ Proceeds \/ GivesUp \/ Records
       \/ \E item \in todo : Allocate(item)
       \/ \E n \in Names : ClearIngress(n)
       \/ \E s \in Services : WritesService(s) \/ WatchService(s)
       \/ Restart
\* The steps of assignIPToService.
<1>AssignKinds.
  ASSUME TypeOK, AssignStatus \/ AssignSpec
  PROVE  Writes \/ Retries \/ Proceeds \/ GivesUp
  <2> USE <1>AssignKinds
  <2>1. CASE AssignStatus
    <3>1. /\ pc = "assign" /\ InSync
          /\ UNCHANGED <<cfg, cfgCache, svcCache, staleCfg, queue, cur, hc, hcFresh, todo, clear, missed>>
      BY <2>1 DEF AssignStatus
    <3>2. CASE /\ svcCache[target].exists /\ target \notin staleSvc
               /\ StoreService(target, WithIngress(svc[target], {ip, ipv6} \ {NoIP}))
               /\ svcFresh' = TRUE /\ pc' = "specUpdate"
               /\ UNCHANGED <<used, left, target, ip, ipv6, tries>>
      BY <3>1, <3>2 DEF Writes, InFlight
    <3>3. CASE AssignFails /\ UNCHANGED <<svc, staleSvc>>
      BY <3>1, <3>3 DEF GivesUp
    <3>4. CASE TryAgain /\ UNCHANGED <<svc, staleSvc, left>>
      BY <3>1, <3>3, <3>4 DEF TryAgain, Retries
    <3> QED  BY <2>1, <3>2, <3>3, <3>4 DEF AssignStatus
  <2>2. CASE AssignSpec
    <3>1. /\ pc = "specUpdate"
          /\ UNCHANGED <<svc, svcCache, staleSvc, cur, hc, todo, missed>>
      BY <2>2 DEF AssignSpec, api, cache
    <3>2. CASE svcFresh /\ pc' = "record" /\ UNCHANGED <<used, left, job>>
      BY <3>1, <3>2 DEF Proceeds, job
    <3>3. CASE ~svcFresh /\ AssignFails
      BY <3>1, <3>3 DEF GivesUp
    <3>4. CASE ~svcFresh /\ TryAgain
      BY <3>1, <3>3, <3>4 DEF TryAgain, Retries
    <3>5. CASE Spend("fault") /\ AssignFails
      BY <3>1, <3>5 DEF GivesUp, Spend
    <3> QED  BY <2>2, <3>2, <3>3, <3>4, <3>5 DEF AssignSpec
  <2> QED  BY <2>1, <2>2
\* The steps of the worker.
<1>WorkerKinds.
  ASSUME TypeOK, WorkerStep
  PROVE  \/ Elsewhere \/ Lists \/ Writes \/ Retries \/ Proceeds \/ GivesUp \/ Records
         \/ \E item \in todo : Allocate(item)
         \/ \E n \in Names : ClearIngress(n)
  <2> USE <1>WorkerKinds
  <2>0. ASSUME UNCHANGED <<svc, svcCache, staleSvc>>, pc' = "idle", NoJob, used' = used, ~Assigning,
               pc \in {"release", "clear"} => RemoveFinalizer
        PROVE  Elsewhere
    BY <2>0 DEF Elsewhere, NoJob
  <2>1. CASE AddFinalizer
    <3>1. CASE Return({cur})
      BY <2>0, <2>1, <3>1 DEF AddFinalizer, Return, Assigning
    <3>2. CASE pc' = "initialCondition" /\ UNCHANGED job
      BY <2>1, <3>2 DEF AddFinalizer, Elsewhere, job, Assigning
    <3> QED  BY <2>1, <3>1, <3>2 DEF AddFinalizer
  <2>2. CASE InitialCondition
    <3>1. CASE Return({cur})
      BY <2>0, <2>2, <3>1 DEF InitialCondition, Return, Assigning
    <3>2. CASE /\ hc' = WithInitialCondition(hc) /\ pc' = (IF hc.deleting THEN "release" ELSE "list")
               /\ UNCHANGED job
      <4>1. hc'.deleting = hc.deleting
        <5>1. hc \in ConfigObjects
          BY DEF TypeOK, RequestTypes
        <5> QED  BY <3>2, <5>1 DEF WithInitialCondition, ConfigObjects
      <4> QED  BY <2>2, <3>2, <4>1 DEF InitialCondition, Elsewhere, job, Assigning
    <3> QED  BY <2>2, <3>1, <3>2 DEF InitialCondition
  <2>3. CASE ListServices
    <3>1. CASE pc' = "conflict" /\ UNCHANGED job
      BY <2>3, <3>1 DEF ListServices, Elsewhere, job, Assigning, api, cache
    <3>2. CASE ListFails
      BY <2>0, <2>3, <3>2 DEF ListServices, ListFails, Return, Assigning, api, cache
    <3>3. CASE /\ pc' = "loop" /\ todo' = Eligible(hc.spec) /\ UNCHANGED <<cur, hc, job>>
               /\ missed' = [missed EXCEPT !.configs = staleCfg \ {cur},
                                           !.services = {s \in staleSvc : IsEligible(s, hc.spec)}]
      <4>1. /\ missed'.configs = staleCfg \ {cur}
            /\ missed'.services = {s \in staleSvc : IsEligible(s, hc.spec)}
        BY <3>3 DEF TypeOK, RequestTypes
      <4>2. UNCHANGED <<svc, svcCache, staleSvc, used>>
        BY <2>3 DEF ListServices, api, cache
      <4> QED  BY <2>3, <3>3, <4>1, <4>2 DEF Lists, job
    <3> QED  BY <2>3, <3>1, <3>2, <3>3 DEF ListServices
  <2>4. CASE ReportConflict \/ ReportFailure
    BY <2>0, <2>4 DEF ReportConflict, ReportFailure, Return, Assigning
  <2>5. CASE LoopEnds
    BY <2>0, <2>5 DEF LoopEnds, Return, Assigning, api, cache
  <2>6. CASE AllocateListFails
    BY <2>6 DEF AllocateListFails, Elsewhere, job, Assigning, api, cache
  <2>7. CASE AssignStatus \/ AssignSpec
    BY <2>7, <1>AssignKinds
  <2>8. CASE RecordAllocation
    <3>1. CASE ConfigRefused /\ Return({cur}) /\ UNCHANGED <<cfg, staleCfg>>
      BY <2>8, <3>1 DEF RecordAllocation, ConfigRefused, Spend, Return, NoJob, Elsewhere
    <3>2. CASE /\ ConfigAccepted /\ hc' = WithAllocation(hc, target.name, ip, ipv6) /\ StoreConfig(cur, hc')
               /\ pc' = "loop" /\ NoJob /\ UNCHANGED <<cur, hcFresh, todo, missed>>
      <4>1. hc \in ConfigObjects /\ target.name \in Names
        BY <2>8 DEF RecordAllocation, TypeOK, RequestTypes, JobTypes, Names
      <4>2. hc'.spec = hc.spec
        BY SMT, <3>2, <4>1, AllocationSpec
      <4> QED  BY <2>8, <3>2, <4>2 DEF RecordAllocation, ConfigAccepted, Records
    <3> QED  BY <2>8, <3>1, <3>2 DEF RecordAllocation
  <2>9. CASE ReleaseAll
    BY <2>9 DEF ReleaseAll, Elsewhere, job, Assigning, api, cache
  <2>10. CASE RemoveFinalizer
    BY <2>0, <2>10 DEF RemoveFinalizer, Return, Assigning
  <2> QED
    BY <2>1, <2>2, <2>3, <2>4, <2>5, <2>6, <2>7, <2>8, <2>9, <2>10 DEF WorkerStep
<1> SUFFICES ASSUME TypeOK, [Next]_vars
             PROVE  \/ Elsewhere \/ Aside \/ Lists \/ Writes \/ Retries \/ Proceeds \/ GivesUp \/ Records
                    \/ \E item \in todo : Allocate(item)
                    \/ \E n \in Names : ClearIngress(n)
                    \/ \E s \in Services : WritesService(s) \/ WatchService(s)
                    \/ Restart
  OBVIOUS
<1>1. CASE UNCHANGED vars
  BY <1>1 DEF vars, api, cache, worker, job, Aside
<1>2. ASSUME NEW c \in Configs, NEW o, UserWritesConfig(c, o)  PROVE  Aside
  BY <1>2 DEF UserWritesConfig, Aside, job
<1>3. CASE UserStep
  <2>1. ASSUME NEW c \in Configs, NEW spec, DeleteConfig(c) \/ CreateConfig(c, spec) \/ UpdateConfig(c, spec)
        PROVE  Aside
    BY <1>2, <2>1 DEF DeleteConfig, CreateConfig, UpdateConfig
  <2>2. ASSUME NEW s \in Services, DeleteService(s)  PROVE  WritesService(s)
    BY <2>2 DEF DeleteService, WritesService
  <2>3. ASSUME NEW s \in Services, EditService(s)  PROVE  WritesService(s)
    BY <2>3 DEF EditService, WritesService, Spend
  <2>4. ASSUME NEW s \in Services, NEW spec \in ServiceSpecs[s], CreateService(s, spec)
        PROVE  WritesService(s)
    BY <2>4 DEF CreateService, WritesService
  <2> QED  BY <1>3, <2>1, <2>2, <2>3, <2>4 DEF UserStep
<1>4. ASSUME NEW c \in Configs, ReconcileGet(c)  PROVE  Elsewhere
  BY <1>4 DEF ReconcileGet, Elsewhere, job, Assigning, api, cache
<1>5. ASSUME NEW c \in Configs, WatchConfig(c)  PROVE  Aside
  BY <1>5 DEF WatchConfig, Aside, worker, job, api
<1> QED  BY <1>1, <1>3, <1>4, <1>5, <1>WorkerKinds DEF Next

\* A write of the ingress changes nothing else of a Service.
LEMMA IngressOf ==
  ASSUME NEW o \in ServiceObjects, NEW I
  PROVE  /\ WithIngress(o, I).ingress = I
         /\ WithIngress(o, I).exists = o.exists
         /\ WithIngress(o, I).loadBalancerIP = o.loadBalancerIP
BY DEF ServiceObjects, WithIngress

\* A write of a Service leaves the other Services, and the cached copy stale
\* or equal.
LEMMA StoreServiceAt ==
  ASSUME TypeOK, NEW s \in Services, NEW o, StoreService(s, o)
  PROVE  /\ svc'[s] = o /\ \A t \in Services \ {s} : svc'[t] = svc[t]
         /\ staleSvc \subseteq staleSvc' /\ (o # svc[s] => s \in staleSvc')
BY DEF TypeOK, ServerTypes, CacheTypes, StoreService

\* What a write of the ingress of a Service, to assign or to clear it, does.
LEMMA IngressWrittenAt ==
  ASSUME TypeOK, NEW s \in Services, NEW I, StoreService(s, WithIngress(svc[s], I))
  PROVE  /\ svc'[s].ingress = I /\ svc'[s].exists = svc[s].exists
         /\ svc'[s].loadBalancerIP = svc[s].loadBalancerIP
         /\ \A t \in Services \ {s} : svc'[t] = svc[t]
         /\ staleSvc \subseteq staleSvc' /\ (svc'[s] # svc[s] => s \in staleSvc')
<1>1. svc[s] \in ServiceObjects
  BY DEF TypeOK, ServerTypes
<1>2. /\ svc'[s] = WithIngress(svc[s], I) /\ \A t \in Services \ {s} : svc'[t] = svc[t]
      /\ staleSvc \subseteq staleSvc' /\ (svc'[s] # svc[s] => s \in staleSvc')
  BY StoreServiceAt
<1>3. /\ WithIngress(svc[s], I).ingress = I
      /\ WithIngress(svc[s], I).exists = svc[s].exists
      /\ WithIngress(svc[s], I).loadBalancerIP = svc[s].loadBalancerIP
  BY <1>1, IngressOf
<1>4. svc'[s].ingress = I /\ svc'[s].exists = svc[s].exists /\ svc'[s].loadBalancerIP = svc[s].loadBalancerIP
  BY <1>2, <1>3
<1> QED  BY <1>2, <1>4

\* A write of a user leaves the other Services, too.
LEMMA UserServiceAt ==
  ASSUME TypeOK, NEW s \in Services, NEW o, UserWritesService(s, o)
  PROVE  svc'[s] = o /\ \A t \in Services \ {s} : svc'[t] = svc[t]
BY DEF TypeOK, ServerTypes, UserWritesService

\* What a user writes has no ingress, or is what is there already.
LEMMA WrittenIngress ==
  ASSUME TypeOK, NEW s \in Services, WritesService(s)
  PROVE  \E o : /\ UserWritesService(s, o)
                /\ \/ o = svc[s] /\ left["editService"] > 0
                   \/ o = NoService
                   \/ \E spec \in ServiceSpecs[s] : ~svc[s].exists /\ o = NewService(spec)
BY DEF WritesService

\* A new Service, or none, has no ingress.
LEMMA NewIngress ==
  /\ NoService.ingress = {} /\ ~NoService.exists /\ NoService.loadBalancerIP = NoIP
  /\ \A spec : /\ NewService(spec).ingress = {} /\ NewService(spec).exists
               /\ NewService(spec).loadBalancerIP = spec.loadBalancerIP
BY DEF NoService, NewService

-----------------------------------------------------------------------------
(* What a step does to the configs.                                        *)

\* p is o with something changed other than its spec, what it records and
\* whether it is being deleted.
SameConfig(p, o) ==
  /\ p.allocatedIPs = o.allocatedIPs /\ p.allocatedIPv6s = o.allocatedIPv6s
  /\ p.spec = o.spec /\ p.deleting = o.deleting

\* p is new, or gone.
Blank(p) == p = NoConfig \/ \E spec \in ConfigSpecs : p = NewConfig(spec)

ConfigStep ==
  \/ UNCHANGED cfg
  \/ \E c \in Configs, o \in ConfigObjects :
       /\ cfg' = [cfg EXCEPT ![c] = o]
       /\ \/ SameConfig(o, cfg[c])
          \/ Blank(o)
          \/ /\ left["updateConfig"] > 0 /\ o.deleting = cfg[c].deleting
             /\ o.allocatedIPs = cfg[c].allocatedIPs /\ o.allocatedIPv6s = cfg[c].allocatedIPv6s
          \/ left["deleteConfig"] > 0 /\ SameConfig(o, WithDeletion(cfg[c]))
          \/ /\ RecordAllocation /\ c = cur /\ cfg[c] = hc
             /\ o = WithAllocation(cfg[c], target.name, ip, ipv6)

\* The edits of a config that change none of those.
LEMMA SameEdits ==
  ASSUME NEW o \in ConfigObjects
  PROVE  /\ SameConfig(WithFinalizer(o), o) /\ SameConfig(WithInitialCondition(o), o)
         /\ SameConfig(WithConflict(o), o) /\ SameConfig(WithFailure(o), o)
<1>1. SameConfig(WithFinalizer(o), o) /\ SameConfig(WithInitialCondition(o), o)
  BY DEF ConfigObjects, WithFinalizer, WithInitialCondition, SameConfig
<1>2. SameConfig(WithConflict(o), o) /\ SameConfig(WithFailure(o), o)
  BY DEF ConfigObjects, WithConflict, WithFailure, SameConfig
<1> QED  BY <1>1, <1>2

\* So is every other step.
LEMMA ConfigKinds ==
  CrossInv /\ [Next]_vars
    => ConfigStep
\* A write of the local copy is one of those steps.
<1>StatusConfigStep.
  ASSUME CrossInv, pc # "idle", hcFresh, NEW o \in ConfigObjects, StoreConfig(cur, o),
         SameConfig(o, hc) \/ Blank(o)
  PROVE  ConfigStep
  <2> USE <1>StatusConfigStep
  <2>1. cur \in Configs /\ cfg[cur] = hc
    BY DEF CrossInv, TypeOK, RequestTypes, CopyVersion
  <2> QED  BY <2>1 DEF ConfigStep, StoreConfig
\* A write of a user is one of those steps.
<1>UserConfigStep.
  ASSUME CrossInv, UserStep
  PROVE  ConfigStep
  <2> USE <1>UserConfigStep
  <2>1. ASSUME NEW c \in Configs, NEW spec \in ConfigSpecs, CreateConfig(c, spec)  PROVE  ConfigStep
    <3>1. NewConfig(spec) \in ConfigObjects
      BY NewConfigShape
    <3> QED  BY <2>1, <3>1 DEF CreateConfig, UserWritesConfig, ConfigStep, Blank
  <2>2. ASSUME NEW c \in Configs, NEW spec \in ConfigSpecs, UpdateConfig(c, spec)  PROVE  ConfigStep
    <3>1. cfg[c] \in ConfigObjects
      BY DEF CrossInv, TypeOK, ServerTypes
    <3>2. WithSpec(cfg[c], spec) \in ConfigObjects
      BY <3>1, EditSpec DEF EditOf
    <3>3. /\ WithSpec(cfg[c], spec).deleting = cfg[c].deleting
          /\ WithSpec(cfg[c], spec).allocatedIPs = cfg[c].allocatedIPs
          /\ WithSpec(cfg[c], spec).allocatedIPv6s = cfg[c].allocatedIPv6s
      BY <3>1 DEF ConfigObjects, WithSpec
    <3> QED  BY <2>2, <3>2, <3>3 DEF UpdateConfig, UserWritesConfig, ConfigStep, Spend
  <2>3. ASSUME NEW c \in Configs, DeleteConfig(c)  PROVE  ConfigStep
    <3>1. cfg[c] \in ConfigObjects
      BY DEF CrossInv, TypeOK, ServerTypes
    <3>2. WithDeletion(cfg[c]) \in ConfigObjects /\ NoConfig \in ConfigObjects
      BY <3>1, EditDeleting, NoConfigShape DEF EditOf
    <3>3. SameConfig(WithDeletion(cfg[c]), WithDeletion(cfg[c]))
      BY DEF SameConfig
    <3> QED  BY <2>3, <3>2, <3>3 DEF DeleteConfig, UserWritesConfig, ConfigStep, Spend, Blank
  <2>4. ASSUME NEW s \in Services, NEW o, UserWritesService(s, o)  PROVE  ConfigStep
    BY <2>4 DEF UserWritesService, ConfigStep
  <2> QED
    BY <2>1, <2>2, <2>3, <2>4 DEF UserStep, DeleteService, EditService, CreateService
<1> SUFFICES ASSUME CrossInv, [Next]_vars
             PROVE  ConfigStep
  OBVIOUS
<1>0. hc \in ConfigObjects
  BY DEF CrossInv, TypeOK, RequestTypes
<1>1. CASE AddFinalizer
  <2>1. WithFinalizer(hc) \in ConfigObjects
    BY <1>0, EditFinalizer DEF EditOf
  <2> QED
    BY <1>0, <1>1, <2>1, SameEdits, <1>StatusConfigStep DEF AddFinalizer, ConfigAccepted, ConfigStep
<1>2. CASE InitialCondition
  <2>1. WithInitialCondition(hc) \in ConfigObjects
    BY <1>0, EditReady DEF EditOf
  <2> QED
    BY <1>0, <1>2, <2>1, SameEdits, <1>StatusConfigStep DEF InitialCondition, ConfigAccepted, ConfigStep
<1>3. CASE ReportConflict
  <2>1. WithConflict(hc) \in ConfigObjects
    BY <1>0, EditDegraded DEF EditOf
  <2> QED
    BY <1>0, <1>3, <2>1, SameEdits, <1>StatusConfigStep DEF ReportConflict, ConfigAccepted, ConfigStep
<1>4. CASE ReportFailure
  <2>1. WithFailure(hc) \in ConfigObjects
    BY <1>0, EditFailed DEF EditOf
  <2> QED
    BY <1>0, <1>4, <2>1, SameEdits, <1>StatusConfigStep DEF ReportFailure, ConfigAccepted, ConfigStep
<1>5. CASE RemoveFinalizer
  BY <1>5, NoConfigShape, <1>StatusConfigStep DEF RemoveFinalizer, ConfigAccepted, ConfigStep, Blank
<1>6. CASE RecordAllocation
  <2>1. CASE UNCHANGED cfg
    BY <2>1 DEF ConfigStep
  <2>2. CASE hcFresh /\ StoreConfig(cur, WithAllocation(hc, target.name, ip, ipv6))
    <3>1. /\ cur \in Configs /\ cfg[cur] = hc /\ target \in Services
          /\ ip \in Addr \cup {NoIP} /\ ipv6 \in Addr \cup {NoIP}
      BY <1>6, <2>2 DEF RecordAllocation, CrossInv, TypeOK, RequestTypes, JobTypes, CopyVersion
    <3>2. WithAllocation(hc, target.name, ip, ipv6) \in ConfigObjects
      BY SMT, <1>0, <3>1, EditRecord DEF Names
    <3> QED  BY <1>6, <2>2, <3>1, <3>2 DEF ConfigStep, StoreConfig
  <2> QED  BY <1>6, <2>1, <2>2 DEF RecordAllocation, ConfigAccepted
<1>7. ASSUME UNCHANGED cfg  PROVE  ConfigStep
  BY <1>7 DEF ConfigStep
<1>8. CASE ListServices \/ LoopEnds \/ AllocateListFails \/ AssignStatus \/ AssignSpec \/ ReleaseAll
  BY <1>7, <1>8
  DEF ListServices, LoopEnds, AllocateListFails, AssignStatus, AssignSpec, ReleaseAll, api
<1>9. ASSUME NEW item \in todo, Allocate(item)  PROVE  ConfigStep
  BY <1>7, <1>9 DEF Allocate, api
<1>10. ASSUME NEW n \in Names, ClearIngress(n)  PROVE  ConfigStep
  BY <1>7, <1>10 DEF ClearIngress
<1>11. ASSUME NEW c \in Configs, ReconcileGet(c) \/ WatchConfig(c)  PROVE  ConfigStep
  BY <1>7, <1>11 DEF ReconcileGet, WatchConfig, api
<1>12. ASSUME NEW s \in Services, WatchService(s)  PROVE  ConfigStep
  BY <1>7, <1>12 DEF WatchService, api
<1>13. CASE Restart \/ UNCHANGED vars
  BY <1>7, <1>13 DEF Restart, vars, api
<1> QED
  BY <1>1, <1>2, <1>3, <1>4, <1>5, <1>6, <1>8, <1>9, <1>10, <1>11, <1>12, <1>13, <1>UserConfigStep
     DEF Next, WorkerStep

\* A disruption whose budget is spent does not happen any more.
LEMMA BudgetStep ==
  ASSUME TypeOK, [Next]_vars, NEW d \in Disruptions, left[d] = 0
  PROVE  left'[d] = 0
<1>1. UNCHANGED left \/ \E e \in Disruptions : Spend(e)
  <2>1. ASSUME ConfigAccepted \/ ConfigRefused
        PROVE  UNCHANGED left \/ \E e \in Disruptions : Spend(e)
    BY <2>1 DEF ConfigAccepted, ConfigRefused, Disruptions
  <2>2. CASE AddFinalizer \/ InitialCondition \/ ReportConflict \/ RecordAllocation \/ ReportFailure \/ RemoveFinalizer
    BY <2>1, <2>2
    DEF AddFinalizer, InitialCondition, ReportConflict, RecordAllocation, ReportFailure, RemoveFinalizer
  <2>3. CASE ListServices \/ LoopEnds \/ AllocateListFails \/ AssignStatus \/ AssignSpec \/ ReleaseAll
    <3>1. "fault" \in Disruptions
      BY DEF Disruptions
    <3> QED
      BY <2>3, <3>1
      DEF ListServices, ListFails, LoopEnds, AllocateListFails, AssignStatus, AssignSpec, ReleaseAll
  <2>4. ASSUME NEW item \in todo, Allocate(item)  PROVE  UNCHANGED left
    BY <2>4 DEF Allocate
  <2>5. ASSUME NEW n \in Names, ClearIngress(n)
        PROVE  UNCHANGED left \/ \E e \in Disruptions : Spend(e)
    <3>1. "fault" \in Disruptions
      BY DEF Disruptions
    <3> QED  BY <2>5, <3>1 DEF ClearIngress
  <2>6. CASE UserStep
    <3>1. /\ "createConfig" \in Disruptions /\ "updateConfig" \in Disruptions /\ "deleteConfig" \in Disruptions
          /\ "createService" \in Disruptions /\ "editService" \in Disruptions /\ "deleteService" \in Disruptions
      BY DEF Disruptions
    <3> QED
      BY <2>6, <3>1
      DEF UserStep, CreateConfig, UpdateConfig, DeleteConfig, CreateService, EditService, DeleteService
  <2>7. ASSUME NEW c \in Configs, ReconcileGet(c) \/ WatchConfig(c)  PROVE  UNCHANGED left
    BY <2>7 DEF ReconcileGet, WatchConfig
  <2>8. ASSUME NEW s \in Services, WatchService(s)  PROVE  UNCHANGED left
    BY <2>8 DEF WatchService
  <2>9. CASE Restart
    BY <2>9 DEF Restart, Disruptions
  <2>10. CASE UNCHANGED vars
    BY <2>10 DEF vars
  <2> QED
    BY <2>2, <2>3, <2>4, <2>5, <2>6, <2>7, <2>8, <2>9, <2>10 DEF Next, WorkerStep
<1> QED  BY SMT, <1>1 DEF Spend, TypeOK

\* A new config, or none, is not being deleted.
LEMMA DeletingNew == ASSUME NEW o, Blank(o) PROVE o.deleting = FALSE
<1>1. \A spec : NewConfig(spec).deleting = FALSE
  BY DEF NewConfig
<1>2. NoConfig.deleting = FALSE
  <2>1. NewConfig(NoSpec) \in ConfigObjects
    BY NewConfigShape
  <2>2. NoConfig.deleting = NewConfig(NoSpec).deleting
    BY <2>1 DEF NoConfig, ConfigObjects
  <2> QED  BY <1>1, <2>2
<1> QED  BY <1>1, <1>2 DEF Blank
=============================================================================
