------------------------- MODULE ControllerRecords --------------------------
(***************************************************************************)
(* Proofs about what configs record: one disappears only once its          *)
(* addresses are released, no write of the status undoes an allocation,    *)
(* there are never more of them than maxAllocations, and none is made      *)
(* while another config has addresses in the ranges.  And about what       *)
(* Services carry: they keep their addresses until a cleanup clears them,  *)
(* no two of them carry one, and a Service gets what it asks for.          *)
(***************************************************************************)
EXTENDS ControllerTheorems, FiniteSetTheorems


\* Zenon proves the steps that do not name a prover.
USE ZenonT(30)

-----------------------------------------------------------------------------
(* A config disappears only once its addresses are released.               *)

\* Every step keeps the invariant of the cleanup,
LEMMA CleanupNext ==
  CrossInv /\ CleanupInv /\ [Next]_vars
    => CleanupInv'
\* A write of the worker keeps the finalizer, or drops the records with it.
<1>CleanupWrite.
  ASSUME CrossInv, CleanupInv, pc # "idle", hcFresh, NEW o \in ConfigObjects, StoreConfig(cur, o),
         cfgCache' = cfgCache, Recorded(o) # {} => o.finalizer
  PROVE  \A c \in Configs : Recorded(cfg'[c]) # {} => cfg'[c].finalizer
  <2> USE <1>CleanupWrite
  <2>1. cur \in Configs
    BY DEF CrossInv, TypeOK, RequestTypes
  <2>2. cfg'[cur] = o /\ \A d \in Configs \ {cur} : cfg'[d] = cfg[d]
    BY <2>1, StoreConfigVersions DEF CrossInv
  <2> QED  BY <2>2 DEF CleanupInv
<1> SUFFICES ASSUME CrossInv, CleanupInv, [Next]_vars
             PROVE  CleanupInv'
  OBVIOUS
<1> USE DEF api, cache, job
<1> DEFINE Kept == \A c \in Configs : Recorded(cfg[c]) # {} => cfg[c].finalizer
<1>0. TypeOK /\ hc \in ConfigObjects /\ TypeOK'
  BY TypeNext DEF CrossInv, TypeOK, RequestTypes
\* Steps that write no config.
<1>1. ASSUME UNCHANGED cfg,
             \/ pc' = "idle"
             \/ pc \notin {"idle", "addFinalizer"} /\ hc' = hc /\ pc' # "clear"
             \/ pc' = pc /\ hc' = hc /\ used' \subseteq used
      PROVE  CleanupInv'
  <2>1. CASE pc' = "idle"
    BY <1>1, <2>1 DEF CleanupInv
  <2>2. CASE pc \notin {"idle", "addFinalizer"} /\ hc' = hc /\ pc' # "clear"
    BY <1>1, <2>2 DEF CleanupInv
  <2>3. CASE pc' = pc /\ hc' = hc /\ used' \subseteq used
    BY <1>1, <2>3 DEF CleanupInv
  <2> QED  BY <1>1, <2>1, <2>2, <2>3
\* Writes of the worker.
<1>2. ASSUME ConfigAccepted, pc # "idle", UNCHANGED <<cfgCache, used>>,
             NEW o \in ConfigObjects, StoreConfig(cur, o), Recorded(o) # {} => o.finalizer,
             pc' = "idle" \/ (hc' = o /\ o.finalizer /\ pc' # "clear")
      PROVE  CleanupInv'
  <2>1. Kept'
    BY <1>2, <1>CleanupWrite DEF ConfigAccepted
  <2> QED  BY <1>2, <2>1 DEF CleanupInv
<1>3. ASSUME NEW c \in Configs, ReconcileGet(c)  PROVE  CleanupInv'
  <2>1. UNCHANGED cfg /\ pc = "idle"
    BY <1>3 DEF ReconcileGet
  <2>2. CASE ~cfgCache[c].exists
    BY <1>1, <1>3, <2>1, <2>2 DEF ReconcileGet
  <2>3. CASE cfgCache[c].exists
    <3>1. pc' # "clear" /\ (pc' # "addFinalizer" => hc'.finalizer)
      BY <1>3, <2>3 DEF ReconcileGet
    <3> QED  BY <2>1, <3>1 DEF CleanupInv
  <2> QED  BY <2>2, <2>3
<1>4. CASE AddFinalizer
  <2>1. CASE ConfigRefused /\ Return({cur}) /\ UNCHANGED <<cfg, staleCfg>>
    BY <1>1, <2>1 DEF Return
  <2>2. CASE ConfigAccepted /\ hc' = WithFinalizer(hc) /\ StoreConfig(cur, hc')
             /\ pc' = "initialCondition" /\ UNCHANGED <<cfgCache, used>>
    <3>1. hc' \in ConfigObjects /\ hc'.finalizer
      BY <1>0, <2>2, EditFinalizer DEF EditOf
    <3> QED  BY <1>2, <1>4, <2>2, <3>1 DEF AddFinalizer
  <2> QED  BY <1>4, <2>1, <2>2 DEF AddFinalizer
<1>5. CASE InitialCondition
  <2>1. CASE ConfigRefused /\ Return({cur}) /\ UNCHANGED <<cfg, staleCfg>>
    BY <1>1, <2>1 DEF Return
  <2>2. CASE ConfigAccepted /\ hc' = WithInitialCondition(hc) /\ StoreConfig(cur, hc')
             /\ pc' \in {"release", "list"} /\ UNCHANGED <<cfgCache, used>>
    <3>1. hc' \in ConfigObjects /\ hc'.finalizer
      <4>1. hc.finalizer
        BY <1>5 DEF CleanupInv, InitialCondition
      <4> QED  BY <1>0, <2>2, <4>1, EditReady DEF EditOf
    <3> QED  BY <1>2, <1>5, <2>2, <3>1 DEF InitialCondition
  <2> QED  BY <1>5, <2>1, <2>2 DEF InitialCondition
<1>6. CASE ListServices \/ LoopEnds \/ AllocateListFails
  <2>1. UNCHANGED cfg /\ pc \in {"list", "loop"}
        /\ (pc' = "idle" \/ (hc' = hc /\ pc' # "clear"))
    BY <1>6 DEF ListServices, ListFails, LoopEnds, AllocateListFails, Return
  <2> QED  BY <1>1, <2>1
<1>7. ASSUME NEW item \in todo, Allocate(item)  PROVE  CleanupInv'
  <2>1. UNCHANGED <<cfg, hc>> /\ pc = "loop" /\ pc' \in {"assign", "fail"}
    BY <1>7 DEF Allocate
  <2> QED  BY <1>1, <2>1
<1>8. CASE AssignStatus \/ AssignSpec
  <2>1. UNCHANGED <<cfg, hc>> /\ pc \in {"assign", "specUpdate"}
        /\ pc' \in {"assign", "specUpdate", "record", "fail"}
    BY <1>8 DEF AssignStatus, AssignSpec, TryAgain, AssignFails
  <2> QED  BY <1>1, <2>1
<1>9. CASE RecordAllocation
  <2>1. CASE ConfigRefused /\ Return({cur}) /\ UNCHANGED <<cfg, staleCfg>>
    BY <1>1, <2>1 DEF Return
  <2>2. CASE ConfigAccepted
             /\ hc' = WithAllocation(hc, target.name, ip, ipv6)
             /\ StoreConfig(cur, hc') /\ pc' = "loop" /\ UNCHANGED <<cfgCache, used>>
    <3>1. /\ hc.finalizer /\ target.name \in Names
          /\ ip \in Addr \cup {NoIP} /\ ipv6 \in Addr \cup {NoIP}
      BY <1>0, <1>9 DEF CleanupInv, RecordAllocation, TypeOK, JobTypes, Names
    <3>2. hc' \in ConfigObjects /\ hc'.finalizer
      BY <1>0, <2>2, <3>1, EditRecord
    <3> QED  BY <1>2, <1>9, <2>2, <3>2 DEF RecordAllocation
  <2> QED  BY <1>9, <2>1, <2>2 DEF RecordAllocation
<1>10. CASE ReportConflict \/ ReportFailure
  <2>1. CASE UNCHANGED cfg
    BY <1>1, <1>10, <2>1 DEF ReportConflict, ReportFailure, Return
  <2>2. ASSUME NEW o \in ConfigObjects, o.finalizer = hc.finalizer, ConfigAccepted, StoreConfig(cur, o)
        PROVE  CleanupInv'
    <3>1. hc.finalizer /\ pc # "idle" /\ pc' = "idle" /\ UNCHANGED <<cfgCache, used>>
      BY <1>10 DEF CleanupInv, ReportConflict, ReportFailure, Return
    <3> QED  BY <1>2, <2>2, <3>1
  <2>3. /\ WithConflict(hc) \in ConfigObjects
        /\ WithConflict(hc).finalizer = hc.finalizer
    BY <1>0, EditDegraded DEF EditOf
  <2>4. /\ WithFailure(hc) \in ConfigObjects
        /\ WithFailure(hc).finalizer = hc.finalizer
    BY <1>0, EditFailed DEF EditOf
  <2> QED  BY <1>10, <2>1, <2>2, <2>3, <2>4 DEF ReportConflict, ReportFailure
<1>11. CASE ReleaseAll
  BY <1>11 DEF ReleaseAll, CleanupInv
<1>12. ASSUME NEW n \in Names, ClearIngress(n)  PROVE  CleanupInv'
  BY <1>1, <1>12 DEF ClearIngress
<1>13. CASE RemoveFinalizer
  <2>1. CASE UNCHANGED cfg
    BY <1>1, <1>13, <2>1 DEF RemoveFinalizer, Return
  <2>2. CASE ConfigAccepted /\ StoreConfig(cur, NoConfig)
    <3>1. pc # "idle" /\ pc' = "idle" /\ UNCHANGED <<cfgCache, used>>
      BY <1>13 DEF RemoveFinalizer, Return
    <3> QED  BY <1>2, <2>2, <3>1, NoConfigShape, RecordedNew
  <2> QED  BY <1>13, <2>1, <2>2 DEF RemoveFinalizer
\* Writes of users: only an object without finalizer disappears at once.
<1>14. ASSUME NEW c \in Configs, NEW o, UserWritesConfig(c, o), Recorded(o) # {} => o.finalizer
       PROVE  CleanupInv'
  <2>1. cfg'[c] = o /\ (\A d \in Configs \ {c} : cfg'[d] = cfg[d]) /\ UNCHANGED <<pc, hc, used>>
    BY <1>0, <1>14 DEF UserWritesConfig, TypeOK, ServerTypes
  <2>2. Kept'
    BY <1>14, <2>1 DEF CleanupInv
  <2> QED  BY <2>1, <2>2 DEF CleanupInv
<1>15. CASE UserStep
  <2>1. ASSUME NEW c \in Configs, NEW spec \in ConfigSpecs, CreateConfig(c, spec)  PROVE  CleanupInv'
    BY <1>14, <2>1, RecordedNew DEF CreateConfig
  <2>2. ASSUME NEW c \in Configs, NEW o \in ConfigObjects, UserWritesConfig(c, o),
               Recorded(o) = Recorded(cfg[c]), o.finalizer = cfg[c].finalizer
        PROVE  CleanupInv'
    <3>1. Recorded(o) # {} => o.finalizer
      BY <2>2 DEF CleanupInv
    <3> QED  BY <1>14, <2>2, <3>1
  <2>3. ASSUME NEW c \in Configs, NEW spec \in ConfigSpecs, UpdateConfig(c, spec)  PROVE  CleanupInv'
    <3> DEFINE o == WithSpec(cfg[c], spec)
    <3>1. cfg[c] \in ConfigObjects
      BY <1>0 DEF TypeOK, ServerTypes
    <3>2. o \in ConfigObjects /\ Recorded(o) = Recorded(cfg[c]) /\ o.finalizer = cfg[c].finalizer
      BY <3>1, EditSpec DEF EditOf
    <3> QED  BY <2>2, <2>3, <3>2 DEF UpdateConfig
  <2>4. ASSUME NEW c \in Configs, DeleteConfig(c)  PROVE  CleanupInv'
    <3> DEFINE o == WithDeletion(cfg[c])
    <3>1. cfg[c] \in ConfigObjects
      BY <1>0 DEF TypeOK, ServerTypes
    <3>2. o \in ConfigObjects /\ Recorded(o) = Recorded(cfg[c]) /\ o.finalizer = cfg[c].finalizer
      BY <3>1, EditDeleting DEF EditOf
    <3>3. CASE cfg[c].finalizer
      BY <2>2, <2>4, <3>2, <3>3 DEF DeleteConfig
    <3>4. CASE ~cfg[c].finalizer
      BY <1>14, <2>4, <3>4, RecordedNew DEF DeleteConfig
    <3> QED  BY <3>3, <3>4
  <2>5. ASSUME NEW s \in Services, NEW o, UserWritesService(s, o)  PROVE  CleanupInv'
    BY <1>1, <2>5 DEF UserWritesService
  <2> QED  BY <1>15, <2>1, <2>3, <2>4, <2>5 DEF UserStep, DeleteService, EditService, CreateService
<1>16. ASSUME \/ \E c \in Configs : WatchConfig(c)
              \/ \E s \in Services : WatchService(s)
              \/ Restart
              \/ UNCHANGED vars
       PROVE  CleanupInv'
  BY <1>1, <1>16 DEF WatchConfig, WatchService, Restart, worker, vars
<1> QED  BY <1>3, <1>4, <1>5, <1>6, <1>7, <1>8, <1>9, <1>10, <1>11, <1>12, <1>13, <1>15, <1>16
         DEF Next, WorkerStep

\* which holds when the controller starts, where nothing is recorded.
LEMMA CleanupInit == Init => CleanupInv
<1> SUFFICES ASSUME Init PROVE CleanupInv
  OBVIOUS
<1>1. \A c \in Configs : cfg[c] = NoConfig \/ \E spec \in ConfigSpecs : cfg[c] = NewConfig(spec)
  BY DEF Init
<1>2. \A c \in Configs : Recorded(cfg[c]) = {}
  BY <1>1, RecordedNew
<1> QED  BY <1>2 DEF CleanupInv, Init

\* The step by which a config disappears is the removal of the finalizer, or
\* the deletion of an object that does not have it.
LEMMA GoneStep ==
  ASSUME CrossInv, Next, NEW c \in Configs, cfg[c].exists, ~cfg'[c].exists
  PROVE  /\ used' = used
         /\ \/ pc = "clear" /\ clear = {} /\ c = cur /\ cfg[c] = hc
            \/ ~cfg[c].finalizer
<1> USE DEF api, cache, job
<1>0. cfg \in [Configs -> ConfigObjects] /\ hc \in ConfigObjects /\ (pc # "idle" => cur \in Configs)
  BY DEF CrossInv, TypeOK, ServerTypes, RequestTypes
<1>1. ASSUME UNCHANGED cfg  PROVE FALSE
  BY <1>1
\* A status write keeps the object.
<1>2. ASSUME pc # "idle", hcFresh, NEW o, StoreConfig(cur, o), o.exists = hc.exists  PROVE FALSE
  <2>1. cfg[cur] = hc
    BY <1>2 DEF CrossInv, CopyVersion
  <2> QED  BY <1>0, <1>2, <2>1 DEF StoreConfig
<1>3. CASE AddFinalizer \/ InitialCondition \/ RecordAllocation
  <2>1. ConfigAccepted /\ StoreConfig(cur, hc') /\ hc'.exists = hc.exists /\ pc # "idle"
    <3>1. CASE AddFinalizer
      BY <1>0, <1>1, <3>1, EditFinalizer DEF AddFinalizer, EditOf
    <3>2. CASE InitialCondition
      BY <1>0, <1>1, <3>2, EditReady DEF InitialCondition, EditOf
    <3>3. CASE RecordAllocation
      <4>1. target.name \in Names /\ ip \in Addr \cup {NoIP} /\ ipv6 \in Addr \cup {NoIP}
        BY <3>3 DEF RecordAllocation, CrossInv, TypeOK, JobTypes, Names
      <4>2. hc' = WithAllocation(hc, target.name, ip, ipv6) => hc'.exists = hc.exists
        BY SMT, <1>0, <4>1, EditRecord
      <4> QED  BY <1>1, <3>3, <4>2 DEF RecordAllocation
    <3> QED  BY <1>3, <3>1, <3>2, <3>3
  <2> QED  BY <1>2, <2>1 DEF ConfigAccepted
<1>4. CASE ReportConflict
  <2>1. WithConflict(hc).exists = hc.exists
    BY <1>0, EditDegraded DEF EditOf
  <2> QED  BY <1>1, <1>2, <1>4, <2>1 DEF ReportConflict, ConfigAccepted
<1>5. CASE ReportFailure
  <2>1. WithFailure(hc).exists = hc.exists
    BY <1>0, EditFailed DEF EditOf
  <2> QED  BY <1>1, <1>2, <1>5, <2>1 DEF ReportFailure, ConfigAccepted
<1>6. CASE RemoveFinalizer
  <2>1. ConfigAccepted /\ StoreConfig(cur, NoConfig) /\ pc = "clear" /\ clear = {} /\ used' = used
    BY <1>1, <1>6 DEF RemoveFinalizer
  <2>2. c = cur
    BY <1>0, <2>1 DEF StoreConfig
  <2>3. cfg[cur] = hc
    BY <2>1 DEF ConfigAccepted, CrossInv, CopyVersion
  <2> QED  BY <2>1, <2>2, <2>3
<1>7. CASE UserStep
  <2>1. PICK d \in Configs :
          DeleteConfig(d) \/ \E spec \in ConfigSpecs : CreateConfig(d, spec) \/ UpdateConfig(d, spec)
    BY <1>1, <1>7 DEF UserStep, DeleteService, EditService, CreateService, UserWritesService
  <2>2. ASSUME NEW o, UserWritesConfig(d, o)  PROVE  d = c /\ o = cfg'[c] /\ used' = used
    BY <1>0, <2>2 DEF UserWritesConfig
  <2>3. ASSUME NEW spec \in ConfigSpecs, CreateConfig(d, spec)  PROVE FALSE
    BY <2>2, <2>3 DEF CreateConfig
  <2>4. ASSUME NEW spec \in ConfigSpecs, UpdateConfig(d, spec)  PROVE FALSE
    <3>1. d = c /\ cfg'[c] = WithSpec(cfg[c], spec)
      BY <2>2, <2>4 DEF UpdateConfig
    <3> QED  BY <1>0, <3>1, EditSpec DEF EditOf
  <2>5. CASE DeleteConfig(d)
    <3>1. d = c /\ used' = used
          /\ cfg'[c] = IF cfg[c].finalizer THEN WithDeletion(cfg[c]) ELSE NoConfig
      BY <2>2, <2>5 DEF DeleteConfig
    <3>2. ~cfg[c].finalizer
      BY <1>0, <3>1, EditDeleting DEF EditOf
    <3> QED  BY <3>1, <3>2
  <2> QED  BY <2>1, <2>3, <2>4, <2>5
<1>8. CASE \/ \E d \in Configs : ReconcileGet(d) \/ WatchConfig(d)
           \/ \E s \in Services : WatchService(s)
           \/ Restart
           \/ ListServices \/ LoopEnds \/ (\E item \in todo : Allocate(item)) \/ AllocateListFails
           \/ AssignStatus \/ AssignSpec \/ ReleaseAll \/ (\E n \in Names : ClearIngress(n))
  BY <1>1, <1>8 DEF ReconcileGet, WatchConfig, WatchService, Restart, ListServices, LoopEnds, Allocate,
                    AllocateListFails, AssignStatus, AssignSpec, ReleaseAll, ClearIngress
<1> QED  BY <1>3, <1>4, <1>5, <1>6, <1>7, <1>8 DEF Next, WorkerStep

\* Only a config with the finalizer records addresses, and a cleanup that has
\* begun leaves none of them marked.
THEOREM CleanupInvariant == Spec => []CleanupInv
<1>1. CrossInv /\ CleanupInv /\ [Next]_vars => CleanupInv'
  BY CleanupNext
<1> QED  BY CrossInvariant, CleanupInit, <1>1, PTL DEF Spec

\* When a HeliosConfig disappears, every address its status records has been
\* released from the allocator, by that very step at the latest: stale copies
\* and users who delete at any moment included.
THEOREM CleanedUpBeforeGone == Spec => CleanedUpFirst
<1>1. CrossInv /\ CleanupInv /\ [Next]_vars
        => [\A c \in Configs : cfg[c].exists /\ ~cfg'[c].exists => Recorded(cfg[c]) \cap used' = {}]_vars
  <2>1. ASSUME CrossInv, CleanupInv, Next, NEW c \in Configs, cfg[c].exists, ~cfg'[c].exists
        PROVE  Recorded(cfg[c]) \cap used' = {}
    BY <2>1, GoneStep DEF CleanupInv
  <2> QED  BY <2>1
<1> QED  BY CrossInvariant, CleanupInvariant, <1>1, PTL DEF Spec, CleanedUpFirst

-----------------------------------------------------------------------------
(* Allocations stay recorded, within the quota.                            *)

\* p is o with something changed other than its spec and its IPv4 records.
SameRecords(p, o) ==
  p.exists = o.exists /\ p.spec = o.spec /\ p.allocatedIPs = o.allocatedIPs

\* The writes that neither record an allocation nor change the spec.
LEMMA PlainEdits ==
  ASSUME NEW o \in ConfigObjects
  PROVE  /\ SameRecords(WithFinalizer(o), o) /\ SameRecords(WithInitialCondition(o), o)
         /\ SameRecords(WithConflict(o), o) /\ SameRecords(WithFailure(o), o)
         /\ SameRecords(WithDeletion(o), o)
<1>1. SameRecords(WithFinalizer(o), o)
  BY DEF ConfigObjects, SameRecords, WithFinalizer
<1>2. SameRecords(WithInitialCondition(o), o)
  BY DEF ConfigObjects, SameRecords, WithInitialCondition
<1>3. SameRecords(WithConflict(o), o)
  BY DEF ConfigObjects, SameRecords, WithConflict
<1>4. SameRecords(WithFailure(o), o)
  BY DEF ConfigObjects, SameRecords, WithFailure
<1>5. SameRecords(WithDeletion(o), o)
  BY DEF ConfigObjects, SameRecords, WithDeletion
<1> QED  BY <1>1, <1>2, <1>3, <1>4, <1>5

\* An object nobody has allocated for.
LEMMA NothingAllocated ==
  /\ NoConfig.exists = FALSE /\ Allocations(NoConfig) = {}
  /\ \A spec \in ConfigSpecs : /\ NewConfig(spec).exists /\ NewConfig(spec).spec = spec
                               /\ Allocations(NewConfig(spec)) = {}
BY DEF NoConfig, NewConfig, NoIPs, Allocations

-----------------------------------------------------------------------------
(* What a step may do to a config.                                         *)

Respecified(c) ==
  /\ left["updateConfig"] > 0
  /\ cfg[c].exists /\ cfg'[c].exists /\ cfg'[c].spec \in ConfigSpecs
  /\ cfg'[c].allocatedIPs = cfg[c].allocatedIPs

RecordedFor(c) ==
  pc = "record" /\ cfg[c] = hc /\ cfg'[c] = WithAllocation(hc, target.name, ip, ipv6)

Created(c) == ~cfg[c].exists /\ \E spec \in ConfigSpecs : cfg'[c] = NewConfig(spec)

Change(c) ==
  \/ SameRecords(cfg'[c], cfg[c]) \/ Respecified(c) \/ RecordedFor(c)
  \/ Created(c) \/ cfg'[c] = NoConfig

\* Every step changes a config in one of these five ways.
LEMMA ConfigChange ==
  \A c \in Configs :
    CrossInv /\ [Next]_vars
      => Change(c)
\* A new spec leaves the records alone.
<1>SpecEdit.
  ASSUME NEW o \in ConfigObjects, NEW spec \in ConfigSpecs
  PROVE  /\ WithSpec(o, spec).exists = o.exists /\ WithSpec(o, spec).spec = spec
         /\ WithSpec(o, spec).allocatedIPs = o.allocatedIPs
  BY DEF ConfigObjects, WithSpec
\* A write of the worker on its current copy changes that config only.
<1>WorkerChange.
  ASSUME CrossInv, pc # "idle", ConfigAccepted, NEW o, StoreConfig(cur, o), NEW c \in Configs,
         \/ SameRecords(o, hc) \/ o = NoConfig
         \/ pc = "record" /\ o = WithAllocation(hc, target.name, ip, ipv6)
  PROVE  Change(c)
  <2> USE <1>WorkerChange
  <2>1. cfg[cur] = hc /\ cur \in Configs
    BY DEF CrossInv, CopyVersion, ConfigAccepted, TypeOK, RequestTypes
  <2>2. cfg'[cur] = o /\ \A d \in Configs \ {cur} : cfg'[d] = cfg[d]
    BY <2>1 DEF CrossInv, TypeOK, ServerTypes, StoreConfig
  <2>3. CASE c = cur
    BY <2>1, <2>2, <2>3 DEF Change, RecordedFor
  <2>4. CASE c # cur
    BY <2>2, <2>4 DEF Change, SameRecords
  <2> QED  BY <2>3, <2>4
<1> SUFFICES ASSUME NEW c \in Configs, CrossInv, [Next]_vars
             PROVE  Change(c)
  OBVIOUS
<1> USE DEF api, cache, job
<1>0. cfg \in [Configs -> ConfigObjects] /\ hc \in ConfigObjects
  BY DEF CrossInv, TypeOK, ServerTypes, RequestTypes
<1>1. ASSUME UNCHANGED cfg  PROVE  Change(c)
  BY <1>1 DEF Change, SameRecords
<1>2. CASE AddFinalizer \/ InitialCondition
  <2>1. CASE UNCHANGED cfg
    BY <1>1, <2>1
  <2>2. CASE ConfigAccepted /\ StoreConfig(cur, hc') /\ SameRecords(hc', hc) /\ pc # "idle"
    BY <2>2, <1>WorkerChange
  <2> QED  BY <1>0, <1>2, <2>1, <2>2, PlainEdits DEF AddFinalizer, InitialCondition
<1>3. CASE ReportConflict \/ ReportFailure \/ RemoveFinalizer
  <2>1. CASE UNCHANGED cfg
    BY <1>1, <2>1
  <2>2. ASSUME NEW o, ConfigAccepted, StoreConfig(cur, o), SameRecords(o, hc) \/ o = NoConfig, pc # "idle"
        PROVE  Change(c)
    BY <2>2, <1>WorkerChange
  <2> QED  BY <1>0, <1>3, <2>1, <2>2, PlainEdits DEF ReportConflict, ReportFailure, RemoveFinalizer
<1>4. CASE RecordAllocation
  <2>1. CASE UNCHANGED cfg
    BY <1>1, <2>1
  <2>2. CASE ConfigAccepted /\ StoreConfig(cur, WithAllocation(hc, target.name, ip, ipv6)) /\ pc = "record"
    BY <2>2, <1>WorkerChange
  <2> QED  BY <1>4, <2>1, <2>2 DEF RecordAllocation
<1>5. CASE UserStep
  <2>1. ASSUME NEW d \in Configs, NEW o, UserWritesConfig(d, o)
        PROVE  cfg'[d] = o /\ (c # d => Change(c))
    BY <1>0, <2>1 DEF UserWritesConfig, Change, SameRecords
  <2>2. ASSUME NEW d \in Configs, NEW spec \in ConfigSpecs, CreateConfig(d, spec)  PROVE  Change(c)
    BY <2>1, <2>2 DEF CreateConfig, Change, Created
  <2>3. ASSUME NEW d \in Configs, NEW spec \in ConfigSpecs, UpdateConfig(d, spec)  PROVE  Change(c)
    <3>1. /\ cfg[d].exists /\ cfg'[d] = WithSpec(cfg[d], spec) /\ (c # d => Change(c))
          /\ left["updateConfig"] > 0
      BY <2>1, <2>3 DEF UpdateConfig, Spend
    <3>2. Respecified(d)
      BY SMT, <1>0, <3>1, <1>SpecEdit DEF Respecified
    <3> QED  BY <3>1, <3>2 DEF Change
  <2>4. ASSUME NEW d \in Configs, DeleteConfig(d)  PROVE  Change(c)
    <3>1. cfg'[d] = (IF cfg[d].finalizer THEN WithDeletion(cfg[d]) ELSE NoConfig) /\ (c # d => Change(c))
      BY <2>1, <2>4 DEF DeleteConfig
    <3>2. SameRecords(cfg'[d], cfg[d]) \/ cfg'[d] = NoConfig
      BY <1>0, <3>1, PlainEdits
    <3> QED  BY <3>1, <3>2 DEF Change
  <2>5. ASSUME NEW s \in Services, NEW o, UserWritesService(s, o)  PROVE  Change(c)
    BY <1>1, <2>5 DEF UserWritesService
  <2> QED  BY <1>5, <2>2, <2>3, <2>4, <2>5 DEF UserStep, DeleteService, EditService, CreateService
<1>6. CASE \/ \E d \in Configs : ReconcileGet(d) \/ WatchConfig(d)
           \/ \E s \in Services : WatchService(s)
           \/ Restart \/ UNCHANGED vars
           \/ ListServices \/ LoopEnds \/ (\E item \in todo : Allocate(item)) \/ AllocateListFails
           \/ AssignStatus \/ AssignSpec \/ ReleaseAll \/ (\E n \in Names : ClearIngress(n))
  <2>1. UNCHANGED cfg
    BY <1>6
       DEF ReconcileGet, WatchConfig, WatchService, Restart, ListServices, LoopEnds, Allocate,
           AllocateListFails, AssignStatus, AssignSpec, ReleaseAll, ClearIngress, vars
  <2> QED  BY <1>1, <2>1
<1> QED  BY <1>2, <1>3, <1>4, <1>5, <1>6 DEF Next, WorkerStep

\* What is known when an allocation is recorded for c.
LEMMA RecordedForFacts ==
  \A c \in Configs :
    CrossInv /\ QuotaInv /\ RecordedFor(c)
      => /\ cfg'[c].exists = cfg[c].exists /\ cfg'[c].spec = cfg[c].spec
         /\ Allocations(cfg'[c]) = Allocations(cfg[c]) \cup {target.name}
         /\ \A n \in Names : cfg[c].allocatedIPs[n] # NoIP => cfg'[c].allocatedIPs[n] # NoIP
         /\ ~QuotaReached(cfg[c])
\* An allocation is recorded under one name; the other records stay.
<1>AllocationEdit.
  ASSUME NEW o \in ConfigObjects, NEW n \in Names, NEW i \in Addr, NEW j \in Addr \cup {NoIP}
  PROVE  LET p == WithAllocation(o, n, i, j)
         IN  /\ p.exists = o.exists /\ p.spec = o.spec
             /\ Allocations(p) = Allocations(o) \cup {n}
             /\ \A m \in Names : o.allocatedIPs[m] # NoIP => p.allocatedIPs[m] # NoIP
  <2> DEFINE p == WithAllocation(o, n, i, j)
  <2>1. /\ p.exists = o.exists /\ p.spec = o.spec
        /\ p.allocatedIPs = [o.allocatedIPs EXCEPT ![n] = i]
    BY DEF ConfigObjects, WithAllocation
  <2>2. o.allocatedIPs \in [Names -> Addr \cup {NoIP}]
    BY DEF ConfigObjects
  <2> HIDE DEF p
  <2>3. i # NoIP
    BY NoIPNotAddr
  <2>4. \A m \in Names : p.allocatedIPs[m] = IF m = n THEN i ELSE o.allocatedIPs[m]
    BY <2>1, <2>2
  <2>5. Allocations(p) = Allocations(o) \cup {n}
    BY <2>3, <2>4 DEF Allocations
  <2>6. \A m \in Names : o.allocatedIPs[m] # NoIP => p.allocatedIPs[m] # NoIP
    BY <2>3, <2>4
  <2> QED  BY <2>1, <2>5, <2>6 DEF p
<1> SUFFICES ASSUME NEW c \in Configs, CrossInv, QuotaInv, RecordedFor(c)
             PROVE  /\ cfg'[c].exists = cfg[c].exists /\ cfg'[c].spec = cfg[c].spec
                    /\ Allocations(cfg'[c]) = Allocations(cfg[c]) \cup {target.name}
                    /\ \A n \in Names : cfg[c].allocatedIPs[n] # NoIP => cfg'[c].allocatedIPs[n] # NoIP
                    /\ ~QuotaReached(cfg[c])
  OBVIOUS
<1>1. pc = "record" /\ cfg[c] = hc /\ cfg'[c] = WithAllocation(hc, target.name, ip, ipv6)
  BY DEF RecordedFor
<1>2. /\ hc \in ConfigObjects /\ target.name \in Names /\ ipv6 \in Addr \cup {NoIP}
      /\ ip \in Addr /\ ~QuotaReached(hc)
  BY <1>1 DEF CrossInv, TypeOK, RequestTypes, JobTypes, Names, QuotaInv, Assigning
<1> QED  BY SMT, <1>1, <1>2, <1>AllocationEdit

\* Every step keeps the invariant behind the quota.
LEMMA QuotaStep ==
  CrossInv /\ QuotaInv /\ [Next]_vars
    => QuotaInv'
\* An assignment begins below the quota, with an address, and goes on with
\* the same copy of the config and the same address.
<1>AssigningStep.
  ASSUME CrossInv, [Next]_vars, Assigning'
  PROVE  /\ hc' = hc
         /\ (Assigning /\ ip' = ip) \/ (ip' \in Addr /\ ~QuotaReached(hc))
  <2> USE <1>AssigningStep
  <2> USE DEF Assigning
  <2>1. ASSUME NEW item \in todo, Allocate(item)
        PROVE  hc' = hc /\ ip' \in Addr /\ ~QuotaReached(hc)
    <3>1. hc' = hc /\ ~QuotaReached(hc)
      BY <2>1 DEF Allocate
    <3>2. ip' \in Addr
      BY <2>1, AllocateAnswer DEF CrossInv
    <3> QED  BY <3>1, <3>2
  <2>2. CASE AssignStatus \/ AssignSpec
    <3>1. hc' = hc /\ pc \in {"assign", "specUpdate"}
      BY <2>2 DEF AssignStatus, AssignSpec
    <3>2. pc' = "fail" \/ ip' = ip
      BY <2>2 DEF AssignStatus, AssignSpec, TryAgain, AssignFails, job
    <3> QED  BY <3>1, <3>2
  <2>3. ASSUME UNCHANGED <<pc, hc, ip>>
        PROVE  hc' = hc /\ Assigning /\ ip' = ip
    BY <2>3
  <2>4. CASE UserStep
    BY <2>3, <2>4
       DEF UserStep, DeleteConfig, CreateConfig, UpdateConfig, UserWritesConfig,
           DeleteService, EditService, CreateService, UserWritesService, job
  <2>5. CASE \/ \E c \in Configs : WatchConfig(c)
             \/ \E s \in Services : WatchService(s)
             \/ UNCHANGED vars
    BY <2>3, <2>5 DEF WatchConfig, WatchService, worker, job, vars
  <2>6. CASE \/ \E c \in Configs : ReconcileGet(c)
             \/ AddFinalizer \/ InitialCondition \/ ListServices \/ ReportConflict \/ LoopEnds
             \/ AllocateListFails \/ RecordAllocation \/ ReportFailure
    BY <2>6 DEF ReconcileGet, AddFinalizer, InitialCondition, ListServices, ListFails, ReportConflict,
                LoopEnds, AllocateListFails, RecordAllocation, ReportFailure, Return
  <2>7. CASE ReleaseAll \/ (\E n \in Names : ClearIngress(n)) \/ RemoveFinalizer \/ Restart
    BY <2>7 DEF ReleaseAll, ClearIngress, RemoveFinalizer, Restart, Return
  <2> QED  BY <2>1, <2>2, <2>4, <2>5, <2>6, <2>7 DEF Next, WorkerStep
\* The copy a busy worker holds is of an object that was there.
<1>BusyStep.
  ASSUME CrossInv, QuotaInv, [Next]_vars, pc' # "idle"
  PROVE  hc'.exists
  <2> USE <1>BusyStep
  <2> USE DEF api, cache, job
  <2>0. hc \in ConfigObjects /\ (pc # "idle" => hc.exists)
    BY DEF CrossInv, TypeOK, RequestTypes, QuotaInv
  <2>1. ASSUME UNCHANGED hc, pc # "idle"  PROVE  hc'.exists
    BY <2>0, <2>1
  <2>2. ASSUME NEW c \in Configs, ReconcileGet(c)  PROVE  hc'.exists
    BY <2>2 DEF ReconcileGet
  <2>3. CASE AddFinalizer \/ InitialCondition
    <3>1. pc # "idle" /\ SameRecords(hc', hc)
      BY <2>0, <2>3, PlainEdits DEF AddFinalizer, InitialCondition, Return
    <3> QED  BY <2>0, <3>1 DEF SameRecords
  <2>4. CASE RecordAllocation
    <3>1. pc = "record" /\ hc' = WithAllocation(hc, target.name, ip, ipv6)
      BY <2>4 DEF RecordAllocation, Return
    <3>2. target.name \in Names /\ ipv6 \in Addr \cup {NoIP} /\ ip \in Addr \cup {NoIP}
      BY <3>1 DEF CrossInv, TypeOK, JobTypes, Names
    <3> QED  BY <2>0, <3>1, <3>2, EditRecord
  <2>5. CASE \/ ListServices \/ LoopEnds \/ AllocateListFails \/ ReportConflict \/ ReportFailure
             \/ AssignStatus \/ AssignSpec \/ (\E item \in todo : Allocate(item))
    <3>1. UNCHANGED hc /\ pc # "idle"
      BY <2>5
         DEF ListServices, ListFails, LoopEnds, AllocateListFails, ReportConflict, ReportFailure,
             AssignStatus, AssignSpec, Allocate, Return
    <3> QED  BY <2>1, <3>1
  <2>6. CASE ReleaseAll \/ (\E n \in Names : ClearIngress(n)) \/ RemoveFinalizer
    BY <2>1, <2>6 DEF ReleaseAll, ClearIngress, RemoveFinalizer, Return
  <2>7. CASE UserStep
    <3>1. UNCHANGED <<hc, pc>>
      BY <2>7
         DEF UserStep, DeleteConfig, CreateConfig, UpdateConfig, UserWritesConfig,
             DeleteService, EditService, CreateService, UserWritesService
    <3> QED  BY <2>1, <3>1
  <2>8. CASE \/ \E c \in Configs : WatchConfig(c)
             \/ \E s \in Services : WatchService(s)
             \/ Restart \/ UNCHANGED vars
    BY <2>1, <2>8 DEF WatchConfig, WatchService, Restart, worker, vars
  <2> QED  BY <2>2, <2>3, <2>4, <2>5, <2>6, <2>7, <2>8 DEF Next, WorkerStep
<1> SUFFICES ASSUME CrossInv, QuotaInv, [Next]_vars
             PROVE  QuotaInv'
  OBVIOUS
<1>1. ASSUME NEW c \in Configs
      PROVE  /\ IsFiniteSet(Allocations(cfg'[c]))
             /\ cfg'[c].exists => cfg'[c].spec \in ConfigSpecs
             /\ ~cfg'[c].exists => Allocations(cfg'[c]) = {}
  <2>0. /\ IsFiniteSet(Allocations(cfg[c]))
        /\ cfg[c].exists => cfg[c].spec \in ConfigSpecs
        /\ ~cfg[c].exists => Allocations(cfg[c]) = {}
    BY <1>1 DEF QuotaInv
  <2>1. CASE SameRecords(cfg'[c], cfg[c])
    BY <2>0, <2>1 DEF SameRecords, Allocations
  <2>2. CASE Respecified(c)
    BY <2>0, <2>2 DEF Respecified, Allocations
  <2>3. CASE RecordedFor(c)
    <3>1. /\ cfg'[c].exists = cfg[c].exists /\ cfg'[c].spec = cfg[c].spec
          /\ Allocations(cfg'[c]) = Allocations(cfg[c]) \cup {target.name}
      BY <2>3, RecordedForFacts
    <3>2. cfg[c].exists
      BY <2>3 DEF RecordedFor, QuotaInv
    <3>3. IsFiniteSet(Allocations(cfg'[c]))
      BY SMTT(30), <2>0, <3>1, FS_AddElement
    <3> QED  BY <2>0, <3>1, <3>2, <3>3
  <2>4. CASE Created(c) \/ cfg'[c] = NoConfig
    BY <2>4, NothingAllocated, FS_EmptySet DEF Created
  <2> QED  BY <1>1, <2>1, <2>2, <2>3, <2>4, ConfigChange DEF Change
<1>2. pc' # "idle" => hc'.exists
  BY <1>BusyStep
<1>3. Assigning' => ip' \in Addr /\ ~QuotaReached(hc)'
  <2>1. SUFFICES ASSUME Assigning'  PROVE  ip' \in Addr /\ ~QuotaReached(hc)'
    OBVIOUS
  <2>2. hc' = hc /\ ((Assigning /\ ip' = ip) \/ (ip' \in Addr /\ ~QuotaReached(hc)))
    BY <2>1, <1>AssigningStep
  <2> QED  BY <2>2 DEF QuotaInv, QuotaReached, Allocations
<1> QED  BY <1>1, <1>2, <1>3 DEF QuotaInv, Allocations

\* Nothing is allocated when the controller starts.
LEMMA QuotaInit == Init => QuotaInv /\ QuotaKept
<1> SUFFICES ASSUME Init PROVE QuotaInv /\ QuotaKept
  OBVIOUS
<1>1. \A c \in Configs : cfg[c] = NoConfig \/ \E spec \in ConfigSpecs : cfg[c] = NewConfig(spec)
  BY DEF Init
<1>2. \A c \in Configs : Allocations(cfg[c]) = {}
  BY <1>1, NothingAllocated
<1>3. \A c \in Configs : cfg[c].exists => cfg[c].spec \in ConfigSpecs
  BY <1>1, NothingAllocated
<1>4. pc = "idle"
  BY DEF Init
<1>5. QuotaInv
  BY <1>2, <1>3, <1>4, FS_EmptySet DEF QuotaInv, Assigning
<1>6. \A c \in Configs : cfg[c].spec.maxAllocations \in Nat
  <2>1. NoConfig.spec.maxAllocations = 0
    BY DEF NoConfig, NewConfig, NoSpec
  <2>2. \A spec \in ConfigSpecs : NewConfig(spec).spec.maxAllocations \in Nat
    BY SpecsAssumption DEF NewConfig
  <2> QED  BY SMT, <1>1, <2>1, <2>2
<1>7. \A c \in Configs : Cardinality(Allocations(cfg[c])) = 0
  BY <1>2, FS_EmptySet
<1>8. QuotaKept
  BY SMT, <1>6, <1>7 DEF QuotaKept
<1> QED  BY <1>5, <1>8

\* An object that is not there records nothing, and an allocation under way
\* was admitted on a copy below its quota.
THEOREM QuotaInvariant == Spec => []QuotaInv
<1>1. CrossInv /\ QuotaInv /\ [Next]_vars => QuotaInv'
  BY QuotaStep
<1> QED  BY CrossInvariant, QuotaInit, <1>1, PTL DEF Spec

-----------------------------------------------------------------------------
\* No user changes maxAllocations once a config is there: a lower limit does
\* not take back what was allocated under the old one.
QuotaFixed ==
  \/ \A spec, other \in ConfigSpecs : spec.maxAllocations = other.maxAllocations
  \/ left["updateConfig"] = 0

\* Every step keeps the quota.
LEMMA QuotaKeptStep ==
  ASSUME QuotaFixed, CrossInv, QuotaInv, QuotaKept, [Next]_vars
  PROVE  QuotaKept'
<1> SUFFICES ASSUME NEW c \in Configs, cfg'[c].spec.maxAllocations > 0
             PROVE  Cardinality(Allocations(cfg'[c])) <= cfg'[c].spec.maxAllocations
  BY DEF QuotaKept, Allocations
<1>0. cfg[c].spec.maxAllocations > 0
        => Cardinality(Allocations(cfg[c])) <= cfg[c].spec.maxAllocations
  BY DEF QuotaKept
<1>1. CASE SameRecords(cfg'[c], cfg[c])
  BY <1>0, <1>1 DEF SameRecords, Allocations
<1>2. CASE Respecified(c)
  <2>1. cfg'[c].spec.maxAllocations = cfg[c].spec.maxAllocations
    BY SMT, <1>2 DEF Respecified, QuotaInv, QuotaFixed
  <2>2. Allocations(cfg'[c]) = Allocations(cfg[c])
    BY <1>2 DEF Respecified, Allocations
  <2> QED  BY <1>0, <2>1, <2>2
<1>3. CASE RecordedFor(c)
  <2>1. /\ cfg'[c].spec = cfg[c].spec /\ ~QuotaReached(cfg[c])
        /\ Allocations(cfg'[c]) = Allocations(cfg[c]) \cup {target.name}
    BY <1>3, RecordedForFacts
  <2>2. IsFiniteSet(Allocations(cfg[c]))
    BY DEF QuotaInv
  <2>3. cfg[c].spec.maxAllocations \in Nat
    <3>1. cfg[c].exists
      BY <1>3 DEF RecordedFor, QuotaInv
    <3> QED  BY <3>1, SpecsAssumption DEF QuotaInv
  <2> DEFINE before == Cardinality(Allocations(cfg[c]))
             after  == Cardinality(Allocations(cfg'[c]))
  <2>4. before \in Nat
    BY <2>2, FS_CardinalityType
  <2>5. after = IF target.name \in Allocations(cfg[c]) THEN before ELSE before + 1
    BY <2>1, <2>2, FS_AddElement
  <2>6. ~(cfg[c].spec.maxAllocations > 0 /\ before >= cfg[c].spec.maxAllocations)
    BY <2>1 DEF QuotaReached
  <2> HIDE DEF before, after
  <2>7. after <= cfg'[c].spec.maxAllocations
    BY SMT, <2>1, <2>3, <2>4, <2>5, <2>6
  <2> QED  BY <2>7 DEF after
<1>4. CASE Created(c) \/ cfg'[c] = NoConfig
  <2>1. Cardinality(Allocations(cfg'[c])) = 0
    BY <1>4, NothingAllocated, FS_EmptySet DEF Created
  <2>2. cfg'[c].spec.maxAllocations \in Nat
    <3>1. NoConfig.spec.maxAllocations = 0
      BY DEF NoConfig, NewConfig, NoSpec
    <3>2. \A spec \in ConfigSpecs : NewConfig(spec).spec.maxAllocations \in Nat
      BY SpecsAssumption DEF NewConfig
    <3> QED  BY SMT, <1>4, <3>1, <3>2 DEF Created
  <2> QED  BY SMT, <2>1, <2>2
<1> QED  BY <1>1, <1>2, <1>3, <1>4, ConfigChange DEF Change

\* The status of a config never records more allocations than maxAllocations:
\* CheckQuota may count on a stale copy, but the write that records the
\* allocation is accepted only if that copy is the current one.
THEOREM QuotaIsKept ==
  ASSUME \/ \A spec, other \in ConfigSpecs : spec.maxAllocations = other.maxAllocations
         \/ Budget["updateConfig"] = 0
  PROVE  Spec => []QuotaKept
<1>1. Init => QuotaFixed
  BY DEF Init, QuotaFixed
<1>2. CrossInv /\ QuotaFixed /\ [Next]_vars => QuotaFixed'
  BY BudgetStep DEF CrossInv, QuotaFixed, Disruptions
<1>3. CrossInv /\ QuotaInv /\ QuotaFixed /\ QuotaKept /\ [Next]_vars => QuotaKept'
  BY QuotaKeptStep
<1> QED  BY CrossInvariant, QuotaInvariant, QuotaInit, <1>1, <1>2, <1>3, PTL DEF Spec

\* No write of a status, each of which carries the whole of it, undoes an
\* allocation recorded before, whatever users and watches do in between.
THEOREM NoRecordLost == Spec => RecordsKept
<1>1. ASSUME CrossInv, QuotaInv, [Next]_vars, NEW c \in Configs, NEW n \in Names,
             cfg[c].allocatedIPs[n] # NoIP, cfg'[c].exists
      PROVE  cfg'[c].allocatedIPs[n] # NoIP
  <2>1. CASE SameRecords(cfg'[c], cfg[c]) \/ Respecified(c)
    BY <1>1, <2>1 DEF SameRecords, Respecified
  <2>2. CASE RecordedFor(c)
    BY <1>1, <2>2, RecordedForFacts
  <2>3. CASE Created(c) \/ cfg'[c] = NoConfig
    BY <1>1, <2>3, NothingAllocated DEF Created, QuotaInv, Allocations
  <2> QED  BY <1>1, <2>1, <2>2, <2>3, ConfigChange DEF Change
<1>2. CrossInv /\ QuotaInv /\ [Next]_vars
        => [\A c \in Configs, n \in Names :
              cfg[c].allocatedIPs[n] # NoIP /\ cfg'[c].exists => cfg'[c].allocatedIPs[n] # NoIP]_vars
  BY <1>1
<1> QED  BY CrossInvariant, QuotaInvariant, <1>2, PTL DEF Spec, RecordsKept

-----------------------------------------------------------------------------
(* StableInv and ClearedInv are inductive together.                        *)

\* The cached copies and the absent Services.
StableCopies ==
  \A s \in Services : /\ s \notin staleSvc => svcCache[s] = svc[s]
                      /\ ~svc[s].exists => svc[s].ingress = {}

\* A cleanup clears s.
Cleans(s) ==
  /\ pc = "clear" /\ hc.deleting /\ svc'[s].ingress = {}
  /\ s.ns = cur.ns /\ s.name \in RecordedNames(hc)

\* What StableIngress says of a step.
StableStep ==
  \A s \in Services :
    svc[s].ingress # {} /\ svc'[s].exists /\ svc'[s].ingress # svc[s].ingress
      => Cleans(s) \/ (s = target /\ s \in missed.services)

\* A step keeps StableInv, and the ingress of a Service but for these cases.
LEMMA StableNext ==
  StableInv /\ ClearedInv /\ TypeOK /\ [Next]_vars
    => StableInv' /\ StableStep
\* A step that leaves the loop, or is not in it, has only those to keep.
<1>StableOutside.
  ASSUME StableCopies', pc' \notin {"loop", "assign", "specUpdate", "record"}
  PROVE  StableInv'
  BY <1>StableOutside DEF StableCopies, StableInv, Looping, Assigning
\* A write that leaves the ingress of every Service, or empties it.
<1>StableLoop.
  ASSUME StableInv, UNCHANGED <<pc, todo, missed, target, ip, ipv6>>, StableCopies', TypeOK,
         \A s \in Services : svc'[s].ingress \in {svc[s].ingress, {}}
  PROVE  StableInv'
  <2> USE <1>StableLoop
  <2>1. Looping => /\ \A item \in todo : item.key \notin missed.services => svc'[item.key].ingress = {}
                   /\ \A item, other \in todo : item.key = other.key => item = other
    <3>1. \A item \in todo : item.key \in Services
      BY DEF TypeOK, RequestTypes
    <3> QED  BY <3>1 DEF StableInv
  <2>2. Assigning => /\ target \notin missed.services => svc'[target].ingress \in {{}, InFlight}
                     /\ \A item \in todo : item.key # target
    BY DEF StableInv, TypeOK, JobTypes, Assigning
  <2> QED  BY <2>1, <2>2 DEF StableInv, StableCopies, Looping, Assigning, InFlight
\* The write of the ingress.
<1>StableWrites.
  ASSUME StableInv, TypeOK, Writes
  PROVE  StableInv' /\ StableStep
  <2> USE <1>StableWrites
  <2>1. target \in Services /\ Assigning
    BY DEF Writes, TypeOK, JobTypes, Assigning
  <2>2. svc[target] \in ServiceObjects /\ svc[target].exists
    BY <2>1 DEF Writes, StableInv, TypeOK, ServerTypes
  <2>3. /\ svc'[target].ingress = InFlight /\ svc'[target].exists
        /\ \A t \in Services \ {target} : svc'[t] = svc[t]
        /\ staleSvc \subseteq staleSvc' /\ (svc'[target] # svc[target] => target \in staleSvc')
    BY <2>1, <2>2, IngressWrittenAt DEF Writes
  <2>4. StableCopies'
    BY <2>3 DEF StableCopies, StableInv, Writes
  <2>5. \A item \in todo : /\ item.key \in Services /\ item.key # target
                           /\ item.key \notin missed.services => svc[item.key].ingress = {}
    BY <2>1 DEF StableInv, TypeOK, RequestTypes, Looping
  <2>6. todo' = todo /\ missed' = missed /\ target' = target /\ InFlight' = InFlight
    BY DEF Writes, InFlight
  <2>7. Looping' => /\ \A item \in todo' : item.key \notin missed'.services => svc'[item.key].ingress = {}
                    /\ \A item, other \in todo' : item.key = other.key => item = other
    <3>1. \A item, other \in todo : item.key = other.key => item = other
      BY <2>1 DEF StableInv, Looping
    <3> QED  BY <2>3, <2>5, <2>6, <3>1
  <2>8. Assigning' => /\ target' \notin missed'.services => svc'[target'].ingress \in {{}, InFlight'}
                      /\ \A item \in todo' : item.key # target'
    BY <2>3, <2>5, <2>6
  <2>9. StableStep
    BY <2>1, <2>3 DEF StableInv, StableStep
  <2> QED  BY <2>4, <2>7, <2>8, <2>9 DEF StableInv, StableCopies
\* The loop begins: the Services it listed have no ingress.
<1>StableLists.
  ASSUME StableInv, TypeOK, Lists
  PROVE  StableInv'
  <2> USE <1>StableLists
  <2>1. /\ UNCHANGED <<svc, svcCache, staleSvc>> /\ pc' = "loop" /\ todo' = Eligible(hc.spec)
        /\ missed'.services = {s \in staleSvc : IsEligible(s, hc.spec)}
    BY DEF Lists
  <2>2. \A s \in Services : IsEligible(s, hc.spec) /\ s \notin missed'.services => svc[s].ingress = {}
    <3>1. \A s \in Services : IsEligible(s, hc.spec) => svcCache[s].ingress = {}
      BY DEF IsEligible
    <3> QED  BY <2>1, <3>1 DEF StableInv
  <2>3. \A item \in todo' : \E s \in Services : /\ IsEligible(s, hc.spec)
                                                /\ item = [key |-> s, loadBalancerIP |-> svcCache[s].loadBalancerIP]
    BY <2>1 DEF Eligible
  <2>4. \A item \in todo' : /\ item.key \notin missed'.services => svc[item.key].ingress = {}
                            /\ item = [key |-> item.key, loadBalancerIP |-> svcCache[item.key].loadBalancerIP]
    BY SMT, <2>2, <2>3
  <2>5. \A item, other \in todo' : item.key = other.key => item = other
    BY <2>4
  <2> QED  BY <2>1, <2>4, <2>5 DEF StableInv, Assigning
\* The loop goes on with the next Service.
<1>StableAllocate.
  ASSUME StableInv, TypeOK, NEW item \in todo, Allocate(item)
  PROVE  StableInv'
  <2> USE <1>StableAllocate
  <2>1. pc = "loop" /\ UNCHANGED <<svc, svcCache, staleSvc, missed>>
    BY DEF Allocate, api, cache
  <2>2. \/ pc' = "fail"
        \/ pc' = "assign" /\ target' = item.key /\ todo' = todo \ {item}
    BY AllocateAnswer
  <2>3. /\ \A other \in todo : other.key \notin missed.services => svc[other.key].ingress = {}
        /\ \A a, b \in todo : a.key = b.key => a = b
        /\ StableCopies
    BY <2>1 DEF StableInv, Looping, StableCopies
  <2>4. StableCopies'
    BY <2>1, <2>3 DEF StableCopies
  <2>5. CASE pc' = "fail"
    BY <2>4, <2>5, <1>StableOutside
  <2>6. CASE pc' = "assign" /\ target' = item.key /\ todo' = todo \ {item}
    <3>1. /\ \A other \in todo' : /\ other.key # target'
                                  /\ other.key \notin missed'.services => svc'[other.key].ingress = {}
          /\ \A a, b \in todo' : a.key = b.key => a = b
          /\ target' \notin missed'.services => svc'[target'].ingress = {}
      BY <2>1, <2>3, <2>6
    <3> QED  BY <2>4, <3>1 DEF StableInv, StableCopies
  <2> QED  BY <2>2, <2>5, <2>6
<1> SUFFICES ASSUME StableInv, ClearedInv, TypeOK, [Next]_vars
             PROVE  StableInv' /\ StableStep
  OBVIOUS
<1>0. ASSUME UNCHANGED <<svc, svcCache, staleSvc>>  PROVE  StableCopies' /\ StableStep
  BY <1>0 DEF StableInv, StableCopies, StableStep
<1>1. CASE Elsewhere
  BY <1>0, <1>1, <1>StableOutside DEF Elsewhere
<1>2. CASE Aside \/ Proceeds
  <2>1. UNCHANGED <<svc, svcCache, staleSvc, todo, missed, target, ip, ipv6>> /\ (Looping' <=> Looping) /\ (Assigning' <=> Assigning)
    BY <1>2 DEF Aside, Proceeds, Looping, Assigning
  <2>2. StableInv'
    BY <2>1 DEF StableInv, InFlight
  <2> QED  BY <1>0, <2>1, <2>2
<1>3. CASE Lists
  BY <1>0, <1>3, <1>StableLists DEF Lists
<1>4. CASE Writes
  BY <1>4, <1>StableWrites
<1>5. CASE Retries
  <2>1. UNCHANGED <<svc, svcCache, staleSvc, todo, missed, target, ip, ipv6>> /\ Assigning /\ Assigning' /\ Looping
    BY <1>5 DEF Retries, Looping, Assigning
  <2>2. StableInv'
    BY <2>1 DEF StableInv, InFlight
  <2> QED  BY <1>0, <2>1, <2>2
<1>6. CASE GivesUp
  BY <1>0, <1>6, <1>StableOutside DEF GivesUp, AssignFails
<1>7. CASE Records
  <2>1. /\ UNCHANGED <<svc, svcCache, staleSvc, todo, missed>> /\ Looping /\ pc' = "loop"
    BY <1>7 DEF Records, Looping, Assigning
  <2>2. StableInv'
    BY <2>1 DEF StableInv, Assigning
  <2> QED  BY <1>0, <2>1, <2>2
<1>8. ASSUME NEW item \in todo, Allocate(item)  PROVE  StableInv' /\ StableStep
  <2>1. UNCHANGED <<svc, svcCache, staleSvc>>
    BY <1>8 DEF Allocate, api, cache
  <2> QED  BY <1>0, <1>8, <2>1, <1>StableAllocate
<1>9. ASSUME NEW n \in Names, ClearIngress(n)  PROVE  StableInv' /\ StableStep
  <2> DEFINE t == [ns |-> cur.ns, name |-> n]
  <2>1. pc = "clear" /\ UNCHANGED <<svcCache, pc>> /\ n \in clear
    BY <1>9 DEF ClearIngress
  <2>2. \/ t \in Services /\ StoreService(t, WithIngress(svc[t], {}))
        \/ UNCHANGED <<svc, staleSvc>>
    BY <1>9 DEF ClearIngress
  <2>3. StableCopies' /\ StableStep
    <3>1. CASE UNCHANGED <<svc, staleSvc>>
      BY <1>0, <2>1, <3>1
    <3>2. CASE t \in Services /\ StoreService(t, WithIngress(svc[t], {}))
      <4>0. t.ns = cur.ns /\ t.name \in RecordedNames(hc) /\ hc.deleting
        BY <2>1 DEF ClearedInv
      <4> HIDE DEF t
      <4>1. svc[t] \in ServiceObjects
        BY <3>2 DEF TypeOK, ServerTypes
      <4>2. /\ svc'[t].ingress = {} /\ \A s \in Services \ {t} : svc'[s] = svc[s]
            /\ staleSvc \subseteq staleSvc' /\ (svc'[t] # svc[t] => t \in staleSvc')
        BY <3>2, <4>1, IngressWrittenAt
      <4>3. StableCopies'
        BY <2>1, <4>2 DEF StableInv, StableCopies
      <4>4. StableStep
        BY <2>1, <4>0, <4>2 DEF StableStep, Cleans
      <4> QED  BY <4>3, <4>4
    <3> QED  BY <2>2, <3>1, <3>2
  <2> QED  BY <2>1, <2>3, <1>StableOutside
<1>10. ASSUME NEW s \in Services, WritesService(s)  PROVE  StableInv' /\ StableStep
  <2>1. PICK o : /\ UserWritesService(s, o)
                 /\ \/ o = svc[s]
                    \/ o = NoService
                    \/ \E spec \in ServiceSpecs[s] : ~svc[s].exists /\ o = NewService(spec)
    BY <1>10, WrittenIngress
  <2>2. svc'[s] = o /\ \A t \in Services \ {s} : svc'[t] = svc[t]
    BY <2>1, UserServiceAt
  <2>3. staleSvc' = staleSvc \cup {s} /\ UNCHANGED <<svcCache, pc, todo, missed, target, ip, ipv6>>
    BY <2>1 DEF UserWritesService
  <2>4. o = svc[s] \/ (o.ingress = {} /\ (svc[s].ingress = {} \/ ~o.exists))
    BY <2>1, NewIngress DEF StableInv
  <2>5. StableCopies'
    BY <2>2, <2>3, <2>4 DEF StableInv, StableCopies
  <2>6. \A t \in Services : svc'[t].ingress \in {svc[t].ingress, {}}
    BY <2>2, <2>4
  <2>7. StableStep
    BY <2>2, <2>4 DEF StableStep
  <2> QED  BY <2>3, <2>5, <2>6, <2>7, <1>StableLoop
<1>11. ASSUME NEW s \in Services, WatchService(s)  PROVE  StableInv' /\ StableStep
  <2>1. /\ UNCHANGED <<svc, pc, todo, missed, target, ip, ipv6>> /\ staleSvc' = staleSvc \ {s}
        /\ svcCache' = [svcCache EXCEPT ![s] = svc[s]]
    BY <1>11 DEF WatchService, api, worker, job
  <2>2. StableCopies'
    BY <2>1 DEF StableInv, StableCopies, TypeOK, CacheTypes
  <2>3. StableStep
    BY <2>1 DEF StableStep
  <2> QED  BY <2>1, <2>2, <2>3, <1>StableLoop
<1>12. CASE Restart
  <2>1. UNCHANGED svc /\ svcCache' = svc /\ pc' = "idle"
    BY <1>12 DEF Restart, api
  <2>2. StableCopies'
    BY <2>1 DEF StableInv, StableCopies
  <2>3. StableStep
    BY <2>1 DEF StableStep
  <2> QED  BY <2>1, <2>2, <2>3, <1>StableOutside
<1> QED
  BY <1>1, <1>2, <1>3, <1>4, <1>5, <1>6, <1>7, <1>8, <1>9, <1>10, <1>11, <1>12, StepKinds

\* No Service has an ingress at the start.
LEMMA StableInit == Init => StableInv
<1> SUFFICES ASSUME Init PROVE StableInv
  OBVIOUS
<1>1. \A s \in Services : svc[s] = NoService \/ \E spec : svc[s] = NewService(spec)
  BY DEF Init
<1>2. \A s \in Services : svc[s].ingress = {}
  BY <1>1, NewIngress
<1> QED  BY <1>2 DEF Init, StableInv, Looping, Assigning

\* A step keeps what a cleanup has done.
LEMMA ClearedNext ==
  StableInv /\ ClearedInv /\ TypeOK /\ [Next]_vars
    => ClearedInv'
\* The Services the cleanup works on.
<1> DEFINE Mine(s) == s.ns = cur.ns /\ s.name \in RecordedNames(hc)
\* No cleanup is under way afterwards.
<1>Idle.
  ASSUME pc' \notin {"release", "clear"}
  PROVE  ClearedInv'
  BY <1>Idle DEF ClearedInv
\* A step that takes nothing from what the cleanup has done.
<1>Same.
  ASSUME ClearedInv, UNCHANGED <<pc, cur, hc, clear, missed>>,
         \A s \in Services : svc'[s].ingress \in {svc[s].ingress, {}}
  PROVE  ClearedInv'
  <2> USE <1>Same
  <2>1. RecordedNames(hc)' = RecordedNames(hc)
    BY DEF RecordedNames
  <2> QED  BY <2>1 DEF ClearedInv
<1> SUFFICES ASSUME StableInv, ClearedInv, TypeOK, [Next]_vars
             PROVE  ClearedInv'
  OBVIOUS
<1>1. CASE Elsewhere
  <2>1. CASE pc' = "release"
    BY <1>1, <2>1 DEF Elsewhere, ClearedInv
  <2>2. CASE pc' = "clear"
    <3>1. ReleaseAll
      <4>1. ~RemoveFinalizer
        BY <2>2 DEF RemoveFinalizer, Return
      <4> QED  BY <1>1, <2>2, <4>1 DEF Elsewhere
    <3>2. pc = "release" /\ clear' = RecordedNames(hc) /\ UNCHANGED <<cur, hc>>
      BY <3>1 DEF ReleaseAll
    <3>3. RecordedNames(hc)' = RecordedNames(hc)
      BY <3>2 DEF RecordedNames
    <3> QED  BY <3>2, <3>3 DEF ClearedInv
  <2> QED  BY <1>Idle, <2>1, <2>2
<1>2. CASE Aside
  <2>1. UNCHANGED <<svc, pc, cur, hc, clear, missed>>
    BY <1>2 DEF Aside
  <2> QED  BY <1>Same, <2>1
<1>3. CASE Lists \/ Writes \/ Retries \/ Proceeds \/ GivesUp \/ Records
  BY <1>3, <1>Idle DEF Lists, Writes, Retries, Proceeds, GivesUp, AssignFails, Records
<1>4. ASSUME NEW item \in todo, Allocate(item)  PROVE  ClearedInv'
  <2>1. pc' \in {"fail", "assign"}
    BY <1>4, AllocateAnswer
  <2> QED  BY <1>Idle, <2>1
<1>5. ASSUME NEW n \in Names, ClearIngress(n)  PROVE  ClearedInv'
  <2> DEFINE t == [ns |-> cur.ns, name |-> n]
  <2>1. pc = "clear" /\ UNCHANGED <<pc, cur, hc>> /\ clear' = clear \ {n}
    BY <1>5 DEF ClearIngress
  <2>2. RecordedNames(hc)' = RecordedNames(hc)
    BY <2>1 DEF RecordedNames
  <2>3. /\ missed.names \subseteq missed'.names
        /\ \A s \in Services : /\ svc'[s].ingress \in {svc[s].ingress, {}}
                               /\ s = t => n \in missed'.names \/ svc'[s].ingress = {}
    <3>1. CASE t \in Services /\ StoreService(t, WithIngress(svc[t], {})) /\ UNCHANGED missed
      <4> HIDE DEF t
      <4>1. svc'[t].ingress = {} /\ \A s \in Services \ {t} : svc'[s] = svc[s]
        BY <3>1, IngressWrittenAt
      <4> QED  BY <3>1, <4>1
    <3>2. CASE (t \in Services => ~svcCache[t].exists /\ t \notin staleSvc) /\ UNCHANGED <<svc, missed>>
      <4> HIDE DEF t
      <4>1. t \in Services => svc[t].ingress = {}
        BY <3>2 DEF StableInv
      <4> QED  BY <3>2, <4>1
    <3>3. CASE missed' = [missed EXCEPT !.names = @ \cup {n}] /\ UNCHANGED svc
      <4>1. missed'.names = missed.names \cup {n}
        BY <3>3 DEF TypeOK, RequestTypes
      <4> QED  BY <3>3, <4>1
    <3> QED  BY <1>5, <3>1, <3>2, <3>3 DEF ClearIngress
  <2>4. \A s \in Services : s.ns = cur.ns /\ s.name = n => s = t
    <3>1. \A s \in Services : s = [ns |-> s.ns, name |-> s.name]
      BY SMT, KeysAssumption
    <3> QED  BY <3>1
  <2> HIDE DEF t
  <2>5. ASSUME NEW s \in Services, Mine(s)
        PROVE  s.name \in clear' \cup missed'.names \/ svc'[s].ingress = {}
    <3>1. CASE s.name = n
      <4>1. s = t
        BY <2>4, <2>5, <3>1
      <4>2. n \in missed'.names \/ svc'[s].ingress = {}
        BY <2>3, <4>1
      <4> QED  BY <3>1, <4>2
    <3>2. CASE s.name # n
      <4>1. s.name \in clear \cup missed.names \/ svc[s].ingress = {}
        BY <2>1, <2>5 DEF ClearedInv
      <4>2. svc'[s].ingress \in {svc[s].ingress, {}} /\ missed.names \subseteq missed'.names
        BY <2>3
      <4>3. s.name \in clear => s.name \in clear'
        BY <2>1, <3>2
      <4> HIDE DEF Mine
      <4> QED  BY <4>1, <4>2, <4>3
    <3> QED  BY <3>1, <3>2
  <2> QED  BY <2>1, <2>2, <2>5 DEF ClearedInv
<1>6. ASSUME NEW s \in Services, WritesService(s)  PROVE  ClearedInv'
  <2>1. PICK o : /\ UserWritesService(s, o)
                 /\ \/ o = svc[s]
                    \/ o = NoService
                    \/ \E spec \in ServiceSpecs[s] : ~svc[s].exists /\ o = NewService(spec)
    BY <1>6, WrittenIngress
  <2>2. svc'[s] = o /\ \A t \in Services \ {s} : svc'[t] = svc[t]
    BY <2>1, UserServiceAt
  <2>3. o = svc[s] \/ o.ingress = {}
    BY <2>1, NewIngress
  <2>4. \A t \in Services : svc'[t].ingress \in {svc[t].ingress, {}}
    BY <2>2, <2>3
  <2>5. UNCHANGED <<pc, cur, hc, clear, missed>>
    BY <2>1 DEF UserWritesService
  <2> QED  BY <1>Same, <2>4, <2>5
<1>7. ASSUME NEW s \in Services, WatchService(s)  PROVE  ClearedInv'
  <2>1. UNCHANGED <<svc, pc, cur, hc, clear, missed>>
    BY <1>7 DEF WatchService, api, worker
  <2> QED  BY <1>Same, <2>1
<1>8. CASE Restart
  BY <1>8, <1>Idle DEF Restart
<1> QED  BY <1>1, <1>2, <1>3, <1>4, <1>5, <1>6, <1>7, <1>8, StepKinds

\* What the loop and the cleanup rely on holds throughout.
LEMMA StableInvariant == Spec => [](StableInv /\ ClearedInv)
<1>1. Init => ClearedInv
  BY DEF Init, ClearedInv
<1>2. StableInv /\ ClearedInv /\ TypeOK /\ [Next]_vars => StableInv' /\ ClearedInv'
  BY StableNext, ClearedNext
<1> QED  BY StableInit, TypeCorrect, <1>1, <1>2, PTL DEF Spec

\* A Service that has an ingress keeps it, through stale copies, conflicts,
\* retries of RetryOnConflict, failed calls, restarts and edits.  Other than by
\* its deletion it changes only when ReleaseAll clears it, for a deleted config
\* of its namespace with a record for its name, or when the copy of it that
\* FilterEligibleServices saw in this Reconcile call was stale.
THEOREM KeepsIngress == Spec => StableIngress
<1> DEFINE Step == \A s \in Services :
                     svc[s].ingress # {} /\ svc'[s].exists /\ svc'[s].ingress # svc[s].ingress
                       => \/ /\ pc = "clear" /\ hc.deleting /\ svc'[s].ingress = {}
                             /\ s.ns = cur.ns /\ s.name \in RecordedNames(hc)
                          \/ s = target /\ s \in missed.services
<1>1. StableInv /\ ClearedInv /\ TypeOK /\ [Next]_vars => [Step]_vars
  <2>1. StableStep => Step
    BY DEF StableStep, Cleans
  <2> QED  BY <2>1, StableNext
<1> QED  BY StableInvariant, TypeCorrect, <1>1, PTL DEF Spec, StableIngress

\* When a HeliosConfig disappears, ReleaseAll has cleared the ingress of every
\* Service of its namespace for whose name it has a record, IPv4 or IPv6, or has
\* tried to and failed: whatever users, watches, restarts and other configs do
\* between its steps, it skips no name, and gives no Service it has cleared an
\* address again.
THEOREM ClearedBeforeGone == Spec => ClearedOnDelete
<1> DEFINE Step == \A c \in Configs, s \in Services :
                     cfg[c].exists /\ ~cfg'[c].exists /\ s.ns = c.ns /\ s.name \in RecordedNames(cfg[c])
                       => svc[s].ingress = {} \/ s.name \in missed.names
<1>1. CrossInv /\ CleanupInv /\ ClearedInv /\ [Next]_vars => [Step]_vars
  <2>1. ASSUME CrossInv, CleanupInv, ClearedInv, Next,
               NEW c \in Configs, cfg[c].exists, ~cfg'[c].exists,
               NEW s \in Services, s.ns = c.ns, s.name \in RecordedNames(cfg[c])
        PROVE  svc[s].ingress = {} \/ s.name \in missed.names
    <3>1. Recorded(cfg[c]) # {}
      BY <2>1 DEF Recorded, RecordedNames
    <3>2. pc = "clear" /\ clear = {} /\ c = cur /\ cfg[c] = hc
      BY <2>1, <3>1, GoneStep DEF CleanupInv
    <3> QED  BY <2>1, <3>2 DEF ClearedInv
  <2> QED  BY <2>1
<1> QED  BY CrossInvariant, CleanupInvariant, StableInvariant, <1>1, PTL DEF Spec, ClearedOnDelete

-----------------------------------------------------------------------------
(* DuplicateInv is inductive without restarts, failed calls, deletions of  *)
(* configs and edits of Services.                                          *)

\* An allocation takes addresses that were free or are shared, and one that
\* fails gives back no other.
LEMMA AllocateFresh ==
  ASSUME TypeOK, NEW item \in todo, Allocate(item)
  PROVE  /\ used \subseteq used' \cup Shared
         /\ pc' = "assign" => InFlight' \subseteq used' /\ InFlight' \cap used \subseteq Shared
<1> DEFINE want   == item.loadBalancerIP
           marked == used \cup OthersRecorded(cur)
           first  == AllocateOne(marked, hc.spec.ipRange, RequestedV4(want))
           taken  == MarkUsed(marked, first)
           dual   == hc.spec.ipv6Range # NoRange
           second == IF dual THEN AllocateOne(taken, hc.spec.ipv6Range, RequestedV6(want)) ELSE NoIP
<1>1. \/ pc' = "assign" /\ used' = MarkUsed(taken, second) /\ ip' = first /\ ipv6' = second
      \/ pc' = "fail" /\ used' = ReleaseIP(taken, first)
  BY DEF Allocate
<1>2. hc \in ConfigObjects /\ want \in Addr \cup {NoIP}
  BY DEF TypeOK, RequestTypes
<1>3. first = NoIP \/ first \notin marked \/ first \in Shared
  <2>1. RequestedV4(want) \in Addr \cup {NoIP}
    BY <1>2 DEF RequestedV4
  <2> QED  BY <1>2, <2>1, AllocateOneAnswer, SpecRanges, SharedStart
<1>4. second = NoIP \/ second \notin taken \/ second \in Shared
  <2>1. RequestedV6(want) \in Addr \cup {NoIP}
    BY <1>2 DEF RequestedV6
  <2> QED  BY <1>2, <2>1, AllocateOneAnswer, SpecRanges, SharedStart
<1> HIDE DEF first, second
<1>5. NoIP \notin used
  BY NoIPNotAddr DEF TypeOK
<1> QED  BY <1>1, <1>3, <1>4, <1>5 DEF MarkUsed, ReleaseIP, InFlight


\* The disruptions that are ruled out, and what follows for the configs.
Undisturbed ==
  /\ \A d \in {"restart", "fault", "deleteConfig", "editService"} : left[d] = 0
  /\ \A c \in Configs : ~cfg[c].deleting /\ ~cfgCache[c].deleting
  /\ ~hc.deleting /\ pc \notin {"release", "clear"}

\* What the Services carry, and what is on its way to one, is marked, and no
\* two of them carry the same address.
Carried ==
  /\ NoDuplicateIP
  /\ \A s \in Services : svc[s].ingress \subseteq used \cup Shared
  /\ svcFresh => pc \in {"specUpdate", "record"}
  /\ Assigning =>
       /\ InFlight \subseteq used \cup Shared
       /\ \A s \in Services : s # target \/ ~svcFresh => svc[s].ingress \cap InFlight \subseteq Shared

\* A step keeps DuplicateInv.
LEMMA DuplicateNext ==
  DuplicateInv /\ CrossInv /\ [Next]_vars
    => DuplicateInv'
\* The copies of a config that are being deleted come from the server, and a
\* cleanup begins with such a copy.
<1>CopyKinds.
  ASSUME TypeOK, [Next]_vars
  PROVE  /\ \A c \in Configs : cfgCache'[c] \in {cfgCache[c], cfg[c]}
         /\ hc'.deleting = hc.deleting \/ hc' = NoConfig \/ \E c \in Configs : hc' = cfgCache[c]
         /\ pc' \in {"release", "clear"} => pc \in {"release", "clear"} \/ hc'.deleting
  <2> USE <1>CopyKinds
  <2> DEFINE Copies == /\ \A c \in Configs : cfgCache'[c] \in {cfgCache[c], cfg[c]}
                       /\ hc'.deleting = hc.deleting \/ hc' = NoConfig \/ \E c \in Configs : hc' = cfgCache[c]
                       /\ pc' \in {"release", "clear"} => pc \in {"release", "clear"} \/ hc'.deleting
  <2>0. hc \in ConfigObjects
    BY DEF TypeOK, RequestTypes
  <2>1. ASSUME cfgCache' = cfgCache, hc' = NoConfig, pc' = "idle"  PROVE  Copies
    BY <2>1
  <2>2. ASSUME cfgCache' = cfgCache, hc' = hc, pc' = pc \/ pc' \notin {"release", "clear"} \/ pc = "release"
        PROVE  Copies
    BY <2>2
  <2>3. CASE AddFinalizer
    <3>1. WithFinalizer(hc).deleting = hc.deleting
      BY <2>0, SameEdits DEF SameConfig
    <3> QED  BY <2>1, <2>3, <3>1 DEF AddFinalizer, Return
  <2>4. CASE InitialCondition
    <3>1. WithInitialCondition(hc).deleting = hc.deleting
      BY <2>0, SameEdits DEF SameConfig
    <3> QED  BY <2>1, <2>4, <3>1 DEF InitialCondition, Return
  <2>5. CASE RecordAllocation
    <3>1. target.name \in Names
      BY <2>5 DEF RecordAllocation, TypeOK, JobTypes, Names
    <3>2. WithAllocation(hc, target.name, ip, ipv6).deleting = hc.deleting
      BY <2>0, <3>1 DEF ConfigObjects, WithAllocation
    <3> QED  BY <2>1, <2>5, <3>2 DEF RecordAllocation, Return
  <2>6. CASE ListServices
    BY <2>1, <2>2, <2>6 DEF ListServices, ListFails, Return, cache
  <2>7. CASE ReportConflict \/ ReportFailure \/ LoopEnds \/ RemoveFinalizer
    BY <2>1, <2>7 DEF ReportConflict, ReportFailure, LoopEnds, RemoveFinalizer, Return, cache
  <2>8. CASE AllocateListFails \/ AssignStatus \/ AssignSpec \/ ReleaseAll
    BY <2>2, <2>8
    DEF AllocateListFails, AssignStatus, AssignSpec, TryAgain, AssignFails, ReleaseAll, cache
  <2>9. ASSUME NEW item \in todo, Allocate(item)  PROVE  Copies
    <3>1. pc' \in {"fail", "assign"} /\ UNCHANGED <<cfgCache, hc>>
      BY <2>9, AllocateAnswer DEF Allocate, cache
    <3> QED  BY <2>2, <3>1
  <2>10. ASSUME NEW n \in Names, ClearIngress(n)  PROVE  Copies
    <3>1. UNCHANGED <<cfgCache, hc, pc>>
      BY <2>10 DEF ClearIngress
    <3> QED  BY <2>2, <3>1
  <2>11. ASSUME NEW c \in Configs, ReconcileGet(c)  PROVE  Copies
    BY <2>2, <2>11 DEF ReconcileGet, cache
  <2>12. ASSUME NEW c \in Configs, WatchConfig(c)  PROVE  Copies
    BY <2>12 DEF WatchConfig, TypeOK, CacheTypes, worker
  <2>13. CASE UserStep
    <3>1. ASSUME NEW c, NEW o, UserWritesConfig(c, o) \/ UserWritesService(c, o)  PROVE  Copies
      BY <2>2, <3>1 DEF UserWritesConfig, UserWritesService
    <3> QED
      BY <2>13, <3>1
      DEF UserStep, CreateConfig, UpdateConfig, DeleteConfig, CreateService, EditService, DeleteService
  <2>14. ASSUME NEW s \in Services, WatchService(s)  PROVE  Copies
    BY <2>2, <2>14 DEF WatchService, worker
  <2>15. CASE Restart
    BY <2>15 DEF Restart
  <2>16. CASE UNCHANGED vars
    BY <2>2, <2>16 DEF vars, cache, worker
  <2> QED
    BY <2>3, <2>4, <2>5, <2>6, <2>7, <2>8, <2>9, <2>10, <2>11, <2>12, <2>13, <2>14, <2>15, <2>16
       DEF Next, WorkerStep
\* Nothing is deleted unless a user deletes it.
<1>UndisturbedNext.
  ASSUME CrossInv, Undisturbed, [Next]_vars
  PROVE  Undisturbed'
  <2> USE <1>UndisturbedNext
  <2>0. TypeOK
    BY DEF CrossInv
  <2>1. \A d \in {"restart", "fault", "deleteConfig", "editService"} : left'[d] = 0
    BY <2>0, BudgetStep DEF Undisturbed, Disruptions
  <2>2. ASSUME NEW d \in Configs  PROVE  ~cfg'[d].deleting
    <3>1. CASE UNCHANGED cfg
      BY <3>1 DEF Undisturbed
    <3>2. ASSUME NEW c \in Configs, NEW o \in ConfigObjects, cfg' = [cfg EXCEPT ![c] = o],
                 o.deleting = cfg[c].deleting \/ Blank(o)
          PROVE  ~cfg'[d].deleting
      BY <2>0, <3>2, DeletingNew DEF Undisturbed, TypeOK, ServerTypes
    <3>3. ASSUME NEW c \in Configs, NEW o \in ConfigObjects, cfg' = [cfg EXCEPT ![c] = o],
                 RecordAllocation, o = WithAllocation(cfg[c], target.name, ip, ipv6)
          PROVE  ~cfg'[d].deleting
      <4>1. target.name \in Names /\ cfg[c] \in ConfigObjects
        BY <2>0, <3>3 DEF RecordAllocation, TypeOK, JobTypes, ServerTypes, Names
      <4>2. o.deleting = cfg[c].deleting
        BY <3>3, <4>1 DEF ConfigObjects, WithAllocation
      <4> QED  BY <3>2, <3>3, <4>2
    <3>4. ~(left["deleteConfig"] > 0)
      BY SMT DEF Undisturbed
    <3> QED  BY <3>1, <3>2, <3>3, <3>4, ConfigKinds DEF ConfigStep, SameConfig
  <2>3. \A c \in Configs : ~cfgCache'[c].deleting
    BY <2>0, <1>CopyKinds DEF Undisturbed
  <2>4. ~hc'.deleting
    BY <2>0, <1>CopyKinds, DeletingNew DEF Undisturbed, Blank
  <2>5. pc' \notin {"release", "clear"}
    BY <2>0, <2>4, <1>CopyKinds DEF Undisturbed
  <2> QED  BY <2>1, <2>2, <2>3, <2>4, <2>5 DEF Undisturbed
\* A step that leaves the Services and unmarks only shared addresses.
<1>CarriedKept.
  ASSUME Carried, svc' = svc, used \subseteq used' \cup Shared
  PROVE  NoDuplicateIP' /\ \A s \in Services : svc'[s].ingress \subseteq used' \cup Shared
  BY <1>CarriedKept DEF Carried, NoDuplicateIP
\* Steps that write no Service.
<1>CarriedElsewhere.
  ASSUME Carried, Undisturbed, TypeOK,
         Elsewhere \/ Aside \/ Lists \/ Retries \/ Proceeds \/ Records
  PROVE  Carried'
  <2> USE <1>CarriedElsewhere
  <2>1. svc' = svc /\ used' = used
    BY DEF Elsewhere, Aside, Lists, Retries, Proceeds, Records, Undisturbed
  <2>2. NoDuplicateIP' /\ \A s \in Services : svc'[s].ingress \subseteq used' \cup Shared
    BY <2>1, <1>CarriedKept
  <2>3. svcFresh' => pc' \in {"specUpdate", "record"}
    <3>1. CASE Elsewhere
      BY <3>1 DEF Carried, Elsewhere, Assigning
    <3>2. CASE Aside \/ Lists \/ Retries \/ Proceeds
      <4>1. svcFresh' => svcFresh /\ pc # "list" /\ pc' \in {pc, "record"}
        BY <3>2 DEF Carried, Aside, Lists, ListServices, Retries, Proceeds
      <4> QED  BY <4>1 DEF Carried
    <3>3. CASE Records
      BY <3>3 DEF Records, NoJob
    <3> QED  BY <3>1, <3>2, <3>3
  <2>4. Assigning' => /\ UNCHANGED <<target, ip, ipv6>> /\ (~svcFresh' => ~svcFresh) /\ Assigning
    BY DEF Carried, Elsewhere, Aside, Lists, Retries, Proceeds, Records, Assigning
  <2>5. Assigning' =>
          /\ InFlight' \subseteq used' \cup Shared
          /\ \A s \in Services : s # target' \/ ~svcFresh' => svc'[s].ingress \cap InFlight' \subseteq Shared
    BY <2>1, <2>4 DEF Carried, InFlight
  <2> QED  BY <2>2, <2>3, <2>5 DEF Carried
\* The allocation takes addresses no Service carries, shared ones apart.
<1>CarriedAllocate.
  ASSUME Carried, TypeOK, NEW item \in todo, Allocate(item)
  PROVE  Carried'
  <2> USE <1>CarriedAllocate
  <2>1. svc' = svc /\ svcFresh' = svcFresh /\ pc = "loop"
    BY DEF Allocate, api
  <2>2. NoDuplicateIP' /\ \A s \in Services : svc'[s].ingress \subseteq used' \cup Shared
    BY <2>1, AllocateFresh, <1>CarriedKept
  <2>3. ~svcFresh'
    BY <2>1 DEF Carried
  <2>4. pc' \in {"fail", "assign"}
    BY AllocateAnswer
  <2>5. Assigning' =>
          /\ InFlight' \subseteq used' \cup Shared
          /\ \A s \in Services : svc'[s].ingress \cap InFlight' \subseteq Shared
    BY <2>1, <2>4, AllocateFresh DEF Carried, Assigning
  <2> QED  BY <2>2, <2>3, <2>5 DEF Carried
\* The write of the ingress.
<1>CarriedWrites.
  ASSUME Carried, TypeOK, Writes
  PROVE  Carried'
  <2> USE <1>CarriedWrites
  <2>1. target \in Services /\ Assigning /\ ~svcFresh /\ svc[target] \in ServiceObjects
    BY DEF Writes, TypeOK, JobTypes, ServerTypes, Assigning, Carried
  <2>2. /\ svc'[target].ingress = InFlight /\ \A t \in Services \ {target} : svc'[t] = svc[t]
        /\ UNCHANGED <<used, target, ip, ipv6>> /\ svcFresh' = TRUE /\ pc' = "specUpdate"
    BY <2>1, IngressWrittenAt DEF Writes
  <2>3. /\ InFlight' = InFlight /\ InFlight \subseteq used \cup Shared
        /\ \A s \in Services : svc[s].ingress \cap InFlight \subseteq Shared
    BY <2>1, <2>2 DEF Carried, InFlight
  <2>4. NoDuplicateIP'
    BY <2>1, <2>2, <2>3 DEF Carried, NoDuplicateIP
  <2>5. \A s \in Services : svc'[s].ingress \subseteq used' \cup Shared
    BY <2>1, <2>2, <2>3 DEF Carried
  <2>6. \A s \in Services : s # target' \/ ~svcFresh' => svc'[s].ingress \cap InFlight' \subseteq Shared
    BY <2>1, <2>2, <2>3
  <2> QED  BY <2>2, <2>3, <2>4, <2>5, <2>6 DEF Carried
\* An assignment that is given up releases addresses no Service carries.
<1>CarriedGivesUp.
  ASSUME Carried, Undisturbed, TypeOK, GivesUp
  PROVE  Carried'
  <2> USE <1>CarriedGivesUp
  <2>1. /\ Assigning /\ svc' = svc /\ pc' = "fail" /\ svcFresh' = FALSE
        /\ used' = (used \ {ip}) \ {ipv6}
    BY DEF GivesUp, AssignFails, NoJob, ReleaseIP, Assigning
  <2>2. ~svcFresh
    BY SMT DEF GivesUp, Carried, Undisturbed
  <2>3. \A s \in Services : svc[s].ingress \cap InFlight \subseteq Shared /\ NoIP \notin svc[s].ingress
    BY <2>1, <2>2, NoIPNotAddr DEF Carried, TypeOK, ServerTypes, ServiceObjects
  <2>4. \A s \in Services : svc'[s].ingress \subseteq used' \cup Shared
    BY <2>1, <2>3 DEF Carried, InFlight
  <2>5. NoDuplicateIP'
    BY <2>1 DEF Carried, NoDuplicateIP
  <2> QED  BY <2>1, <2>4, <2>5 DEF Carried, Assigning
\* A user creates or deletes a Service.
<1>CarriedUser.
  ASSUME Carried, Undisturbed, TypeOK, NEW s \in Services, WritesService(s)
  PROVE  Carried'
  <2> USE <1>CarriedUser
  <2>1. PICK o : /\ UserWritesService(s, o)
                 /\ o = NoService \/ \E spec \in ServiceSpecs[s] : o = NewService(spec)
    <3>1. ~(left["editService"] > 0)
      BY SMT DEF Undisturbed
    <3> QED  BY <3>1, WrittenIngress
  <2>2. svc'[s].ingress = {} /\ \A t \in Services \ {s} : svc'[t] = svc[t]
    BY <2>1, UserServiceAt, NewIngress
  <2>3. svcFresh' = (svcFresh /\ target # s) /\ UNCHANGED <<used, pc, target, ip, ipv6>>
    BY <2>1 DEF UserWritesService
  <2>4. NoDuplicateIP' /\ \A t \in Services : svc'[t].ingress \subseteq used' \cup Shared
    BY <2>2, <2>3 DEF Carried, NoDuplicateIP
  <2>5. svcFresh' => pc' \in {"specUpdate", "record"}
    BY <2>3 DEF Carried
  <2>6. ASSUME Assigning', NEW t \in Services, t # target' \/ ~svcFresh'
        PROVE  svc'[t].ingress \cap InFlight' \subseteq Shared
    BY <2>2, <2>3, <2>6 DEF Carried, Assigning, InFlight, TypeOK, JobTypes
  <2>7. Assigning' => InFlight' \subseteq used' \cup Shared
    BY <2>3 DEF Carried, Assigning, InFlight
  <2> QED  BY <2>4, <2>5, <2>6, <2>7 DEF Carried
<1> SUFFICES ASSUME DuplicateInv, CrossInv, [Next]_vars
             PROVE  DuplicateInv'
  OBVIOUS
<1>1. TypeOK /\ Undisturbed /\ Carried
  BY DEF CrossInv, DuplicateInv, Undisturbed, Carried
<1>2. Undisturbed'
  BY <1>1, <1>UndisturbedNext
<1>3. ASSUME NEW s \in Services, WatchService(s)  PROVE  Carried'
  <2>1. UNCHANGED <<svc, used, pc, target, ip, ipv6, svcFresh>>
    BY <1>3 DEF WatchService, api, worker, job
  <2> QED  BY <1>1, <2>1 DEF Carried, NoDuplicateIP, Assigning, InFlight
<1>4. ~(\E n \in Names : ClearIngress(n)) /\ ~Restart
  <2>1. pc # "clear" /\ ~(left["restart"] > 0)
    BY SMT, <1>1 DEF Undisturbed
  <2> QED  BY <2>1 DEF ClearIngress, Restart, Spend
<1>5. Carried'
  BY <1>1, <1>3, <1>4, StepKinds, <1>CarriedElsewhere, <1>CarriedAllocate, <1>CarriedWrites, <1>CarriedGivesUp,
     <1>CarriedUser
<1> QED  BY <1>2, <1>5 DEF DuplicateInv, Undisturbed, Carried

\* Nothing is carried or deleted at the start.
LEMMA DuplicateInit ==
  ASSUME \A d \in {"restart", "fault", "deleteConfig", "editService"} : Budget[d] = 0, Init
  PROVE  DuplicateInv
<1>1. \A s \in Services : svc[s].ingress = {}
  <2>1. \A s \in Services : svc[s] = NoService \/ \E spec : svc[s] = NewService(spec)
    BY DEF Init
  <2> QED  BY <2>1, NewIngress
<1>2. \A c \in Configs : Blank(cfg[c])
  BY DEF Init, Blank
<1>3. Blank(hc)
  BY DEF Init, Blank
<1>4. Undisturbed
  BY <1>2, <1>3, DeletingNew DEF Init, Undisturbed
<1>5. Carried
  BY <1>1 DEF Init, Carried, NoDuplicateIP, Assigning
<1> QED  BY <1>4, <1>5 DEF DuplicateInv, Undisturbed, Carried

\* No two Services ever carry the same address, those of one-address ranges
\* apart, however stale the cache is and however users create and delete
\* Services and create and update configs: as long as the allocator keeps its
\* map of used addresses (no restart), no call fails after its effect, no
\* config is deleted and no one else writes a Service while it is assigned.
\* RestartDuplicate shows that the first of these is needed.
THEOREM NoTwoCarry ==
  ASSUME \A d \in {"restart", "fault", "deleteConfig", "editService"} : Budget[d] = 0
  PROVE  Spec => []NoDuplicateIP
<1>1. Init => DuplicateInv
  BY DuplicateInit
<1>2. DuplicateInv /\ CrossInv /\ [Next]_vars => DuplicateInv'
  BY DuplicateNext
<1>3. DuplicateInv => NoDuplicateIP
  BY DEF DuplicateInv
<1> QED  BY CrossInvariant, <1>1, <1>2, <1>3, PTL DEF Spec

-----------------------------------------------------------------------------
(* RequestInv is inductive when the users of a Service ask for one address *)
(* and the IPv4 range of a config holds no IPv6 address that is asked for. *)

OneRequest ==
  /\ \A s \in Services : \A p, q \in ServiceSpecs[s] : p.loadBalancerIP = q.loadBalancerIP
  /\ \A spec \in ConfigSpecs, s \in Services : \A a \in Requests(s) \ {NoIP} :
       IPAllocatable(a, spec.ipRange) => IsV4(a)

\* What the Services and their copies ask for and carry.
Asked ==
  \A s \in Services :
    /\ s \notin staleSvc => svcCache[s] = svc[s]
    /\ svc[s] = NoService \/ svc[s].loadBalancerIP \in Requests(s)
    /\ svcCache[s] = NoService \/ svcCache[s].loadBalancerIP \in Requests(s)
    /\ svc[s].ingress # {} => Requests(s) \ {NoIP} \subseteq svc[s].ingress

\* What the loop works on, and what is on its way.
AskedInLoop ==
  /\ Looping => \A item \in todo :
       /\ item.loadBalancerIP \in Requests(item.key)
       /\ \/ item.loadBalancerIP = NoIP
          \/ IPAllocatable(item.loadBalancerIP, hc.spec.ipRange)
          \/ IPAllocatable(item.loadBalancerIP, hc.spec.ipv6Range)
  /\ Assigning => Requests(target) \ {NoIP} \subseteq InFlight

\* A step keeps RequestInv.
LEMMA RequestNext ==
  OneRequest /\ RequestInv /\ TypeOK /\ [Next]_vars
    => RequestInv'
\* A range that is not given holds nothing.
<1>NoRangeEmpty.
 ASSUME NEW a PROVE ~IPAllocatable(a, NoRange) /\ ~IPInRange(a, NoRange)
  BY DEF IPAllocatable, IPInRange, ParseIPRange, NoRange
\* The same of the ranges of any config object.
<1>OneRequestSpec.
  ASSUME OneRequest, NEW o \in ConfigObjects, NEW s \in Services, NEW a \in Requests(s) \ {NoIP},
         IPAllocatable(a, o.spec.ipRange)
  PROVE  IsV4(a)
  <2> USE <1>OneRequestSpec
  <2>1. o.spec \in ConfigSpecs \cup {NoSpec}
    BY DEF ConfigObjects
  <2>2. NoSpec.ipRange = NoRange
    BY DEF NoSpec
  <2> QED  BY <2>1, <2>2, <1>NoRangeEmpty DEF OneRequest
\* An allocation for a Service that asks for an address takes that address.
<1>AllocateRequested.
  ASSUME OneRequest, TypeOK, NEW item \in todo, Allocate(item), pc' = "assign",
         item.loadBalancerIP \in Requests(item.key), item.loadBalancerIP # NoIP,
         \/ IPAllocatable(item.loadBalancerIP, hc.spec.ipRange)
         \/ IPAllocatable(item.loadBalancerIP, hc.spec.ipv6Range)
  PROVE  item.loadBalancerIP \in InFlight'
  <2> USE <1>AllocateRequested
  <2> DEFINE want   == item.loadBalancerIP
             marked == used \cup OthersRecorded(cur)
             first  == AllocateOne(marked, hc.spec.ipRange, RequestedV4(want))
             taken  == MarkUsed(marked, first)
             dual   == hc.spec.ipv6Range # NoRange
             second == IF dual THEN AllocateOne(taken, hc.spec.ipv6Range, RequestedV6(want)) ELSE NoIP
  <2>1. first # NoIP /\ (dual => second # NoIP) /\ ip' = first /\ ipv6' = second
    BY DEF Allocate
  <2>2. hc \in ConfigObjects /\ item.key \in Services
    BY DEF TypeOK, RequestTypes
  <2>3. CASE IsV4(want)
    <3>1. RequestedV4(want) = want
      BY <2>3 DEF RequestedV4
    <3>2. first = want
      BY <2>1, <3>1 DEF AllocateOne, AllocateSpecificIP
    <3> QED  BY <2>1, <3>2 DEF InFlight
  <2>4. CASE ~IsV4(want)
    <3>1. IPAllocatable(want, hc.spec.ipv6Range)
      BY <2>2, <2>4, <1>OneRequestSpec
    <3>2. dual
      BY <3>1, <1>NoRangeEmpty
    <3>3. RequestedV6(want) = want
      BY <2>4 DEF RequestedV6
    <3>4. second = want
      BY <2>1, <3>2, <3>3 DEF AllocateOne, AllocateSpecificIP
    <3> QED  BY <2>1, <3>4 DEF InFlight
  <2> QED  BY <2>3, <2>4
\* The loop begins: what it listed asks for what the Services ask for.
<1>AskedLists.
  ASSUME Asked, TypeOK, Lists
  PROVE  AskedInLoop'
  <2> USE <1>AskedLists
  <2>1. ASSUME NEW s \in Services, IsEligible(s, hc.spec)
        PROVE  /\ svcCache[s].loadBalancerIP \in Requests(s)
               /\ \/ svcCache[s].loadBalancerIP = NoIP
                  \/ IPAllocatable(svcCache[s].loadBalancerIP, hc.spec.ipRange)
                  \/ IPAllocatable(svcCache[s].loadBalancerIP, hc.spec.ipv6Range)
    BY <2>1, NewIngress DEF IsEligible, Asked
  <2>2. \A item \in todo' : \E s \in Services : /\ IsEligible(s, hc.spec)
                                                /\ item = [key |-> s, loadBalancerIP |-> svcCache[s].loadBalancerIP]
    BY DEF Lists, Eligible
  <2>3. \A item \in todo' :
          /\ item.loadBalancerIP \in Requests(item.key)
          /\ \/ item.loadBalancerIP = NoIP
             \/ IPAllocatable(item.loadBalancerIP, hc.spec.ipRange)
             \/ IPAllocatable(item.loadBalancerIP, hc.spec.ipv6Range)
    <3> SUFFICES ASSUME NEW item \in todo'
                 PROVE  /\ item.loadBalancerIP \in Requests(item.key)
                        /\ \/ item.loadBalancerIP = NoIP
                           \/ IPAllocatable(item.loadBalancerIP, hc.spec.ipRange)
                           \/ IPAllocatable(item.loadBalancerIP, hc.spec.ipv6Range)
      OBVIOUS
    <3>1. PICK s \in Services : /\ IsEligible(s, hc.spec)
                                /\ item = [key |-> s, loadBalancerIP |-> svcCache[s].loadBalancerIP]
      BY <2>2
    <3>2. item.key = s /\ item.loadBalancerIP = svcCache[s].loadBalancerIP
      BY <3>1
    <3> QED  BY <2>1, <3>1, <3>2
  <2>4. hc' = hc /\ pc' = "loop"
    BY DEF Lists
  <2> QED  BY <2>3, <2>4 DEF AskedInLoop, Assigning
\* The next Service of the loop gets what it asks for.
<1>AskedAllocate.
  ASSUME OneRequest, AskedInLoop, TypeOK, NEW item \in todo, Allocate(item)
  PROVE  AskedInLoop'
  <2> USE <1>AskedAllocate
  <2>1. pc = "loop" /\ hc' = hc
    BY DEF Allocate
  <2>2. \/ pc' = "fail"
        \/ pc' = "assign" /\ target' = item.key /\ todo' = todo \ {item}
    BY AllocateAnswer
  <2>3. CASE pc' = "fail"
    BY <2>3 DEF AskedInLoop, Looping, Assigning
  <2>4. CASE pc' = "assign" /\ target' = item.key /\ todo' = todo \ {item}
    <3>1. \A other \in todo : /\ other.loadBalancerIP \in Requests(other.key)
                              /\ \/ other.loadBalancerIP = NoIP
                                 \/ IPAllocatable(other.loadBalancerIP, hc.spec.ipRange)
                                 \/ IPAllocatable(other.loadBalancerIP, hc.spec.ipv6Range)
      BY <2>1 DEF AskedInLoop, Looping
    <3>2. item.key \in Services
      BY DEF TypeOK, RequestTypes
    <3>3. \A a \in Requests(item.key) : a = item.loadBalancerIP
      <4>1. \A a, b \in Requests(item.key) : a = b
        BY <3>2 DEF Requests, OneRequest
      <4> QED  BY <3>1, <4>1
    <3>4. item.loadBalancerIP # NoIP => item.loadBalancerIP \in InFlight'
      BY <2>4, <3>1, <1>AllocateRequested
    <3>5. Requests(target') \ {NoIP} \subseteq InFlight'
      BY <2>4, <3>3, <3>4
    <3> QED  BY <2>1, <2>4, <3>1, <3>5 DEF AskedInLoop
  <2> QED  BY <2>2, <2>3, <2>4
\* Every other step leaves what the loop works on, or the loop.
<1>AskedKept.
  ASSUME AskedInLoop, hc'.spec = hc.spec, todo' = todo, Looping' => Looping,
         Assigning' => Assigning /\ UNCHANGED <<target, ip, ipv6>>
  PROVE  AskedInLoop'
  BY <1>AskedKept DEF AskedInLoop, InFlight
<1> SUFFICES ASSUME OneRequest, RequestInv, TypeOK, [Next]_vars
             PROVE  RequestInv'
  OBVIOUS
<1>0. Asked /\ AskedInLoop
  BY DEF RequestInv, Asked, AskedInLoop
<1> SUFFICES Asked' /\ AskedInLoop'
  BY DEF RequestInv, Asked, AskedInLoop
<1>1. ASSUME UNCHANGED <<svc, svcCache, staleSvc>>  PROVE  Asked'
  BY <1>0, <1>1 DEF Asked
<1>2. ASSUME pc' \notin {"loop", "assign", "specUpdate", "record"}  PROVE  AskedInLoop'
  BY <1>2 DEF AskedInLoop, Looping, Assigning
<1>3. CASE Elsewhere \/ GivesUp
  BY <1>1, <1>2, <1>3 DEF Elsewhere, GivesUp, AssignFails
<1>4. CASE Aside \/ Proceeds \/ Retries \/ Records
  BY <1>0, <1>1, <1>4, <1>AskedKept DEF Aside, Proceeds, Retries, Records, Looping, Assigning
<1>5. CASE Lists
  BY <1>0, <1>1, <1>5, <1>AskedLists DEF Lists
<1>6. CASE Writes
  <2>1. target \in Services /\ svc[target] \in ServiceObjects /\ Assigning
    BY <1>6 DEF Writes, TypeOK, JobTypes, ServerTypes, Assigning
  <2>2. /\ svc'[target].ingress = InFlight /\ svc'[target].loadBalancerIP = svc[target].loadBalancerIP
        /\ staleSvc \subseteq staleSvc' /\ (svc'[target] # svc[target] => target \in staleSvc')
        /\ \A t \in Services \ {target} : svc'[t] = svc[t]
    BY <1>6, <2>1, IngressWrittenAt DEF Writes
  <2>3. svc'[target].loadBalancerIP \in Requests(target)
    BY <1>0, <1>6, <2>1, <2>2, NewIngress DEF Asked, Writes
  <2>4. Asked'
    BY <1>0, <1>6, <2>1, <2>2, <2>3 DEF Asked, AskedInLoop, Writes
  <2> QED  BY <1>0, <1>6, <2>4, <1>AskedKept DEF Writes, Looping, Assigning
<1>7. ASSUME NEW item \in todo, Allocate(item)  PROVE  Asked' /\ AskedInLoop'
  <2>1. UNCHANGED <<svc, svcCache, staleSvc>>
    BY <1>7 DEF Allocate, api, cache
  <2> QED  BY <1>0, <1>1, <1>7, <2>1, <1>AskedAllocate
<1>8. ASSUME NEW n \in Names, ClearIngress(n)  PROVE  Asked' /\ AskedInLoop'
  <2> DEFINE t == [ns |-> cur.ns, name |-> n]
  <2>1. pc' = "clear" /\ UNCHANGED svcCache
    BY <1>8 DEF ClearIngress
  <2>2. \/ /\ t \in Services /\ svcCache[t].exists /\ t \notin staleSvc
           /\ StoreService(t, WithIngress(svc[t], {}))
        \/ UNCHANGED <<svc, staleSvc>>
    BY <1>8 DEF ClearIngress
  <2> HIDE DEF t
  <2>3. Asked'
    <3>1. CASE /\ t \in Services /\ svcCache[t].exists /\ t \notin staleSvc
               /\ StoreService(t, WithIngress(svc[t], {}))
      <4>1. svc[t] \in ServiceObjects /\ svc[t] # NoService
        BY <1>0, <3>1, NewIngress DEF TypeOK, ServerTypes, Asked
      <4>2. /\ svc'[t].ingress = {} /\ svc'[t].loadBalancerIP = svc[t].loadBalancerIP
            /\ staleSvc \subseteq staleSvc' /\ (svc'[t] # svc[t] => t \in staleSvc')
            /\ \A s \in Services \ {t} : svc'[s] = svc[s]
        BY <3>1, <4>1, IngressWrittenAt
      <4> QED  BY <1>0, <2>1, <4>1, <4>2 DEF Asked
    <3> QED  BY <1>1, <2>1, <2>2, <3>1
  <2> QED  BY <1>2, <2>1, <2>3
<1>9. ASSUME NEW s \in Services, WritesService(s)  PROVE  Asked' /\ AskedInLoop'
  <2>1. PICK o : /\ UserWritesService(s, o)
                 /\ \/ o = svc[s]
                    \/ o = NoService
                    \/ \E spec \in ServiceSpecs[s] : o = NewService(spec)
    BY <1>9, WrittenIngress
  <2>2. svc'[s] = o /\ \A t \in Services \ {s} : svc'[t] = svc[t]
    BY <2>1, UserServiceAt
  <2>3. staleSvc' = staleSvc \cup {s} /\ UNCHANGED <<svcCache, pc, hc, todo, target, ip, ipv6>>
    BY <2>1 DEF UserWritesService
  <2>4. o = svc[s] \/ (o.ingress = {} /\ (o = NoService \/ o.loadBalancerIP \in Requests(s)))
    BY <2>1, NewIngress DEF Requests
  <2>5. Asked'
    BY <1>0, <2>2, <2>3, <2>4 DEF Asked
  <2> QED  BY <1>0, <2>3, <2>5, <1>AskedKept DEF Looping, Assigning
<1>10. ASSUME NEW s \in Services, WatchService(s)  PROVE  Asked' /\ AskedInLoop'
  <2>1. /\ UNCHANGED <<svc, pc, hc, todo, target, ip, ipv6>> /\ staleSvc' = staleSvc \ {s}
        /\ svcCache' = [svcCache EXCEPT ![s] = svc[s]]
    BY <1>10 DEF WatchService, api, worker, job
  <2>2. Asked'
    BY <1>0, <2>1 DEF Asked, TypeOK, CacheTypes
  <2> QED  BY <1>0, <2>1, <2>2, <1>AskedKept DEF Looping, Assigning
<1>11. CASE Restart
  <2>1. svc' = svc /\ svcCache' = svc /\ pc' = "idle"
    BY <1>11 DEF Restart, api
  <2>2. Asked'
    BY <1>0, <2>1 DEF Asked
  <2> QED  BY <1>2, <2>1, <2>2
<1> QED
  BY <1>3, <1>4, <1>5, <1>6, <1>7, <1>8, <1>9, <1>10, <1>11, StepKinds

\* At the start the Services ask and have nothing.
LEMMA RequestInit == Init => RequestInv
<1> SUFFICES ASSUME Init PROVE RequestInv
  OBVIOUS
<1>1. \A s \in Services : svc[s] = NoService \/ \E spec \in ServiceSpecs[s] : svc[s] = NewService(spec)
  <2>1. \A s \in Services : svc[s] = NoService \/ \E spec : svc[s] = NewService(spec)
    BY DEF Init
  <2>2. \A s \in Services : svc[s] = NoService \/ svc[s].exists
    BY <2>1, NewIngress
  <2> QED  BY <2>2 DEF Init
<1>2. \A s \in Services : /\ svc[s].ingress = {}
                          /\ svc[s] = NoService \/ svc[s].loadBalancerIP \in Requests(s)
  BY SMT, <1>1, NewIngress DEF Requests
<1> QED  BY <1>2 DEF Init, RequestInv, Looping, Assigning

\* A Service that asks for an address in spec.loadBalancerIP carries it, or
\* none, however stale the cache and the listed copies are, through failed
\* calls, retries, cleanups and restarts: AllocateAndAssign hands the request
\* to the allocator of the family it belongs to, and nothing else writes the
\* ingress.  It takes that whoever creates a Service of a given key asks for
\* the same address, since a listed copy may outlive its Service, and that an
\* IPv6 address that is asked for lies in the range the code looks for it in.
THEOREM RequestsHonored ==
  ASSUME OneRequest
  PROVE  Spec => []HonorsRequest
<1>1. RequestInv /\ TypeOK /\ [Next]_vars => RequestInv'
  BY RequestNext
<1>2. RequestInv => HonorsRequest
  BY NewIngress DEF RequestInv, HonorsRequest
<1> QED  BY RequestInit, TypeCorrect, <1>1, <1>2, PTL DEF Spec

-----------------------------------------------------------------------------
(* UncontestedInv is inductive.                                            *)

\* A config that records nothing is in nobody's way.
LEMMA BlankRanges ==
  ASSUME NEW o, Blank(o), NEW spec
  PROVE  ~InRanges(o, spec)
<1>1. \A n \in Names : o.allocatedIPs[n] = NoIP /\ o.allocatedIPv6s[n] = NoIP
  <2>1. \A q : NewConfig(q).allocatedIPs = NoIPs /\ NewConfig(q).allocatedIPv6s = NoIPs
    BY DEF NewConfig
  <2>2. NewConfig(NoSpec) \in ConfigObjects
    BY NewConfigShape
  <2>3. NoConfig.allocatedIPs = NoIPs /\ NoConfig.allocatedIPv6s = NoIPs
    BY <2>1, <2>2 DEF NoConfig, ConfigObjects
  <2>4. o.allocatedIPs = NoIPs /\ o.allocatedIPv6s = NoIPs
    BY <2>1, <2>3 DEF Blank
  <2> QED  BY <2>4 DEF NoIPs
<1>2. ~IPInRange(NoIP, spec.ipRange) /\ ~IPInRange(NoIP, spec.ipv6Range)
  BY DEF IPInRange, IPAllocatable
<1> QED  BY <1>1, <1>2 DEF InRanges

\* p has the records of o, or none.
Tame(p, o) ==
  \/ p.allocatedIPs = o.allocatedIPs /\ p.allocatedIPv6s = o.allocatedIPv6s
  \/ Blank(p)

\* Such a p is in nobody's way that o is not in, and records nothing new.
LEMMA TameRecords ==
  ASSUME NEW p, NEW o, Tame(p, o)
  PROVE  (\A spec : InRanges(p, spec) => InRanges(o, spec)) /\ Recorded(p) \subseteq Recorded(o)
<1>1. CASE p.allocatedIPs = o.allocatedIPs /\ p.allocatedIPv6s = o.allocatedIPv6s
  BY <1>1 DEF InRanges, Recorded
<1>2. CASE Blank(p)
  BY <1>2, BlankRanges, RecordedNew DEF Blank
<1> QED  BY <1>1, <1>2 DEF Tame

\* A step records nothing new, or records an allocation for cur.
LEMMA TameStep ==
  ASSUME CrossInv, [Next]_vars
  PROVE  \/ \A c \in Configs : Tame(cfg'[c], cfg[c])
         \/ /\ RecordAllocation /\ cur \in Configs /\ cfg[cur] = hc
            /\ \A c \in Configs \ {cur} : cfg'[c] = cfg[c]
<1>0. cfg \in [Configs -> ConfigObjects]
  BY DEF CrossInv, TypeOK, ServerTypes
<1>1. CASE UNCHANGED cfg
  BY <1>1 DEF Tame
<1>2. ASSUME NEW c \in Configs, NEW o \in ConfigObjects, cfg' = [cfg EXCEPT ![c] = o], Tame(o, cfg[c])
      PROVE  \A d \in Configs : Tame(cfg'[d], cfg[d])
  BY <1>0, <1>2 DEF Tame
<1>3. ASSUME NEW c \in Configs, NEW o \in ConfigObjects, SameConfig(o, WithDeletion(cfg[c]))
      PROVE  Tame(o, cfg[c])
  <2>1. cfg[c] \in ConfigObjects
    BY <1>0
  <2>2. /\ WithDeletion(cfg[c]).allocatedIPs = cfg[c].allocatedIPs
        /\ WithDeletion(cfg[c]).allocatedIPv6s = cfg[c].allocatedIPv6s
    BY <2>1 DEF ConfigObjects, WithDeletion
  <2> QED  BY <1>3, <2>2 DEF SameConfig, Tame
<1>4. ASSUME NEW o \in ConfigObjects, cfg' = [cfg EXCEPT ![cur] = o]
      PROVE  \A c \in Configs \ {cur} : cfg'[c] = cfg[c]
  BY <1>0, <1>4
<1>5. \A c \in Configs : \A o : SameConfig(o, cfg[c]) \/ Blank(o) => Tame(o, cfg[c])
  BY DEF SameConfig, Tame
<1>6. \A c \in Configs : \A o : o.allocatedIPs = cfg[c].allocatedIPs /\ o.allocatedIPv6s = cfg[c].allocatedIPv6s
        => Tame(o, cfg[c])
  BY DEF Tame
<1> QED  BY <1>1, <1>2, <1>3, <1>4, <1>5, <1>6, ConfigKinds DEF ConfigStep

\* A step keeps UncontestedInv.
LEMMA UncontestedNext ==
  UncontestedInv /\ CrossInv /\ [Next]_vars
    => UncontestedInv'
\* The loop works for one config, on one version of its spec.
<1>LoopKinds.
  ASSUME TypeOK, [Next]_vars, Looping'
  PROVE  Lists \/ (Looping /\ cur' = cur /\ hc'.spec = hc.spec /\ missed' = missed)
  <2> USE <1>LoopKinds
  <2> USE DEF Looping, Assigning
  <2>1. CASE Elsewhere \/ Aside \/ Writes \/ Retries \/ Proceeds \/ GivesUp \/ Records
    BY <2>1 DEF Elsewhere, Aside, Writes, Retries, Proceeds, GivesUp, AssignFails, Records
  <2>2. ASSUME NEW item \in todo, Allocate(item)  PROVE  pc = "loop" /\ cur' = cur /\ hc' = hc /\ missed' = missed
    BY <2>2 DEF Allocate
  <2>3. ASSUME NEW n \in Names, ClearIngress(n)  PROVE  FALSE
    <3>1. pc' = "clear"
      BY <2>3 DEF ClearIngress
    <3> QED  BY <3>1
  <2>4. ASSUME NEW s \in Services, NEW o, UserWritesService(s, o)  PROVE  pc' = pc /\ cur' = cur /\ hc' = hc /\ missed' = missed
    BY <2>4 DEF UserWritesService
  <2>5. ASSUME NEW s \in Services, WritesService(s)  PROVE  pc' = pc /\ cur' = cur /\ hc' = hc /\ missed' = missed
    BY <2>4, <2>5 DEF WritesService
  <2>6. ASSUME NEW s \in Services, WatchService(s)  PROVE  pc' = pc /\ cur' = cur /\ hc' = hc /\ missed' = missed
    BY <2>6 DEF WatchService, worker
  <2>7. ~Restart
    BY DEF Restart
  <2> QED  BY <2>1, <2>2, <2>3, <2>5, <2>6, <2>7, StepKinds
\* CheckIPConflicts finds nothing: no other config records an address in the
\* ranges of this one, but for those whose copies are stale.
<1>UncontestedLists.
  ASSUME CrossInv, Lists
  PROVE  /\ UNCHANGED <<cfg, cur, hc>>
         /\ \A d \in Configs \ {cur} : d \in missed'.configs \/ ~InRanges(cfg[d], hc.spec)
  <2> USE <1>UncontestedLists
  <2>1. /\ Conflicts(cur, hc.spec) = {} /\ missed'.configs = staleCfg \ {cur}
        /\ UNCHANGED <<cfg, cur, hc>>
    BY DEF Lists, ListServices, ListFails, Return, api
  <2>2. \A d \in Configs \ {cur} : d \in missed'.configs \/ cfgCache[d] = cfg[d]
    BY <2>1 DEF CrossInv, CacheVersions
  <2>3. ASSUME NEW d \in Configs \ {cur}, NEW n \in Names
        PROVE  /\ ~IPInRange(cfgCache[d].allocatedIPs[n], hc.spec.ipRange)
               /\ ~IPInRange(cfgCache[d].allocatedIPv6s[n], hc.spec.ipv6Range)
    <3> DEFINE V4s == {cfgCache[e].allocatedIPs[m] : e \in Configs \ {cur}, m \in Names}
               V6s == {cfgCache[e].allocatedIPv6s[m] : e \in Configs \ {cur}, m \in Names}
    <3>1. cfgCache[d].allocatedIPs[n] \in V4s /\ cfgCache[d].allocatedIPv6s[n] \in V6s
      BY SMT
    <3>2. {a \in V4s : IPInRange(a, hc.spec.ipRange)} \cup {a \in V6s : IPInRange(a, hc.spec.ipv6Range)} = {}
      BY SMT, <2>1 DEF Conflicts
    <3> HIDE DEF V4s, V6s
    <3> QED  BY <3>1, <3>2
  <2> QED  BY <2>1, <2>2, <2>3 DEF InRanges
<1> SUFFICES ASSUME UncontestedInv, CrossInv, [Next]_vars, Looping',
                    NEW d \in Configs \ {cur'}, d \notin missed'.configs
             PROVE  ~InRanges(cfg'[d], hc'.spec)
  <2>1. \A d \in Configs : \A spec : InRanges(cfg[d], spec)' <=> InRanges(cfg'[d], spec')
    BY DEF InRanges
  <2> QED  BY <2>1 DEF UncontestedInv
<1>0. TypeOK
  BY DEF CrossInv
<1>1. CASE Lists
  BY <1>1, <1>UncontestedLists
<1>2. CASE Looping /\ cur' = cur /\ hc'.spec = hc.spec /\ missed' = missed
  <2>1. ~InRanges(cfg[d], hc.spec)
    BY <1>2 DEF UncontestedInv
  <2>2. InRanges(cfg'[d], hc.spec) => InRanges(cfg[d], hc.spec)
    BY <1>2, TameStep, TameRecords
  <2> QED  BY <1>2, <2>1, <2>2
<1> QED  BY <1>0, <1>1, <1>2, <1>LoopKinds

\* A HeliosConfig records a new address only while no other config records one
\* in its ranges, unless CheckIPConflicts saw a stale copy of that config: it
\* runs once, before the loop, and nothing that users, watches, failed calls or
\* restarts do until the last write of the loop outdates it.  So of two configs
\* with overlapping ranges the second one stops, not both.
THEOREM RecordsUncontested == Spec => AllocatesUncontested
<1> DEFINE Step == \A c, d \in Configs :
                     c # d /\ ~(Recorded(cfg'[c]) \subseteq Recorded(cfg[c])) /\ InRanges(cfg[d], cfg[c].spec)
                       => d \in missed.configs
<1>1. Init => UncontestedInv
  BY DEF Init, UncontestedInv, Looping, Assigning
<1>2. UncontestedInv /\ CrossInv /\ [Next]_vars => UncontestedInv'
  BY UncontestedNext
<1>3. UncontestedInv /\ CrossInv /\ [Next]_vars => [Step]_vars
  <2>1. ASSUME UncontestedInv, CrossInv, [Next]_vars, NEW c \in Configs, NEW d \in Configs, c # d,
               ~(Recorded(cfg'[c]) \subseteq Recorded(cfg[c])), InRanges(cfg[d], cfg[c].spec)
        PROVE  d \in missed.configs
    <3>1. ~Tame(cfg'[c], cfg[c]) /\ cfg'[c] # cfg[c]
      BY <2>1, TameRecords
    <3>2. RecordAllocation /\ c = cur /\ cfg[c] = hc
      BY <2>1, <3>1, TameStep
    <3>3. Looping
      BY <3>2 DEF RecordAllocation, Looping, Assigning
    <3> QED  BY <2>1, <3>2, <3>3 DEF UncontestedInv
  <2> QED  BY <2>1
<1> QED  BY CrossInvariant, <1>1, <1>2, <1>3, PTL DEF Spec, AllocatesUncontested
=============================================================================
