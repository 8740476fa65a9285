-------------------------- MODULE HeliosController --------------------------
(***************************************************************************)
(* The HeliosConfig reconciler (internal/controller) with its IP manager,  *)
(* running against a Kubernetes API server.                                *)
(*                                                                         *)
(* Three things interact: the objects at the API server, which users and   *)
(* the controller write; the controller's informer cache, which every Get  *)
(* and List reads and which lags behind; and one worker, which runs one    *)
(* Reconcile call at a time (the default of controller-runtime).  A write  *)
(* is accepted only when it is based on the current resourceVersion.  A    *)
(* step of the worker is one API write, or the cache reads that precede    *)
(* one; users, watch events and restarts come in between.                  *)
(*                                                                         *)
(* resourceVersions are not numbers here: what matters is whether a copy   *)
(* is of the current version, so staleCfg and staleSvc hold the objects    *)
(* whose cached copy is not, and hcFresh and svcFresh say it of the two    *)
(* copies the worker holds.                                                *)
(***************************************************************************)
EXTENDS AllocatorOps

CONSTANTS
  Configs,        \* keys of HeliosConfigs, records [ns, name]
  Services,       \* keys of Services, records [ns, name]
  ConfigSpecs,    \* specs a user may give a HeliosConfig
  ServiceSpecs,   \* ServiceSpecs[s]: specs a user may give Service s
  Budget,         \* how often each disruption may happen
  MaxTries,       \* retry.DefaultRetry.Steps (5 in client-go)
  Lag             \* whether cache reads may be stale

Disruptions ==
  {"restart", "fault", "createConfig", "updateConfig", "deleteConfig",
   "createService", "editService", "deleteService"}

ServiceKinds == {"unclassed", "helios", "foreign", "clusterip"}

Names == {s.name : s \in Services}
Namespaces == {s.ns : s \in Services}

ASSUME KeysAssumption == Services \subseteq [ns : Namespaces, name : Names]

ASSUME SpecsAssumption ==
  /\ ConfigSpecs \subseteq [ipRange : Ranges, ipv6Range : Ranges,
                            namespaceSelector : SUBSET Namespaces, maxAllocations : Nat]
  /\ ServiceSpecs \in [Services -> SUBSET [kind : ServiceKinds, loadBalancerIP : Addr \cup {NoIP}]]

ASSUME BoundsAssumption ==
  /\ Budget \in [Disruptions -> Nat]
  /\ MaxTries \in Nat \ {0}
  /\ Lag \in BOOLEAN

VARIABLES
  cfg, svc,             \* the objects at the API server
  cfgCache, svcCache,   \* the informer cache
  staleCfg, staleSvc,   \* objects whose cached copy is not the current version
  queue,                \* reconcile requests waiting or scheduled
  used,                 \* IPAllocator.used
  left,                 \* what is left of Budget
  pc,                   \* where the worker is
  cur, hc, hcFresh,     \* the request, the local copy of its object, is it current
  todo,                 \* eligible Services not yet processed
  target,               \* the Service being processed
  ip, ipv6, tries,      \* its addresses, and the attempt at writing them
  svcFresh,             \* is the local copy of the Service current
  clear,                \* names whose ingress ReleaseAll has yet to clear
  missed                \* history: what this Reconcile call did not see or do

api    == <<cfg, svc>>
cache  == <<cfgCache, svcCache, staleCfg, staleSvc>>
job    == <<target, ip, ipv6, tries, svcFresh>>
worker == <<pc, cur, hc, hcFresh, todo, clear, missed, job>>
vars   == <<api, cache, queue, used, left, worker>>

-----------------------------------------------------------------------------
(* Objects.  An absent object is a record too, with exists = FALSE.        *)

\* The configs and Services whose cached copies were stale when the call listed
\* them, and the names whose Service it failed to clear.
NothingMissed == [configs |-> {}, services |-> {}, names |-> {}]

NoKey    == [ns |-> "", name |-> ""]
NoIPs    == [n \in Names |-> NoIP]
NoSpec   == [ipRange |-> NoRange, ipv6Range |-> NoRange,
             namespaceSelector |-> {}, maxAllocations |-> 0]

\* Ready and Degraded are the statuses of the two conditions, "" when unset.
NewConfig(spec) ==
  [exists |-> TRUE, spec |-> spec, finalizer |-> FALSE, deleting |-> FALSE,
   allocatedIPs |-> NoIPs, allocatedIPv6s |-> NoIPs,
   phase |-> "", ready |-> "", degraded |-> ""]

NoConfig == [NewConfig(NoSpec) EXCEPT !.exists = FALSE]

NewService(spec) ==
  [exists |-> TRUE, kind |-> spec.kind, loadBalancerIP |-> spec.loadBalancerIP, ingress |-> {}]

NoService == [exists |-> FALSE, kind |-> "clusterip", loadBalancerIP |-> NoIP, ingress |-> {}]

\* What the writes make of a config and of a Service.
WithFinalizer(o)        == [o EXCEPT !.finalizer = TRUE]
WithSpec(o, spec)       == [o EXCEPT !.spec = spec]
WithDeletion(o)         == [o EXCEPT !.deleting = TRUE]
WithInitialCondition(o) == [o EXCEPT !.ready = "False"]
WithConflict(o)         == [o EXCEPT !.degraded = "True"]
WithFailure(o)          == [o EXCEPT !.phase = "Failed", !.ready = "False", !.degraded = "True"]
WithIngress(o, ips)     == [o EXCEPT !.ingress = ips]

WithAllocation(o, n, i, j) ==
  [o EXCEPT !.allocatedIPs[n] = i, !.allocatedIPv6s[n] = IF j = NoIP THEN @ ELSE j,
            !.phase = "Active", !.ready = "True", !.degraded = "False"]

\* The addresses the status of a config records.
Recorded(o) ==
  ({o.allocatedIPs[n] : n \in Names} \cup {o.allocatedIPv6s[n] : n \in Names}) \ {NoIP}

\* The names it records them under.
RecordedNames(o) == {n \in Names : o.allocatedIPs[n] # NoIP \/ o.allocatedIPv6s[n] # NoIP}

-----------------------------------------------------------------------------
(* Decisions of the reconciler, as functions of what it has read.          *)

\* Mutant: the check for an ingress is missing.
IsEligibleAgain(s, spec) ==
  LET o == svcCache[s]
  IN /\ o.exists
     /\ o.kind \in {"unclassed", "helios"}
     /\ spec.namespaceSelector = {} \/ s.ns \in spec.namespaceSelector
     /\ \/ o.loadBalancerIP = NoIP
        \/ IPAllocatable(o.loadBalancerIP, spec.ipRange)
        \/ IPAllocatable(o.loadBalancerIP, spec.ipv6Range)

\* FilterEligibleServices on the cached Services.
IsEligible(s, spec) ==
  LET o == svcCache[s]
  IN /\ o.exists
     /\ o.kind \in {"unclassed", "helios"}
     /\ spec.namespaceSelector = {} \/ s.ns \in spec.namespaceSelector
     /\ o.ingress = {}
     /\ \/ o.loadBalancerIP = NoIP
        \/ IPAllocatable(o.loadBalancerIP, spec.ipRange)
        \/ IPAllocatable(o.loadBalancerIP, spec.ipv6Range)

\* The loop works on the listed copies, of which it reads the key and the
\* requested address.
Eligible(spec) ==
  {[key |-> s, loadBalancerIP |-> svcCache[s].loadBalancerIP] :
     s \in {t \in Services : IsEligible(t, spec)}}

\* Mutant: no conflict is seen.
ConflictsUnseen(c, spec) == {}

\* CheckIPConflicts: addresses other configs record in the ranges of c.
Conflicts(c, spec) ==
  LET others == Configs \ {c}
  IN  {a \in {cfgCache[d].allocatedIPs[n] : d \in others, n \in Names} : IPInRange(a, spec.ipRange)}
        \cup {a \in {cfgCache[d].allocatedIPv6s[n] : d \in others, n \in Names} : IPInRange(a, spec.ipv6Range)}

\* CheckQuota
Allocations(o) == {n \in Names : o.allocatedIPs[n] # NoIP}

\* Mutant: one allocation too many.
QuotaExceeded(o) ==
  o.spec.maxAllocations > 0 /\ Cardinality(Allocations(o)) > o.spec.maxAllocations

QuotaReached(o) ==
  o.spec.maxAllocations > 0 /\ Cardinality(Allocations(o)) >= o.spec.maxAllocations

\* splitRequestedIP: the family a requested address pins.
RequestedV4(want) == IF want # NoIP /\ IsV4(want) THEN want ELSE NoIP
RequestedV6(want) == IF want # NoIP /\ ~IsV4(want) THEN want ELSE NoIP

\* Mutant: the request is ignored.
AllocateAny(u, range, requested) == AllocateIP(u, range)

\* allocateIP
AllocateOne(u, range, requested) ==
  IF requested = NoIP THEN AllocateIP(u, range) ELSE AllocateSpecificIP(u, range, requested)

\* Mutant: the addresses of the other configs are not marked.
OthersForgotten(c) == {}

\* The addresses AllocateAndAssign marks before it allocates for c.
OthersRecorded(c) == UNION {Recorded(cfgCache[d]) : d \in Configs \ {c}}

\* findLoadBalancerServices: the requests an event on this object leads to.
FindLoadBalancerServices(o) ==
  {c \in Configs : /\ o.exists /\ o.kind # "clusterip"
                   /\ cfgCache[c].exists
                   /\ o.loadBalancerIP = NoIP \/ IPInRange(o.loadBalancerIP, cfgCache[c].spec.ipRange)}

-----------------------------------------------------------------------------
(* Writes to the API server.                                               *)

Spend(d) == left[d] > 0 /\ left' = [left EXCEPT ![d] = @ - 1]

\* The server stores o for c; a write that changes nothing makes no version.
\* The messages and generations of conditions are left out, so a write that
\* changes only those counts as one that changes nothing.
StoreConfig(c, o) ==
  /\ cfg' = [cfg EXCEPT ![c] = o]
  /\ staleCfg' = IF o = cfg[c] THEN staleCfg ELSE staleCfg \cup {c}

StoreService(s, o) ==
  /\ svc' = [svc EXCEPT ![s] = o]
  /\ staleSvc' = IF o = svc[s] THEN staleSvc ELSE staleSvc \cup {s}

\* Mutant: writes carry no resourceVersion, the last one wins.
AcceptedBlindly == UNCHANGED left

\* Update or Status().Update of hc: accepted when hc is of the current
\* version, refused when it is not, or when the call fails for another reason.
ConfigAccepted == hcFresh /\ UNCHANGED left
ConfigRefused  == (~hcFresh /\ UNCHANGED left) \/ Spend("fault")

\* Reads see the cache; without Lag the watch has delivered everything.
InSync == Lag \/ (staleCfg = {} /\ staleSvc = {})

NoJob == target' = NoKey /\ ip' = NoIP /\ ipv6' = NoIP /\ tries' = 0 /\ svcFresh' = FALSE

\* Reconcile returns.  Every result but a plain success asks for another run,
\* now or later: RequeueAfter, or an error, which is retried.
Return(requeue) ==
  /\ pc' = "idle"
  /\ cur' = NoKey /\ hc' = NoConfig /\ hcFresh' = FALSE
  /\ todo' = {} /\ clear' = {} /\ missed' = NothingMissed
  /\ NoJob
  /\ queue' = queue \cup requeue

-----------------------------------------------------------------------------
(* Reconcile, up to the loop over the Services.                            *)

\* The request is taken from the queue and its object read from the cache.
ReconcileGet(c) ==
  /\ pc = "idle" /\ c \in queue /\ InSync
  /\ queue' = queue \ {c}
  /\ IF cfgCache[c].exists
     THEN /\ cur' = c /\ hc' = cfgCache[c] /\ hcFresh' = (c \notin staleCfg)
          /\ pc' = IF ~hc'.finalizer THEN "addFinalizer"
                   ELSE IF hc'.deleting THEN "release" ELSE "list"
     ELSE UNCHANGED <<pc, cur, hc, hcFresh>>
  /\ UNCHANGED <<api, cache, used, left, todo, clear, missed, job>>

AddFinalizer ==
  /\ pc = "addFinalizer"
  /\ \/ /\ ConfigAccepted
        /\ hc' = WithFinalizer(hc)
        /\ StoreConfig(cur, hc')
        /\ pc' = "initialCondition"
        /\ UNCHANGED <<cur, hcFresh, todo, clear, missed, job, queue>>
     \/ /\ ConfigRefused
        /\ Return({cur})
        /\ UNCHANGED <<cfg, staleCfg>>
  /\ UNCHANGED <<svc, cfgCache, svcCache, staleSvc, used>>

InitialCondition ==
  /\ pc = "initialCondition"
  /\ \/ /\ ConfigAccepted
        /\ hc' = WithInitialCondition(hc)
        /\ StoreConfig(cur, hc')
        /\ pc' = IF hc.deleting THEN "release" ELSE "list"
        /\ UNCHANGED <<cur, hcFresh, todo, clear, missed, job, queue>>
     \/ /\ ConfigRefused
        /\ Return({cur})
        /\ UNCHANGED <<cfg, staleCfg>>
  /\ UNCHANGED <<svc, cfgCache, svcCache, staleSvc, used>>

\* Mutant: the error of a failed List is swallowed.
ListErrorSwallowed == Spend("fault") /\ Return({})

ListFails == Spend("fault") /\ Return({cur})

\* The Services are listed and filtered, the other configs checked for
\* addresses in the ranges of this one.  Either List may fail.
ListServices ==
  /\ pc = "list" /\ InSync
  /\ \/ /\ Conflicts(cur, hc.spec) # {}
        /\ pc' = "conflict"
        /\ UNCHANGED <<cur, hc, hcFresh, todo, clear, missed, job, queue, left>>
     \/ /\ Conflicts(cur, hc.spec) = {}
        /\ todo' = Eligible(hc.spec)
        /\ missed' = [missed EXCEPT !.configs = staleCfg \ {cur},
                                   !.services = {s \in staleSvc : IsEligible(s, hc.spec)}]
        /\ pc' = "loop"
        /\ UNCHANGED <<cur, hc, hcFresh, clear, job, queue, left>>
     \/ ListFails
  /\ UNCHANGED <<api, cache, used>>

\* Mutant: a conflict is reported once and for all.
ReportConflictOnce ==
  /\ pc = "conflict"
  /\ \/ ConfigAccepted /\ StoreConfig(cur, WithConflict(hc))
     \/ ConfigRefused /\ UNCHANGED <<cfg, staleCfg>>
  /\ Return({})
  /\ UNCHANGED <<svc, cfgCache, svcCache, staleSvc, used>>

\* A conflict is reported as Degraded; a refused write is only logged.
ReportConflict ==
  /\ pc = "conflict"
  /\ \/ ConfigAccepted /\ StoreConfig(cur, WithConflict(hc))
     \/ ConfigRefused /\ UNCHANGED <<cfg, staleCfg>>
  /\ Return({cur})
  /\ UNCHANGED <<svc, cfgCache, svcCache, staleSvc, used>>

-----------------------------------------------------------------------------
(* The loop.  The order of a List is unspecified: any Service may be next. *)

\* The loop ends: no Service is left, or the quota is reached.
LoopEnds ==
  /\ pc = "loop"
  /\ todo = {} \/ QuotaReached(hc)
  /\ Return({cur})
  /\ UNCHANGED <<api, cache, used, left>>

\* AllocateAndAssign, up to the write of the Service.  An IPv4 address
\* is given back when there is no IPv6 address to go with it.
Allocate(item) ==
  /\ pc = "loop" /\ item \in todo /\ ~QuotaReached(hc) /\ InSync
  /\ LET want    == item.loadBalancerIP
         marked  == used \cup OthersRecorded(cur)
         first   == AllocateOne(marked, hc.spec.ipRange, RequestedV4(want))
         taken   == MarkUsed(marked, first)
         dual    == hc.spec.ipv6Range # NoRange
         second  == IF dual THEN AllocateOne(taken, hc.spec.ipv6Range, RequestedV6(want)) ELSE NoIP
     IN  \/ /\ first # NoIP /\ (dual => second # NoIP)
            /\ used' = MarkUsed(taken, second)
            /\ target' = item.key /\ ip' = first /\ ipv6' = second /\ tries' = 1
            /\ todo' = todo \ {item}
            /\ pc' = "assign"
         \/ /\ first = NoIP \/ (dual /\ second = NoIP)
            /\ used' = ReleaseIP(taken, first)
            /\ pc' = "fail"
            /\ UNCHANGED <<target, ip, ipv6, tries, todo>>
  /\ UNCHANGED <<api, cache, queue, left, cur, hc, hcFresh, clear, missed, svcFresh>>

\* AllocateAndAssign could not list the configs.
AllocateListFails ==
  /\ pc = "loop" /\ todo # {} /\ ~QuotaReached(hc)
  /\ Spend("fault")
  /\ pc' = "fail"
  /\ UNCHANGED <<api, cache, queue, used, cur, hc, hcFresh, todo, clear, missed, job>>

-----------------------------------------------------------------------------
(* assignIPToService: the attempts of RetryOnConflict.                     *)

\* It gives up: AllocateAndAssign releases the addresses.
AssignFails ==
  /\ used' = ReleaseIP(ReleaseIP(used, ip), ipv6)
  /\ pc' = "fail"
  /\ NoJob

\* Mutant: one attempt too many.
TryOnceMore ==
  \/ /\ tries <= MaxTries
     /\ tries' = tries + 1 /\ pc' = "assign" /\ svcFresh' = FALSE
     /\ UNCHANGED <<used, target, ip, ipv6>>
  \/ tries > MaxTries /\ AssignFails

\* A conflict starts another attempt, until there were MaxTries.
TryAgain ==
  \/ /\ tries < MaxTries
     /\ tries' = tries + 1 /\ pc' = "assign" /\ svcFresh' = FALSE
     /\ UNCHANGED <<used, target, ip, ipv6>>
  \/ tries >= MaxTries /\ AssignFails

\* Get, and Status().Update with the ingress.
AssignStatus ==
  /\ pc = "assign" /\ InSync
  /\ \/ /\ svcCache[target].exists /\ target \notin staleSvc
        /\ StoreService(target, WithIngress(svc[target], {ip, ipv6} \ {NoIP}))
        /\ svcFresh' = TRUE /\ pc' = "specUpdate"
        /\ UNCHANGED <<used, left, target, ip, ipv6, tries>>
     \/ /\ svcCache[target].exists /\ svc[target].exists /\ target \in staleSvc
        /\ TryAgain
        /\ UNCHANGED <<svc, staleSvc, left>>
     \/ /\ ~svcCache[target].exists \/ ~svc[target].exists \* not found
        /\ AssignFails
        /\ UNCHANGED <<svc, staleSvc, left>>
     \/ /\ Spend("fault")
        /\ AssignFails
        /\ UNCHANGED <<svc, staleSvc>>
  /\ UNCHANGED <<cfg, cfgCache, svcCache, staleCfg, queue, cur, hc, hcFresh, todo, clear, missed>>

\* Update of the same object, which the status write has refreshed: it stores
\* nothing new, but it can be refused.
AssignSpec ==
  /\ pc = "specUpdate"
  /\ \/ /\ svcFresh
        /\ pc' = "record"
        /\ UNCHANGED <<used, left, job>>
     \/ /\ ~svcFresh /\ svc[target].exists
        /\ TryAgain
        /\ UNCHANGED left
     \/ /\ ~svcFresh /\ ~svc[target].exists
        /\ AssignFails
        /\ UNCHANGED left
     \/ Spend("fault") /\ AssignFails
  /\ UNCHANGED <<api, cache, queue, cur, hc, hcFresh, todo, clear, missed>>

\* The allocation is recorded in the status, under the name of the Service.
\* A refused write ends the Reconcile call with an error.
RecordAllocation ==
  /\ pc = "record"
  /\ \/ /\ ConfigAccepted
        /\ hc' = WithAllocation(hc, target.name, ip, ipv6)
        /\ StoreConfig(cur, hc')
        /\ pc' = "loop"
        /\ NoJob
        /\ UNCHANGED <<cur, hcFresh, todo, clear, missed, queue>>
     \/ /\ ConfigRefused
        /\ Return({cur})
        /\ UNCHANGED <<cfg, staleCfg>>
  /\ UNCHANGED <<svc, cfgCache, svcCache, staleSvc, used>>

\* A failed allocation is reported and ends the Reconcile call; a refused
\* write is only logged.
ReportFailure ==
  /\ pc = "fail"
  /\ \/ ConfigAccepted /\ StoreConfig(cur, WithFailure(hc))
     \/ ConfigRefused /\ UNCHANGED <<cfg, staleCfg>>
  /\ Return({cur})
  /\ UNCHANGED <<svc, cfgCache, svcCache, staleSvc, used>>

-----------------------------------------------------------------------------
(* handleDeletion and ReleaseAll.                                          *)

\* Mutant: the IPv6 addresses are forgotten.
ReleaseIPv4Only ==
  /\ pc = "release"
  /\ used' = used \ {hc.allocatedIPs[n] : n \in Names}
  /\ clear' = {n \in Names : hc.allocatedIPs[n] # NoIP}
  /\ pc' = "clear"
  /\ UNCHANGED <<api, cache, queue, left, cur, hc, hcFresh, todo, missed, job>>

\* Mutant: only Services with an IPv6 address are cleared.
ReleaseClearsIPv6Only ==
  /\ pc = "release"
  /\ used' = used \ Recorded(hc)
  /\ clear' = {n \in Names : hc.allocatedIPv6s[n] # NoIP}
  /\ pc' = "clear"
  /\ UNCHANGED <<api, cache, queue, left, cur, hc, hcFresh, todo, missed, job>>

\* Every recorded address is released before any Service is touched.
ReleaseAll ==
  /\ pc = "release"
  /\ used' = used \ Recorded(hc)
  /\ clear' = RecordedNames(hc)
  /\ pc' = "clear"
  /\ UNCHANGED <<api, cache, queue, left, cur, hc, hcFresh, todo, missed, job>>

\* The Service of that name in the namespace of the config loses its ingress.
\* It is skipped when the cache does not have it, and a refused write, of a
\* copy that is stale or for another reason, is only logged.
ClearIngress(n) ==
  /\ pc = "clear" /\ n \in clear /\ InSync
  /\ clear' = clear \ {n}
  /\ LET s == [ns |-> cur.ns, name |-> n]
     IN  \/ /\ s \in Services /\ svcCache[s].exists /\ s \notin staleSvc
            /\ StoreService(s, WithIngress(svc[s], {}))
            /\ UNCHANGED <<left, missed>>
         \/ /\ s \in Services => ~svcCache[s].exists /\ s \notin staleSvc
            /\ UNCHANGED <<svc, staleSvc, left, missed>>
         \/ /\ s \in staleSvc
            /\ missed' = [missed EXCEPT !.names = @ \cup {n}]
            /\ UNCHANGED <<svc, staleSvc, left>>
         \/ /\ s \in Services
            /\ Spend("fault")
            /\ missed' = [missed EXCEPT !.names = @ \cup {n}]
            /\ UNCHANGED <<svc, staleSvc>>
  /\ UNCHANGED <<cfg, cfgCache, svcCache, staleCfg, queue, used, pc, cur, hc, hcFresh, todo, job>>

\* Mutant: a failure to remove the finalizer is not returned as an error.
RemoveFinalizerOnce ==
  /\ pc = "clear" /\ clear = {}
  /\ \/ ConfigAccepted /\ StoreConfig(cur, NoConfig)
     \/ ConfigRefused /\ UNCHANGED <<cfg, staleCfg>>
  /\ Return({})
  /\ UNCHANGED <<svc, cfgCache, svcCache, staleSvc, used>>

\* Without its last finalizer a deleted object disappears.
RemoveFinalizer ==
  /\ pc = "clear" /\ clear = {}
  /\ \/ /\ ConfigAccepted
        /\ StoreConfig(cur, NoConfig)
        /\ Return({})
     \/ /\ ConfigRefused
        /\ Return({cur})
        /\ UNCHANGED <<cfg, staleCfg>>
  /\ UNCHANGED <<svc, cfgCache, svcCache, staleSvc, used>>

-----------------------------------------------------------------------------
(* Users, the watches, and restarts of the controller.                     *)

UserWritesConfig(c, o) ==
  /\ cfg' = [cfg EXCEPT ![c] = o]
  /\ staleCfg' = staleCfg \cup {c}
  /\ hcFresh' = (hcFresh /\ cur # c)
  /\ UNCHANGED <<svc, cfgCache, svcCache, staleSvc, queue, used, pc, cur, hc, todo, clear, missed, job>>

CreateConfig(c, spec) ==
  ~cfg[c].exists /\ UserWritesConfig(c, NewConfig(spec)) /\ Spend("createConfig")

UpdateConfig(c, spec) ==
  /\ cfg[c].exists /\ cfg[c].spec # spec
  /\ UserWritesConfig(c, WithSpec(cfg[c], spec))
  /\ Spend("updateConfig")

\* An object with a finalizer is only marked as deleted.
DeleteConfig(c) ==
  /\ cfg[c].exists /\ ~cfg[c].deleting
  /\ UserWritesConfig(c, IF cfg[c].finalizer THEN WithDeletion(cfg[c]) ELSE NoConfig)
  /\ Spend("deleteConfig")

UserWritesService(s, o) ==
  /\ svc' = [svc EXCEPT ![s] = o]
  /\ staleSvc' = staleSvc \cup {s}
  /\ svcFresh' = (svcFresh /\ target # s)
  /\ UNCHANGED <<cfg, cfgCache, svcCache, staleCfg, queue, used,
                 pc, cur, hc, hcFresh, todo, clear, missed, target, ip, ipv6, tries>>

CreateService(s, spec) ==
  ~svc[s].exists /\ UserWritesService(s, NewService(spec)) /\ Spend("createService")

DeleteService(s) ==
  svc[s].exists /\ UserWritesService(s, NoService) /\ Spend("deleteService")

\* A user, or another controller, changes something this model leaves out: a
\* label, a port.
EditService(s) ==
  svc[s].exists /\ UserWritesService(s, svc[s]) /\ Spend("editService")

\* A watch event updates the cache and enqueues requests.
WatchConfig(c) ==
  /\ c \in staleCfg
  /\ cfgCache' = [cfgCache EXCEPT ![c] = cfg[c]]
  /\ staleCfg' = staleCfg \ {c}
  /\ queue' = queue \cup {c}
  /\ UNCHANGED <<api, svcCache, staleSvc, used, left, worker>>

WatchService(s) ==
  /\ s \in staleSvc
  /\ svcCache' = [svcCache EXCEPT ![s] = svc[s]]
  /\ staleSvc' = staleSvc \ {s}
  /\ queue' = queue \cup FindLoadBalancerServices(svcCache[s]) \cup FindLoadBalancerServices(svc[s])
  /\ UNCHANGED <<api, cfgCache, staleCfg, used, left, worker>>

\* The process stops at any point and starts again with an empty allocator, a
\* cache listed anew and a request for every config.
Restart ==
  /\ Spend("restart")
  /\ used' = {}
  /\ cfgCache' = cfg /\ svcCache' = svc
  /\ staleCfg' = {} /\ staleSvc' = {}
  /\ queue' = {c \in Configs : cfg[c].exists}
  /\ pc' = "idle"
  /\ cur' = NoKey /\ hc' = NoConfig /\ hcFresh' = FALSE
  /\ todo' = {} /\ clear' = {} /\ missed' = NothingMissed
  /\ NoJob
  /\ UNCHANGED api

-----------------------------------------------------------------------------
\* The controller starts in a cluster where some objects exist already, none
\* of which it has handled.
Init ==
  /\ cfg \in [Configs -> {NoConfig} \cup {NewConfig(spec) : spec \in ConfigSpecs}]
  /\ svc \in [Services -> {NoService} \cup
                {NewService(spec) : spec \in UNION {ServiceSpecs[s] : s \in Services}}]
  /\ \A s \in Services : svc[s].exists => \E spec \in ServiceSpecs[s] : svc[s] = NewService(spec)
  /\ cfgCache = cfg /\ svcCache = svc
  /\ staleCfg = {} /\ staleSvc = {}
  /\ queue = {c \in Configs : cfg[c].exists}
  /\ used = {} /\ left = Budget
  /\ pc = "idle" /\ cur = NoKey /\ hc = NoConfig /\ hcFresh = FALSE
  /\ todo = {} /\ clear = {} /\ missed = NothingMissed
  /\ target = NoKey /\ ip = NoIP /\ ipv6 = NoIP /\ tries = 0 /\ svcFresh = FALSE

WorkerStep ==
  \/ AddFinalizer \/ InitialCondition \/ ListServices \/ ReportConflict
  \/ LoopEnds \/ (\E item \in todo : Allocate(item)) \/ AllocateListFails
  \/ AssignStatus \/ AssignSpec \/ RecordAllocation \/ ReportFailure
  \/ ReleaseAll \/ (\E n \in Names : ClearIngress(n)) \/ RemoveFinalizer

UserStep ==
  \/ \E c \in Configs : \/ DeleteConfig(c)
                        \/ \E spec \in ConfigSpecs : CreateConfig(c, spec) \/ UpdateConfig(c, spec)
  \/ \E s \in Services : \/ DeleteService(s) \/ EditService(s)
                         \/ \E spec \in ServiceSpecs[s] : CreateService(s, spec)

Next ==
  \/ WorkerStep
  \/ UserStep
  \/ \E c \in Configs : ReconcileGet(c) \/ WatchConfig(c)
  \/ \E s \in Services : WatchService(s)
  \/ Restart

Spec == Init /\ [][Next]_vars

-----------------------------------------------------------------------------
(* Properties.                                                             *)

ConfigObjects ==
  [exists : BOOLEAN, spec : ConfigSpecs \cup {NoSpec}, finalizer : BOOLEAN, deleting : BOOLEAN,
   allocatedIPs : [Names -> Addr \cup {NoIP}], allocatedIPv6s : [Names -> Addr \cup {NoIP}],
   phase : {"", "Active", "Failed"}, ready : {"", "True", "False"}, degraded : {"", "True", "False"}]

ServiceObjects ==
  [exists : BOOLEAN, kind : ServiceKinds, loadBalancerIP : Addr \cup {NoIP}, ingress : SUBSET Addr]

PCs == {"idle", "addFinalizer", "initialCondition", "list", "conflict", "loop",
        "assign", "specUpdate", "record", "fail", "release", "clear"}

ServerTypes ==
  cfg \in [Configs -> ConfigObjects] /\ svc \in [Services -> ServiceObjects]

CacheTypes ==
  /\ cfgCache \in [Configs -> ConfigObjects] /\ svcCache \in [Services -> ServiceObjects]
  /\ staleCfg \subseteq Configs /\ staleSvc \subseteq Services

RequestTypes ==
  /\ pc \in PCs
  /\ cur \in Configs \cup {NoKey} /\ (pc # "idle" => cur \in Configs)
  /\ hc \in ConfigObjects /\ hcFresh \in BOOLEAN
  /\ todo \subseteq [key : Services, loadBalancerIP : Addr \cup {NoIP}]
  /\ clear \subseteq Names
  /\ missed \in [configs : SUBSET Configs, services : SUBSET Services, names : SUBSET Names]

JobTypes ==
  /\ target \in Services \cup {NoKey}
  /\ pc \in {"assign", "specUpdate", "record"} => target \in Services
  /\ ip \in Addr \cup {NoIP} /\ ipv6 \in Addr \cup {NoIP}
  /\ tries \in 0 .. MaxTries /\ svcFresh \in BOOLEAN

\* Every variable has its type; the worker has a request while it is busy,
\* and a Service while it assigns one.
TypeOK ==
  /\ ServerTypes /\ CacheTypes /\ RequestTypes /\ JobTypes
  /\ queue \subseteq Configs
  /\ used \subseteq Addr
  /\ left \in [Disruptions -> Nat]

\* The addresses of one-address ranges, which AllocateIP hands to every
\* Service that needs one.
OneAddress(r) == ParseIPRange(r).ok /\ ParseIPRange(r).start = ParseIPRange(r).end

Shared ==
  LET ranges == {spec.ipRange : spec \in ConfigSpecs} \cup {spec.ipv6Range : spec \in ConfigSpecs}
  IN  {ParseIPRange(r).start : r \in {q \in ranges : OneAddress(q)}}

\* Two HeliosConfigs never record the same address, whatever is stale, fails
\* or restarts: AllocateAndAssign marks the addresses of the other configs.
NoCrossConfigDuplicate ==
  \A c, d \in Configs : c # d => Recorded(cfg[c]) \cap Recorded(cfg[d]) \subseteq Shared

\* Two Services never carry the same address: the map of used addresses keeps
\* every address that is on a Service, so the allocator does not pick it again.
NoDuplicateIP ==
  \A s, t \in Services : s # t => svc[s].ingress \cap svc[t].ingress \subseteq Shared

\* A Service that asked for an address has that address or none: the request
\* is honored by AllocateSpecificIP, never swapped for another one.
HonorsRequest ==
  \A s \in Services : svc[s].loadBalancerIP # NoIP /\ svc[s].ingress # {}
                        => svc[s].loadBalancerIP \in svc[s].ingress

\* The status of a config never records more allocations than maxAllocations,
\* although CheckQuota counts on a copy of it that may be stale.
QuotaKept ==
  \A c \in Configs : cfg[c].spec.maxAllocations > 0
                       => Cardinality(Allocations(cfg[c])) <= cfg[c].spec.maxAllocations

\* A config disappears only once the addresses its status records have been
\* released: the finalizer is there before the first allocation is recorded,
\* and handleDeletion removes it after ReleaseAll.
CleanedUpFirst ==
  [][\A c \in Configs : cfg[c].exists /\ ~cfg'[c].exists => Recorded(cfg[c]) \cap used' = {}]_vars

\* No status write of the reconciler, each of which carries the whole status,
\* undoes an allocation recorded before: a record lasts as long as its config.
RecordsKept ==
  [][\A c \in Configs, n \in Names :
       cfg[c].allocatedIPs[n] # NoIP /\ cfg'[c].exists => cfg'[c].allocatedIPs[n] # NoIP]_vars

\* A Service keeps its address: FilterEligibleServices skips a Service that
\* has an ingress.  It changes when the Service is deleted, when a cleanup of a
\* config of its namespace that has a record for its name clears it, and when
\* the copy the filter saw was older than the address; whatever fails, restarts
\* or is edited.
StableIngress ==
  [][\A s \in Services :
       svc[s].ingress # {} /\ svc'[s].exists /\ svc'[s].ingress # svc[s].ingress
         => \/ /\ pc = "clear" /\ hc.deleting /\ svc'[s].ingress = {}
               /\ s.ns = cur.ns /\ s.name \in RecordedNames(hc)
            \/ s = target /\ s \in missed.services]_vars

\* When a config disappears, the Services of its namespace for whose names it
\* has records carry no address any more: ReleaseAll clears each of them, also
\* those with an IPv6 record only.  The exceptions are the ones it tried to
\* clear and could not, since its copy was stale or the write failed.
ClearedOnDelete ==
  [][\A c \in Configs, s \in Services :
       cfg[c].exists /\ ~cfg'[c].exists /\ s.ns = c.ns /\ s.name \in RecordedNames(cfg[c])
         => svc[s].ingress = {} \/ s.name \in missed.names]_vars

\* No more Services carry an address than the only config may allocate.
QuotaOnServices ==
  \A c \in Configs : Configs = {c} /\ cfg[c].spec.maxAllocations > 0
    => Cardinality({s \in Services : svc[s].ingress # {}}) <= cfg[c].spec.maxAllocations

\* A config that records an address in the ranges of another one stops it.
InRanges(o, spec) ==
  \E n \in Names : \/ IPInRange(o.allocatedIPs[n], spec.ipRange)
                   \/ IPInRange(o.allocatedIPv6s[n], spec.ipv6Range)

\* CheckIPConflicts: a config records a new address only while no other config
\* records one in its ranges, from the check, which comes before the loop, to
\* the write; but for configs of which the check saw a stale copy.  So the
\* config that comes second is the one that stops, and two configs stop each
\* other only if a user moves a range or a copy was stale.
AllocatesUncontested ==
  [][\A c, d \in Configs :
       c # d /\ ~(Recorded(cfg'[c]) \subseteq Recorded(cfg[c])) /\ InRanges(cfg[d], cfg[c].spec)
         => d \in missed.configs]_vars

-----------------------------------------------------------------------------
(* Fairness: the worker runs, the work queue starves no request, the watch *)
(* delivers every event, and no Service comes last in every List, which    *)
(* walks a Go map.                                                         *)
ServiceIsDue(s)  == pc = "loop" /\ InSync /\ ~QuotaReached(hc) /\ s \in {item.key : item \in todo}
ServiceIsNext(s) == \E item \in todo : item.key = s /\ Allocate(item)

Fairness ==
  /\ WF_vars(WorkerStep)
  /\ \A s \in Services : []<>ServiceIsDue(s) => []<><<ServiceIsNext(s)>>_vars
  /\ \A c \in Configs : SF_vars(ReconcileGet(c)) /\ WF_vars(WatchConfig(c))
  /\ \A s \in Services : WF_vars(WatchService(s))

FairSpec == Spec /\ Fairness

\* A deleted config goes away: handleDeletion is retried until the finalizer
\* is removed.
DeletionCompletes == \A c \in Configs : cfg[c].deleting ~> ~cfg[c].deleting

\* A Service that waits for any address while there is a config, with a large
\* enough pool, gets one: though a Service whose request cannot be met ends
\* the loop of every Reconcile call it comes up in, and though a config may be
\* stopped by a conflict with another one.
ServicesServed ==
  \A s \in Services :
    svc[s].exists /\ svc[s].loadBalancerIP = NoIP /\ (\E c \in Configs : cfg[c].exists)
      ~> \/ svc[s].ingress # {} \/ ~svc[s].exists
         \/ \A c \in Configs : ~cfg[c].exists \/ cfg[c].deleting
=============================================================================
