# Verification of helios-lb

TLA+ models of the helios-lb controller, the TLC runs that check them, and the
TLAPS proofs of what matters most.

## The system

helios-lb is a Kubernetes controller. A user creates *HeliosConfigs*, each with a
pool of addresses (`ipRange`, optionally `ipv6Range`), and *Services* of type
LoadBalancer. The controller gives each eligible Service an address of a pool.

| Part | Source | State | Operations |
|---|---|---|---|
| Address ranges | `internal/network/parse.go` | none | parse a range, next and previous address, containment |
| IP allocator | `internal/network/ip_allocator.go`, `network.go` | the map `used`, a mutex | AllocateIP, AllocateSpecificIP, MarkUsed, ReleaseIP |
| IP manager | `internal/controller/ip_manager.go` | none of its own | AllocateAndAssign, ReleaseAll, CheckIPConflicts, CheckQuota |
| Reconciler | `internal/controller/heliosconfig_controller.go`, `service_filter.go` | one Reconcile call at a time | Reconcile, handleDeletion, the Service watch |
| Kubernetes | external | Services, HeliosConfigs, informer cache, work queue | reads of the cache, writes with optimistic concurrency, finalizers |
| Webhook | `api/v1/heliosconfig_webhook.go` | none | validation of a config, overlap check |
| Load balancer | `internal/loadbalancer` | lists of backends, their flags and counters, two WaitGroups, a channel | NextBackend with five algorithms, AddBackend, RemoveBackend, health checks, Stop |
| Metrics, entry point | `internal/metrics`, `cmd/main.go` | gauges | recording, wiring |

Three copies of the truth exist: the ingress in the Service status, the map
`allocatedIPs` in the config status, and `used` in the memory of the process.
They are written one after the other, by calls each of which can be refused, and
every decision is taken on a cache that lags behind. A restart loses `used`.
What makes the code correct, or not, is how these three stay together.

The load balancer is a part of its own: `main` creates one, but the controller
does not call it yet. Its hazards are those of goroutines that share memory.

## Modules

| Module | Models |
|---|---|
| `IPRange` | addresses and ranges |
| `AllocatorOps` | the allocator's methods as functions of `used` |
| `IPAllocator` | what the allocator promises: each call takes effect at one instant |
| `AllocatorScan` | the allocator as it runs: goroutines, mutex, scan loop; implements `IPAllocator` |
| `HeliosController` | reconciler, IP manager, API server, cache, users, restarts |
| `Webhook` | the validating webhook, the writes it reviews and the order in which they are stored |
| `BackendRegistry` | the lists of backends: AddBackend, RemoveBackend |
| `BalancerLifecycle` | what a load balancer promises to whoever stops it |
| `HealthChecks` | the health check loop, its goroutines, the WaitGroups and Stop; implements `BalancerLifecycle` |
| `Algorithms` | the five algorithms as functions of what they read |
| `LoadBalancer` | NextBackend under concurrent callers, composed with `BackendRegistry` and with what `BalancerLifecycle` promises of the flags |
| `ControllerInvariants` | the inductive invariants of `HeliosController` |
| `AllocatorTheorems`, `ScanTheorems` | proofs about the allocator |
| `ControllerTheorems` | proofs about the controller: types, addresses across configs, what a step may do |
| `ControllerRecords` | the same: what configs record (cleanup, quota), what Services carry, what a cleanup clears, and when a config may allocate beside others |
| `WebhookTheorems`, `HealthTheorems`, `BalancerTheorems` | proofs about the webhook, about Stop, and about NextBackend |
| `MCAllocatorScan`, `MCHeliosController`, `MCWebhook`, `MCHealthChecks`, `MCLoadBalancer` | instances for TLC |

**Addresses** are numbers: `AddrSpace` of IPv4, then as many of IPv6; `NoIP` is
the empty string. The order of numbers is the order `bytes.Compare` gives within
a family. Across families it is not: the code compares 4 with 16 bytes and may
place an IPv6 address in an IPv4 range; the model never does. `IncrementIP` wraps
at the top of a family as it does in the code.

**HeliosController.** `cfg` and `svc` are the objects at the server, `cfgCache`
and `svcCache` the informer cache. Instead of resourceVersions, `staleCfg` and
`staleSvc` are the objects whose cached copy is outdated, `hcFresh` and `svcFresh`
say whether the copies the worker holds are current. A write is accepted when its
copy is current. `pc` is the place in Reconcile; each action runs to the next API
write, so that users, watch events and a restart can come between any two writes:

| `pc` | Action | Code |
|---|---|---|
| idle | ReconcileGet | Get of the config |
| addFinalizer, initialCondition | AddFinalizer, InitialCondition | the two writes for a new config |
| list | ListServices | List, FilterEligibleServices, CheckIPConflicts |
| conflict | ReportConflict | Degraded |
| loop | LoopEnds, Allocate, AllocateListFails | quota, AllocateAndAssign up to the write |
| assign, specUpdate | AssignStatus, AssignSpec | the attempts of assignIPToService |
| record | RecordAllocation | status write after an allocation |
| fail | ReportFailure | status write after a failure |
| release, clear | ReleaseAll, ClearIngress, RemoveFinalizer | handleDeletion |

The environment acts through CreateConfig, UpdateConfig, DeleteConfig,
CreateService, DeleteService, EditService, WatchConfig, WatchService and Restart.
Users' actions, restarts and failed calls are bounded by `Budget`; nothing else is.

`missed` is a history variable: which configs, and which eligible Services, the present
Reconcile call listed from a stale copy, and which Services its cleanup tried to clear
and could not. No action depends on it. The properties use it to say exactly when the
code may fail to do what it is meant to, instead of excluding stale reads and failed
calls.

**Webhook.** A write is submitted, reviewed on the cached list (ValidateSpec) and stored
if it is still based on the current version (Commit). The reconciler's finalizer updates
take the same way. `seen` in a write under way is history: the configs it was compared
with that have not changed since. So is `unchecked`: the pairs of stored configs whose
present specs were never compared, because the List failed, the cache was outdated,
another write was stored between the review and the write, or the update of one config
excluded the other by its name. The webhook is off by default, so HeliosController has
every write admitted and the two modules are not composed.

**AllocatorScan.** A method takes the mutex (Lock), looks the address up (ScanHits,
SpecificHits) and marks it (Take) in separate steps, so that it is the mutex, and not the
grain of the model, that keeps two goroutines apart. A range may end at the last address
of its family, where the scan wraps.

**HealthChecks.** `loop` is healthCheckLoop, `pc[k]` a goroutine that runs
doHealthCheck, `stop[g]` a call of Stop, `wg` and `checkWg` the counters of the two
WaitGroups. A goroutine that calls `Add` before it is started, the select between
the ticker and the closed channel, the two `Wait`s and a `close` of a closed channel
are as in the code. Time is left out: a tick may come whenever the loop waits for
one, so checks overlap as they do when they last longer than the interval. `Checks`
bounds the goroutines alive at once.

**LoadBalancer.** A call copies the list under the lock (NextBackend), then reads one
flag (ReadFlag) or one counter (LoadConnections) at a time, and ends in one of
SelectRoundRobin, SelectLeast, SelectWeighted, SelectHashed and SelectRandom. Between
any two of these other callers connect and leave, flags move and the list changes.
The flags move as `BalancerLifecycle` lets them, which is what `HealthChecks` is
shown to implement. The counter of round robin has `CounterBits` bits, so that it
wraps within the bounds as the 32 bits of the code do. `watch` and `share` are
history variables for the properties.

Left out: messages, times and generations of conditions (a write that changes
only those counts as one that changes nothing), events, metrics, delays (a
requeued request is available at once), calls that are applied but reported as
failed, and more than one replica.

## Runs

All controller instances have `AddrSpace = 8` and `MaxTries = 2` (for the 5
attempts of `retry.DefaultRetry`: one conflict that is retried and one that is
not). Each disruption named happens at most once, at any moment. `Lag` says
whether reads may be stale. Deadlock is not checked for the controller: with no
config left it is at rest.

| Run | Instance | Shows |
|---|---|---|
| `scan` | 2 goroutines, 4 addresses per family, scan limit 3 | `Linearizable`: mutex and loop implement the atomic allocator and every call returns; `Exclusive`, `FromRange`, `ScanInv`. One range ends at the last IPv4 address |
| `overlap` | 2 configs, 1 Service, pools that overlap in one field or across `ipRange` and `ipv6Range`; restart, deletion; lag | `NoCrossConfigDuplicate`, and `CrossInv`, the invariant of its proof |
| `chaos` | 1 config, single or dual stack, 1 Service that asks for an address; restart, failed call, config created, changed, deleted, Service edited; lag | `CleanedUpFirst`, `CleanupInv`, `HonorsRequest`, `TypeOK` |
| `quota` | 1 config that may allocate once, 2 Services, of this class or another; restart, failed call, config deleted, Service deleted and created; lag | `QuotaKept`, `RecordsKept`, `StableIngress`, `ClearedOnDelete` |
| `steady` | 2 configs with one pool, 2 Services; Service deleted and created; lag | `NoDuplicateIP`, `AllocatesUncontested` |
| `live` | 1 config with 6 addresses, 1 Service; restart, failed call, config deleted, Service deleted and created; lag | `DeletionCompletes`, `ServicesServed` |
| `conflict` | 2 configs with one pool of 6 addresses, 2 Services, the first asks for an address; config deleted, Service deleted and created; no lag | `ServicesServed` |
| `webhook` | 2 configs, 2 users with 3 writes, 2 specs that share no address and one that is refused, one failed List; lag | `NoOverlap`, `Deletable` |
| `lifecycle` | 2 Services with one backend each, 2 checks at once, 2 calls of Stop one after the other, final HTTP answers 304 and 503 | `StopInv`, `StopComplete`, `NoPanic`, `StopReturns`, `HealthConverges`, `Lifecycle` (the refinement of `BalancerLifecycle`), `TypeOK` |
| `balance` | 1 Service with 2 backends, 2 callers behind one address, each algorithm, a 2-bit counter, one change of the list | `ServedHealthy`, `NilMeansNone`, `LeastLoaded`, `SameClientSameBackend`, `FairShare`, `TypeOK` |
| `restart_duplicate` | 1 config with 2 addresses, 2 Services; restart; no lag | `NoDuplicateIP` violated (see below) |
| `stale_quota` | 1 config that may allocate once, 2 Services; lag | `QuotaOnServices` violated (see below) |

Why these sizes: a duplicate needs two holders, two goroutines, Services or
configs; a full pool needs two addresses (one alone is shared by design); a scan
limit of 3 is below the 4 addresses of one of the ranges, and ends a scan that has
wrapped at the top of IPv4 and finds nothing free. Overlap uses pools that
overlap across the two fields because with pools in the same field
`CheckIPConflicts` already stops the second config, and the marking of foreign
addresses in AllocateAndAssign has nothing left to do. One Service is enough there
because a cleanup interrupted by a restart frees it for the other config. In
`conflict` the Service whose request cannot be met ends every Reconcile call it comes
up in, which is the case ServicesServed is about. In `lifecycle` two checks are
enough for an old result to overwrite a newer one, and one of the two answers is
healthy. In `balance` the weights are 2 and the default, so that a round has three
turns and four values of the counter wrap in the middle of one.

Limits of what passes. Four properties hold under every disruption and any lag and name
their own exceptions. `FromRange`: the scan leaves a range only when it ends at the last
address of its family and is full. `StableIngress`: an address is replaced by another
only when the copy of the Service that FilterEligibleServices saw was older than the
address. `ClearedOnDelete`: a cleanup leaves an address on a Service of the config's
namespace for whose name it has a record only when it tried to clear it from a stale
copy, or when the write failed. `AllocatesUncontested`: a config allocates while another
records an address in its ranges only when CheckIPConflicts saw a stale copy of that
one; so two configs that stop each other have met a stale copy, or a user who moved a
range. `NoOverlap` is like them, with `unchecked`.

`HonorsRequest` holds where a Service asks for the same address each time it is created
(see below); `QuotaKept` does not cover a user who lowers maxAllocations;
`NoDuplicateIP` needs the absence of restarts, failed calls, edits and deletions of
configs; `ClearedOnDelete` does not speak of Services in other namespaces, which
Reconcile serves and ReleaseAll does not look for; `Deletable` excuses a config that
shares an address with another one, of which the webhook refuses every update; `NoPanic`
is about calls of Stop that do not overlap; `FairShare` counts anew when the counter
wraps or the candidates change. The `conflict` run has an up-to-date cache, since with a
lagging one both configs may be stopped for good.

**Fairness** (`live`, `conflict`, `scan`, `webhook`, `lifecycle`): the worker runs, the
work queue hands out every request in it, every watch event arrives; a goroutine that
can run does, and a Go mutex does not starve a waiter. No Service comes last in every
List for ever: the informer's List walks a Go map, whose order is random. The
reconciler's retries make it return to a config whose finalizer is to change. The
ticker ticks, a probe ends by its timeout, and a select in which both channels are
ready does not choose the same one for ever. Users, failures, restarts, changes of
backends and the first step of Stop have none. Deadlock is not checked for `webhook`
and `lifecycle` either: they rest once users do, or once Stop has returned.

### Where the code differs from what is said of it

Two runs find a property violated; `PROJECT.json` quotes the lines that say otherwise.

- `restart_duplicate` (`NoDuplicateIP`): a restart empties `used`, and AllocateAndAssign
  marks what the other configs record, never the config's own records, so an address
  that is on a Service is handed out again.
- `stale_quota` (`QuotaOnServices`): CheckQuota counts on the cached copy of the config. The
  Reconcile call that follows an allocation may read a copy without it, and assigns an
  address to a second Service; its status write is refused, but the Service has the
  address. No user, failure or restart is involved. `QuotaKept` holds all the same: what is
  exceeded is the number of Services, not that of the records.

More come out of the same modules with a change to a configuration, and are the
reason for the limits above:

- `stale_quota` with `Lag = FALSE` and two Services of one name in two namespaces
  (`SameNameTwice`, `Quota2`): `allocatedIPs` is keyed by name, so the quota counts them
  once (QuotaOnServices);
- `stale_quota` with `Lag = FALSE` and the config deleted and created again (`Replace`): a
  config deleted during an assignment never records it, no cleanup takes the
  address off the Service, and the new config counts from zero (QuotaOnServices);
- `lifecycle` with `Serial = FALSE`: two calls of Stop both find the channel open, and
  the second close panics (NoPanic);
- `chaos` with an IPv6 `ipRange` (`OnlyIPv6`) and a Service that asks for an address
  of it (`Address10`): splitRequestedIP routes the request to the unset `ipv6Range`,
  and the Service gets the next free address (HonorsRequest);
- `steady` with one failed call (`OneFault`): the status write of a Service succeeds, the
  Update after it fails, and the address is released and given to another Service
  (NoDuplicateIP);
- `steady` with Services that ask for an address in one life and not in the other
  (`AnyOr2`), checking HonorsRequest: the one created during an assignment gets the
  address chosen for the old one.

The load balancer's promises are narrow in places the properties show by what they
leave out: round robin answers unhealthy backends too, and skips or repeats one
when its counter wraps; the IP hash indexes the healthy backends, so a client moves
when another backend changes; weights of the configuration are per Service, and
so the same for all its backends.

## Proofs

TLAPS checks these for every value of the constants, from the named assumptions on
them alone. A theorem that needs more states it as an `ASSUME` of its own.

Controller (`KeysAssumption`, `SpecsAssumption`, `BoundsAssumption` and those of the
allocator):

- `TypeCorrect`: `Spec => []TypeOK`.
- `NoCrossConfigDuplicates`: two configs never record the same address, unless it
  is the only one of a range. The property is not inductive: whether the next
  allocation is safe depends on what `used`, the cache and the worker's copies
  know. `CrossInv` says it. Every recorded address is marked or visible in the cache
  (`RecordedKnown`), so AllocateAndAssign avoids it, also after a restart, when the
  cache has just been listed. No copy of a config, however old, records what another
  config records now (`CacheForeign`, `CopyForeign`), so a cleanup repeated on a stale
  copy releases nothing of anybody else's. An address on its way is marked and
  nobody else's (`InFlightOwned`), and what a cleanup releases while it is still
  recorded stays visible (`ReleaseVisible`).
- `CleanedUpBeforeGone`: a config disappears only once its recorded addresses are
  released. `CleanupInv` says that only a config with the finalizer records, and that
  after ReleaseAll nothing recorded is marked.
- `NoRecordLost`, `QuotaIsKept`: no status write undoes a recorded allocation, and a
  status never records more than `maxAllocations` (assuming that no user changes that
  limit: all specs have the same, or none is updated). Every step is shown to change a
  config in one of five ways (`Change`). The one that matters is RecordAllocation: its
  write is accepted only when the copy on which the quota was counted is the current one
  (`CopyVersion`, from `CrossInv`), and `QuotaInv` says that this copy is still below
  the quota. TLC finds `QuotaInv` to hold on the instance of `quota`.
- `KeepsIngress`: `StableIngress`, for every lag and disruption. That
  FilterEligibleServices skips a Service with an ingress is not enough, since the loop
  works on the list it made then: `StableInv` says that the listed Services still have
  none, that each is listed once, and that the one being served has none or what is on
  its way, unless the copy that was listed was stale.
- `ClearedBeforeGone`: `ClearedOnDelete`, for every lag and disruption. `ClearedInv`
  says that the cleanup works on a config that is being deleted and that, of the
  Services its copy has records for, those no longer to be cleared have no ingress or
  are in `missed`. Two facts carry it: nothing is given to a Service while the one
  worker is busy with a cleanup, and the copy it works on is the current one when the
  finalizer goes (`CopyVersion`).
- `RecordsUncontested`: `AllocatesUncontested`, for every lag and disruption.
  `UncontestedInv` says that, from the check to the write of the status, no other config
  records an address in the ranges of the worker's copy, those seen as stale copies
  apart: no other config gains a record meanwhile, and the write is refused if a user
  has moved the ranges.

The proofs share two case analyses: `StepKinds`, what a step may do to the Services and
to the loop, and `ConfigKinds`, what it may do to the configs. The invariants are in `ControllerInvariants`, and
TLC finds them to hold on the instances of `quota` and `steady`.

Two hold in restricted settings, which the theorems assume; each restriction is one
of those listed under the runs, with what happens without it:

- `NoTwoCarry` (no restart, failed call, deletion of a config or edit of a Service; any
  lag): no two Services carry one address, those of one-address ranges apart.
  `DuplicateInv` says that what Services carry is marked in `used`, that what is on its way
  is on no other Service, and that it is on no Service at all when the assignment
  can still be given up, so that AssignFails releases nothing that is carried.
- `RequestsHonored` (`OneRequest`: Services of one key always ask for the same
  address, and no `ipRange` holds an IPv6 address that is asked for; any lag and any
  disruption): a Service that asks for an address carries it, or none. `RequestInv` follows
  the request from the object to the cached copy, the listed item and the addresses on
  their way.

Allocator (`AddrSpaceAssumption`, `MaxScanAssumption`, `ScanCallsAssumption`,
`NobodyAssumption`):

- `AllocateIPAnswer`, `AllocateSpecificIPAnswer`: what the allocator answers is free,
  or the only address of its range; a specific request is answered by itself.
- `ScanInvariant`: at the top of each turn the loop stands on the address of that turn
  and has found the earlier ones in use. It needs `LockInv`, what the holder of the
  mutex knows, since `used` changes under it otherwise.
- `HeldByOne`: an address has one holder, unless it is the only one of a range
  (`HeldInv`: whatever is held, or about to be returned, is marked).
- `HandedOutFromRange`: addresses come from the range of the call, but for a full range that
  ends at the last address of its family. `ScanInvariant` gives it: the loop stands on
  the address of its turn, so it can leave the range only by wrapping, and then every
  address of the range was found in use.
- `AllocatorIsAtomic`: the safety part of `Linearizable`. The initial states map to
  initial states; the step that returns an answer maps to Serve, because by
  `ScanInvariant` it is the answer `AllocatorOps` gives for `used` at that moment; every
  other step stutters or invokes.
- `ScanTypes`: `Spec => []TypeOK`.

Webhook (`WebhookAssumption`):

- `AdmittedApart`: two stored configs share an address only if their present specs were
  never compared, for any number of users, any lag, failed Lists and configs of one name
  in several namespaces. The snapshot a review saw may be old when the write is stored.
  `WebhookInv` says that a write under way shares no address with the configs it was
  compared with and that are still as they were (`SeenInv`); a write that is stored
  takes itself out of what the others have seen. That ranges whose ends do not overlap
  share no address is `Overlap`'s part.

Load balancer (`RegistryAssumption`, `HealthAssumption`):

- `StopInvariant`, `StopIsComplete`: every check is counted until it ends, only the loop
  starts one, and Stop waits for the loop first; so nothing runs once the Stop that
  closed the channel has returned, although the loop may start a check after the close.
- `StopNeverPanics`: calls of Stop one after the other (`Serial = TRUE`) never close the
  channel twice.
- `LifecycleKept`: the safety part of `Lifecycle`, the refinement of `BalancerLifecycle`.
- `HealthTypes`: `HealthSpec => []TypeOK`, for lists of any length.
- `ServesHealthy`, `NilIsNone`, `AnswersLeastLoaded`, `OneClientOneBackend`, `BalancerTypes`
  (`BalancerAssumption` besides): the properties of `balance` but for `FairShare`, for any
  number of callers, backends and Services, and weights and lists of any size. All follow
  from `BalancerInv`, which says of a call under way what it has made of the backends it has
  dealt with: those it holds were healthy at some moment, those it passed over were not
  healthy throughout, or had no fewer connections than the least it holds, and for the IP
  hash, when no flag has moved, what it holds is the list without the unhealthy. The
  history variables bound what it can have read: `up` and `through` the flags, `lo` and `hi`
  the connections. That no counter goes below zero needs that it counts exactly the
  callers that are connected.
- `SharesFairly` (`BalancerAssumption` besides; any number of candidates, any weights, any
  width of the counter): `FairShare`. `ShareInv` says that the calls counted for the
  present candidates are some full rounds of the counter and the points it met on its
  way from where the counting began: a candidate of weight w owns w points of a round, so
  it has w calls for each round and between 0 and w for the rest. A step of the counter
  either adds the point it reaches to the way, or completes a round (`RoundsStep`).
  `FairShare` itself speaks of bounds for each candidate and not of sums over all of them,
  which the provers could only reach by induction over the list.

Recursive functions (sums of weights, joined and filtered lists) are shown to have a
solution by looking at the first argument that has none, with the well-foundedness of
the naturals, since the provers cannot instantiate the library's induction rules.

Only model-checked: liveness (`DeletionCompletes`, `ServicesServed`, `Deletable`,
`StopReturns`, `HealthConverges`, and the fairness parts of `Linearizable` and
`Lifecycle`), which is beyond the prover.

## Not modelled

- The webhook composed with the controller. It is off by default, and its state
  would multiply with the controller's; what the controller does with overlapping
  configs is `overlap` and `conflict`.
- Addresses as bytes: the comparison of 4 with 16 bytes across families, IPv4-mapped
  blocks. The order within a family is all the properties need.
- Services deleted and created again without end: the deletion of a Service
  releases nothing, so every pool is used up in the end. Nothing in the repository
  promises otherwise.
- Leader election and more than one replica; the clock (RequeueAfter, backoff, the
  interval of the health checks).
- GetStats, which returns a record nothing writes, UpdateMetrics and
  `internal/metrics`, which are write-only; error wrappers, log keys, events and the
  test utilities hold no state a property could be about.
