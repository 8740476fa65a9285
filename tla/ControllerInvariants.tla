------------------------ MODULE ControllerInvariants ------------------------
(***************************************************************************)
(* Inductive invariants of HeliosController, the strengthenings the proofs *)
(* of HeliosController's properties rest on.                               *)
(***************************************************************************)
EXTENDS HeliosController

Assigning == pc \in {"assign", "specUpdate", "record"}

\* The addresses allocated and not yet recorded.
InFlight == {ip, ipv6} \ {NoIP}

\* The versions the controller works with: a cached copy that is not stale,
\* and a local copy that is fresh, equal the object at the server.
CacheVersions == \A c \in Configs : c \notin staleCfg => cfgCache[c] = cfg[c]
CopyVersion   == pc # "idle" /\ hcFresh => cfg[cur] = hc

\* An address that is recorded is marked in memory or visible in the cache,
\* so that AllocateAndAssign marks it before it allocates for another config.
RecordedKnown ==
  \A c \in Configs : Recorded(cfg[c]) \subseteq used \cup Recorded(cfgCache[c]) \cup Shared

\* No copy the controller has of one config, however old, records an address
\* that another config records now: neither a cached copy nor the local one.
CacheForeign ==
  \A c, d \in Configs : c # d => Recorded(cfgCache[c]) \cap Recorded(cfg[d]) \subseteq Shared

CopyForeign ==
  pc # "idle" => \A d \in Configs \ {cur} : Recorded(hc) \cap Recorded(cfg[d]) \subseteq Shared

\* An address on its way to a Service is marked, and no other config has it.
InFlightOwned ==
  Assigning =>
    /\ InFlight \subseteq used \cup Shared
    /\ \A d \in Configs \ {cur} :
         InFlight \cap (Recorded(cfg[d]) \cup Recorded(cfgCache[d])) \subseteq Shared
    /\ InFlight \cap Recorded(cfg[cur]) \subseteq Recorded(cfgCache[cur]) \cup Shared

\* What a cleanup is about to release, and the config still records, is also
\* visible in the cache.
ReleaseVisible ==
  pc \in {"addFinalizer", "initialCondition", "release"}
    => Recorded(hc) \cap Recorded(cfg[cur]) \subseteq Recorded(cfgCache[cur]) \cup Shared

\* Why NoCrossConfigDuplicate holds: what makes it inductive.
CrossInv ==
  /\ TypeOK
  /\ CacheVersions /\ CopyVersion
  /\ NoCrossConfigDuplicate /\ RecordedKnown /\ CacheForeign
  /\ CopyForeign /\ InFlightOwned /\ ReleaseVisible

\* Only a config that has the finalizer records addresses, and a cleanup that
\* has begun leaves none of the recorded ones marked.
CleanupInv ==
  /\ \A c \in Configs : Recorded(cfg[c]) # {} => cfg[c].finalizer
  /\ pc \notin {"idle", "addFinalizer"} => hc.finalizer
  /\ pc = "clear" => Recorded(hc) \cap used = {}

\* An object that is not there records nothing, one that is has a spec some
\* user gave it; the copy on which an allocation was admitted is below its
\* quota until the allocation is recorded.
QuotaInv ==
  /\ \A c \in Configs :
       /\ IsFiniteSet(Allocations(cfg[c]))
       /\ cfg[c].exists => cfg[c].spec \in ConfigSpecs
       /\ ~cfg[c].exists => Allocations(cfg[c]) = {}
  /\ pc # "idle" => hc.exists
  /\ Assigning => ip \in Addr /\ ~QuotaReached(hc)

\* With no restart, failed call, cleanup or edit of a Service left, every
\* address a Service carries stays marked, and an address that is on its way
\* is on no Service yet, but for the target once it is written.
DuplicateInv ==
  /\ \A d \in {"restart", "fault", "deleteConfig", "editService"} : left[d] = 0
  /\ \A c \in Configs : ~cfg[c].deleting /\ ~cfgCache[c].deleting
  /\ ~hc.deleting /\ pc \notin {"release", "clear"}
  /\ NoDuplicateIP
  /\ \A s \in Services : svc[s].ingress \subseteq used \cup Shared
  /\ svcFresh => pc \in {"specUpdate", "record"}
  /\ Assigning =>
       /\ InFlight \subseteq used \cup Shared
       /\ \A s \in Services : s # target \/ ~svcFresh => svc[s].ingress \cap InFlight \subseteq Shared

Looping == pc = "loop" \/ Assigning

\* A cached copy that is not stale is what is there.  The Services the loop has
\* yet to deal with, each listed once, still have no ingress, and the one it
\* deals with has none or the one that is on its way, unless the copy that was
\* listed was stale.
StableInv ==
  /\ \A s \in Services : /\ s \notin staleSvc => svcCache[s] = svc[s]
                         /\ ~svc[s].exists => svc[s].ingress = {}
  /\ Looping =>
       /\ \A item \in todo : item.key \notin missed.services => svc[item.key].ingress = {}
       /\ \A item, other \in todo : item.key = other.key => item = other
  /\ Assigning =>
       /\ target \notin missed.services => svc[target].ingress \in {{}, InFlight}
       /\ \A item \in todo : item.key # target

\* A cleanup works on a config that is being deleted.  It has yet to clear only
\* Services for whose names there is a record; of these, the ones it has dealt
\* with have no ingress, unless it could not clear them.
ClearedInv ==
  /\ pc \in {"release", "clear"} => hc.deleting
  /\ pc = "clear" =>
       /\ clear \subseteq RecordedNames(hc)
       /\ \A s \in Services : s.ns = cur.ns /\ s.name \in RecordedNames(hc)
            => s.name \in clear \cup missed.names \/ svc[s].ingress = {}

\* The addresses a Service asks for, whoever creates it.
Requests(s) == {spec.loadBalancerIP : spec \in ServiceSpecs[s]}

\* A cached copy that is not stale is what is there.  A Service that is there
\* asks for what its users ask for, the loop works on
\* requests of the Services it listed that the ranges can meet, and what is on
\* its way to a Service, or arrived, includes what it asks for.
RequestInv ==
  /\ \A s \in Services :
       /\ s \notin staleSvc => svcCache[s] = svc[s]
       /\ svc[s] = NoService \/ svc[s].loadBalancerIP \in Requests(s)
       /\ svcCache[s] = NoService \/ svcCache[s].loadBalancerIP \in Requests(s)
       /\ svc[s].ingress # {} => Requests(s) \ {NoIP} \subseteq svc[s].ingress
  /\ Looping => \A item \in todo :
       /\ item.loadBalancerIP \in Requests(item.key)
       /\ \/ item.loadBalancerIP = NoIP
          \/ IPAllocatable(item.loadBalancerIP, hc.spec.ipRange)
          \/ IPAllocatable(item.loadBalancerIP, hc.spec.ipv6Range)
  /\ Assigning => Requests(target) \ {NoIP} \subseteq InFlight

\* While the loop allocates for a config, no other one records an address in
\* the ranges it allocates from, but for those it saw stale copies of.
UncontestedInv ==
  Looping => \A d \in Configs \ {cur} : d \in missed.configs \/ ~InRanges(cfg[d], hc.spec)
=============================================================================
