------------------------------ MODULE Webhook ------------------------------
(***************************************************************************)
(* The validating webhook (api/v1/heliosconfig_webhook.go) and the writes  *)
(* it admits: those of users, and the Updates by which the reconciler adds *)
(* and removes its finalizer (status writes are not reviewed).             *)
(*                                                                         *)
(* The API server sends a create or an update to the webhook, which reads  *)
(* the other configs from the informer cache, and stores it afterwards if  *)
(* it was admitted and is still based on the current version.              *)
(***************************************************************************)
EXTENDS IPRange, Sequences, Functions

CONSTANTS
  Configs,       \* keys of HeliosConfigs, records [ns, name]
  Specs,         \* specs users try to give them
  Users,         \* users, each with one write under way at most
  Reconciler,    \* the writer that is not a user
  MaxWrites,     \* how many writes and deletions users make
  MaxFaults,     \* how many times the webhook fails to list the configs
  Lag            \* whether the webhook may read a stale cache

ASSUME WebhookAssumption ==
  /\ Reconciler \notin Users
  /\ MaxWrites \in Nat /\ MaxFaults \in Nat /\ Lag \in BOOLEAN
  /\ \A spec \in Specs : spec.ipRange \in Ranges /\ spec.ipv6Range \in Ranges

Writers == Users \cup {Reconciler}

VARIABLES
  stored,        \* the configs at the API server
  cache, stale,  \* the informer cache, and the configs it has an old copy of
  review,        \* the write of each writer that is under way
  writes, faults,\* what is left of MaxWrites and MaxFaults
  unchecked      \* history: pairs of configs whose present specs were never compared

vars == <<stored, cache, stale, review, writes, faults, unchecked>>

-----------------------------------------------------------------------------
(* Validation of the fields.                                               *)

\* A span must be of one family and not end before it starts; an empty range
\* is refused like one that does not parse.
ValidateIPRange(r) ==
  /\ r.kind \in {"cidr", "single", "span"}
  /\ r.kind = "span" => SameFamily(r.a, r.b) /\ r.a <= r.b

\* An injective list of keys has no duplicates.
ValidatePorts(ports) ==
  /\ \A i \in DOMAIN ports : ports[i].port \in 1 .. 65535 /\ ports[i].protocol \in {"", "TCP", "UDP"}
  /\ IsInjective([i \in DOMAIN ports |-> ports[i].port])

ValidateWeights(weights, method) ==
  /\ weights # <<>> => method = "WeightedRoundRobin"
  /\ \A i \in DOMAIN weights : weights[i].serviceName # "" /\ weights[i].weight \in 1 .. 100
  /\ IsInjective([i \in DOMAIN weights |-> weights[i].serviceName])

\* healthCheck is a list of at most one element, for the pointer of the code.
ValidateHealthCheck(healthCheck) ==
  \A i \in DOMAIN healthCheck :
    /\ healthCheck[i].protocol \in {"", "TCP", "HTTP"}
    /\ healthCheck[i].protocol = "HTTP" => healthCheck[i].httpPath # ""

ValidateFields(spec) ==
  /\ ValidateIPRange(spec.ipRange)
  /\ spec.ipv6Range # NoRange => ValidateIPRange(spec.ipv6Range)
  /\ ValidatePorts(spec.ports)
  /\ ValidateWeights(spec.weights, spec.method)
  /\ ValidateHealthCheck(spec.healthCheck)

-----------------------------------------------------------------------------
(* The overlap check.                                                      *)

\* Mutant: ranges that meet in one address do not overlap.
OverlapInside(r, other) ==
  LET p == ParseIPRange(r)
      e == ParseIPRange(other)
  IN  p.ok /\ e.ok /\ p.start < e.end /\ p.end > e.start

Overlap(r, other) ==
  LET p == ParseIPRange(r)
      e == ParseIPRange(other)
  IN  p.ok /\ e.ok /\ p.start <= e.end /\ p.end >= e.start

\* A config is compared with all listed ones but those of the excluded name,
\* field by field: ipRange with ipRange, ipv6Range with ipv6Range.
CheckIPRangeOverlap(spec, excludeName) ==
  \A d \in Configs :
    cache[d].exists /\ d.name # excludeName =>
      /\ ~Overlap(spec.ipRange, cache[d].spec.ipRange)
      /\ ~Overlap(spec.ipv6Range, cache[d].spec.ipv6Range)

\* Mutant: an update is compared with the config it updates.
ExcludeNobody(w) == ""

\* ValidateCreate excludes nobody, ValidateUpdate the config itself, by name.
ExcludeName(w) == IF review[w].op = "create" THEN "" ELSE review[w].key.name

-----------------------------------------------------------------------------
(* Writes.                                                                 *)

NoSpec == [ipRange |-> NoRange, ipv6Range |-> NoRange, ports |-> <<>>, weights |-> <<>>,
           method |-> "", healthCheck |-> <<>>]

Absent == [exists |-> FALSE, spec |-> NoSpec, finalizer |-> FALSE, deleting |-> FALSE]

\* current: the write is based on the stored version.  admitted: the webhook
\* has answered yes.  seen is history: the configs it compared the write with
\* as they still are.
NoWrite == [op |-> "none", key |-> [ns |-> "", name |-> ""], obj |-> Absent,
            current |-> FALSE, admitted |-> FALSE, seen |-> {}]

\* What a write does to the copy of a config it is based on.
WithSpec(o, spec) == [o EXCEPT !.spec = spec]
WithFinalizer(o)  == [o EXCEPT !.finalizer = ~@]
WithDeletion(o)   == IF o.finalizer THEN [o EXCEPT !.deleting = TRUE] ELSE Absent

\* To the overlap check two copies of a config are the same.
SameSpec(o, other) == o.exists = other.exists /\ o.spec = other.spec

\* What becomes of a write under way: it is admitted, or another write, which
\* may change the spec of c, is stored before it.
Admitted(r, seen)        == [r EXCEPT !.admitted = TRUE, !.seen = seen]
Overtaken(r, c, changed) == [r EXCEPT !.current = @ /\ r.key # c, !.seen = IF changed THEN @ \ {c} ELSE @]

Submit(w, op, c, o, current) ==
  /\ review[w].op = "none"
  /\ review' = [review EXCEPT ![w] = [op |-> op, key |-> c, obj |-> o, current |-> current,
                                      admitted |-> FALSE, seen |-> {}]]

UserCreates(u, c, spec) ==
  /\ writes > 0 /\ writes' = writes - 1
  /\ ~stored[c].exists
  /\ Submit(u, "create", c, [exists |-> TRUE, spec |-> spec, finalizer |-> FALSE, deleting |-> FALSE], TRUE)
  /\ UNCHANGED <<stored, cache, stale, faults, unchecked>>

UserUpdates(u, c, spec) ==
  /\ writes > 0 /\ writes' = writes - 1
  /\ stored[c].exists /\ stored[c].spec # spec
  /\ Submit(u, "update", c, WithSpec(stored[c], spec), TRUE)
  /\ UNCHANGED <<stored, cache, stale, faults, unchecked>>

Pairs(c, others) == {{c, d} : d \in others \ {c}}

\* The server stores o, which was compared with the configs in seen: the
\* cached copy, and every write under way that is based on the version before,
\* are out of date.
Store(c, o, seen, rest) ==
  LET changed == ~SameSpec(o, stored[c])
  IN  /\ stored' = [stored EXCEPT ![c] = o]
      /\ stale' = stale \cup {c}
      /\ review' = [w \in Writers |-> Overtaken(rest[w], c, changed)]
      /\ unchecked' = (unchecked \cup (IF changed THEN Pairs(c, Configs) ELSE {}))
                        \ Pairs(c, IF o.exists THEN seen ELSE Configs)

\* Deletions are not reviewed.  An object with a finalizer is only marked.
UserDeletes(c) ==
  /\ writes > 0 /\ writes' = writes - 1
  /\ stored[c].exists /\ ~stored[c].deleting
  /\ Store(c, WithDeletion(stored[c]), {}, review)
  /\ UNCHANGED <<cache, faults>>

\* Reconcile adds the finalizer to a config that lacks it, and removes it from
\* a deleted one after its cleanup, on the cached copy.
ReconcilerUpdates(c) ==
  /\ cache[c].exists /\ (cache[c].finalizer => cache[c].deleting)
  /\ Submit(Reconciler, "update", c, WithFinalizer(cache[c]), c \notin stale)
  /\ UNCHANGED <<stored, cache, stale, writes, faults, unchecked>>

\* The webhook answers.  When it cannot list the configs it admits the write
\* without comparing it with them.
ValidateSpec(w) ==
  LET spec        == review[w].obj.spec
      listed      == {d \in Configs : d.name # ExcludeName(w) /\ SameSpec(cache[d], stored[d])}
      admit(seen) == [review EXCEPT ![w] = Admitted(@, seen)]
      refuse      == [review EXCEPT ![w] = NoWrite]
  IN  /\ review[w].op # "none" /\ ~review[w].admitted
      /\ Lag \/ stale = {}
      /\ \/ /\ ~ValidateFields(spec)
            /\ review' = refuse /\ UNCHANGED faults
         \/ /\ ValidateFields(spec) /\ CheckIPRangeOverlap(spec, ExcludeName(w))
            /\ review' = admit(listed) /\ UNCHANGED faults
         \/ /\ ValidateFields(spec) /\ ~CheckIPRangeOverlap(spec, ExcludeName(w))
            /\ review' = refuse /\ UNCHANGED faults
         \/ /\ ValidateFields(spec) /\ faults > 0 /\ faults' = faults - 1
            /\ review' = admit({})
      /\ UNCHANGED <<stored, cache, stale, writes, unchecked>>

\* The server stores an admitted write that is based on the current version;
\* a deleted config without its finalizer disappears.
Commit(w) ==
  LET r    == review[w]
      gone == r.obj.deleting /\ ~r.obj.finalizer
      done == [review EXCEPT ![w] = NoWrite]
  IN  /\ r.admitted
      /\ \/ /\ r.current
            /\ Store(r.key, IF gone THEN Absent ELSE r.obj, r.seen, done)
         \/ /\ ~r.current
            /\ review' = done
            /\ UNCHANGED <<stored, stale, unchecked>>
      /\ UNCHANGED <<cache, writes, faults>>

Watch(c) ==
  /\ c \in stale
  /\ cache' = [cache EXCEPT ![c] = stored[c]]
  /\ stale' = stale \ {c}
  /\ UNCHANGED <<stored, review, writes, faults, unchecked>>

Init ==
  /\ stored = [c \in Configs |-> Absent] /\ cache = stored /\ stale = {}
  /\ review = [w \in Writers |-> NoWrite]
  /\ writes = MaxWrites /\ faults = MaxFaults /\ unchecked = {}

Next ==
  \/ \E c \in Configs : \/ UserDeletes(c) \/ ReconcilerUpdates(c) \/ Watch(c)
                        \/ \E u \in Users, spec \in Specs : UserCreates(u, c, spec) \/ UserUpdates(u, c, spec)
  \/ \E w \in Writers : ValidateSpec(w) \/ Commit(w)

\* The server, the webhook and the watch make progress, and the reconciler
\* returns to every config that needs it.
Fairness ==
  /\ \A c \in Configs : SF_vars(ReconcilerUpdates(c)) /\ WF_vars(Watch(c))
  /\ \A w \in Writers : SF_vars(ValidateSpec(w)) /\ WF_vars(Commit(w))

Spec == Init /\ [][Next]_vars /\ Fairness

-----------------------------------------------------------------------------
\* An address could be allocated from the same field of both specs.
ShareAddress(spec, other) ==
  \E a \in Addr :
    \/ IPAllocatable(a, spec.ipRange) /\ IPAllocatable(a, other.ipRange)
    \/ IPAllocatable(a, spec.ipv6Range) /\ IPAllocatable(a, other.ipv6Range)

\* Two configs at the server share an address only if their present specs were
\* never compared: the later one was admitted when the configs could not be
\* listed, from an outdated cache, while the other was under review, or as an
\* update of a config of the same name.  What checkIPRangeOverlap finds by
\* comparing the ends of ranges in a snapshot otherwise holds of the addresses
\* of what is stored later.
NoOverlap ==
  \A c, d \in Configs :
    c # d /\ stored[c].exists /\ stored[d].exists /\ {c, d} \notin unchecked =>
      ~ShareAddress(stored[c].spec, stored[d].spec)

\* A deleted config disappears: the webhook, which reviews the Update that
\* removes the finalizer, refuses it for good only while the config shares an
\* address with one of another name.
Deletable ==
  \A c \in Configs :
    stored[c].deleting ~>
      \/ ~stored[c].deleting
      \/ [](\E d \in Configs : /\ d.name # c.name /\ stored[d].exists
                               /\ ShareAddress(stored[c].spec, stored[d].spec))
=============================================================================
