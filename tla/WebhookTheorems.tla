-------------------------- MODULE WebhookTheorems ---------------------------
(***************************************************************************)
(* What the webhook compared shares no address once it is stored, for any  *)
(* configs, specs and users, whatever the cache held and however the       *)
(* reviews interleave.                                                     *)
(***************************************************************************)
EXTENDS Webhook, AllocatorTheorems

\* Zenon proves the steps that do not name a prover.
USE ZenonT(30)

Objects == [exists : BOOLEAN, spec : Specs \cup {NoSpec}, finalizer : BOOLEAN, deleting : BOOLEAN]
Keys    == Configs \cup {NoWrite.key}
Reviews == [op : {"none", "create", "update"}, key : Keys, obj : Objects,
            current : BOOLEAN, admitted : BOOLEAN, seen : SUBSET Configs]

Types ==
  /\ stored \in [Configs -> Objects]
  /\ cache \in [Configs -> Objects]
  /\ review \in [Writers -> Reviews]

\* A write under way is a write to some config.
WriteInv == \A w \in Writers : review[w].op # "none" => review[w].key \in Configs

\* Only what was asked for is admitted.
AskedInv == \A w \in Writers : review[w].admitted => review[w].op # "none"

\* A write under way shares no address with the stored configs it was compared
\* with and that are still as they were.
SeenInv ==
  \A w \in Writers : \A d \in review[w].seen :
    stored[d].exists => ~ShareAddress(review[w].obj.spec, stored[d].spec)

WebhookInv == Types /\ WriteInv /\ AskedInv /\ SeenInv /\ NoOverlap

-----------------------------------------------------------------------------
(* Records.                                                                *)

\* The absent object.
LEMMA AbsentShape == Absent \in Objects /\ ~Absent.exists
BY DEF Absent, Objects

\* The review of a caller that writes nothing: neither admitted nor compared.
LEMMA NoWriteShape == NoWrite \in Reviews /\ ~NoWrite.admitted /\ NoWrite.op = "none" /\ NoWrite.seen = {}
BY AbsentShape DEF NoWrite, Reviews, Keys

\* A user write of the spec makes an object.
LEMMA WithSpecShape ==
  ASSUME NEW o \in Objects, NEW spec \in Specs
  PROVE  WithSpec(o, spec) \in Objects
BY Zenon DEF WithSpec, Objects

\* The reconciler's write of the finalizer makes an object.
LEMMA WithFinalizerShape ==
  ASSUME NEW o \in Objects
  PROVE  WithFinalizer(o) \in Objects
BY Zenon DEF WithFinalizer, Objects

\* A deletion leaves an object, or none.
LEMMA WithDeletionShape ==
  ASSUME NEW o \in Objects
  PROVE  WithDeletion(o) \in Objects
<1>1. CASE o.finalizer
  BY <1>1, Zenon DEF WithDeletion, Objects
<1>2. CASE ~o.finalizer
  BY <1>2, AbsentShape DEF WithDeletion
<1> QED BY <1>1, <1>2

\* A review that ends keeps what it is about.
LEMMA AdmittedShape ==
  ASSUME NEW r \in Reviews, NEW seen \in SUBSET Configs
  PROVE  /\ Admitted(r, seen) \in Reviews
         /\ Admitted(r, seen).op = r.op /\ Admitted(r, seen).key = r.key /\ Admitted(r, seen).obj = r.obj
         /\ Admitted(r, seen).seen = seen
BY Zenon DEF Admitted, Reviews

\* A write that is overtaken was not compared with what has changed since.
LEMMA OvertakenShape ==
  ASSUME NEW r \in Reviews, NEW c, NEW changed \in BOOLEAN
  PROVE  /\ Overtaken(r, c, changed) \in Reviews
         /\ Overtaken(r, c, changed).op = r.op /\ Overtaken(r, c, changed).key = r.key
         /\ Overtaken(r, c, changed).obj = r.obj /\ Overtaken(r, c, changed).admitted = r.admitted
         /\ Overtaken(r, c, changed).seen \subseteq r.seen
         /\ changed => c \notin Overtaken(r, c, changed).seen
<1> DEFINE b == r.current /\ r.key # c
           n == IF changed THEN r.seen \ {c} ELSE r.seen
<1>1. b \in BOOLEAN /\ n \in SUBSET Configs /\ n \subseteq r.seen /\ (changed => c \notin n)
  BY SMT DEF Reviews
<1>2. Overtaken(r, c, changed) = [r EXCEPT !.current = b, !.seen = n]
  BY DEF Overtaken
<1> HIDE DEF b, n
<1> DEFINE q == [r EXCEPT !.current = b, !.seen = n]
<1>3. /\ q \in Reviews /\ q.seen = n
      /\ q.op = r.op /\ q.key = r.key /\ q.obj = r.obj /\ q.admitted = r.admitted
  BY <1>1 DEF Reviews
<1> HIDE DEF q
<1>4. Overtaken(r, c, changed) = q
  BY <1>2 DEF q
<1> QED BY <1>1, <1>3, <1>4

-----------------------------------------------------------------------------
(* Ranges.                                                                 *)

\* The ranges of a spec are ranges the parser knows.
LEMMA SpecRanges ==
  ASSUME NEW spec \in Specs \cup {NoSpec}
  PROVE  spec.ipRange \in Ranges /\ spec.ipv6Range \in Ranges
<1>1. NoSpec.ipRange = NoRange /\ NoSpec.ipv6Range = NoRange
  BY Zenon DEF NoSpec
<1>2. NoRange \in Ranges
  BY SMT DEF Ranges
<1> QED BY <1>1, <1>2, WebhookAssumption

\* Comparing the ends of two ranges finds every address they share.
LEMMA NothingShared ==
  ASSUME NEW r \in Ranges, NEW other \in Ranges, ~Overlap(r, other), NEW a \in Addr
  PROVE  ~(IPAllocatable(a, r) /\ IPAllocatable(a, other))
<1> SUFFICES ASSUME IPAllocatable(a, r), IPAllocatable(a, other) PROVE FALSE
  OBVIOUS
<1> DEFINE p == ParseIPRange(r)
           e == ParseIPRange(other)
<1>1. /\ p.ok /\ p.start <= a /\ a <= p.end
      /\ e.ok /\ e.start <= a /\ a <= e.end
  BY DEF IPAllocatable
<1>2. p.start \in Addr /\ p.end \in Int /\ e.start \in Addr /\ e.end \in Int
  BY <1>1, ParsedStart
<1>3. p.start \in Int /\ e.start \in Int /\ a \in Int
  BY SMT, <1>2, AddrSpaceAssumption DEF Addr, V4, V6
<1>4. ~(p.start <= e.end /\ p.end >= e.start)
  BY <1>1 DEF Overlap
<1> HIDE DEF p, e
<1> QED BY SMT, <1>1, <1>2, <1>3, <1>4

\* Sharing an address is symmetric.
LEMMA ShareSym ==
  ASSUME NEW spec, NEW other
  PROVE  ShareAddress(spec, other) <=> ShareAddress(other, spec)
BY Zenon DEF ShareAddress

\* Nothing can be allocated from an absent config.
LEMMA NothingInNoSpec ==
  ASSUME NEW other
  PROVE  ~ShareAddress(NoSpec, other)
<1>1. NoSpec.ipRange = NoRange /\ NoSpec.ipv6Range = NoRange
  BY Zenon DEF NoSpec
<1>2. ~ParseIPRange(NoRange).ok
  BY DEF ParseIPRange, NoRange
<1>3. \A a : ~IPAllocatable(a, NoRange)
  BY <1>2 DEF IPAllocatable
<1> QED BY <1>1, <1>3, Zenon DEF ShareAddress

-----------------------------------------------------------------------------
(* The review.                                                             *)

\* A write that passes the check shares no address with the stored configs
\* that it was compared with in an up-to-date copy.
LEMMA ReviewFinds ==
  ASSUME Types, NEW w \in Writers, CheckIPRangeOverlap(review[w].obj.spec, ExcludeName(w)),
         NEW d \in Configs, d.name # ExcludeName(w), SameSpec(cache[d], stored[d]), stored[d].exists
  PROVE  ~ShareAddress(review[w].obj.spec, stored[d].spec)
<1> DEFINE s == review[w].obj.spec
           k == stored[d].spec
<1>1. s \in Specs \cup {NoSpec} /\ k \in Specs \cup {NoSpec}
  BY DEF Types, Reviews, Objects
<1>2. cache[d].exists /\ cache[d].spec = k
  BY DEF SameSpec
<1>3. ~Overlap(s.ipRange, k.ipRange) /\ ~Overlap(s.ipv6Range, k.ipv6Range)
  BY <1>2, Zenon DEF CheckIPRangeOverlap
<1>4. /\ s.ipRange \in Ranges /\ k.ipRange \in Ranges
      /\ s.ipv6Range \in Ranges /\ k.ipv6Range \in Ranges
  BY <1>1, SpecRanges
<1> HIDE DEF s, k
<1>5. ~ShareAddress(s, k)
  BY <1>3, <1>4, NothingShared DEF ShareAddress
<1> QED BY <1>5 DEF s, k

-----------------------------------------------------------------------------
(* Steps.                                                                  *)

\* A write is handed in, refused, rejected or admitted, with the comparisons
\* it has passed.
LEMMA ReviewStep ==
  ASSUME WebhookInv, NEW w \in Writers, NEW r \in Reviews,
         r.op # "none" => r.key \in Configs, r.admitted => r.op # "none",
         \A d \in r.seen : stored[d].exists => ~ShareAddress(r.obj.spec, stored[d].spec),
         review' = [review EXCEPT ![w] = r], UNCHANGED <<stored, cache, unchecked>>
  PROVE  WebhookInv'
<1>1. \A v \in Writers : review'[v] = IF v = w THEN r ELSE review[v]
  BY DEF WebhookInv, Types
<1>2. Types'
  BY DEF WebhookInv, Types
<1>3. WriteInv' /\ AskedInv'
  BY <1>1 DEF WebhookInv, WriteInv, AskedInv
<1>4. SeenInv'
  <2> SUFFICES ASSUME NEW v \in Writers, NEW d \in review'[v].seen, stored[d].exists
               PROVE  ~ShareAddress(review'[v].obj.spec, stored[d].spec)
    BY Zenon DEF SeenInv, ShareAddress
  <2>1. CASE v = w
    BY <1>1, <2>1
  <2>2. CASE v # w
    BY <1>1, <2>2, Zenon DEF WebhookInv, SeenInv
  <2> QED BY <2>1, <2>2
<1>5. NoOverlap'
  BY Zenon DEF WebhookInv, NoOverlap, ShareAddress
<1> QED BY <1>2, <1>3, <1>4, <1>5 DEF WebhookInv

\* The server stores an object that shares no address with the configs it was
\* compared with.
LEMMA StoreStep ==
  ASSUME WebhookInv, NEW c \in Configs, NEW o \in Objects, NEW seen \in SUBSET Configs,
         NEW rest \in [Writers -> Reviews], Store(c, o, seen, rest), UNCHANGED cache,
         \A w \in Writers : rest[w] = review[w] \/ rest[w] = NoWrite,
         \A d \in seen : stored[d].exists => ~ShareAddress(o.spec, stored[d].spec)
  PROVE  WebhookInv'
<1> DEFINE changed == ~SameSpec(o, stored[c])
<1>1. /\ stored' = [stored EXCEPT ![c] = o]
      /\ review' = [w \in Writers |-> Overtaken(rest[w], c, changed)]
      /\ unchecked' = (unchecked \cup (IF changed THEN Pairs(c, Configs) ELSE {}))
                        \ Pairs(c, IF o.exists THEN seen ELSE Configs)
  BY DEF Store
<1>2. changed \in BOOLEAN
  OBVIOUS
<1>3. ~changed => o.exists = stored[c].exists /\ o.spec = stored[c].spec
  BY DEF SameSpec
<1> HIDE DEF changed
<1>4. \A d \in Configs : stored'[d] = IF d = c THEN o ELSE stored[d]
  BY <1>1 DEF WebhookInv, Types
<1>5. ASSUME NEW w \in Writers
      PROVE  /\ review'[w] \in Reviews
             /\ review'[w].op = rest[w].op /\ review'[w].key = rest[w].key /\ review'[w].obj = rest[w].obj
             /\ review'[w].admitted = rest[w].admitted
             /\ review'[w].seen \subseteq rest[w].seen
             /\ changed => c \notin review'[w].seen
  <2>1. rest[w] \in Reviews /\ review'[w] = Overtaken(rest[w], c, changed)
    BY <1>1
  <2> QED BY SMT, <1>2, <2>1, OvertakenShape
<1>6. Types'
  <2>1. review' \in [Writers -> Reviews]
    BY <1>1, <1>5
  <2> QED BY <1>1, <2>1 DEF WebhookInv, Types
<1>7. WriteInv' /\ AskedInv'
  BY SMT, <1>5, NoWriteShape DEF WebhookInv, WriteInv, AskedInv
<1>8. SeenInv'
  <2> SUFFICES ASSUME NEW w \in Writers, NEW d \in review'[w].seen, stored'[d].exists
               PROVE  ~ShareAddress(review'[w].obj.spec, stored'[d].spec)
    BY Zenon DEF SeenInv, ShareAddress
  <2>1. rest[w] = review[w] /\ d \in review[w].seen /\ d \in Configs
    BY <1>5, NoWriteShape DEF Reviews
  <2>2. d = c => ~changed
    BY <1>5
  <2>3. stored[d].exists /\ stored'[d].spec = stored[d].spec
    BY <1>3, <1>4, <2>1, <2>2
  <2> QED BY <1>5, <2>1, <2>3, Zenon DEF WebhookInv, SeenInv
<1>9. ASSUME NEW d \in Configs, d # c, o.exists, stored[d].exists, {c, d} \notin unchecked'
      PROVE  ~ShareAddress(o.spec, stored[d].spec)
  <2>1. CASE d \in seen
    BY <1>9, <2>1
  <2>2. CASE d \notin seen
    <3>1. {c, d} \notin Pairs(c, seen)
      BY <1>9, <2>2 DEF Pairs
    <3>2. {c, d} \in Pairs(c, Configs)
      BY <1>9 DEF Pairs
    <3>3. ~changed /\ {c, d} \notin unchecked
      BY <1>1, <1>9, <3>1, <3>2
    <3> QED BY <1>3, <1>9, <3>3, Zenon DEF WebhookInv, NoOverlap
  <2> QED BY <2>1, <2>2
<1>10. ASSUME NEW d \in Configs, NEW e \in Configs, d # c, e # c, {d, e} \notin unchecked'
       PROVE  {d, e} \notin unchecked
  <2>1. \A S : {d, e} \notin Pairs(c, S)
    BY <1>10 DEF Pairs
  <2> QED BY <1>1, <1>10, <2>1
<1>11. NoOverlap'
  <2> SUFFICES ASSUME NEW d \in Configs, NEW e \in Configs, d # e, stored'[d].exists, stored'[e].exists,
                      {d, e} \notin unchecked'
               PROVE  ~ShareAddress(stored'[d].spec, stored'[e].spec)
    BY Zenon DEF NoOverlap, ShareAddress
  <2>1. CASE d = c
    BY <1>4, <1>9, <2>1
  <2>2. CASE e = c
    <3>1. {d, e} = {c, d}
      BY <2>2
    <3>2. ~ShareAddress(o.spec, stored[d].spec)
      BY <1>4, <1>9, <2>2, <3>1
    <3> QED BY <1>4, <2>2, <3>2, ShareSym
  <2>3. CASE d # c /\ e # c
    <3>1. {d, e} \notin unchecked /\ stored'[d] = stored[d] /\ stored'[e] = stored[e]
      BY <1>4, <1>10, <2>3
    <3> QED BY <3>1, Zenon DEF WebhookInv, NoOverlap
  <2> QED BY <2>1, <2>2, <2>3
<1> QED BY <1>6, <1>7, <1>8, <1>11 DEF WebhookInv

\* Every step keeps the invariant.
LEMMA WebhookStep == WebhookInv /\ [Next]_vars => WebhookInv'
<1> SUFFICES ASSUME WebhookInv, [Next]_vars PROVE WebhookInv'
  OBVIOUS
<1>1. CASE UNCHANGED vars
  BY <1>1, Zenon DEF vars, WebhookInv, Types, WriteInv, AskedInv, SeenInv, NoOverlap, ShareAddress
<1>2. ASSUME NEW w \in Writers, NEW op \in {"create", "update"}, NEW c \in Configs, NEW o \in Objects,
             NEW current \in BOOLEAN, Submit(w, op, c, o, current), UNCHANGED <<stored, cache, unchecked>>
      PROVE  WebhookInv'
  <2> DEFINE r == [op |-> op, key |-> c, obj |-> o, current |-> current, admitted |-> FALSE, seen |-> {}]
  <2>1. review' = [review EXCEPT ![w] = r]
    BY <1>2 DEF Submit
  <2>2. r \in Reviews /\ ~r.admitted /\ r.key = c /\ r.seen = {}
    BY DEF Reviews, Keys
  <2> HIDE DEF r
  <2> QED BY <1>2, <2>1, <2>2, ReviewStep
<1>3. ASSUME NEW u \in Users, NEW c \in Configs, NEW spec \in Specs, UserCreates(u, c, spec)
      PROVE  WebhookInv'
  <2> DEFINE o == [exists |-> TRUE, spec |-> spec, finalizer |-> FALSE, deleting |-> FALSE]
  <2>1. o \in Objects /\ u \in Writers
    BY DEF Objects, Writers
  <2>2. Submit(u, "create", c, o, TRUE) /\ UNCHANGED <<stored, cache, unchecked>>
    BY <1>3, Zenon DEF UserCreates
  <2> HIDE DEF o
  <2> QED BY <1>2, <2>1, <2>2
<1>4. ASSUME NEW u \in Users, NEW c \in Configs, NEW spec \in Specs, UserUpdates(u, c, spec)
      PROVE  WebhookInv'
  <2>1. WithSpec(stored[c], spec) \in Objects /\ u \in Writers
    BY WithSpecShape DEF WebhookInv, Types, Writers
  <2>2. Submit(u, "update", c, WithSpec(stored[c], spec), TRUE) /\ UNCHANGED <<stored, cache, unchecked>>
    BY <1>4, Zenon DEF UserUpdates
  <2> QED BY <1>2, <2>1, <2>2
<1>5. ASSUME NEW c \in Configs, ReconcilerUpdates(c)
      PROVE  WebhookInv'
  <2>1. WithFinalizer(cache[c]) \in Objects /\ Reconciler \in Writers /\ (c \notin stale) \in BOOLEAN
    BY WithFinalizerShape DEF WebhookInv, Types, Writers
  <2>2. Submit(Reconciler, "update", c, WithFinalizer(cache[c]), c \notin stale) /\ UNCHANGED <<stored, cache, unchecked>>
    BY <1>5, Zenon DEF ReconcilerUpdates
  <2> QED BY <1>2, <2>1, <2>2
<1>6. ASSUME NEW w \in Writers, review' = [review EXCEPT ![w] = NoWrite], UNCHANGED <<stored, cache, unchecked>>
      PROVE  WebhookInv'
  BY <1>6, NoWriteShape, ReviewStep
<1>7. ASSUME NEW w \in Writers, ValidateSpec(w)
      PROVE  WebhookInv'
  <2> DEFINE listed == {d \in Configs : d.name # ExcludeName(w) /\ SameSpec(cache[d], stored[d])}
  <2>1. /\ review[w].op # "none" /\ UNCHANGED <<stored, cache, unchecked>>
        /\ \/ review' = [review EXCEPT ![w] = NoWrite]
           \/ /\ CheckIPRangeOverlap(review[w].obj.spec, ExcludeName(w))
              /\ review' = [review EXCEPT ![w] = Admitted(review[w], listed)]
           \/ review' = [review EXCEPT ![w] = Admitted(review[w], {})]
    BY <1>7, Zenon DEF ValidateSpec
  <2>2. CheckIPRangeOverlap(review[w].obj.spec, ExcludeName(w)) =>
          \A d \in listed : stored[d].exists => ~ShareAddress(review[w].obj.spec, stored[d].spec)
    BY ReviewFinds DEF WebhookInv
  <2>3. ASSUME NEW seen \in SUBSET Configs, review' = [review EXCEPT ![w] = Admitted(review[w], seen)],
               \A d \in seen : stored[d].exists => ~ShareAddress(review[w].obj.spec, stored[d].spec)
        PROVE  WebhookInv'
    <3> DEFINE r == Admitted(review[w], seen)
    <3>1. r \in Reviews /\ r.op = review[w].op /\ r.key = review[w].key /\ r.obj = review[w].obj /\ r.seen = seen
      BY AdmittedShape DEF WebhookInv, Types
    <3>2. r.key \in Configs
      BY <2>1, <3>1 DEF WebhookInv, WriteInv
    <3>3. review' = [review EXCEPT ![w] = r]
      BY <2>3
    <3> HIDE DEF r
    <3> QED BY <2>1, <2>3, <3>1, <3>2, <3>3, ReviewStep
  <2>4. listed \in SUBSET Configs
    OBVIOUS
  <2> HIDE DEF listed
  <2> QED BY SMT, <1>6, <2>1, <2>2, <2>3, <2>4
<1>8. ASSUME NEW w \in Writers, Commit(w)
      PROVE  WebhookInv'
  <2>1. CASE ~review[w].current
    <3>1. review' = [review EXCEPT ![w] = NoWrite] /\ UNCHANGED <<stored, cache, unchecked>>
      BY <1>8, <2>1, Zenon DEF Commit
    <3> QED BY <1>6, <3>1
  <2>2. CASE review[w].current
    <3> DEFINE r    == review[w]
               o    == IF r.obj.deleting /\ ~r.obj.finalizer THEN Absent ELSE r.obj
               done == [review EXCEPT ![w] = NoWrite]
    <3>1. r \in Reviews /\ r.key \in Configs /\ r.seen \in SUBSET Configs /\ r.obj \in Objects
      BY <1>8 DEF WebhookInv, Types, WriteInv, AskedInv, Commit, Reviews
    <3>2. Store(r.key, o, r.seen, done) /\ UNCHANGED cache
      BY <1>8, <2>2 DEF Commit
    <3>3. done \in [Writers -> Reviews] /\ \A v \in Writers : done[v] = review[v] \/ done[v] = NoWrite
      BY NoWriteShape DEF WebhookInv, Types
    <3>4. \A d \in r.seen : stored[d].exists => ~ShareAddress(r.obj.spec, stored[d].spec)
      BY DEF WebhookInv, SeenInv
    <3>5. CASE r.obj.deleting /\ ~r.obj.finalizer
      <4>1. Absent \in Objects /\ o = Absent
        BY <3>5, AbsentShape
      <4>2. \A d \in r.seen : stored[d].exists => ~ShareAddress(o.spec, stored[d].spec)
        BY SMT, <4>1, NothingInNoSpec DEF Absent
      <4> HIDE DEF o, done
      <4> QED BY <3>1, <3>2, <3>3, <4>1, <4>2, StoreStep
    <3>6. CASE ~(r.obj.deleting /\ ~r.obj.finalizer)
      <4>1. o = r.obj
        BY <3>6
      <4> HIDE DEF o, done
      <4> QED BY <3>1, <3>2, <3>3, <3>4, <4>1, StoreStep
    <3> QED BY <3>5, <3>6
  <2> QED BY <2>1, <2>2
<1>9. ASSUME NEW c \in Configs, UserDeletes(c)
      PROVE  WebhookInv'
  <2>1. WithDeletion(stored[c]) \in Objects
    BY WithDeletionShape DEF WebhookInv, Types
  <2>2. Store(c, WithDeletion(stored[c]), {}, review) /\ UNCHANGED cache
    BY <1>9 DEF UserDeletes
  <2>3. review \in [Writers -> Reviews]
    BY DEF WebhookInv, Types
  <2> QED BY SMT, <2>1, <2>2, <2>3, StoreStep
<1>10. ASSUME NEW c \in Configs, Watch(c)
       PROVE  WebhookInv'
  <2>1. cache' = [cache EXCEPT ![c] = stored[c]] /\ UNCHANGED <<stored, review, unchecked>>
    BY <1>10 DEF Watch
  <2>2. Types'
    BY <2>1 DEF WebhookInv, Types
  <2>3. WriteInv' /\ AskedInv' /\ SeenInv' /\ NoOverlap'
    BY <2>1, Zenon DEF WebhookInv, WriteInv, AskedInv, SeenInv, NoOverlap, ShareAddress
  <2> QED BY <2>2, <2>3 DEF WebhookInv
<1> QED BY <1>1, <1>3, <1>4, <1>5, <1>7, <1>8, <1>9, <1>10 DEF Next

\* Two configs at the server share an address only if their present specs were
\* never compared, for any users, configs and specs, with an up-to-date or an
\* outdated cache: a comparison the webhook made is not undone by the reviews
\* and writes that interleave with the write it admitted.
THEOREM AdmittedApart == Spec => []NoOverlap
<1>1. Init => WebhookInv
  <2> SUFFICES ASSUME Init PROVE WebhookInv
    OBVIOUS
  <2>1. /\ stored = [c \in Configs |-> Absent] /\ cache = stored
        /\ review = [w \in Writers |-> NoWrite]
    BY DEF Init
  <2>2. Types
    BY <2>1, AbsentShape, NoWriteShape DEF Types
  <2>3. WriteInv /\ AskedInv /\ SeenInv
    BY <2>1, NoWriteShape DEF WriteInv, AskedInv, SeenInv
  <2>4. NoOverlap
    BY <2>1, AbsentShape DEF NoOverlap
  <2> QED BY <2>2, <2>3, <2>4 DEF WebhookInv
<1>2. WebhookInv => NoOverlap
  BY DEF WebhookInv
<1> QED BY <1>1, <1>2, WebhookStep, PTL DEF Spec
=============================================================================
