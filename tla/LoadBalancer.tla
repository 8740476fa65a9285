---------------------------- MODULE LoadBalancer ----------------------------
(***************************************************************************)
(* NextBackend under concurrent callers, while backends are added and      *)
(* removed and the health checks move their flags.                         *)
(*                                                                         *)
(* A call copies the list under lb.mu and then works on the copy: it reads *)
(* one flag (and, for least connections, one counter) at a time, and       *)
(* advances the Service's counter in one atomic step.  All that the calls  *)
(* see of the health checks is what BalancerLifecycle promises, which      *)
(* HealthChecks implements: flags move at any moment.                      *)
(***************************************************************************)
EXTENDS BackendRegistry, Algorithms

CONSTANTS
  Configs,              \* BalancerConfig: [type, weights], one is chosen
  Weight,               \* the field of the Backend objects
  Clients,              \* the goroutines that call NextBackend
  Hash,                 \* the FNV hash of each client's address
  Starts,               \* the lists of a balancer that has been in use
  MaxEdits              \* bound: additions and removals

VARIABLES
  healthy, conns,       \* the atomic fields of each Backend
  config,               \* lb.config
  counter,              \* RoundRobinState.current of each Service
  call,                 \* the calls of NextBackend
  edits,                \* additions and removals left
  watch,                \* history: what was so during each call
  share                 \* history: who got the last calls of each Service

observed == <<watch, share>>
bvars == <<backends, healthy, conns, config, counter, call, edits, observed>>

None == "none"

\* pc: "idle", "select" (reads the flag of the first of rest), "load" (reads
\* its connections), "answered" or "connected".
NoCall  == [pc |-> "idle", service |-> None, list |-> <<>>, rest |-> <<>>,
            keep |-> <<>>, least |-> 0, ans |-> None]
NoWatch == [up |-> {}, through |-> {}, lo |-> <<>>, hi |-> <<>>]
NoShare == [of |-> <<>>, hits |-> <<>>]

Kind == NewAlgorithm(config.type)

ASSUME BalancerAssumption ==
  /\ Weight \in [Backends -> Nat] /\ Hash \in [Clients -> Nat]
  /\ None \notin Backends /\ MaxListed \in Nat
  /\ CounterBits \in Nat /\ 2^CounterBits \in Nat \ {0}
  /\ IsFiniteSet(Clients)
  /\ Starts \subseteq [Services -> Seq(Backends)]
  /\ \A list \in Starts : \A s \in Services : Len(list[s]) <= MaxListed
  /\ \A list \in Starts : \A s \in Services : \A i \in DOMAIN list[s] : ServiceName[list[s][i]] = s
  /\ \A conf \in Configs : conf.weights \in Seq([service : Services, weight : Nat])

Init ==
  /\ backends \in Starts
  /\ healthy \in [Backends -> BOOLEAN]
  /\ conns = [b \in Backends |-> 0]
  /\ config \in Configs
  /\ counter = [s \in Services |-> 0]
  /\ call = [c \in Clients |-> NoCall]
  /\ edits = MaxEdits
  /\ watch = [c \in Clients |-> NoWatch]
  /\ share = [s \in Services |-> NoShare]

-----------------------------------------------------------------------------
(* NextBackend copies the list, and answers nil when there is none.        *)

NextBackend(c, s) ==
  /\ call[c].pc = "idle"
  /\ call' = [call EXCEPT ![c] = [NoCall EXCEPT
                !.pc = IF backends[s] = <<>> THEN "answered" ELSE "select",
                !.service = s, !.list = backends[s],
                !.rest = IF Kind = "roundrobin" THEN <<>> ELSE backends[s]]]
  /\ UNCHANGED <<backends, healthy, conns, config, counter, edits, share>>

(* The loops over the copy.                                                *)

\* Mutant: the loop keeps every backend.
ReadFlagIgnored(c) ==
  LET b == Head(call[c].rest)
  IN /\ call[c].pc = "select" /\ call[c].rest # <<>>
     /\ call' = IF Kind = "leastconnection" THEN [call EXCEPT ![c].pc = "load"]
                ELSE [call EXCEPT ![c].rest = Tail(@), ![c].keep = Append(@, b)]
     /\ UNCHANGED <<backends, healthy, conns, config, counter, edits, share>>

\* IsHealthy; least connections goes on to read the connections.
ReadFlag(c) ==
  LET b == Head(call[c].rest)
  IN /\ call[c].pc = "select" /\ call[c].rest # <<>>
     /\ call' = IF ~healthy[b] THEN [call EXCEPT ![c].rest = Tail(@)]
                ELSE IF Kind = "leastconnection" THEN [call EXCEPT ![c].pc = "load"]
                ELSE [call EXCEPT ![c].rest = Tail(@), ![c].keep = Append(@, b)]
     /\ UNCHANGED <<backends, healthy, conns, config, counter, edits, share>>

\* Mutant: the least starts at zero.
LoadConnectionsFromZero(c) ==
  LET b == Head(call[c].rest)
  IN /\ call[c].pc = "load"
     /\ call' = [call EXCEPT ![c].pc = "select", ![c].rest = Tail(@),
                             ![c].keep = IF conns[b] < call[c].least THEN <<b>> ELSE @]
     /\ UNCHANGED <<backends, healthy, conns, config, counter, edits, share>>

\* Mutant: the least is not remembered.
LoadConnectionsLast(c) ==
  LET b == Head(call[c].rest)
  IN /\ call[c].pc = "load"
     /\ call' = [call EXCEPT ![c].pc = "select", ![c].rest = Tail(@), ![c].keep = <<b>>]
     /\ UNCHANGED <<backends, healthy, conns, config, counter, edits, share>>

\* atomic.LoadInt32(&backend.Connections); the first is below the initial
\* MaxInt32.
LoadConnections(c) ==
  LET b == Head(call[c].rest)
  IN /\ call[c].pc = "load"
     /\ call' = IF call[c].keep = <<>> \/ conns[b] < call[c].least
                THEN [call EXCEPT ![c].pc = "select", ![c].rest = Tail(@),
                                  ![c].keep = <<b>>, ![c].least = conns[b]]
                ELSE [call EXCEPT ![c].pc = "select", ![c].rest = Tail(@)]
     /\ UNCHANGED <<backends, healthy, conns, config, counter, edits, share>>

-----------------------------------------------------------------------------
(* The last step of Select.                                                *)

Selecting(c) == call[c].pc = "select" /\ call[c].rest = <<>>

Answer(c, b) ==
  /\ call' = [call EXCEPT ![c].pc = "answered", ![c].ans = b, ![c].keep = <<>>, ![c].least = 0]
  /\ UNCHANGED <<backends, healthy, conns, config, edits>>

\* The counter of Service s has selected position i of the candidates.
Count(s, of, i) ==
  LET next == Increment(counter[s])
      old  == IF share[s].of = of /\ next # 0 THEN share[s].hits ELSE [j \in DOMAIN of |-> 0]
  IN /\ counter' = [counter EXCEPT ![s] = next]
     /\ share' = [share EXCEPT ![s] = [of |-> of, hits |-> [old EXCEPT ![i] = @ + 1]]]

SelectRoundRobin(c) ==
  LET s == call[c].service
      i == RoundRobinAt(Len(call[c].list), Increment(counter[s]))
  IN /\ Kind = "roundrobin" /\ Selecting(c)
     /\ Answer(c, call[c].list[i])
     /\ Count(s, call[c].list, i)

SelectLeast(c) ==
  /\ Kind = "leastconnection" /\ Selecting(c)
  /\ Answer(c, IF call[c].keep = <<>> THEN None ELSE call[c].keep[1])
  /\ UNCHANGED <<counter, share>>

Weights(of) ==
  [i \in DOMAIN of |-> ResolveWeight(Weight[of[i]], ServiceName[of[i]], config.weights)]

SelectWeighted(c) ==
  LET s == call[c].service
      i == WeightedAt(Weights(call[c].keep), Increment(counter[s]))
  IN /\ Kind = "weightedroundrobin" /\ Selecting(c)
     /\ IF call[c].keep = <<>>
        THEN Answer(c, None) /\ UNCHANGED <<counter, share>>
        ELSE Answer(c, call[c].keep[i]) /\ Count(s, call[c].keep, i)

\* Mutant: the hash of the connection, not of the address.
SelectHashedAnyhow(c) ==
  /\ Kind = "iphash" /\ Selecting(c)
  /\ \E h \in {0, 1} : Answer(c, IF call[c].keep = <<>> THEN None
                                 ELSE call[c].keep[HashAt(Len(call[c].keep), h)])
  /\ UNCHANGED <<counter, share>>

SelectHashed(c) ==
  /\ Kind = "iphash" /\ Selecting(c)
  /\ Answer(c, IF call[c].keep = <<>> THEN None
               ELSE call[c].keep[HashAt(Len(call[c].keep), Hash[c])])
  /\ UNCHANGED <<counter, share>>

SelectRandom(c) ==
  /\ Kind = "random" /\ Selecting(c)
  /\ \/ call[c].keep = <<>> /\ Answer(c, None)
     \/ \E i \in DOMAIN call[c].keep : Answer(c, call[c].keep[i])
  /\ UNCHANGED <<counter, share>>

-----------------------------------------------------------------------------
(* The caller counts its connection.                                       *)

IncrementConnections(c) ==
  /\ call[c].pc = "answered" /\ call[c].ans # None
  /\ conns' = [conns EXCEPT ![call[c].ans] = @ + 1]
  /\ call' = [call EXCEPT ![c] = [NoCall EXCEPT !.pc = "connected", !.ans = call[c].ans]]
  /\ UNCHANGED <<backends, healthy, config, counter, edits, share>>

DecrementConnections(c) ==
  /\ call[c].pc = "connected"
  /\ conns' = [conns EXCEPT ![call[c].ans] = @ - 1]
  /\ call' = [call EXCEPT ![c] = NoCall]
  /\ UNCHANGED <<backends, healthy, config, counter, edits, share>>

\* A caller that got nil, or does not connect.
Leave(c) ==
  /\ call[c].pc = "answered"
  /\ call' = [call EXCEPT ![c] = NoCall]
  /\ UNCHANGED <<backends, healthy, conns, config, counter, edits, share>>

-----------------------------------------------------------------------------
(* What the calls run beside.                                              *)

Life == INSTANCE BalancerLifecycle WITH phase <- "running", flag <- healthy

HealthMoves ==
  /\ Life!Mark
  /\ UNCHANGED <<backends, conns, config, counter, call, edits, share>>

ListMoves ==
  /\ edits > 0 /\ edits' = edits - 1
  /\ ListStep
  /\ UNCHANGED <<healthy, conns, config, counter, call, share>>

\* History: during a call, the backends that were healthy at some moment and
\* at every moment, and the least and most connections each had.
InCall(k) == k.pc \in {"select", "load"}

Watch ==
  watch' = [c \in Clients |->
    LET up == {b \in Backends : healthy'[b]}
        w  == watch[c]
    IN IF InCall(call[c])
       THEN [up |-> w.up \cup up, through |-> w.through \cap up,
             lo |-> [b \in DOMAIN w.lo |-> IF conns'[b] < w.lo[b] THEN conns'[b] ELSE w.lo[b]],
             hi |-> [b \in DOMAIN w.hi |-> IF conns'[b] > w.hi[b] THEN conns'[b] ELSE w.hi[b]]]
       ELSE IF InCall(call'[c]) /\ Kind = "leastconnection"
       THEN [up |-> up, through |-> up, lo |-> conns', hi |-> conns']
       ELSE IF InCall(call'[c]) /\ Kind # "roundrobin"
       THEN [up |-> up, through |-> up, lo |-> <<>>, hi |-> <<>>]
       ELSE IF call'[c].pc = "answered" THEN w ELSE NoWatch]

Select(c) ==
  \/ ReadFlag(c) \/ LoadConnections(c)
  \/ SelectRoundRobin(c) \/ SelectLeast(c) \/ SelectWeighted(c) \/ SelectHashed(c) \/ SelectRandom(c)

Next ==
  /\ \/ \E c \in Clients, s \in Services : NextBackend(c, s)
     \/ \E c \in Clients : Select(c)
     \/ \E c \in Clients : IncrementConnections(c) \/ DecrementConnections(c) \/ Leave(c)
     \/ HealthMoves
     \/ ListMoves
  /\ Watch

Spec == Init /\ [][Next]_bvars

-----------------------------------------------------------------------------
(* Properties.                                                             *)

\* Every variable has its type; in particular the counter of round robin
\* keeps its width, and no backend has fewer than zero connections.
TypeOK ==
  /\ backends \in [Services -> Seq(Backends)]
  /\ \A s \in Services : Len(backends[s]) <= MaxListed
  /\ healthy \in [Backends -> BOOLEAN]
  /\ conns \in [Backends -> Nat]
  /\ config \in Configs
  /\ counter \in [Services -> 0 .. 2^CounterBits - 1]
  /\ \A c \in Clients :
       /\ call[c].pc \in {"idle", "select", "load", "answered", "connected"}
       /\ call[c].ans \in Backends \cup {None}

Answered(c) == call[c].pc = "answered" /\ Kind # "roundrobin"
Offered(c)  == {call[c].list[i] : i \in DOMAIN call[c].list}

\* Four of the algorithms answer only a backend that was listed when the
\* call began and healthy at some moment of it, whatever changed meanwhile.
ServedHealthy ==
  \A c \in Clients : Answered(c) /\ call[c].ans # None =>
    call[c].ans \in Offered(c) \cap watch[c].up

\* They answer nil only when no listed backend was healthy all through the
\* call; round robin only when no backend was listed.
NilMeansNone ==
  \A c \in Clients : call[c].pc = "answered" /\ call[c].ans = None =>
    /\ Offered(c) \cap watch[c].through = {}
    /\ Kind = "roundrobin" => Offered(c) = {}

\* Least connections answers a backend that had, at some moment of the call,
\* no more connections than any backend healthy throughout had at one.
LeastLoaded ==
  \A c \in Clients : Answered(c) /\ Kind = "leastconnection" /\ call[c].ans # None =>
    \A b \in Offered(c) \cap watch[c].through : watch[c].lo[call[c].ans] <= watch[c].hi[b]

\* Calls of one address get one backend as long as neither the list nor a
\* flag on it changes, however the calls interleave.
SameClientSameBackend ==
  \A c, d \in Clients :
    /\ Answered(c) /\ Answered(d) /\ Kind = "iphash" /\ Hash[c] = Hash[d]
    /\ call[c].list = call[d].list
    /\ watch[c] = watch[d] /\ watch[c].up = watch[c].through
    => call[c].ans = call[d].ans

\* What a candidate is due in a round: one call of round robin; else the first
\* weight configured for its Service, or its own, and one when that is zero.
Due(b) ==
  LET set == {k \in DOMAIN config.weights : config.weights[k].service = ServiceName[b]}
      own == IF set = {} THEN Weight[b] ELSE config.weights[Min(set)].weight
  IN IF Kind = "roundrobin" \/ own = 0 THEN 1 ELSE own

\* While the candidates stay the same, consecutive calls of any callers are
\* shared by weight: after some number of full rounds, and a part of another
\* one, no candidate has less than its due of the full rounds, and none has
\* more than that and its due of one more.
Fair(of, hits) ==
  \E rounds \in 0 .. 2^CounterBits - 1 : \A i \in DOMAIN of :
    rounds * Due(of[i]) <= hits[i] /\ hits[i] <= (rounds + 1) * Due(of[i])

FairShare == \A s \in Services : share[s].of # <<>> => Fair(share[s].of, share[s].hits)
=============================================================================
