---------------------------- MODULE HealthChecks ----------------------------
(***************************************************************************)
(* The load balancer's life: the loop that checks the health of its        *)
(* backends, the goroutines the loop starts, and Stop.                     *)
(*                                                                         *)
(* Time is left out: a tick may come whenever the loop waits for one, so   *)
(* checks that last longer than the interval overlap.  A panic ends the    *)
(* process.                                                                *)
(***************************************************************************)
EXTENDS BackendRegistry, Functions

CONSTANTS
  Answers,              \* what a backend may answer: an HTTP status, or NoAnswer
  Protocol,             \* HealthCheckOpts.Protocol, "" when unset
  Checks,               \* bound: the check goroutines alive at once
  Stoppers,             \* the goroutines that call Stop
  Serial                \* is Stop called by one goroutine after the other

VARIABLES
  answer,               \* what each backend answers at the moment
  healthy,              \* the flag of each Backend
  loop,                 \* healthCheckLoop: "start", "select", "wait" or "done"
  pc, todo, found,      \* the goroutines that run doHealthCheck: where each is,
                        \* the backends it has yet to check, its last result
  wg, checkWg,          \* the counters of the two WaitGroups
  stopCh,               \* is the channel closed
  stop                  \* the calls of Stop

lists == <<backends, answer>>
checks == <<pc, todo, found>>
life  == <<loop, checks, wg, checkWg, stopCh, stop>>
hvars == <<lists, healthy, life>>

NoAnswer == 0

ASSUME HealthAssumption ==
  /\ Answers \subseteq Nat
  /\ IsFiniteSet(Checks) /\ IsFiniteSet(Services)

Active   == {k \in Checks : pc[k] # "none"}
Panicked == \E g \in Stoppers : stop[g] = "panicked"

-----------------------------------------------------------------------------
(* One check of one backend.                                               *)

CheckTCP(a)  == a # NoAnswer

\* The http.Client follows redirects, so a is the answer at their end.
CheckHTTP(a) == a \in 200 .. 399

\* NewLoadBalancer makes the unset protocol TCP.
DefaultProtocol == IF Protocol = "" THEN "TCP" ELSE Protocol

CheckBackendHealth(a) == IF DefaultProtocol = "HTTP" THEN CheckHTTP(a) ELSE CheckTCP(a)

-----------------------------------------------------------------------------
(* NewLoadBalancer, with the health checks enabled or not.  A Backend may  *)
(* have its flag set before it is added.                                   *)

Init ==
  /\ backends = [s \in Services |-> <<>>]
  /\ answer \in [Backends -> Answers]
  /\ healthy \in [Backends -> BOOLEAN]
  /\ loop \in {"start", "done"}
  /\ wg = IF loop = "start" THEN 1 ELSE 0
  /\ pc = [k \in Checks |-> "none"]
  /\ todo = [k \in Checks |-> <<>>]
  /\ found = [k \in Checks |-> FALSE]
  /\ checkWg = 0
  /\ stopCh = FALSE
  /\ stop = [g \in Stoppers |-> "idle"]

-----------------------------------------------------------------------------
\* A backend comes up, breaks or goes away.
BackendChanges(b) ==
  /\ \E a \in Answers \ {answer[b]} : answer' = [answer EXCEPT ![b] = a]
  /\ UNCHANGED <<backends, healthy, life>>

-----------------------------------------------------------------------------
(* healthCheckLoop.                                                        *)

\* Mutant: the goroutine calls checkWg.Add itself, after it has started.
StartUncounted(k) ==
  /\ pc[k] = "none"
  /\ pc' = [pc EXCEPT ![k] = "start"]
  /\ UNCHANGED <<todo, found, checkWg>>

\* checkWg.Add(1) and the go statement.
StartCheck(k) ==
  /\ pc[k] = "none"
  /\ checkWg' = checkWg + 1
  /\ pc' = [pc EXCEPT ![k] = "start"]
  /\ UNCHANGED <<todo, found>>

FirstCheck ==
  /\ loop = "start"
  /\ \E k \in Checks : StartCheck(k)
  /\ loop' = "select"
  /\ UNCHANGED <<lists, healthy, wg, stopCh, stop>>

LoopTick ==
  /\ loop = "select"
  /\ \E k \in Checks : StartCheck(k)
  /\ UNCHANGED <<lists, healthy, loop, wg, stopCh, stop>>

LoopStop ==
  /\ loop = "select" /\ stopCh
  /\ loop' = "wait"
  /\ UNCHANGED <<lists, healthy, checks, wg, checkWg, stopCh, stop>>

\* Mutant: the loop returns without waiting for the checks.
LoopLeaves ==
  /\ loop = "wait"
  /\ loop' = "done" /\ wg' = wg - 1
  /\ UNCHANGED <<lists, healthy, checks, checkWg, stopCh, stop>>

LoopReturns ==
  /\ loop = "wait" /\ checkWg = 0
  /\ loop' = "done" /\ wg' = wg - 1
  /\ UNCHANGED <<lists, healthy, checks, checkWg, stopCh, stop>>

-----------------------------------------------------------------------------
(* doHealthCheck.                                                          *)

\* The lists, one after the other in an order of the Services.
Joined(order) ==
  LET f[n \in 0 .. Len(order)] == IF n = 0 THEN <<>> ELSE f[n - 1] \o backends[order[n]]
  IN f[Len(order)]

\* The lists are copied; the map of Services is walked in any order.
Snapshot(k) ==
  /\ pc[k] = "start"
  /\ pc' = [pc EXCEPT ![k] = "probe"]
  /\ \E order \in Bijection(1 .. Cardinality(Services), Services) :
       todo' = [todo EXCEPT ![k] = Joined(order)]
  /\ UNCHANGED <<lists, healthy, found, loop, wg, checkWg, stopCh, stop>>

Probe(k) ==
  /\ pc[k] = "probe" /\ todo[k] # <<>>
  /\ pc' = [pc EXCEPT ![k] = "set"]
  /\ found' = [found EXCEPT ![k] = CheckBackendHealth(answer[Head(todo[k])])]
  /\ UNCHANGED <<lists, healthy, todo, loop, wg, checkWg, stopCh, stop>>

\* Mutant: a backend that is down is never marked.
SetOnlyHealthy(k) ==
  /\ pc[k] = "set"
  /\ healthy' = IF found[k] THEN [healthy EXCEPT ![Head(todo[k])] = TRUE] ELSE healthy
  /\ pc' = [pc EXCEPT ![k] = "probe"]
  /\ todo' = [todo EXCEPT ![k] = Tail(@)]
  /\ found' = [found EXCEPT ![k] = FALSE]
  /\ UNCHANGED <<lists, loop, wg, checkWg, stopCh, stop>>

SetHealthy(k) ==
  /\ pc[k] = "set"
  /\ healthy' = [healthy EXCEPT ![Head(todo[k])] = found[k]]
  /\ pc' = [pc EXCEPT ![k] = "probe"]
  /\ todo' = [todo EXCEPT ![k] = Tail(@)]
  /\ found' = [found EXCEPT ![k] = FALSE]
  /\ UNCHANGED <<lists, loop, wg, checkWg, stopCh, stop>>

\* Mutant: a check with nothing to do forgets checkWg.Done.
CheckForgotten(k) ==
  /\ pc[k] = "probe" /\ todo[k] = <<>>
  /\ pc' = [pc EXCEPT ![k] = "none"]
  /\ UNCHANGED <<lists, healthy, todo, found, loop, wg, checkWg, stopCh, stop>>

CheckDone(k) ==
  /\ pc[k] = "probe" /\ todo[k] = <<>>
  /\ checkWg' = checkWg - 1
  /\ pc' = [pc EXCEPT ![k] = "none"]
  /\ UNCHANGED <<lists, healthy, todo, found, loop, wg, stopCh, stop>>

-----------------------------------------------------------------------------
(* Stop.  To call it again after it returned changes nothing.              *)

\* Mutant: Stop closes the channel without a look at it.
StopBlindly(g) ==
  /\ stop[g] = "idle"
  /\ Serial => \A h \in Stoppers : stop[h] \in {"idle", "early", "returned"}
  /\ stop' = [stop EXCEPT ![g] = "close"]
  /\ UNCHANGED <<lists, healthy, loop, checks, wg, checkWg, stopCh>>

StopBegins(g) ==
  /\ stop[g] = "idle"
  /\ Serial => \A h \in Stoppers : stop[h] \in {"idle", "early", "returned"}
  /\ stop' = [stop EXCEPT ![g] = IF stopCh THEN "early" ELSE "close"]
  /\ UNCHANGED <<lists, healthy, loop, checks, wg, checkWg, stopCh>>

\* The close of a closed channel panics.
CloseStopCh(g) ==
  /\ stop[g] = "close"
  /\ stopCh' = TRUE
  /\ stop' = [stop EXCEPT ![g] = IF stopCh THEN "panicked" ELSE "waitLoop"]
  /\ UNCHANGED <<lists, healthy, loop, checks, wg, checkWg>>

\* Mutant: Stop waits for the checks only.
LoopUnwaited(g) ==
  /\ stop[g] = "waitLoop"
  /\ stop' = [stop EXCEPT ![g] = "waitChecks"]
  /\ UNCHANGED <<lists, healthy, loop, checks, wg, checkWg, stopCh>>

LoopWaited(g) ==
  /\ stop[g] = "waitLoop" /\ wg = 0
  /\ stop' = [stop EXCEPT ![g] = "waitChecks"]
  /\ UNCHANGED <<lists, healthy, loop, checks, wg, checkWg, stopCh>>

ChecksWaited(g) ==
  /\ stop[g] = "waitChecks" /\ checkWg = 0
  /\ stop' = [stop EXCEPT ![g] = "returned"]
  /\ UNCHANGED <<lists, healthy, loop, checks, wg, checkWg, stopCh>>

-----------------------------------------------------------------------------
LoopStep == FirstCheck \/ LoopTick \/ LoopStop \/ LoopReturns
CheckStep(k) == Snapshot(k) \/ Probe(k) \/ SetHealthy(k) \/ CheckDone(k)
StopWaits(g) == CloseStopCh(g) \/ LoopWaited(g) \/ ChecksWaited(g)
StopStep(g)  == StopBegins(g) \/ StopWaits(g)

HealthNext ==
  /\ ~Panicked
  /\ \/ ListStep /\ UNCHANGED <<answer, healthy, life>>
     \/ \E b \in Backends : BackendChanges(b)
     \/ LoopStep
     \/ \E k \in Checks : CheckStep(k)
     \/ \E g \in Stoppers : StopStep(g)

\* Goroutines run; the ticker ticks; a select in which both channels are
\* ready does not choose the same one for ever; a probe ends by its timeout.
HealthFairness ==
  /\ WF_hvars(FirstCheck) /\ WF_hvars(LoopTick) /\ WF_hvars(LoopStop) /\ WF_hvars(LoopReturns)
  /\ \A k \in Checks : WF_hvars(CheckStep(k))
  /\ \A g \in Stoppers : WF_hvars(StopWaits(g))

HealthSpec == Init /\ [][HealthNext]_hvars /\ HealthFairness

-----------------------------------------------------------------------------
(* Properties.                                                             *)

\* Every variable has its type; in particular the counter of a WaitGroup
\* never falls below zero, which would panic.
TypeOK ==
  /\ backends \in [Services -> Seq(Backends)]
  /\ answer \in [Backends -> Answers]
  /\ healthy \in [Backends -> BOOLEAN]
  /\ loop \in {"start", "select", "wait", "done"}
  /\ pc \in [Checks -> {"none", "start", "probe", "set"}]
  /\ todo \in [Checks -> Seq(Backends)]
  /\ found \in [Checks -> BOOLEAN]
  /\ wg \in {0, 1} /\ checkWg \in Nat
  /\ stopCh \in BOOLEAN
  /\ stop \in [Stoppers -> {"idle", "close", "early", "waitLoop", "waitChecks", "returned", "panicked"}]

\* What makes Stop safe: every check that was started is counted until it
\* ends, checks are started by the loop only, the loop waits for them before
\* it returns, and Stop waits for the loop.
StopInv ==
  /\ checkWg = Cardinality(Active)
  /\ wg = (IF loop = "done" THEN 0 ELSE 1)
  /\ loop \in {"start", "done"} => Active = {}
  /\ \A g \in Stoppers :
       /\ stop[g] \in {"early", "waitLoop", "waitChecks", "returned"} => stopCh
       /\ stop[g] \in {"waitChecks", "returned"} => loop = "done"

\* Once the Stop that closed the channel has returned, no check runs, so no
\* flag is written any more, although a tick may start one after the close.
StopComplete ==
  (\E g \in Stoppers : stop[g] = "returned") => loop = "done" /\ Active = {}

\* Stop may be called many times.
NoPanic == ~Panicked

\* A call of Stop returns, however many checks are on their way.
StopReturns ==
  \A g \in Stoppers : stop[g] = "close" ~> stop[g] = "returned"

\* Once a listed backend has settled, its flag tells the truth for good:
\* checks that overlap may overwrite a newer result by an older one, but not
\* for ever.
HealthConverges ==
  \A b \in Backends, v \in BOOLEAN :
    <>[](Listed(b) /\ loop # "done" /\ ~stopCh /\ CheckBackendHealth(answer[b]) = v)
      => <>[](healthy[b] = v)

\* The goroutines, WaitGroups and the channel implement the promise: the
\* balancer winds down when the channel is closed, and is stopped when the
\* Stop that closed it returns.
Phase ==
  IF \E g \in Stoppers : stop[g] = "returned" THEN "stopped"
  ELSE IF stopCh THEN "stopping" ELSE "running"

Life == INSTANCE BalancerLifecycle WITH phase <- Phase, flag <- healthy

Lifecycle == Life!Spec
=============================================================================
