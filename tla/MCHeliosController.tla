------------------------- MODULE MCHeliosController -------------------------
(***************************************************************************)
(* Instances of HeliosController.  Keys are built from model values, so    *)
(* that configs, and Services, of one namespace can be permuted.           *)
(***************************************************************************)
EXTENDS ControllerInvariants, TLC

CONSTANTS nsA, nsB, h1, h2, s1, s2

ConfigSymmetry == Permutations({h1, h2})
Symmetry       == ConfigSymmetry \cup Permutations({s1, s2})

Key(ns, name) == [ns |-> ns, name |-> name]

OneConfig       == {Key(nsA, h1)}
TwoConfigs      == {Key(nsA, h1), Key(nsA, h2)}
OneService      == {Key(nsA, s1)}
TwoServices     == {Key(nsA, s1), Key(nsA, s2)}
SameNameTwice   == {Key(nsA, s1), Key(nsB, s1), Key(nsA, s2)}

CfgSpec(v4, v6, selector, max) ==
  [ipRange |-> v4, ipv6Range |-> v6, namespaceSelector |-> selector, maxAllocations |-> max]

Pool       == {CfgSpec(Span(1, 2), NoRange, {}, 0)}
WidePool   == {CfgSpec(Span(1, 6), NoRange, {}, 0)}
Quota2     == {CfgSpec(Span(1, 3), NoRange, {}, 2)}
Quota1     == {CfgSpec(Span(1, 2), NoRange, {}, 1)}
SingleOrDual ==
  {CfgSpec(Span(1, 2), NoRange, {}, 1), CfgSpec(CIDR(0, 4), Span(9, 10), {nsA}, 1)}
\* Pools that overlap across fields, the ipv6Range of one config and the
\* ipRange of another, where CheckIPConflicts does not look.
AcrossFields ==
  {CfgSpec(SingleIP(1), Span(9, 10), {}, 0), CfgSpec(Span(9, 10), NoRange, {}, 0)}
OnlyIPv6   == {CfgSpec(Span(9, 10), NoRange, {}, 0)}

SvcSpec(kind, want) == [kind |-> kind, loadBalancerIP |-> want]

AnyAddress == [s \in Services |-> {SvcSpec("unclassed", NoIP)}]
Address2   == [s \in Services |-> {SvcSpec("helios", 2)}]
AnyOr2     == [s \in Services |-> {SvcSpec("unclassed", NoIP), SvcSpec("unclassed", 2)}]
FirstWants2 == [s \in Services |-> {SvcSpec("unclassed", IF s.name = s1 THEN 2 ELSE NoIP)}]
Address10  == [s \in Services |-> {SvcSpec("unclassed", 10)}]
OursOrNot  == [s \in Services |-> {SvcSpec("unclassed", NoIP), SvcSpec("foreign", NoIP)}]

\* Each of these disruptions at most once.
Once(disruptions) == [d \in Disruptions |-> IF d \in disruptions THEN 1 ELSE 0]

Undisturbed    == Once({})
RestartCleanup == Once({"restart", "deleteConfig"})
Chaos          == Once({"restart", "fault", "createConfig", "updateConfig", "deleteConfig", "editService"})
Churn          == Once({"restart", "fault", "deleteConfig", "createService", "deleteService"})
Recreate       == Once({"createService", "deleteService"})
Cleanup        == Once({"createService", "deleteService", "deleteConfig"})
OneRestart     == Once({"restart"})
OneFault       == Once({"fault"})
Replace        == Once({"deleteConfig", "createConfig"})
=============================================================================
