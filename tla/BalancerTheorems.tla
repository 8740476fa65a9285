-------------------------- MODULE BalancerTheorems --------------------------
(***************************************************************************)
(* What NextBackend answers, for any number of Services, backends and      *)
(* callers, whatever is added, removed, marked or counted meanwhile.       *)
(***************************************************************************)
EXTENDS LoadBalancer, FiniteSetTheorems, WellFoundedInduction, TLAPS


\* Zenon proves the steps that do not name a prover.
USE ZenonT(30)

-----------------------------------------------------------------------------
(* The inductive invariant.                                                *)

PCs == {"idle", "select", "load", "answered", "connected"}

Calls ==
  [pc : PCs, service : Services \cup {None}, list : Seq(Backends), rest : Seq(Backends),
   keep : Seq(Backends), least : Nat, ans : Backends \cup {None}]

Up == {b \in Backends : healthy[b]}

Elements(seq) == {seq[i] : i \in DOMAIN seq}

\* How many backends of its copy a call has dealt with.
Seen(k) == Len(k.list) - Len(k.rest)

\* The backends of U among the first n of a list, in order, for every n.
Filtered(list, U) ==
  LET f[n \in 0 .. Len(list)] ==
        IF n = 0 THEN <<>> ELSE IF list[n] \in U THEN Append(f[n - 1], list[n]) ELSE f[n - 1]
  IN f

Hashed(keep, h) == IF keep = <<>> THEN None ELSE keep[HashAt(Len(keep), h)]

\* A call that has yet to deal with rest: it holds only backends that were
\* healthy, and has passed over only backends that were not, or that had no
\* fewer connections than the least.
Progress(k, w) ==
  /\ Len(k.rest) <= Len(k.list)
  /\ \A i \in 1 .. Len(k.rest) : k.rest[i] = k.list[Seen(k) + i]
  /\ \A i \in 1 .. Len(k.keep) : k.keep[i] \in Elements(k.list) /\ k.keep[i] \in w.up

Gathering(k, w) ==
  \A b \in Elements(k.list) : b \in w.through => b \in Elements(k.rest) \/ b \in Elements(k.keep)

Comparing(k, w) ==
  /\ w.lo \in [Backends -> Nat] /\ w.hi \in [Backends -> Nat]
  /\ k.keep # <<>> => w.lo[k.keep[1]] <= k.least
  /\ \A b \in Elements(k.list) :
       b \in w.through => b \in Elements(k.rest) \/ (k.keep # <<>> /\ k.least <= w.hi[b])
  /\ k.pc = "load" => k.rest # <<>> /\ k.rest[1] \in w.up

Hashing(k, w) == w.up = w.through => k.keep = Filtered(k.list, w.up)[Seen(k)]

\* A call under way: up are the backends that are healthy now, cn their
\* connections.
During(kind, k, w, up, cn) ==
  /\ up \subseteq w.up /\ w.through \subseteq up
  /\ Progress(k, w)
  /\ kind # "leastconnection" => Gathering(k, w)
  /\ kind = "leastconnection" =>
       Comparing(k, w) /\ \A b \in Backends : w.lo[b] <= cn[b] /\ cn[b] <= w.hi[b]
  /\ kind = "iphash" => Hashing(k, w)

\* A call that has answered.
Answering(kind, k, w, h) ==
  /\ k.ans # None => k.ans \in Elements(k.list) /\ k.ans \in w.up
  /\ k.ans = None => \A b \in Elements(k.list) : b \notin w.through
  /\ kind = "leastconnection" /\ k.ans # None =>
       \A b \in Elements(k.list) : b \in w.through => w.lo[k.ans] <= w.hi[b]
  /\ kind = "iphash" /\ w.up = w.through =>
       k.ans = Hashed(Filtered(k.list, w.up)[Len(k.list)], h)

CallInv(c) ==
  /\ InCall(call[c]) => call[c].list # <<>> /\ call[c].service \in Services
  /\ call[c].pc = "load" => Kind = "leastconnection"
  /\ call[c].pc = "connected" => call[c].ans \in Backends
  /\ Kind = "roundrobin" => (call[c].pc = "answered" /\ call[c].ans = None => call[c].list = <<>>)
  /\ Kind # "roundrobin" /\ InCall(call[c]) => During(Kind, call[c], watch[c], Up, conns)
  /\ Kind # "roundrobin" /\ call[c].pc = "answered" => Answering(Kind, call[c], watch[c], Hash[c])

Connected(b) == {c \in Clients : call[c].pc = "connected" /\ call[c].ans = b}

Types ==
  /\ TypeOK
  /\ call \in [Clients -> Calls]
  /\ \A b \in Backends : conns[b] = Cardinality(Connected(b))

BalancerInv == Types /\ \A c \in Clients : CallInv(c)

-----------------------------------------------------------------------------
(* Operators.                                                              *)

\* A nonempty set of naturals contains its minimum.
LEMMA MinIn ==
  ASSUME NEW S \in SUBSET Nat, S # {}
  PROVE  Min(S) \in S /\ \A y \in S : Min(S) <= y
<1> DEFINE Below == {ss \in Nat \X Nat : ss[1] < ss[2]}
<1>1. IsWellFoundedOn(Below, Nat)
  BY NatLessThanWellFounded DEF OpToRel
<1>2. PICK x \in S : \A y \in S : ~ (<<y, x>> \in Below)
  <2> HIDE DEF Below
  <2> QED  BY <1>1, WFMin
<1>3. ASSUME NEW y \in S  PROVE  x <= y
  <2>1. y \in Nat /\ x \in Nat
    OBVIOUS
  <2>2. y < x => <<y, x>> \in Below
    BY <2>1
  <2> QED  BY SMT, <2>1, <2>2, <1>2
<1> QED  BY <1>3 DEF Min

\* So Sums adds up the weights.
LEMMA SumsAdd ==
  \A w \in Seq(Nat) :
    /\ \A i \in 0 .. Len(w) : Sums(w)[i] \in Nat
    /\ Sums(w)[0] = 0
    /\ \A i \in 1 .. Len(w) : Sums(w)[i] = Sums(w)[i - 1] + w[i]
\* Adding up weights: the recursion has a solution.  Were there a first n
\* without one, the solution up to n - 1 could be extended.
<1>SumsExist.
  ASSUME NEW w \in Seq(Nat)
  PROVE  \E f \in [0 .. Len(w) -> Nat] :
           f = [i \in 0 .. Len(w) |-> IF i = 0 THEN 0 ELSE f[i - 1] + w[i]]
  <2> DEFINE Solves(f, n) == f = [i \in 0 .. n |-> IF i = 0 THEN 0 ELSE f[i - 1] + w[i]]
             Bad == {n \in 0 .. Len(w) : ~ \E f \in [0 .. n -> Nat] : Solves(f, n)}
  <2>1. Bad = {}
    <3> SUFFICES ASSUME Bad # {} PROVE FALSE
      OBVIOUS
    <3>1. Bad \in SUBSET Nat
      BY SMT
    <3> DEFINE m == Min(Bad)
    <3>2. m \in Bad /\ \A n \in Bad : m <= n
      <4> HIDE DEF Bad
      <4> QED  BY <3>1, MinIn
    <3> HIDE DEF m
    <3>3. CASE m = 0
      <4>1. [i \in 0 .. 0 |-> 0] \in [0 .. 0 -> Nat] /\ Solves([i \in 0 .. 0 |-> 0], 0)
        BY SMT
      <4> QED  BY <3>2, <3>3, <4>1
    <3>4. CASE m # 0
      <4>0. m \in 0 .. Len(w)
        BY <3>2
      <4>1. m \in 1 .. Len(w) /\ m - 1 \in 0 .. Len(w) /\ m - 1 \notin Bad
        <5> HIDE DEF Bad
        <5> QED  BY SMT, <3>2, <3>4, <4>0
      <4>2. PICK f \in [0 .. (m - 1) -> Nat] : Solves(f, m - 1)
        BY <4>1
      <4> DEFINE g == [i \in 0 .. m |-> IF i = m THEN f[m - 1] + w[m] ELSE f[i]]
      <4> w[m] \in Nat
        BY SMT, <4>1
      <4>3. g \in [0 .. m -> Nat]
        <5>1. ASSUME NEW i \in 0 .. m  PROVE  (IF i = m THEN f[m - 1] + w[m] ELSE f[i]) \in Nat
          <6>1. m - 1 \in 0 .. (m - 1) /\ (i # m => i \in 0 .. (m - 1))
            BY SMT, <4>1
          <6>2. f[m - 1] \in Nat /\ (i # m => f[i] \in Nat)
            BY <4>2, <6>1
          <6>3. f[m - 1] + w[m] \in Nat
            BY SMTT(30), <6>2
          <6> QED  BY <6>2, <6>3
        <5> QED  BY <5>1
      <4>4. ASSUME NEW i \in 0 .. m  PROVE  g[i] = IF i = 0 THEN 0 ELSE g[i - 1] + w[i]
        <5>1. CASE i = m
          BY SMT, <4>1, <5>1
        <5>2. CASE i # m
          <6>1. i \in 0 .. (m - 1)
            BY SMT, <4>1, <5>2
          <6>2. f[i] = IF i = 0 THEN 0 ELSE f[i - 1] + w[i]
            BY <4>2, <6>1
          <6>3. g[i] = f[i] /\ (i # 0 => g[i - 1] = f[i - 1])
            BY SMT, <4>1, <5>2, <6>1
          <6> QED  BY <6>2, <6>3
        <5> QED  BY <5>1, <5>2
      <4>5. Solves(g, m)
        BY <4>3, <4>4
      <4> QED  BY <3>2, <4>3, <4>5
    <3> QED  BY <3>3, <3>4
  <2>2. Len(w) \in 0 .. Len(w)
    BY SMT
  <2> QED  BY <2>1, <2>2
<1> SUFFICES ASSUME NEW w \in Seq(Nat)
             PROVE  /\ \A i \in 0 .. Len(w) : Sums(w)[i] \in Nat
                    /\ Sums(w)[0] = 0
                    /\ \A i \in 1 .. Len(w) : Sums(w)[i] = Sums(w)[i - 1] + w[i]
  OBVIOUS
<1> DEFINE Solves(f) == f = [i \in 0 .. Len(w) |-> IF i = 0 THEN 0 ELSE f[i - 1] + w[i]]
<1>1. PICK f \in [0 .. Len(w) -> Nat] : Solves(f)
  BY <1>SumsExist
<1>2. Solves(Sums(w))
  BY <1>1 DEF Sums
<1> DEFINE g == Sums(w)
<1> HIDE DEF g
<1>3. \A i \in 0 .. Len(w) : g[i] = IF i = 0 THEN 0 ELSE g[i - 1] + w[i]
  BY <1>2 DEF g
<1>4. g[0] = 0 /\ \A i \in 1 .. Len(w) : g[i] = g[i - 1] + w[i]
  <2>1. 0 \in 0 .. Len(w) /\ \A i \in 1 .. Len(w) : i \in 0 .. Len(w) /\ i # 0
    BY SMT
  <2> QED  BY <1>3, <2>1
<1> DEFINE Bad == {n \in 0 .. Len(w) : g[n] \notin Nat}
<1>5. Bad = {}
  <2> SUFFICES ASSUME Bad # {} PROVE FALSE
    OBVIOUS
  <2>1. Bad \in SUBSET Nat
    BY SMT
  <2> DEFINE m == Min(Bad)
  <2>2. m \in Bad /\ \A n \in Bad : m <= n
    <3> HIDE DEF Bad
    <3> QED  BY <2>1, MinIn
  <2> HIDE DEF m
  <2>3. m # 0
    BY SMT, <1>4, <2>2
  <2>4. m \in 1 .. Len(w) /\ m - 1 \in 0 .. Len(w) /\ m - 1 \notin Bad
    BY SMT, <2>2, <2>3
  <2>5. g[m] = g[m - 1] + w[m] /\ g[m - 1] \in Nat /\ w[m] \in Nat
    BY SMT, <1>4, <2>4
  <2> QED  BY SMT, <2>2, <2>5
<1>6. \A i \in 0 .. Len(w) : g[i] \in Nat
  BY <1>5
<1> QED  BY <1>4, <1>6 DEF g

\* The loop of weighted round robin stops at one of the candidates, the one the
\* point belongs to: the point is below the sum of the weights.
LEMMA WeightedAtIn ==
  ASSUME NEW w \in Seq(Nat \ {0}), w # <<>>, NEW current \in Nat
  PROVE  /\ WeightedAt(w, current) \in DOMAIN w
         /\ (current % SumTo(w, Len(w))) - SumTo(w, WeightedAt(w, current)) < 0
         /\ \A j \in 1 .. WeightedAt(w, current) - 1 : (current % SumTo(w, Len(w))) - SumTo(w, j) >= 0
<1> DEFINE n     == Len(w)
           total == SumTo(w, n)
           point == current % total
           Past  == {i \in 1 .. n : point - SumTo(w, i) < 0}
<1>1. n \in Nat \ {0} /\ DOMAIN w = 1 .. n /\ w \in Seq(Nat)
  BY SMT
<1>2. \A i \in 0 .. n : SumTo(w, i) \in Nat
  BY <1>1, SumsAdd DEF SumTo
<1>3. total \in Nat \ {0}
  <2>1. n \in 1 .. n /\ n - 1 \in 0 .. n /\ w[n] \in Nat \ {0}
    BY SMT, <1>1
  <2>2. SumTo(w, n) = SumTo(w, n - 1) + w[n]
    BY <1>1, <2>1, SumsAdd DEF SumTo
  <2>3. SumTo(w, n - 1) \in Nat
    BY <1>2, <2>1
  <2> QED  BY SMT, <2>1, <2>2, <2>3
<1> HIDE DEF total
<1>4. point \in 0 .. (total - 1)
  BY SMT, <1>3
<1> HIDE DEF point
<1>5. n \in Past
  BY SMT, <1>1, <1>3, <1>4 DEF total
<1>6. Past \in SUBSET Nat
  BY SMT, <1>1
<1> DEFINE m == Min(Past)
<1>7. m \in Past /\ \A i \in Past : m <= i
  <2> HIDE DEF Past
  <2> QED  BY <1>5, <1>6, MinIn
<1> HIDE DEF m
<1>8. m \in 1 .. n /\ point - SumTo(w, m) < 0
  BY <1>7
<1>9. ASSUME NEW j \in 1 .. m - 1  PROVE  point - SumTo(w, j) >= 0
  <2>1. j \in 1 .. n /\ ~(m <= j) /\ j \in 0 .. n
    BY SMT, <1>1, <1>8
  <2>2. ~(point - SumTo(w, j) < 0)
    BY <1>7, <2>1
  <2>3. SumTo(w, j) \in Nat /\ point \in Int
    BY SMT, <1>2, <1>3, <1>4, <2>1
  <2> QED  BY SMT, <2>2, <2>3
<1>10. \E i \in DOMAIN w : point - SumTo(w, i) < 0 /\ \A j \in 1 .. i - 1 : point - SumTo(w, j) >= 0
  BY <1>1, <1>8, <1>9
<1> QED  BY <1>10 DEF WeightedAt, point, total, n

\* The weights of a list of candidates are positive, and what they are due.
LEMMA WeightsAre ==
  \A of \in Seq(Backends) :
    config \in Configs /\ of # <<>>
      => /\ Weights(of) \in Seq(Nat \ {0}) /\ Weights(of) # <<>> /\ Len(Weights(of)) = Len(of)
         /\ Kind # "roundrobin" => \A i \in 1 .. Len(of) : Weights(of)[i] = Due(of[i])
\* A weight is positive.
<1>ResolveWeightPositive.
  ASSUME NEW own \in Nat, NEW s, NEW configured \in Seq([service : Services, weight : Nat])
  PROVE  ResolveWeight(own, s, configured) \in Nat \ {0}
  <2> DEFINE of == {k \in DOMAIN configured : configured[k].service = s}
  <2>1. of \in SUBSET Nat
    BY SMT
  <2>2. CASE of = {}
    BY SMT, <2>2 DEF ResolveWeight
  <2>3. CASE of # {}
    <3>1. Min(of) \in of
      <4> HIDE DEF of
      <4> QED  BY <2>1, <2>3, MinIn
    <3>2. configured[Min(of)] \in [service : Services, weight : Nat]
      <4> DEFINE R == [service : Services, weight : Nat]
                 m == Min(of)
      <4>1. configured \in Seq(R) /\ m \in DOMAIN configured
        BY <3>1
      <4> HIDE DEF R, m
      <4>2. configured[m] \in R
        BY SMT, <4>1
      <4> QED  BY <4>2 DEF R, m
    <3>3. configured[Min(of)].weight \in Nat
      BY <3>2
    <3> QED  BY SMT, <2>3, <3>3 DEF ResolveWeight
  <2> QED  BY <2>2, <2>3
<1> SUFFICES ASSUME NEW of \in Seq(Backends), config \in Configs, of # <<>>
             PROVE  /\ Weights(of) \in Seq(Nat \ {0}) /\ Weights(of) # <<>> /\ Len(Weights(of)) = Len(of)
                    /\ Kind # "roundrobin" => \A i \in 1 .. Len(of) : Weights(of)[i] = Due(of[i])
  OBVIOUS
<1>1. \A j \in 1 .. Len(of) :
        ResolveWeight(Weight[of[j]], ServiceName[of[j]], config.weights) \in Nat \ {0}
  <2>1. config.weights \in Seq([service : Services, weight : Nat])
    BY BalancerAssumption
  <2>2. \A j \in 1 .. Len(of) : Weight[of[j]] \in Nat
    BY SMT, BalancerAssumption
  <2> QED  BY <2>1, <2>2, <1>ResolveWeightPositive
<1>2. DOMAIN of = 1 .. Len(of) /\ Len(of) \in Nat \ {0}
  BY SMT
<1> DEFINE n == Len(of)
           W == Weights(of)
<1>3. W \in [1 .. n -> Nat \ {0}]
  BY <1>1, <1>2 DEF Weights
<1>4. ASSUME Kind # "roundrobin", NEW i \in 1 .. n  PROVE  W[i] = Due(of[i])
  <2>1. W[i] = ResolveWeight(Weight[of[i]], ServiceName[of[i]], config.weights)
    BY <1>2 DEF Weights
  <2>2. Due(of[i]) = ResolveWeight(Weight[of[i]], ServiceName[of[i]], config.weights)
    <3> DEFINE set == {k \in DOMAIN config.weights : config.weights[k].service = ServiceName[of[i]]}
               own == IF set = {} THEN Weight[of[i]] ELSE config.weights[Min(set)].weight
    <3>2. ResolveWeight(Weight[of[i]], ServiceName[of[i]], config.weights) = IF own = 0 THEN 1 ELSE own
      BY DEF ResolveWeight
    <3>3. Due(of[i]) = IF own = 0 THEN 1 ELSE own
      BY <1>4 DEF Due
    <3> QED  BY <3>2, <3>3
  <2> QED  BY <2>1, <2>2
<1> HIDE DEF n, W
<1>5. n \in Nat \ {0}
  BY <1>2 DEF n
<1>6. W \in Seq(Nat \ {0}) /\ W # <<>> /\ Len(W) = n
  BY SMT, <1>3, <1>5
<1> QED  BY <1>4, <1>6 DEF n, W

\* So Filtered keeps, of each backend in turn, what is in U.
LEMMA FilteredSteps ==
  \A list \in Seq(Backends) : \A U :
    /\ Filtered(list, U)[0] = <<>>
    /\ \A n \in 1 .. Len(list) :
         Filtered(list, U)[n] = IF list[n] \in U THEN Append(Filtered(list, U)[n - 1], list[n])
                                ELSE Filtered(list, U)[n - 1]
\* Filtering a list: the recursion has a solution, which can be extended from
\* any n - 1 to n.
<1>FilteredExist.
  ASSUME NEW list \in Seq(Backends), NEW U
  PROVE  \E f \in [0 .. Len(list) -> Seq(Backends)] :
           f = [n \in 0 .. Len(list) |->
                  IF n = 0 THEN <<>> ELSE IF list[n] \in U THEN Append(f[n - 1], list[n]) ELSE f[n - 1]]
  <2> DEFINE Term(f, n) == IF n = 0 THEN <<>>
                           ELSE IF list[n] \in U THEN Append(f[n - 1], list[n]) ELSE f[n - 1]
             Solves(f, m) == f = [n \in 0 .. m |-> Term(f, n)]
             Bad == {m \in 0 .. Len(list) : ~ \E f \in [0 .. m -> Seq(Backends)] : Solves(f, m)}
  <2>1. Bad = {}
    <3> SUFFICES ASSUME Bad # {} PROVE FALSE
      OBVIOUS
    <3>1. Bad \in SUBSET Nat
      BY SMT
    <3> DEFINE m == Min(Bad)
    <3>2. m \in Bad /\ \A n \in Bad : m <= n
      <4> HIDE DEF Bad
      <4> QED  BY <3>1, MinIn
    <3> HIDE DEF m
    <3>3. CASE m = 0
      <4>1. [i \in 0 .. 0 |-> <<>>] \in [0 .. 0 -> Seq(Backends)] /\ Solves([i \in 0 .. 0 |-> <<>>], 0)
        BY SMT
      <4> QED  BY <3>2, <3>3, <4>1
    <3>4. CASE m # 0
      <4>1. m \in 0 .. Len(list)
        BY <3>2
      <4>2. m \in 1 .. Len(list) /\ m - 1 \in 0 .. Len(list) /\ m - 1 \notin Bad
        <5> HIDE DEF Bad
        <5> QED  BY SMT, <3>2, <3>4, <4>1
      <4>3. PICK f \in [0 .. (m - 1) -> Seq(Backends)] : Solves(f, m - 1)
        BY <4>2
      <4> list[m] \in Backends
        BY SMT, <4>2
      <4>4. Term(f, m) \in Seq(Backends)
        BY SMT, <4>2
      <4> DEFINE g == [n \in 0 .. m |-> IF n = m THEN Term(f, m) ELSE f[n]]
      <4>5. g \in [0 .. m -> Seq(Backends)]
        <5> HIDE DEF Term
        <5> QED  BY SMT, <4>2, <4>4
      <4>6. ASSUME NEW n \in 0 .. m  PROVE  g[n] = Term(g, n)
        <5>1. CASE n = m
          <6>1. g[m - 1] = f[m - 1] /\ g[m] = Term(f, m)
            <7> HIDE DEF Term
            <7> QED  BY SMT, <4>2
          <6> QED  BY <4>2, <5>1, <6>1
        <5>2. CASE n # m
          <6>1. n \in 0 .. (m - 1)
            BY SMT, <4>2, <5>2
          <6>2. f[n] = Term(f, n)
            <7> HIDE DEF Term
            <7> QED  BY <4>3, <6>1
          <6>3. g[n] = f[n] /\ (n # 0 => g[n - 1] = f[n - 1])
            <7> HIDE DEF Term
            <7> QED  BY SMT, <4>2, <5>2, <6>1
          <6> QED  BY <6>2, <6>3
        <5> QED  BY <5>1, <5>2
      <4>7. Solves(g, m)
        <5> HIDE DEF Term
        <5> QED  BY <4>6, <4>5
      <4> QED  BY <3>2, <4>5, <4>7
    <3> QED  BY <3>3, <3>4
  <2>2. Len(list) \in 0 .. Len(list)
    BY SMT
  <2> QED  BY <2>1, <2>2
<1> SUFFICES ASSUME NEW list \in Seq(Backends), NEW U
             PROVE  /\ Filtered(list, U)[0] = <<>>
                    /\ \A n \in 1 .. Len(list) :
                         Filtered(list, U)[n] = IF list[n] \in U THEN Append(Filtered(list, U)[n - 1], list[n])
                                                ELSE Filtered(list, U)[n - 1]
  OBVIOUS
<1> DEFINE Term(f, n) == IF n = 0 THEN <<>>
                         ELSE IF list[n] \in U THEN Append(f[n - 1], list[n]) ELSE f[n - 1]
           Solves(f) == f = [n \in 0 .. Len(list) |-> Term(f, n)]
<1>1. PICK f \in [0 .. Len(list) -> Seq(Backends)] : Solves(f)
  BY <1>FilteredExist
<1>2. Solves(Filtered(list, U))
  BY <1>1 DEF Filtered
<1> DEFINE g == Filtered(list, U)
<1> HIDE DEF g
<1>3. \A n \in 0 .. Len(list) : g[n] = Term(g, n)
  BY <1>2 DEF g
<1>4. 0 \in 0 .. Len(list) /\ \A n \in 1 .. Len(list) : n \in 0 .. Len(list) /\ n # 0
  BY SMT
<1>5. g[0] = <<>> /\ \A n \in 1 .. Len(list) : g[n] = IF list[n] \in U THEN Append(g[n - 1], list[n]) ELSE g[n - 1]
  BY <1>3, <1>4
<1> QED  BY <1>5 DEF g

\* The lists of the Services, each within the bound.
AreLists(f) == f \in [Services -> Seq(Backends)] /\ \A s \in Services : Len(f[s]) <= MaxListed

-----------------------------------------------------------------------------
(* What each action does to a call.                                        *)

\* Only the call of client c moves.
Frame(c) == call' \in [Clients -> Calls] /\ \A d \in Clients \ {c} : call'[d] = call[d]

\* A caller that is not in a call.
LEMMA NoCallShape == NoCall \in Calls /\ NoCall.pc = "idle" /\ NoCall.ans = None /\ NoCall.keep = <<>>
BY SMT DEF NoCall, Calls, PCs

Begun(o, p, s, l, r) == [o EXCEPT !.pc = p, !.service = s, !.list = l, !.rest = r]

\* NextBackend copies the list.
LEMMA NextBackendFacts ==
  \A c \in Clients, s \in Services :
    Types /\ NextBackend(c, s)
      => /\ Frame(c) /\ backends[s] \in Seq(Backends)
         /\ call'[c].pc = (IF backends[s] = <<>> THEN "answered" ELSE "select")
         /\ call'[c].list = backends[s] /\ call'[c].keep = <<>> /\ call'[c].ans = None /\ call'[c].service = s
         /\ call'[c].rest = (IF Kind = "roundrobin" THEN <<>> ELSE backends[s])
\* The state of a call that begins.
<1>BegunShape.
  ASSUME NEW o \in Calls,
         NEW p \in PCs, NEW s \in Services, NEW l \in Seq(Backends), NEW r \in Seq(Backends)
  PROVE  /\ Begun(o, p, s, l, r) \in Calls
         /\ Begun(o, p, s, l, r).pc = p /\ Begun(o, p, s, l, r).list = l /\ Begun(o, p, s, l, r).rest = r
         /\ Begun(o, p, s, l, r).keep = o.keep /\ Begun(o, p, s, l, r).ans = o.ans
         /\ Begun(o, p, s, l, r).service = s
  BY DEF Calls, Begun
<1> SUFFICES ASSUME NEW c \in Clients, NEW s \in Services, Types, NextBackend(c, s)
             PROVE  /\ Frame(c) /\ backends[s] \in Seq(Backends)
                    /\ call'[c].pc = (IF backends[s] = <<>> THEN "answered" ELSE "select")
                    /\ call'[c].list = backends[s] /\ call'[c].keep = <<>> /\ call'[c].ans = None /\ call'[c].service = s
                    /\ call'[c].rest = (IF Kind = "roundrobin" THEN <<>> ELSE backends[s])
  OBVIOUS
<1> DEFINE p == IF backends[s] = <<>> THEN "answered" ELSE "select"
           r == IF Kind = "roundrobin" THEN <<>> ELSE backends[s]
           k == Begun(NoCall, p, s, backends[s], r)
<1>1. backends[s] \in Seq(Backends)
  BY DEF Types, TypeOK
<1>2. p \in PCs /\ r \in Seq(Backends)
  BY SMT, <1>1 DEF PCs
<1>3. call' = [call EXCEPT ![c] = k] /\ call \in [Clients -> Calls]
  BY DEF NextBackend, Types, Begun
<1> HIDE DEF p, r
<1>4. /\ k \in Calls /\ k.pc = p /\ k.list = backends[s] /\ k.rest = r
      /\ k.keep = <<>> /\ k.ans = None /\ k.service = s
  BY SMT, <1>1, <1>2, <1>BegunShape, NoCallShape
<1> HIDE DEF k
<1>5. call'[c] = k /\ Frame(c)
  BY <1>3, <1>4 DEF Frame
<1> QED  BY <1>1, <1>4, <1>5 DEF p, r

\* The flag of the first backend of rest is read.
LEMMA ReadFlagFacts ==
  ASSUME Types, NEW c \in Clients, ReadFlag(c)
  PROVE  LET b == call[c].rest[1]
         IN /\ Frame(c) /\ b \in Backends
            /\ call'[c].list = call[c].list /\ call'[c].least = call[c].least /\ call'[c].service = call[c].service
            /\ \/ /\ ~healthy[b]
                  /\ call'[c].pc = "select" /\ call'[c].rest = Tail(call[c].rest) /\ call'[c].keep = call[c].keep
               \/ /\ healthy[b] /\ Kind = "leastconnection"
                  /\ call'[c].pc = "load" /\ call'[c].rest = call[c].rest /\ call'[c].keep = call[c].keep
               \/ /\ healthy[b] /\ Kind # "leastconnection"
                  /\ call'[c].pc = "select" /\ call'[c].rest = Tail(call[c].rest)
                  /\ call'[c].keep = Append(call[c].keep, b)
<1> DEFINE k == call[c]
           b == call[c].rest[1]
<1>1. call \in [Clients -> Calls] /\ k \in Calls /\ k.pc = "select" /\ k.rest # <<>>
  BY DEF Types, ReadFlag
<1>2. k.rest \in Seq(Backends) /\ k.keep \in Seq(Backends)
  BY <1>1 DEF Calls
<1>3. b \in Backends /\ Head(k.rest) = b /\ Tail(k.rest) \in Seq(Backends) /\ Append(k.keep, b) \in Seq(Backends)
  BY SMT, <1>1, <1>2
<1>4. CASE ~healthy[b]
  <2>1. call' = [call EXCEPT ![c].rest = Tail(@)]
    BY <1>3, <1>4 DEF ReadFlag
  <2>2. /\ Frame(c) /\ call'[c].list = k.list /\ call'[c].service = k.service /\ call'[c].least = k.least /\ call'[c].pc = k.pc
        /\ call'[c].rest = Tail(k.rest) /\ call'[c].keep = k.keep
    BY <1>1, <1>2, <1>3, <2>1 DEF Frame, Calls
  <2> QED  BY <1>1, <1>3, <1>4, <2>2
<1>5. CASE healthy[b] /\ Kind = "leastconnection"
  <2>1. call' = [call EXCEPT ![c].pc = "load"]
    BY <1>3, <1>5 DEF ReadFlag
  <2>2. /\ Frame(c) /\ call'[c].list = k.list /\ call'[c].service = k.service /\ call'[c].least = k.least /\ call'[c].pc = "load"
        /\ call'[c].rest = k.rest /\ call'[c].keep = k.keep
    BY <1>1, <1>2, <1>3, <2>1 DEF Frame, Calls, PCs
  <2> QED  BY <1>3, <1>5, <2>2
<1>6. CASE healthy[b] /\ Kind # "leastconnection"
  <2>1. call' = [call EXCEPT ![c].rest = Tail(@), ![c].keep = Append(@, b)]
    BY <1>3, <1>6 DEF ReadFlag
  <2>2. /\ Frame(c) /\ call'[c].list = k.list /\ call'[c].service = k.service /\ call'[c].least = k.least /\ call'[c].pc = k.pc
        /\ call'[c].rest = Tail(k.rest) /\ call'[c].keep = Append(k.keep, b)
    BY <1>1, <1>2, <1>3, <2>1 DEF Frame, Calls
  <2> QED  BY <1>1, <1>3, <1>6, <2>2
<1> QED  BY <1>3, <1>4, <1>5, <1>6

\* The connections of the first backend of rest are read.
LEMMA LoadConnectionsFacts ==
  ASSUME Types, NEW c \in Clients, LoadConnections(c), call[c].rest # <<>>
  PROVE  LET b == call[c].rest[1]
         IN /\ Frame(c) /\ b \in Backends
            /\ call'[c].pc = "select" /\ call'[c].list = call[c].list /\ call'[c].rest = Tail(call[c].rest)
            /\ call'[c].service = call[c].service
            /\ \/ /\ call[c].keep = <<>> \/ conns[b] < call[c].least
                  /\ call'[c].keep = <<b>> /\ call'[c].least = conns[b]
               \/ /\ call[c].keep # <<>> /\ ~(conns[b] < call[c].least)
                  /\ call'[c].keep = call[c].keep /\ call'[c].least = call[c].least
<1> DEFINE k == call[c]
           b == call[c].rest[1]
<1>1. call \in [Clients -> Calls] /\ k \in Calls /\ conns \in [Backends -> Nat]
  BY DEF Types, TypeOK
<1>2. k.rest \in Seq(Backends) /\ k.keep \in Seq(Backends)
  BY <1>1 DEF Calls
<1>3. b \in Backends /\ Head(k.rest) = b /\ Tail(k.rest) \in Seq(Backends) /\ <<b>> \in Seq(Backends)
      /\ conns[b] \in Nat
  BY SMT, <1>1, <1>2
<1>4. CASE k.keep = <<>> \/ conns[b] < k.least
  <2>1. call' = [call EXCEPT ![c].pc = "select", ![c].rest = Tail(@), ![c].keep = <<b>>, ![c].least = conns[b]]
    BY <1>3, <1>4 DEF LoadConnections
  <2>2. /\ Frame(c) /\ call'[c].list = k.list /\ call'[c].service = k.service /\ call'[c].least = conns[b] /\ call'[c].pc = "select"
        /\ call'[c].rest = Tail(k.rest) /\ call'[c].keep = <<b>>
    BY <1>1, <1>3, <2>1 DEF Frame, Calls, PCs
  <2> QED  BY <1>3, <1>4, <2>2
<1>5. CASE ~(k.keep = <<>> \/ conns[b] < k.least)
  <2>1. call' = [call EXCEPT ![c].pc = "select", ![c].rest = Tail(@)]
    BY <1>3, <1>5 DEF LoadConnections
  <2>2. /\ Frame(c) /\ call'[c].list = k.list /\ call'[c].service = k.service /\ call'[c].least = k.least /\ call'[c].pc = "select"
        /\ call'[c].rest = Tail(k.rest) /\ call'[c].keep = k.keep
    BY <1>1, <1>2, <1>3, <2>1 DEF Frame, Calls, PCs
  <2> QED  BY <1>3, <1>5, <2>2
<1> QED  BY <1>4, <1>5

\* The call answers.
LEMMA AnswerFacts ==
  ASSUME Types, NEW c \in Clients, NEW b \in Backends \cup {None}, Answer(c, b)
  PROVE  /\ Frame(c)
         /\ call'[c].pc = "answered" /\ call'[c].ans = b /\ call'[c].list = call[c].list
<1>1. call \in [Clients -> Calls] /\ call[c] \in Calls /\ <<>> \in Seq(Backends)
  BY SMT DEF Types
<1>2. call' = [call EXCEPT ![c].pc = "answered", ![c].ans = b, ![c].keep = <<>>, ![c].least = 0]
  BY DEF Answer
<1> QED  BY <1>1, <1>2 DEF Frame, Calls, PCs

\* The caller has connected to what it was answered.
LEMMA IncrementFacts ==
  ASSUME Types, NEW c \in Clients, IncrementConnections(c)
  PROVE  /\ Frame(c) /\ call[c].ans \in Backends
         /\ call'[c].pc = "connected" /\ call'[c].ans = call[c].ans
<1>1. call \in [Clients -> Calls] /\ call[c] \in Calls /\ call[c].ans # None
  BY DEF Types, IncrementConnections
<1>2. call[c].ans \in Backends
  BY <1>1 DEF Calls
<1> DEFINE k == [NoCall EXCEPT !.pc = "connected", !.ans = call[c].ans]
<1>3. k \in Calls /\ k.pc = "connected" /\ k.ans = call[c].ans
  <2> DEFINE a == call[c].ans
  <2> HIDE DEF a
  <2>1. ASSUME NEW o \in Calls, a \in Backends
        PROVE  /\ [o EXCEPT !.pc = "connected", !.ans = a] \in Calls
               /\ [o EXCEPT !.pc = "connected", !.ans = a].pc = "connected"
               /\ [o EXCEPT !.pc = "connected", !.ans = a].ans = a
    BY <2>1 DEF Calls, PCs
  <2> QED  BY <1>2, <2>1, NoCallShape DEF a
<1>4. call' = [call EXCEPT ![c] = k]
  BY DEF IncrementConnections
<1> HIDE DEF k
<1> QED  BY <1>1, <1>2, <1>3, <1>4 DEF Frame

\* The caller is done.
LEMMA LeaveFacts ==
  ASSUME Types, NEW c \in Clients, DecrementConnections(c) \/ Leave(c)
  PROVE  Frame(c) /\ call'[c] = NoCall
<1>1. call' = [call EXCEPT ![c] = NoCall] /\ call \in [Clients -> Calls]
  BY DEF DecrementConnections, Leave, Types
<1> QED  BY <1>1, NoCallShape DEF Frame

\* A remainder selects one of n candidates.
LEMMA ModIn ==
  ASSUME NEW n \in Nat \ {0}, NEW h \in Nat
  PROVE  (h % n) + 1 \in 1 .. n
BY SMT

\* The counter wraps inside its width.
LEMMA IncrementIn ==
  ASSUME NEW current \in Nat
  PROVE  Increment(current) \in 0 .. 2^CounterBits - 1
<1> DEFINE m == 2^CounterBits
<1>1. m \in Nat \ {0}
  BY BalancerAssumption
<1> HIDE DEF m
<1>2. (current + 1) % m \in 0 .. m - 1
  BY SMT, <1>1
<1> QED  BY <1>2 DEF Increment, m

\* The last step of Select answers a candidate, or nil when there is none.
SelectAnswers(c, b) ==
  /\ Answer(c, b) /\ counter' \in [Services -> 0 .. 2^CounterBits - 1]
  /\ Selecting(c)
  /\ Kind = "roundrobin" => b \in Backends
  /\ Kind # "roundrobin" =>
       IF call[c].keep = <<>> THEN b = None ELSE \E i \in 1 .. Len(call[c].keep) : b = call[c].keep[i]
  /\ Kind = "leastconnection" /\ call[c].keep # <<>> => b = call[c].keep[1]
  /\ Kind = "iphash" => b = Hashed(call[c].keep, Hash[c])

\* Round robin does so,
LEMMA SelectRoundRobinFacts ==
  ASSUME Types, NEW c \in Clients, SelectRoundRobin(c), call[c].list # <<>>, call[c].service \in Services
  PROVE  \E b \in Backends : SelectAnswers(c, b)
<1> DEFINE s == call[c].service
           i == RoundRobinAt(Len(call[c].list), Increment(counter[s]))
           b == call[c].list[i]
<1>1. call[c].list \in Seq(Backends) /\ counter \in [Services -> 0 .. 2^CounterBits - 1]
  BY DEF Types, TypeOK, Calls
<1>2. Increment(counter[s]) \in 0 .. 2^CounterBits - 1 /\ Increment(counter[s]) \in Nat
  <2> DEFINE m == 2^CounterBits
  <2>1. m \in Nat /\ \A x \in 0 .. m - 1 : x \in Nat
    BY SMT, BalancerAssumption
  <2>2. counter[s] \in Nat
    BY <1>1, <2>1
  <2> QED  BY <2>1, <2>2, IncrementIn
<1>3. i \in 1 .. Len(call[c].list)
  BY SMTT(30), <1>1, <1>2, ModIn DEF RoundRobinAt
<1>4. b \in Backends
  BY SMT, <1>1, <1>3
<1>5. Answer(c, b) /\ counter' = [counter EXCEPT ![s] = Increment(counter[s])] /\ Kind = "roundrobin" /\ Selecting(c)
  BY DEF SelectRoundRobin, Count
<1>6. counter' \in [Services -> 0 .. 2^CounterBits - 1]
  BY <1>1, <1>2, <1>5
<1> HIDE DEF b
<1>7. SelectAnswers(c, b)
  BY <1>4, <1>5, <1>6 DEF SelectAnswers
<1> QED  BY <1>4, <1>7

\* so does weighted round robin,
LEMMA SelectWeightedFacts ==
  ASSUME Types, NEW c \in Clients, SelectWeighted(c), call[c].service \in Services
  PROVE  \E b \in Backends \cup {None} : SelectAnswers(c, b)
<1> DEFINE keep == call[c].keep
           s == call[c].service
           i == WeightedAt(Weights(keep), Increment(counter[s]))
<1>1. keep \in Seq(Backends) /\ counter \in [Services -> 0 .. 2^CounterBits - 1] /\ config \in Configs
  BY DEF Types, TypeOK, Calls
<1>2. Kind = "weightedroundrobin" /\ Selecting(c)
  BY DEF SelectWeighted
<1>3. CASE keep = <<>>
  <2>1. Answer(c, None) /\ counter' = counter
    BY <1>3 DEF SelectWeighted
  <2>2. SelectAnswers(c, None)
    BY <1>1, <1>2, <1>3, <2>1 DEF SelectAnswers
  <2> QED  BY <2>2
<1>4. CASE keep # <<>>
  <2>1. Increment(counter[s]) \in 0 .. 2^CounterBits - 1 /\ Increment(counter[s]) \in Nat
    <3> DEFINE m == 2^CounterBits
    <3>1. m \in Nat /\ \A x \in 0 .. m - 1 : x \in Nat
      BY SMT, BalancerAssumption
    <3>2. counter[s] \in Nat
      BY <1>1, <3>1
    <3> QED  BY <3>1, <3>2, IncrementIn
  <2>2. Weights(keep) \in Seq(Nat \ {0}) /\ Weights(keep) # <<>> /\ DOMAIN Weights(keep) = 1 .. Len(keep)
    <3> DEFINE W == Weights(keep)
    <3>1. W \in Seq(Nat \ {0}) /\ W # <<>> /\ Len(W) = Len(keep)
      BY <1>1, <1>4, WeightsAre
    <3> HIDE DEF W
    <3>2. DOMAIN W = 1 .. Len(keep)
      BY SMT, <3>1
    <3> QED  BY <3>1, <3>2 DEF W
  <2>3. i \in 1 .. Len(keep)
    BY <2>1, <2>2, WeightedAtIn
  <2>4. keep[i] \in Backends
    BY SMT, <1>1, <2>3
  <2>5. Answer(c, keep[i]) /\ counter' = [counter EXCEPT ![s] = Increment(counter[s])]
    BY <1>4 DEF SelectWeighted, Count
  <2>6. counter' \in [Services -> 0 .. 2^CounterBits - 1]
    BY <1>1, <2>1, <2>5
  <2> HIDE DEF i
  <2>7. SelectAnswers(c, keep[i])
    BY <1>2, <1>4, <2>3, <2>5, <2>6 DEF SelectAnswers
  <2> QED  BY <2>4, <2>7
<1> QED  BY <1>3, <1>4

\* and so do the other three.
LEMMA SelectOtherFacts ==
  ASSUME Types, NEW c \in Clients, SelectLeast(c) \/ SelectHashed(c) \/ SelectRandom(c)
  PROVE  \E b \in Backends \cup {None} : SelectAnswers(c, b)
<1> DEFINE keep == call[c].keep
<1>1. keep \in Seq(Backends) /\ counter \in [Services -> 0 .. 2^CounterBits - 1]
  BY DEF Types, TypeOK, Calls
<1>2. counter' \in [Services -> 0 .. 2^CounterBits - 1] /\ Selecting(c)
  BY <1>1 DEF SelectLeast, SelectHashed, SelectRandom
<1>3. CASE keep = <<>>
  <2>1. Answer(c, None) /\ Kind \in {"leastconnection", "iphash", "random"}
    BY SMT, <1>3 DEF SelectLeast, SelectHashed, SelectRandom
  <2>2. SelectAnswers(c, None)
    BY <1>2, <1>3, <2>1 DEF SelectAnswers, Hashed
  <2> QED  BY <2>2
<1>4. CASE keep # <<>>
  <2>1. 1 \in 1 .. Len(keep) /\ HashAt(Len(keep), Hash[c]) \in 1 .. Len(keep)
    <3>1. Len(keep) \in Nat /\ Len(keep) # 0 /\ Hash[c] \in Nat
      BY SMT, <1>1, <1>4, BalancerAssumption
    <3> DEFINE n == Len(keep)
               h == Hash[c]
    <3> HIDE DEF n, h
    <3>2. n \in Nat \ {0} /\ h \in Nat
      BY <3>1 DEF n, h
    <3>3. HashAt(n, h) \in 1 .. n
      BY <3>2, ModIn DEF HashAt
    <3>4. 1 \in 1 .. n
      BY SMT, <3>2
    <3> QED  BY <3>3, <3>4 DEF n, h
  <2>2. \A j \in 1 .. Len(keep) : keep[j] \in Backends
    BY SMT, <1>1
  <2>3. CASE SelectLeast(c)
    <3>1. Answer(c, keep[1]) /\ Kind = "leastconnection"
      BY <1>4, <2>3 DEF SelectLeast
    <3>2. SelectAnswers(c, keep[1])
      BY <1>2, <1>4, <2>1, <3>1 DEF SelectAnswers
    <3> QED  BY <2>1, <2>2, <3>2
  <2>4. CASE SelectHashed(c)
    <3> DEFINE i == HashAt(Len(keep), Hash[c])
    <3>1. Answer(c, keep[i]) /\ Kind = "iphash"
      BY <1>4, <2>4 DEF SelectHashed
    <3>2. keep[i] = Hashed(keep, Hash[c])
      BY <1>4 DEF Hashed
    <3> HIDE DEF i
    <3>3. SelectAnswers(c, keep[i])
      BY <1>2, <1>4, <2>1, <3>1, <3>2 DEF SelectAnswers, i
    <3> QED  BY <2>1, <2>2, <3>3 DEF i
  <2>5. CASE SelectRandom(c)
    <3>1. PICK i \in DOMAIN keep : Answer(c, keep[i])
      BY <1>4, <2>5 DEF SelectRandom
    <3>2. i \in 1 .. Len(keep) /\ Kind = "random"
      BY SMT, <1>1, <2>5 DEF SelectRandom
    <3>3. SelectAnswers(c, keep[i])
      BY <1>2, <1>4, <3>1, <3>2 DEF SelectAnswers
    <3> QED  BY <2>2, <3>2, <3>3
  <2> QED  BY <2>3, <2>4, <2>5
<1> QED  BY <1>3, <1>4

-----------------------------------------------------------------------------
(* Types.                                                                  *)

\* The types hold at first.
LEMMA TypesInit == Init => Types
<1> SUFFICES ASSUME Init PROVE Types
  OBVIOUS
<1>1. counter \in [Services -> 0 .. 2^CounterBits - 1]
  <2> DEFINE m == 2^CounterBits
  <2>1. 0 \in 0 .. m - 1
    BY SMT, BalancerAssumption
  <2> QED  BY <2>1 DEF Init
<1>2. call \in [Clients -> Calls] /\ \A c \in Clients : call[c] = NoCall
  BY NoCallShape DEF Init
<1>3. TypeOK
  <2>1. \A c \in Clients : call[c].pc \in {"idle", "select", "load", "answered", "connected"}
                           /\ call[c].ans \in Backends \cup {None}
    BY <1>2, NoCallShape
  <2> QED  BY <1>1, <2>1, BalancerAssumption DEF Init, TypeOK
<1>4. ASSUME NEW b \in Backends  PROVE  conns[b] = Cardinality(Connected(b))
  <2>1. Connected(b) = {}
    BY <1>2, NoCallShape DEF Connected
  <2> QED  BY <2>1, FS_EmptySet DEF Init
<1> QED  BY <1>2, <1>3, <1>4 DEF Types

\* Every step of a caller, or beside the callers, keeps the types.
LEMMA TypesStep ==
  BalancerInv /\ [Next]_bvars
    => Types'
\* The length of two lists put together.
<1>ConcatIs.
  ASSUME NEW S, NEW a \in Seq(S), NEW b \in Seq(S)
  PROVE  a \o b \in Seq(S) /\ Len(a \o b) = Len(a) + Len(b)
  BY SMT
\* A list without one of its elements.
<1>RemovedIs.
  ASSUME NEW S, NEW s \in Seq(S), NEW i \in DOMAIN s
  PROVE  /\ SubSeq(s, 1, i - 1) \o SubSeq(s, i + 1, Len(s)) \in Seq(S)
         /\ Len(SubSeq(s, 1, i - 1) \o SubSeq(s, i + 1, Len(s))) = Len(s) - 1
  <2>1. i \in 1 .. Len(s) /\ Len(s) \in Nat
    BY SMT
  <2> DEFINE a == SubSeq(s, 1, i - 1)
             b == SubSeq(s, i + 1, Len(s))
  <2>2. a \in Seq(S) /\ Len(a) = i - 1
    BY SMT, <2>1
  <2>3. b \in Seq(S) /\ Len(b) = Len(s) - i
    BY SMT, <2>1
  <2> HIDE DEF a, b
  <2>4. a \o b \in Seq(S) /\ Len(a \o b) = Len(a) + Len(b)
    BY <1>ConcatIs, <2>2, <2>3
  <2>5. a \o b \in Seq(S) /\ Len(a \o b) = Len(s) - 1
    BY SMT, <2>1, <2>2, <2>3, <2>4
  <2> QED  BY <2>5 DEF a, b
\* Additions and removals keep the lists in their type.
<1>ListStepTypes.
  ASSUME AreLists(backends), ListStep
  PROVE  AreLists(backends')
  <2> USE <1>ListStepTypes
  <2> USE RegistryAssumption
  <2> MaxListed \in Nat
    BY BalancerAssumption
  <2>1. ASSUME NEW s \in Services, NEW l \in Seq(Backends), Len(l) <= MaxListed,
               backends' = [backends EXCEPT ![s] = l]
        PROVE  AreLists(backends')
    BY <2>1 DEF AreLists
  <2>2. ASSUME NEW b \in Backends, AddBackend(b)  PROVE  AreLists(backends')
    <3> DEFINE s == ServiceName[b]
               l == backends[s]
    <3>1. s \in Services /\ l \in Seq(Backends) /\ Len(l) < MaxListed
      BY <2>2 DEF AddBackend, AreLists
    <3>2. Append(l, b) \in Seq(Backends) /\ Len(Append(l, b)) <= MaxListed
      BY SMT, <3>1
    <3>3. backends' = [backends EXCEPT ![s] = Append(l, b)]
      BY <2>2 DEF AddBackend
    <3> QED  BY <2>1, <3>1, <3>2, <3>3
  <2>3. ASSUME NEW a, NEW s \in Services, RemoveBackend(a, s)  PROVE  AreLists(backends')
    <3>1. PICK i \in DOMAIN backends[s] :
            backends' = [backends EXCEPT ![s] = SubSeq(@, 1, i - 1) \o SubSeq(@, i + 1, Len(@))]
      BY <2>3 DEF RemoveBackend
    <3>2. backends[s] \in Seq(Backends) /\ Len(backends[s]) <= MaxListed
      BY DEF AreLists
    <3> DEFINE l == SubSeq(backends[s], 1, i - 1) \o SubSeq(backends[s], i + 1, Len(backends[s]))
    <3>3. l \in Seq(Backends) /\ Len(l) = Len(backends[s]) - 1
      BY <3>2, <1>RemovedIs
    <3>4. backends' = [backends EXCEPT ![s] = l]
      BY <3>1
    <3> HIDE DEF l
    <3>5. Len(l) <= MaxListed
      BY SMT, <3>2, <3>3
    <3> QED  BY <2>1, <3>3, <3>4, <3>5
  <2> QED  BY <2>2, <2>3 DEF ListStep
\* A step of a caller that neither connects nor disconnects leaves the
\* connections as they are.
<1>ConnectionsKept.
  ASSUME Types, NEW c \in Clients, Frame(c), UNCHANGED conns,
         call[c].pc # "connected", call'[c].pc # "connected"
  PROVE  \A b \in Backends : conns'[b] = Cardinality(Connected(b)')
  <2> USE <1>ConnectionsKept
  <2>1. ASSUME NEW b \in Backends  PROVE  Connected(b)' = Connected(b)
    BY DEF Connected, Frame
  <2> QED  BY <2>1 DEF Types
<1> SUFFICES ASSUME BalancerInv, [Next]_bvars
             PROVE  Types'
  OBVIOUS
<1> Types
  BY DEF BalancerInv
<1> DEFINE Counter == [Services -> 0 .. 2^CounterBits - 1]
<1> HIDE DEF Counter
<1> DEFINE Plain == /\ AreLists(backends')
                    /\ healthy' \in [Backends -> BOOLEAN] /\ config' \in Configs
                    /\ counter' \in Counter /\ call' \in [Clients -> Calls]
<1>1. ASSUME Plain, conns' \in [Backends -> Nat], \A b \in Backends : conns'[b] = Cardinality(Connected(b)')
      PROVE  Types'
  <2>1. \A c \in Clients : /\ call'[c].pc \in {"idle", "select", "load", "answered", "connected"}
                           /\ call'[c].ans \in Backends \cup {None}
    BY <1>1 DEF Calls, PCs
  <2> QED  BY <1>1, <2>1 DEF Types, TypeOK, Counter, AreLists
<1>2. ASSUME NEW c \in Clients, Frame(c), counter' \in Counter,
             UNCHANGED <<backends, healthy, conns, config>>,
             call[c].pc # "connected", call'[c].pc # "connected"
      PROVE  Types'
  <2>1. \A b \in Backends : conns'[b] = Cardinality(Connected(b)')
    BY <1>2, <1>ConnectionsKept
  <2> QED  BY <1>1, <1>2, <2>1 DEF Types, TypeOK, Frame, AreLists
<1>3. counter \in Counter
  BY DEF Types, TypeOK, Counter
<1>4. ASSUME NEW c \in Clients, NEW s \in Services, NextBackend(c, s)  PROVE  Types'
  <2>1. Frame(c) /\ call'[c].pc # "connected"
    BY <1>4, NextBackendFacts
  <2> QED  BY <1>2, <1>3, <1>4, <2>1 DEF NextBackend
<1>5. ASSUME NEW c \in Clients, ReadFlag(c)  PROVE  Types'
  <2>1. Frame(c) /\ call'[c].pc # "connected"
    BY <1>5, ReadFlagFacts
  <2> QED  BY <1>2, <1>3, <1>5, <2>1 DEF ReadFlag
<1>6. ASSUME NEW c \in Clients, LoadConnections(c)  PROVE  Types'
  <2>1. call[c].pc = "load"
    BY <1>6 DEF LoadConnections
  <2>2. call[c].rest # <<>>
    BY <2>1 DEF BalancerInv, CallInv, InCall, During, Comparing
  <2>3. Frame(c) /\ call'[c].pc # "connected"
    BY <1>6, <2>2, LoadConnectionsFacts
  <2> QED  BY <1>2, <1>3, <1>6, <2>3 DEF LoadConnections
<1>7. ASSUME NEW c \in Clients, NEW b \in Backends \cup {None}, SelectAnswers(c, b)  PROVE  Types'
  <2>1. Answer(c, b) /\ counter' \in Counter /\ call[c].pc = "select"
    BY <1>7 DEF SelectAnswers, Selecting, Counter
  <2>2. Frame(c) /\ call'[c].pc # "connected"
    BY <2>1, AnswerFacts
  <2> QED  BY <1>2, <2>1, <2>2 DEF Answer
<1>8. ASSUME NEW c \in Clients,
             SelectRoundRobin(c) \/ SelectLeast(c) \/ SelectWeighted(c) \/ SelectHashed(c) \/ SelectRandom(c)
      PROVE  Types'
  <2>1. call[c].pc = "select"
    BY <1>8 DEF SelectRoundRobin, SelectLeast, SelectWeighted, SelectHashed, SelectRandom, Selecting
  <2>2. call[c].list # <<>> /\ call[c].service \in Services
    BY <2>1 DEF BalancerInv, CallInv, InCall
  <2>3. \E b \in Backends \cup {None} : SelectAnswers(c, b)
    BY <1>8, <2>2, SelectRoundRobinFacts, SelectWeightedFacts, SelectOtherFacts
  <2> QED  BY <1>7, <2>3
<1>9. ASSUME NEW c \in Clients, IncrementConnections(c)  PROVE  Types'
  <2> DEFINE a == call[c].ans
  <2>1. Frame(c) /\ a \in Backends /\ call'[c].pc = "connected" /\ call'[c].ans = a /\ call[c].pc = "answered"
    BY <1>9, IncrementFacts DEF IncrementConnections
  <2>2. conns' = [conns EXCEPT ![a] = @ + 1] /\ UNCHANGED <<backends, healthy, config, counter>>
    BY <1>9 DEF IncrementConnections
  <2>3. conns \in [Backends -> Nat] /\ \A b \in Backends : conns[b] = Cardinality(Connected(b))
    BY DEF Types, TypeOK
  <2>4. ASSUME NEW b \in Backends  PROVE  conns'[b] = Cardinality(Connected(b)')
    <3>1. CASE b # a
      <4>1. Connected(b)' = Connected(b)
        BY <2>1, <3>1 DEF Connected, Frame
      <4> QED  BY <2>2, <2>3, <3>1, <4>1
    <3>2. CASE b = a
      <4>1. Connected(b)' = Connected(b) \cup {c} /\ c \notin Connected(b)
        BY <2>1, <3>2 DEF Connected, Frame
      <4>2. IsFiniteSet(Connected(b))
        BY BalancerAssumption, FS_Subset DEF Connected
      <4>3. Cardinality(Connected(b)') = Cardinality(Connected(b)) + 1
        BY <4>1, <4>2, FS_AddElement
      <4>4. conns'[b] = conns[b] + 1
        BY <2>2, <2>3, <3>2
      <4> QED  BY <2>3, <4>3, <4>4
    <3> QED  BY <3>1, <3>2
  <2>5. conns' \in [Backends -> Nat]
    BY SMT, <2>1, <2>2, <2>3
  <2>6. Plain
    BY <1>3, <2>1, <2>2 DEF Types, TypeOK, Frame, AreLists
  <2> QED  BY <1>1, <2>4, <2>5, <2>6
<1>10. ASSUME NEW c \in Clients, DecrementConnections(c)  PROVE  Types'
  <2> DEFINE a == call[c].ans
  <2>1. Frame(c) /\ call'[c].pc = "idle" /\ call[c].pc = "connected"
    BY <1>10, LeaveFacts, NoCallShape DEF DecrementConnections
  <2>2. a \in Backends
    BY <2>1 DEF BalancerInv, CallInv
  <2>3. conns' = [conns EXCEPT ![a] = @ - 1] /\ UNCHANGED <<backends, healthy, config, counter>>
    BY <1>10 DEF DecrementConnections
  <2>4. conns \in [Backends -> Nat] /\ \A b \in Backends : conns[b] = Cardinality(Connected(b))
    BY DEF Types, TypeOK
  <2>5. ASSUME NEW b \in Backends  PROVE  conns'[b] = Cardinality(Connected(b)') /\ conns'[b] \in Nat
    <3>1. CASE b # a
      <4>1. Connected(b)' = Connected(b)
        BY <2>1, <3>1 DEF Connected, Frame
      <4> QED  BY <2>3, <2>4, <3>1, <4>1
    <3>2. CASE b = a
      <4>1. Connected(b)' = Connected(b) \ {c} /\ c \in Connected(b)
        BY <2>1, <3>2 DEF Connected, Frame
      <4>2. IsFiniteSet(Connected(b))
        BY BalancerAssumption, FS_Subset DEF Connected
      <4>3. Cardinality(Connected(b)') = Cardinality(Connected(b)) - 1
        BY <4>1, <4>2, FS_RemoveElement
      <4>4. conns'[b] = conns[b] - 1
        BY <2>3, <2>4, <3>2
      <4>5. IsFiniteSet(Connected(b)')
        BY <4>1, <4>2, FS_RemoveElement
      <4>6. Cardinality(Connected(b)') \in Nat
        BY <4>5, FS_CardinalityType
      <4>7. conns'[b] = Cardinality(Connected(b)')
        BY <2>4, <4>3, <4>4
      <4> QED  BY <4>6, <4>7
    <3> QED  BY <3>1, <3>2
  <2>6. conns' \in [Backends -> Nat]
    BY <2>3, <2>4, <2>5
  <2>7. Plain
    BY <1>3, <2>1, <2>3 DEF Types, TypeOK, Frame, AreLists
  <2> QED  BY <1>1, <2>5, <2>6, <2>7
<1>11. ASSUME NEW c \in Clients, Leave(c)  PROVE  Types'
  <2>1. Frame(c) /\ call'[c].pc # "connected" /\ call[c].pc # "connected"
    BY <1>11, LeaveFacts, NoCallShape DEF Leave
  <2> QED  BY <1>2, <1>3, <1>11, <2>1 DEF Leave
<1>12. ASSUME UNCHANGED <<conns, call>>  PROVE  \A b \in Backends : conns'[b] = Cardinality(Connected(b)')
  <2>1. ASSUME NEW b \in Backends  PROVE  Connected(b)' = Connected(b)
    BY <1>12 DEF Connected
  <2> QED  BY <1>12, <2>1 DEF Types
<1>13. CASE HealthMoves
  <2>1. healthy' \in [Backends -> BOOLEAN]
    BY <1>13 DEF HealthMoves, Life!Mark, Types, TypeOK
  <2>2. UNCHANGED <<backends, conns, config, counter, call>>
    BY <1>13 DEF HealthMoves
  <2> QED  BY <1>1, <1>3, <1>12, <2>1, <2>2 DEF Types, TypeOK, AreLists
<1>14. CASE ListMoves
  <2>1. AreLists(backends')
    BY <1>14, <1>ListStepTypes DEF ListMoves, Types, TypeOK, AreLists
  <2>2. UNCHANGED <<healthy, conns, config, counter, call>>
    BY <1>14 DEF ListMoves
  <2> QED  BY <1>1, <1>3, <1>12, <2>1, <2>2 DEF Types, TypeOK, AreLists
<1>15. CASE UNCHANGED bvars
  <2>1. UNCHANGED <<backends, healthy, conns, config, counter, call>>
    BY <1>15 DEF bvars
  <2> QED  BY <1>1, <1>3, <1>12, <2>1 DEF Types, TypeOK, AreLists
<1> QED  BY <1>4, <1>5, <1>6, <1>8, <1>9, <1>10, <1>11, <1>13, <1>14, <1>15 DEF Next, Select

-----------------------------------------------------------------------------
(* A call under way.                                                       *)

\* The next backend a loop turns to is the next of the list.
LEMMA NextOfList ==
  ASSUME NEW k \in Calls, NEW m \in Calls, NEW w, Progress(k, w), k.rest # <<>>,
         m.list = k.list, m.rest = Tail(k.rest)
  PROVE  /\ Seen(m) = Seen(k) + 1 /\ Seen(m) \in 1 .. Len(m.list)
         /\ m.list[Seen(m)] = k.rest[1] /\ k.rest[1] \in Elements(k.list)
         /\ Len(m.rest) <= Len(m.list)
         /\ \A i \in 1 .. Len(m.rest) : m.rest[i] = m.list[Seen(m) + i]
         /\ \A b \in Elements(k.rest) : b = k.rest[1] \/ b \in Elements(m.rest)
<1> DEFINE l == k.list
           r == k.rest
<1>1. l \in Seq(Backends) /\ r \in Seq(Backends) /\ r # <<>>
  BY DEF Calls
<1>2. Len(r) <= Len(l) /\ \A i \in 1 .. Len(r) : r[i] = l[Len(l) - Len(r) + i]
  BY DEF Progress, Seen
<1>3. m.list = l /\ m.rest = Tail(r) /\ Seen(m) = Len(l) - Len(Tail(r)) /\ Seen(k) = Len(l) - Len(r)
  BY DEF Seen
<1> HIDE DEF l, r
<1>4. Len(Tail(r)) = Len(r) - 1 /\ \A i \in 1 .. Len(r) - 1 : Tail(r)[i] = r[i + 1]
  BY SMT, <1>1
<1>5. Len(r) \in Nat /\ Len(r) >= 1 /\ Len(l) \in Nat
  BY SMT, <1>1
<1>6. Seen(m) = Seen(k) + 1 /\ Seen(m) \in 1 .. Len(l)
  <2> DEFINE x == Len(l)
             y == Len(r)
             z == Len(Tail(r))
  <2>1. x \in Nat /\ y \in Nat /\ y >= 1 /\ y <= x /\ z = y - 1 /\ Seen(m) = x - z /\ Seen(k) = x - y
    BY <1>2, <1>3, <1>4, <1>5
  <2> HIDE DEF x, y, z
  <2>2. Seen(m) = Seen(k) + 1 /\ Seen(m) \in 1 .. x
    BY SMT, <2>1
  <2> QED  BY <2>2 DEF x
<1>7. l[Seen(m)] = r[1]
  <2>1. 1 \in 1 .. Len(r)
    BY SMT, <1>5
  <2>2. r[1] = l[Len(l) - Len(r) + 1]
    BY <1>2, <2>1
  <2>3. Len(l) - Len(r) + 1 = Seen(m)
    <3> DEFINE x == Len(l)
               y == Len(r)
               z == Len(Tail(r))
    <3>1. x \in Nat /\ y \in Nat /\ z = y - 1 /\ Seen(m) = x - z
      BY <1>3, <1>4, <1>5
    <3> HIDE DEF x, y, z
    <3>2. x - y + 1 = Seen(m)
      BY SMT, <3>1
    <3> QED  BY <3>2 DEF x, y
  <2> QED  BY <2>2, <2>3
<1>8. r[1] \in Elements(l)
  BY SMT, <1>1, <1>6, <1>7 DEF Elements
<1>9. ASSUME NEW i \in 1 .. Len(Tail(r))  PROVE  Tail(r)[i] = l[Seen(m) + i]
  <2>1. i + 1 \in 1 .. Len(r) /\ Tail(r)[i] = r[i + 1]
    BY SMT, <1>4, <1>5
  <2>2. r[i + 1] = l[Len(l) - Len(r) + (i + 1)]
    BY <1>2, <2>1
  <2>3. Len(l) - Len(r) + (i + 1) = Seen(m) + i
    <3> DEFINE x == Len(l)
               y == Len(r)
               z == Len(Tail(r))
    <3>1. x \in Nat /\ y \in Nat /\ z = y - 1 /\ Seen(m) = x - z /\ i \in Int
      BY SMT, <1>3, <1>4, <1>5
    <3> HIDE DEF x, y, z
    <3>2. x - y + (i + 1) = Seen(m) + i
      BY SMT, <3>1
    <3> QED  BY <3>2 DEF x, y
  <2> QED  BY <2>1, <2>2, <2>3
<1>10. ASSUME NEW b \in Elements(r)  PROVE  b = r[1] \/ b \in Elements(Tail(r))
  <2>1. PICK i \in 1 .. Len(r) : b = r[i]
    BY SMT, <1>1 DEF Elements
  <2>2. CASE i # 1
    <3>1. i - 1 \in 1 .. Len(r) - 1 /\ Tail(r)[i - 1] = r[i]
      BY SMT, <1>4, <1>5, <2>2
    <3>2. DOMAIN Tail(r) = 1 .. Len(r) - 1
      BY SMT, <1>1, <1>4
    <3> QED  BY <2>1, <3>1, <3>2 DEF Elements
  <2> QED  BY <2>1, <2>2
<1>11. Len(Tail(r)) <= Len(l)
  BY SMT, <1>2, <1>4, <1>5
<1> QED  BY <1>3, <1>6, <1>7, <1>8, <1>9, <1>10, <1>11 DEF l, r

-----------------------------------------------------------------------------
(* The invariant.                                                          *)

\* The configuration of a balancer, and so its algorithm, does not change.
LEMMA KindKept ==
  ASSUME [Next]_bvars
  PROVE  config' = config /\ Kind' = Kind
<1>1. ASSUME NEW c \in Clients, Select(c)  PROVE  config' = config
  <2>1. CASE ReadFlag(c) \/ LoadConnections(c)
    BY <2>1 DEF ReadFlag, LoadConnections
  <2>2. CASE SelectRoundRobin(c) \/ SelectWeighted(c)
    BY <2>2 DEF SelectRoundRobin, SelectWeighted, Answer
  <2>3. CASE SelectLeast(c) \/ SelectHashed(c) \/ SelectRandom(c)
    BY <2>3 DEF SelectLeast, SelectHashed, SelectRandom, Answer
  <2> QED  BY <1>1, <2>1, <2>2, <2>3 DEF Select
<1>2. ASSUME NEW c \in Clients, NEW s \in Services, NextBackend(c, s)  PROVE  config' = config
  BY <1>2 DEF NextBackend
<1>3. ASSUME NEW c \in Clients, IncrementConnections(c) \/ DecrementConnections(c) \/ Leave(c)
      PROVE  config' = config
  BY <1>3 DEF IncrementConnections, DecrementConnections, Leave
<1>4. CASE HealthMoves \/ ListMoves \/ UNCHANGED bvars
  BY <1>4 DEF HealthMoves, ListMoves, bvars, Kind
<1>5. CASE Next
  BY <1>1, <1>2, <1>3, <1>4, <1>5 DEF Next, Kind
<1> QED  BY <1>4, <1>5

\* History keeps what is known of a call under way,
LEMMA WatchedDuring ==
  \A d \in Clients :
    BalancerInv /\ Types' /\ Watch /\ InCall(call[d]) /\ Kind # "roundrobin"
      => During(Kind, call[d], watch'[d], Up', conns')
\* What was known of a call stays known when flags move and connections come
\* and go beside it.
<1>DuringWatched.
  ASSUME NEW kind, NEW k \in Calls, NEW w, NEW v, NEW up, NEW up2, NEW cn,
         NEW cn2 \in [Backends -> Nat],
         During(kind, k, w, up, cn),
         v.up = w.up \cup up2, v.through = w.through \cap up2,
         v.lo = [b \in DOMAIN w.lo |-> IF cn2[b] < w.lo[b] THEN cn2[b] ELSE w.lo[b]],
         v.hi = [b \in DOMAIN w.hi |-> IF cn2[b] > w.hi[b] THEN cn2[b] ELSE w.hi[b]]
  PROVE  During(kind, k, v, up2, cn2)
  <2> USE <1>DuringWatched
  <2>1. up2 \subseteq v.up /\ v.through \subseteq up2 /\ w.up \subseteq v.up /\ v.through \subseteq w.through
        /\ w.through \subseteq w.up
    BY DEF During
  <2>2. Progress(k, v)
    BY <2>1 DEF During, Progress
  <2>3. kind # "leastconnection" => Gathering(k, v)
    BY <2>1 DEF During, Gathering
  <2>4. ASSUME kind = "leastconnection"
        PROVE  Comparing(k, v) /\ \A b \in Backends : v.lo[b] <= cn2[b] /\ cn2[b] <= v.hi[b]
    <3>1. Comparing(k, w)
      BY <2>4 DEF During
    <3>2. w.lo \in [Backends -> Nat] /\ w.hi \in [Backends -> Nat]
      BY <3>1 DEF Comparing
    <3>3. v.lo \in [Backends -> Nat] /\ v.hi \in [Backends -> Nat]
      BY SMT, <3>2
    <3>4. \A b \in Backends : /\ v.lo[b] <= cn2[b] /\ cn2[b] <= v.hi[b]
                              /\ v.lo[b] <= w.lo[b] /\ w.hi[b] <= v.hi[b]
      BY SMT, <3>2
    <3>5. k.keep \in Seq(Backends) /\ k.list \in Seq(Backends) /\ k.least \in Nat
      BY DEF Calls
    <3>6. k.keep # <<>> => k.keep[1] \in Backends
      BY SMT, <3>5
    <3>7. k.keep # <<>> => v.lo[k.keep[1]] <= k.least
      <4> SUFFICES ASSUME k.keep # <<>> PROVE v.lo[k.keep[1]] <= k.least
        OBVIOUS
      <4> DEFINE x == k.keep[1]
      <4>1. w.lo[x] <= k.least
        BY <3>1 DEF Comparing
      <4>2. v.lo[x] <= w.lo[x]
        BY <3>4, <3>6
      <4>3. v.lo[x] \in Nat /\ w.lo[x] \in Nat /\ k.least \in Nat
        BY <3>2, <3>3, <3>5, <3>6
      <4> HIDE DEF x
      <4>4. v.lo[x] <= k.least
        BY SMT, <4>1, <4>2, <4>3
      <4> QED  BY <4>4 DEF x
    <3>8. ASSUME NEW b \in Elements(k.list), b \in v.through
          PROVE  b \in Elements(k.rest) \/ (k.keep # <<>> /\ k.least <= v.hi[b])
      <4>1. b \in Backends /\ b \in w.through
        BY SMT, <2>1, <3>5, <3>8 DEF Elements
      <4>2. b \in Elements(k.rest) \/ (k.keep # <<>> /\ k.least <= w.hi[b])
        BY <3>1, <4>1 DEF Comparing
      <4> QED  BY SMT, <3>2, <3>3, <3>4, <3>5, <4>1, <4>2
    <3>9. k.pc = "load" => k.rest # <<>> /\ k.rest[1] \in v.up
      BY <2>1, <3>1 DEF Comparing
    <3> QED  BY <3>3, <3>4, <3>7, <3>8, <3>9 DEF Comparing
  <2>5. ASSUME kind = "iphash"  PROVE  Hashing(k, v)
    <3>1. Hashing(k, w)
      BY <2>5 DEF During
    <3>2. ASSUME v.up = v.through  PROVE  w.up = w.through /\ v.up = w.up
      BY <2>1, <3>2
    <3> QED  BY <3>1, <3>2 DEF Hashing
  <2> QED  BY <2>1, <2>2, <2>3, <2>4, <2>5 DEF During
<1> SUFFICES ASSUME NEW d \in Clients, BalancerInv, Types', Watch, InCall(call[d]),
                    Kind # "roundrobin"
             PROVE  During(Kind, call[d], watch'[d], Up', conns')
  OBVIOUS
<1> DEFINE w == watch[d]
           v == [up |-> w.up \cup Up', through |-> w.through \cap Up',
                 lo |-> [b \in DOMAIN w.lo |-> IF conns'[b] < w.lo[b] THEN conns'[b] ELSE w.lo[b]],
                 hi |-> [b \in DOMAIN w.hi |-> IF conns'[b] > w.hi[b] THEN conns'[b] ELSE w.hi[b]]]
<1>1. watch'[d] = v
  BY DEF Watch, Up
<1>2. call[d] \in Calls /\ conns' \in [Backends -> Nat]
  BY DEF BalancerInv, Types, TypeOK
<1>3. During(Kind, call[d], w, Up, conns)
  BY DEF BalancerInv, CallInv
<1>4. /\ v.up = w.up \cup Up' /\ v.through = w.through \cap Up'
      /\ v.lo = [b \in DOMAIN w.lo |-> IF conns'[b] < w.lo[b] THEN conns'[b] ELSE w.lo[b]]
      /\ v.hi = [b \in DOMAIN w.hi |-> IF conns'[b] > w.hi[b] THEN conns'[b] ELSE w.hi[b]]
  OBVIOUS
<1> HIDE DEF v, w
<1>5. During(Kind, call[d], v, Up', conns')
  BY <1>2, <1>3, <1>4, <1>DuringWatched
<1> QED  BY <1>1, <1>5

\* A caller that does not move keeps its invariant.
LEMMA CallInvKept ==
  \A d \in Clients :
    BalancerInv /\ Types' /\ Watch /\ Kind' = Kind /\ call'[d] = call[d]
      => CallInv(d)'
\* and is left alone once the call has answered.
<1>WatchedAnswer.
  ASSUME Watch, NEW d \in Clients, ~InCall(call[d]), call'[d].pc = "answered"
  PROVE  watch'[d] = watch[d]
  <2> USE <1>WatchedAnswer
  <2>1. ~InCall(call'[d])
    BY DEF InCall
  <2> QED  BY <2>1 DEF Watch
<1> SUFFICES ASSUME NEW d \in Clients, BalancerInv, Types', Watch, Kind' = Kind,
                    call'[d] = call[d]
             PROVE  CallInv(d)'
  OBVIOUS
<1>1. CallInv(d)
  BY DEF BalancerInv
<1>2. Kind # "roundrobin" /\ InCall(call[d]) => During(Kind, call[d], watch'[d], Up', conns')
  BY WatchedDuring
<1>3. call[d].pc = "answered" => watch'[d] = watch[d]
  BY <1>WatchedAnswer DEF InCall
<1>4. Kind # "roundrobin" /\ call[d].pc = "answered" => Answering(Kind, call[d], watch'[d], Hash[d])
  BY <1>1, <1>3 DEF CallInv
<1>5. /\ InCall(call[d]) => call[d].list # <<>> /\ call[d].service \in Services
      /\ call[d].pc = "load" => Kind = "leastconnection"
      /\ call[d].pc = "connected" => call[d].ans \in Backends
      /\ Kind = "roundrobin" => (call[d].pc = "answered" /\ call[d].ans = None => call[d].list = <<>>)
  BY <1>1 DEF CallInv
<1> QED  BY <1>2, <1>4, <1>5 DEF CallInv, InCall

\* So does one that begins a call,
LEMMA CallInvBegins ==
  \A c \in Clients, s \in Services :
    BalancerInv /\ Types' /\ Watch /\ Kind' = Kind /\ NextBackend(c, s)
      => CallInv(c)'
\* What is known of a call that begins.
<1>DuringBegins.
  ASSUME NEW kind, NEW k \in Calls, NEW w, NEW up, NEW cn \in [Backends -> Nat],
         k.rest = k.list, k.keep = <<>>, k.pc = "select",
         w.up = up, w.through = up, kind = "leastconnection" => w.lo = cn /\ w.hi = cn
  PROVE  During(kind, k, w, up, cn)
  <2> USE <1>DuringBegins
  <2>1. k.list \in Seq(Backends) /\ k.rest \in Seq(Backends)
    BY DEF Calls
  <2>2. Progress(k, w)
    BY SMT, <2>1 DEF Progress, Seen
  <2>3. Gathering(k, w)
    BY DEF Gathering
  <2>4. kind = "leastconnection" => Comparing(k, w) /\ \A b \in Backends : w.lo[b] <= cn[b] /\ cn[b] <= w.hi[b]
    BY SMT DEF Comparing
  <2>5. Hashing(k, w)
    <3>1. Seen(k) = 0
      BY SMT, <2>1 DEF Seen
    <3>2. Filtered(k.list, w.up)[0] = <<>>
      BY SMT, <2>1, FilteredSteps
    <3> QED  BY <3>1, <3>2 DEF Hashing
  <2> QED  BY <2>2, <2>3, <2>4, <2>5 DEF During
\* notes a call that begins,
<1>WatchedBegin.
  ASSUME Types', Watch, NEW d \in Clients, ~InCall(call[d]), InCall(call'[d]), Kind # "roundrobin"
  PROVE  /\ watch'[d].up = Up' /\ watch'[d].through = Up'
         /\ Kind = "leastconnection" => watch'[d].lo = conns' /\ watch'[d].hi = conns'
  <2> USE <1>WatchedBegin
  <2>1. CASE Kind = "leastconnection"
    <3>1. watch'[d] = [up |-> Up', through |-> Up', lo |-> conns', hi |-> conns']
      BY <2>1 DEF Watch, Up
    <3> QED  BY SMT, <3>1
  <2>2. CASE Kind # "leastconnection"
    <3>1. watch'[d] = [up |-> Up', through |-> Up', lo |-> <<>>, hi |-> <<>>]
      BY <2>2 DEF Watch, Up
    <3> QED  BY SMT, <2>2, <3>1
  <2> QED  BY <2>1, <2>2
<1> SUFFICES ASSUME NEW c \in Clients, NEW s \in Services, BalancerInv, Types', Watch,
                    Kind' = Kind, NextBackend(c, s)
             PROVE  CallInv(c)'
  OBVIOUS
<1> DEFINE m == call'[c]
           l == backends[s]
<1>1. /\ l \in Seq(Backends) /\ m.pc = (IF l = <<>> THEN "answered" ELSE "select")
      /\ m.list = l /\ m.keep = <<>> /\ m.ans = None /\ m.service = s
      /\ m.rest = (IF Kind = "roundrobin" THEN <<>> ELSE l)
  BY NextBackendFacts DEF BalancerInv
<1>2. m \in Calls /\ ~InCall(call[c]) /\ conns' \in [Backends -> Nat]
  BY DEF Types, TypeOK, NextBackend, InCall
<1>3. CASE l = <<>>
  <2>1. m.pc = "answered" /\ m.list = <<>> /\ m.ans = None
    BY <1>1, <1>3
  <2>2. ASSUME NEW w  PROVE  Answering(Kind, m, w, Hash[c])
    <3>1. Elements(m.list) = {}
      BY SMT, <2>1 DEF Elements
    <3>2. Filtered(m.list, w.up)[Len(m.list)] = <<>>
      <4>1. Len(m.list) = 0 /\ m.list \in Seq(Backends)
        BY SMT, <2>1
      <4> QED  BY SMT, <4>1, FilteredSteps
    <3> QED  BY <2>1, <3>1, <3>2 DEF Answering, Hashed
  <2> QED  BY <2>1, <2>2 DEF CallInv, InCall
<1>4. CASE l # <<>>
  <2>1. m.pc = "select" /\ InCall(m) /\ m.list # <<>> /\ m.service \in Services
    BY <1>1, <1>4 DEF InCall
  <2>2. ASSUME Kind # "roundrobin"  PROVE  During(Kind, m, watch'[c], Up', conns')
    <3>1. m.rest = m.list
      BY <1>1, <2>2
    <3>2. /\ watch'[c].up = Up' /\ watch'[c].through = Up'
          /\ Kind = "leastconnection" => watch'[c].lo = conns' /\ watch'[c].hi = conns'
      BY <1>2, <2>1, <2>2, <1>WatchedBegin
    <3> HIDE DEF m
    <3> QED  BY <1>1, <1>2, <2>1, <3>1, <3>2, <1>DuringBegins
  <2> QED  BY <2>1, <2>2 DEF CallInv, InCall
<1> QED  BY <1>3, <1>4

\* one that reads a flag,
LEMMA CallInvReads ==
  \A c \in Clients :
    BalancerInv /\ Types' /\ Watch /\ Kind' = Kind /\ ReadFlag(c)
      => CallInv(c)'
\* The loop passes over a backend that is not healthy.
<1>DuringSkips.
  ASSUME NEW kind, NEW k \in Calls, NEW m \in Calls, NEW w, NEW up, NEW cn,
         During(kind, k, w, up, cn), k.rest # <<>>, k.rest[1] \notin up,
         m.list = k.list, m.rest = Tail(k.rest), m.keep = k.keep, m.least = k.least, m.pc = "select"
  PROVE  During(kind, m, w, up, cn)
  <2> USE <1>DuringSkips
  <2> DEFINE b == k.rest[1]
  <2>1. /\ Seen(m) = Seen(k) + 1 /\ Seen(m) \in 1 .. Len(m.list)
        /\ m.list[Seen(m)] = b
        /\ Len(m.rest) <= Len(m.list)
        /\ \A i \in 1 .. Len(m.rest) : m.rest[i] = m.list[Seen(m) + i]
        /\ \A a \in Elements(k.rest) : a = b \/ a \in Elements(m.rest)
    BY NextOfList DEF During
  <2>2. b \notin w.through
    BY DEF During
  <2>3. Progress(m, w)
    BY <2>1 DEF During, Progress
  <2>4. kind # "leastconnection" => Gathering(m, w)
    BY <2>1, <2>2 DEF During, Gathering
  <2>5. kind = "leastconnection" => Comparing(m, w)
    BY <2>1, <2>2 DEF During, Comparing
  <2>6. ASSUME kind = "iphash"  PROVE  Hashing(m, w)
    <3> SUFFICES ASSUME w.up = w.through  PROVE  m.keep = Filtered(m.list, w.up)[Seen(m)]
      BY DEF Hashing
    <3>1. k.keep = Filtered(k.list, w.up)[Seen(k)]
      BY <2>6 DEF During, Hashing
    <3>2. Seen(k) = Seen(m) - 1
      BY SMT, <2>1 DEF Seen, Calls
    <3>3. m.list \in Seq(Backends)
      BY DEF Calls
    <3> DEFINE n == Seen(m)
               F == Filtered(m.list, w.up)
    <3> HIDE DEF n
    <3>4. F[n] = IF m.list[n] \in w.up THEN Append(F[n - 1], m.list[n]) ELSE F[n - 1]
      <4>1. n \in 1 .. Len(m.list)
        BY <2>1 DEF n
      <4>2. \A j \in 1 .. Len(m.list) : F[j] = IF m.list[j] \in w.up THEN Append(F[j - 1], m.list[j]) ELSE F[j - 1]
        BY SMT, <3>3, FilteredSteps
      <4> HIDE DEF F
      <4> QED  BY <4>1, <4>2
    <3>5. F[n] = F[n - 1]
      <4> HIDE DEF F
      <4> QED  BY <2>1, <2>2, <3>4 DEF n
    <3> QED  BY <3>1, <3>2, <3>5 DEF n
  <2> QED  BY <2>3, <2>4, <2>5, <2>6 DEF During
\* The loop keeps a backend that is healthy.
<1>DuringKeeps.
  ASSUME NEW kind, NEW k \in Calls, NEW m \in Calls, NEW w, NEW up, NEW cn,
         During(kind, k, w, up, cn), k.rest # <<>>, k.rest[1] \in up, kind # "leastconnection",
         m.list = k.list, m.rest = Tail(k.rest), m.keep = Append(k.keep, k.rest[1])
  PROVE  During(kind, m, w, up, cn)
  <2> USE <1>DuringKeeps
  <2> DEFINE b == k.rest[1]
  <2>1. /\ Seen(m) = Seen(k) + 1 /\ Seen(m) \in 1 .. Len(m.list)
        /\ m.list[Seen(m)] = b /\ b \in Elements(k.list)
        /\ Len(m.rest) <= Len(m.list)
        /\ \A i \in 1 .. Len(m.rest) : m.rest[i] = m.list[Seen(m) + i]
        /\ \A a \in Elements(k.rest) : a = b \/ a \in Elements(m.rest)
    BY NextOfList DEF During
  <2>2. b \in w.up /\ b = k.rest[1]
    BY DEF During
  <2>3. k.keep \in Seq(Backends) /\ b \in Backends /\ m.keep = Append(k.keep, b)
    <3>1. k.rest \in Seq(Backends)
      BY DEF Calls
    <3> QED  BY SMT, <3>1 DEF Calls
  <2> HIDE DEF b
  <2>4. /\ Len(m.keep) = Len(k.keep) + 1
        /\ \A i \in 1 .. Len(k.keep) : m.keep[i] = k.keep[i]
        /\ m.keep[Len(k.keep) + 1] = b
        /\ DOMAIN m.keep = 1 .. Len(k.keep) + 1 /\ Len(k.keep) \in Nat /\ DOMAIN k.keep = 1 .. Len(k.keep)
    BY SMT, <2>3
  <2>5. Progress(m, w)
    <3>1. ASSUME NEW i \in 1 .. Len(m.keep)  PROVE  m.keep[i] \in Elements(m.list) /\ m.keep[i] \in w.up
      <4>1. CASE i \in 1 .. Len(k.keep)
        BY <2>4, <4>1 DEF During, Progress
      <4>2. CASE i = Len(k.keep) + 1
        BY <2>1, <2>2, <2>4, <4>2
      <4> QED  BY SMT, <2>4, <4>1, <4>2
    <3> QED  BY <2>1, <3>1 DEF Progress
  <2>6. Gathering(m, w)
    <3>1. \A a \in Elements(k.keep) : a \in Elements(m.keep)
      BY SMT, <2>4 DEF Elements
    <3>2. b \in Elements(m.keep)
      BY SMT, <2>4 DEF Elements
    <3> QED  BY <2>1, <3>1, <3>2 DEF During, Gathering
  <2>7. ASSUME kind = "iphash"  PROVE  Hashing(m, w)
    <3> SUFFICES ASSUME w.up = w.through  PROVE  m.keep = Filtered(m.list, w.up)[Seen(m)]
      BY DEF Hashing
    <3>1. k.keep = Filtered(k.list, w.up)[Seen(k)]
      BY <2>7 DEF During, Hashing
    <3>2. Seen(k) = Seen(m) - 1
      BY SMT, <2>1 DEF Seen, Calls
    <3>3. m.list \in Seq(Backends)
      BY DEF Calls
    <3> DEFINE n == Seen(m)
               F == Filtered(m.list, w.up)
    <3> HIDE DEF n
    <3>4. F[n] = IF m.list[n] \in w.up THEN Append(F[n - 1], m.list[n]) ELSE F[n - 1]
      <4>1. n \in 1 .. Len(m.list)
        BY <2>1 DEF n
      <4>2. \A j \in 1 .. Len(m.list) : F[j] = IF m.list[j] \in w.up THEN Append(F[j - 1], m.list[j]) ELSE F[j - 1]
        BY SMT, <3>3, FilteredSteps
      <4> HIDE DEF F
      <4> QED  BY <4>1, <4>2
    <3>5. F[n] = Append(F[n - 1], b)
      <4> HIDE DEF F
      <4> QED  BY <2>1, <2>2, <3>4 DEF n
    <3> QED  BY <2>3, <3>1, <3>2, <3>5 DEF n
  <2> QED  BY <2>5, <2>6, <2>7 DEF During
\* Least connections goes on to read the connections of a healthy backend,
<1>DuringToLoad.
  ASSUME NEW kind, NEW k \in Calls, NEW m \in Calls, NEW w, NEW up, NEW cn,
         During(kind, k, w, up, cn), k.rest # <<>>, k.rest[1] \in up, kind = "leastconnection",
         m.list = k.list, m.rest = k.rest, m.keep = k.keep, m.least = k.least
  PROVE  During(kind, m, w, up, cn)
  <2> USE <1>DuringToLoad
  <2>1. Progress(m, w)
    BY DEF During, Progress, Seen
  <2>2. Comparing(m, w)
    BY DEF During, Comparing
  <2> QED  BY <2>1, <2>2 DEF During
<1> SUFFICES ASSUME NEW c \in Clients, BalancerInv, Types', Watch, Kind' = Kind, ReadFlag(c)
             PROVE  CallInv(c)'
  OBVIOUS
<1> DEFINE k == call[c]
           m == call'[c]
           b == call[c].rest[1]
           v == watch'[c]
<1>1. /\ b \in Backends
      /\ m.list = k.list /\ m.least = k.least /\ m.service = k.service
      /\ \/ /\ ~healthy[b]
            /\ m.pc = "select" /\ m.rest = Tail(k.rest) /\ m.keep = k.keep
         \/ /\ healthy[b] /\ Kind = "leastconnection"
            /\ m.pc = "load" /\ m.rest = k.rest /\ m.keep = k.keep
         \/ /\ healthy[b] /\ Kind # "leastconnection"
            /\ m.pc = "select" /\ m.rest = Tail(k.rest)
            /\ m.keep = Append(k.keep, b)
  BY ReadFlagFacts DEF BalancerInv
<1>2. k.pc = "select" /\ k.rest # <<>> /\ healthy' = healthy
  BY DEF ReadFlag
<1>3. k \in Calls /\ m \in Calls /\ InCall(k) /\ InCall(m)
  BY <1>1, <1>2 DEF BalancerInv, Types, InCall
<1>4. m.list # <<>> /\ m.service \in Services
  BY <1>1, <1>3 DEF BalancerInv, CallInv
<1>5. healthy[b] <=> b \in Up'
  BY <1>1, <1>2 DEF Up
<1>6. ASSUME Kind # "roundrobin"  PROVE  During(Kind, m, v, Up', conns')
  <2>1. During(Kind, k, v, Up', conns')
    BY <1>3, <1>6, WatchedDuring
  <2> HIDE DEF k, m, v
  <2>2. b = k.rest[1]
    BY DEF k
  <2> HIDE DEF b
  <2>3. CASE ~healthy[b] /\ m.pc = "select" /\ m.rest = Tail(k.rest) /\ m.keep = k.keep
    BY <1>1, <1>2, <1>3, <1>5, <2>1, <2>2, <2>3, <1>DuringSkips
  <2>4. CASE healthy[b] /\ Kind = "leastconnection" /\ m.pc = "load" /\ m.rest = k.rest /\ m.keep = k.keep
    BY <1>1, <1>2, <1>3, <1>5, <2>1, <2>2, <2>4, <1>DuringToLoad
  <2>5. CASE /\ healthy[b] /\ Kind # "leastconnection" /\ m.pc = "select" /\ m.rest = Tail(k.rest)
             /\ m.keep = Append(k.keep, b)
    BY <1>1, <1>2, <1>3, <1>5, <2>1, <2>2, <2>5, <1>DuringKeeps
  <2> QED  BY <1>1, <2>3, <2>4, <2>5
<1>7. m.pc = "load" => Kind = "leastconnection"
  BY <1>1
<1>8. m.pc # "connected" /\ m.pc # "answered"
  BY <1>1
<1> QED  BY <1>3, <1>4, <1>6, <1>7, <1>8 DEF CallInv, InCall

\* one that reads connections,
LEMMA CallInvLoads ==
  \A c \in Clients :
    BalancerInv /\ Types' /\ Watch /\ Kind' = Kind /\ LoadConnections(c)
      => CallInv(c)'
\* and remembers it when it has fewer than the least so far.
<1>DuringLoads.
  ASSUME NEW kind, NEW k \in Calls, NEW m \in Calls, NEW w, NEW up, NEW cn \in [Backends -> Nat],
         During(kind, k, w, up, cn), k.pc = "load", kind = "leastconnection",
         m.pc = "select", m.list = k.list, m.rest = Tail(k.rest),
         \/ /\ k.keep = <<>> \/ cn[k.rest[1]] < k.least
            /\ m.keep = <<k.rest[1]>> /\ m.least = cn[k.rest[1]]
         \/ /\ k.keep # <<>> /\ ~(cn[k.rest[1]] < k.least)
            /\ m.keep = k.keep /\ m.least = k.least
  PROVE  During(kind, m, w, up, cn)
  <2> USE <1>DuringLoads
  <2> DEFINE b == k.rest[1]
  <2>1. Comparing(k, w) /\ Progress(k, w)
    BY DEF During
  <2>2. k.rest # <<>> /\ b \in w.up
    BY <2>1 DEF Comparing
  <2>3. /\ Len(m.rest) <= Len(m.list) /\ b \in Elements(k.list)
        /\ \A i \in 1 .. Len(m.rest) : m.rest[i] = m.list[Seen(m) + i]
        /\ \A a \in Elements(k.rest) : a = b \/ a \in Elements(m.rest)
    BY <2>1, <2>2, NextOfList
  <2>4. b \in Backends /\ k.least \in Nat /\ k.list \in Seq(Backends) /\ k.keep \in Seq(Backends)
    <3>1. k.rest \in Seq(Backends)
      BY DEF Calls
    <3> QED  BY SMT, <2>2, <3>1 DEF Calls
  <2>5. /\ w.lo \in [Backends -> Nat] /\ w.hi \in [Backends -> Nat]
        /\ \A a \in Backends : w.lo[a] <= cn[a] /\ cn[a] <= w.hi[a]
        /\ k.keep # <<>> => w.lo[k.keep[1]] <= k.least
        /\ \A a \in Elements(k.list) :
             a \in w.through => a \in Elements(k.rest) \/ (k.keep # <<>> /\ k.least <= w.hi[a])
    BY <2>1 DEF During, Comparing
  <2>6. \A a \in Elements(k.list) : a \in Backends
    BY SMT, <2>4 DEF Elements
  <2> HIDE DEF b
  <2>7. CASE (k.keep = <<>> \/ cn[b] < k.least) /\ m.keep = <<b>> /\ m.least = cn[b]
    <3>1. Len(m.keep) = 1 /\ m.keep[1] = b /\ m.keep # <<>>
      BY SMT, <2>7
    <3>2. Progress(m, w)
      BY SMT, <2>2, <2>3, <3>1 DEF Progress
    <3>3. ASSUME NEW a \in Elements(m.list), a \in w.through
          PROVE  a \in Elements(m.rest) \/ (m.keep # <<>> /\ m.least <= w.hi[a])
      <4>1. a \in Backends /\ a \in Elements(k.list) /\ cn[a] \in Nat /\ cn[b] \in Nat /\ w.hi[a] \in Nat
        BY <2>4, <2>5, <2>6
      <4>2. CASE a = b
        BY <2>5, <2>7, <3>1, <4>1, <4>2
      <4>3. CASE k.keep # <<>> /\ k.least <= w.hi[a]
        BY SMT, <2>4, <2>7, <3>1, <4>1, <4>3
      <4> QED  BY <2>3, <2>5, <3>3, <4>1, <4>2, <4>3
    <3>4. w.lo[m.keep[1]] <= m.least
      BY <2>4, <2>5, <2>7, <3>1
    <3>5. Comparing(m, w)
      BY <2>5, <3>3, <3>4 DEF Comparing
    <3> QED  BY <2>5, <3>2, <3>5 DEF During
  <2>8. CASE k.keep # <<>> /\ ~(cn[b] < k.least) /\ m.keep = k.keep /\ m.least = k.least
    <3>1. Progress(m, w)
      BY <2>1, <2>3, <2>8 DEF Progress
    <3>2. ASSUME NEW a \in Elements(m.list), a \in w.through
          PROVE  a \in Elements(m.rest) \/ (m.keep # <<>> /\ m.least <= w.hi[a])
      <4>1. a \in Backends /\ a \in Elements(k.list) /\ cn[a] \in Nat /\ cn[b] \in Nat /\ w.hi[a] \in Nat
        BY <2>4, <2>5, <2>6
      <4>2. CASE a = b
        BY SMT, <2>4, <2>5, <2>8, <4>1, <4>2
      <4> QED  BY <2>3, <2>5, <2>8, <3>2, <4>1, <4>2
    <3>3. Comparing(m, w)
      BY <2>5, <2>8, <3>2 DEF Comparing
    <3> QED  BY <2>5, <3>1, <3>3 DEF During
  <2> QED  BY <2>7, <2>8 DEF b
<1> SUFFICES ASSUME NEW c \in Clients, BalancerInv, Types', Watch, Kind' = Kind,
                    LoadConnections(c)
             PROVE  CallInv(c)'
  OBVIOUS
<1> DEFINE k == call[c]
           m == call'[c]
           b == call[c].rest[1]
           v == watch'[c]
<1>1. k.pc = "load" /\ conns' = conns
  BY DEF LoadConnections
<1>2. Kind = "leastconnection" /\ InCall(k) /\ During(Kind, k, watch[c], Up, conns)
  BY <1>1 DEF BalancerInv, CallInv, InCall
<1>3. k.rest # <<>>
  BY <1>1, <1>2 DEF During, Comparing
<1>4. /\ m.pc = "select" /\ m.list = k.list /\ m.rest = Tail(k.rest) /\ m.service = k.service
      /\ \/ /\ k.keep = <<>> \/ conns[b] < k.least
            /\ m.keep = <<b>> /\ m.least = conns[b]
         \/ /\ k.keep # <<>> /\ ~(conns[b] < k.least)
            /\ m.keep = k.keep /\ m.least = k.least
  BY <1>3, LoadConnectionsFacts DEF BalancerInv
<1>5. k \in Calls /\ m \in Calls /\ conns' \in [Backends -> Nat]
  BY DEF BalancerInv, Types, TypeOK
<1>6. m.list # <<>> /\ m.service \in Services /\ InCall(m)
  BY <1>2, <1>4 DEF BalancerInv, CallInv, InCall
<1>7. During(Kind, k, v, Up', conns')
  BY <1>2, WatchedDuring
<1>8. During(Kind, m, v, Up', conns')
  <2> HIDE DEF k, m, v
  <2>1. b = k.rest[1]
    BY DEF k
  <2> HIDE DEF b
  <2> QED  BY <1>1, <1>2, <1>4, <1>5, <1>7, <2>1, <1>DuringLoads
<1> QED  BY <1>2, <1>4, <1>6, <1>8 DEF CallInv

\* one that answers,
LEMMA CallInvAnswers ==
  \A c \in Clients, b \in Backends \cup {None} :
    BalancerInv /\ Types' /\ Watch /\ Kind' = Kind /\ SelectAnswers(c, b)
      => CallInv(c)'
\* When nothing is left, what the call answers is right.
<1>DuringEnds.
  ASSUME NEW kind, NEW k \in Calls, NEW m \in Calls, NEW w, NEW up, NEW cn, NEW h,
         During(kind, k, w, up, cn), k.rest = <<>>, m.list = k.list,
         IF k.keep = <<>> THEN m.ans = None ELSE \E i \in 1 .. Len(k.keep) : m.ans = k.keep[i],
         kind = "leastconnection" /\ k.keep # <<>> => m.ans = k.keep[1],
         kind = "iphash" => m.ans = Hashed(k.keep, h)
  PROVE  Answering(kind, m, w, h)
  <2> USE <1>DuringEnds
  <2>1. Progress(k, w) /\ Elements(k.rest) = {}
    BY SMT DEF During, Elements
  <2>2. k.keep \in Seq(Backends) /\ k.list \in Seq(Backends) /\ k.least \in Nat
    BY DEF Calls
  <2>3. m.ans # None => m.ans \in Elements(m.list) /\ m.ans \in w.up
    BY <2>1 DEF Progress
  <2>4. m.ans = None <=> k.keep = <<>>
    BY SMT, <2>2, BalancerAssumption
  <2>5. m.ans = None => \A b \in Elements(m.list) : b \notin w.through
    <3>1. k.keep = <<>> => Elements(k.keep) = {}
      BY SMT DEF Elements
    <3> QED  BY <2>1, <2>4, <3>1 DEF During, Gathering, Comparing
  <2>6. ASSUME kind = "leastconnection", m.ans # None, NEW b \in Elements(m.list), b \in w.through
        PROVE  w.lo[m.ans] <= w.hi[b]
    <3>1. Comparing(k, w)
      BY <2>6 DEF During
    <3>2. k.least <= w.hi[b] /\ w.lo[m.ans] <= k.least
      BY <2>1, <2>4, <2>6, <3>1 DEF Comparing
    <3>3. b \in Backends /\ m.ans \in Backends
      BY SMT, <2>2, <2>4, <2>6 DEF Elements
    <3>4. w.hi[b] \in Nat /\ w.lo[m.ans] \in Nat
      BY <3>1, <3>3 DEF Comparing
    <3> QED  BY SMT, <2>2, <3>2, <3>4
  <2>7. ASSUME kind = "iphash", w.up = w.through
        PROVE  m.ans = Hashed(Filtered(m.list, w.up)[Len(m.list)], h)
    <3>1. k.keep = Filtered(k.list, w.up)[Seen(k)]
      BY <2>7 DEF During, Hashing
    <3>2. Seen(k) = Len(k.list)
      BY SMT, <2>2 DEF Seen
    <3> QED  BY <2>7, <3>1, <3>2
  <2> QED  BY <2>3, <2>5, <2>6, <2>7 DEF Answering
<1> SUFFICES ASSUME NEW c \in Clients, NEW b \in Backends \cup {None}, BalancerInv, Types',
                    Watch, Kind' = Kind, SelectAnswers(c, b)
             PROVE  CallInv(c)'
  OBVIOUS
<1> DEFINE k == call[c]
           m == call'[c]
           v == watch'[c]
<1>1. k.pc = "select" /\ k.rest = <<>> /\ InCall(k) /\ Answer(c, b)
  BY DEF SelectAnswers, Selecting, InCall
<1>2. m.pc = "answered" /\ m.ans = b /\ m.list = k.list
  BY <1>1, AnswerFacts DEF BalancerInv
<1>3. k \in Calls /\ m \in Calls
  BY DEF BalancerInv, Types
<1>4. Kind = "roundrobin" => m.ans # None
  BY <1>2, BalancerAssumption DEF SelectAnswers
<1>5. ASSUME Kind # "roundrobin"  PROVE  Answering(Kind, m, v, Hash[c])
  <2>1. During(Kind, k, v, Up', conns')
    BY <1>1, <1>5, WatchedDuring
  <2>2. /\ IF k.keep = <<>> THEN m.ans = None ELSE \E i \in 1 .. Len(k.keep) : m.ans = k.keep[i]
        /\ Kind = "leastconnection" /\ k.keep # <<>> => m.ans = k.keep[1]
        /\ Kind = "iphash" => m.ans = Hashed(k.keep, Hash[c])
    BY <1>2, <1>5 DEF SelectAnswers
  <2> HIDE DEF k, m, v
  <2> QED  BY <1>1, <1>2, <1>3, <2>1, <2>2, <1>DuringEnds
<1> QED  BY <1>2, <1>4, <1>5 DEF CallInv, InCall

\* and one that connects or leaves.
LEMMA CallInvLeaves ==
  ASSUME BalancerInv, NEW c \in Clients,
         IncrementConnections(c) \/ DecrementConnections(c) \/ Leave(c)
  PROVE  CallInv(c)'
<1>1. Types
  BY DEF BalancerInv
<1>2. CASE IncrementConnections(c)
  BY <1>1, <1>2, IncrementFacts DEF CallInv, InCall
<1>3. CASE DecrementConnections(c) \/ Leave(c)
  <2>1. call'[c].pc = "idle"
    BY <1>1, <1>3, LeaveFacts, NoCallShape
  <2> QED  BY <2>1 DEF CallInv, InCall
<1> QED  BY <1>2, <1>3

\* No step of a call, of the health checks or of who edits the lists breaks
\* the invariant.
LEMMA BalancerStep ==
  ASSUME BalancerInv, [Next]_bvars
  PROVE  BalancerInv'
<1>1. Types' /\ Kind' = Kind /\ Types
  BY TypesStep, KindKept DEF BalancerInv
<1>2. CASE UNCHANGED bvars
  <2>1. UNCHANGED <<healthy, conns, config, call, watch>>
    BY <1>2 DEF bvars, observed
  <2>2. ASSUME NEW d \in Clients  PROVE  CallInv(d)'
    <3>1. CallInv(d)
      BY DEF BalancerInv
    <3> QED  BY <2>1, <3>1 DEF CallInv, Kind, Up, InCall
  <2> QED  BY <1>1, <2>2 DEF BalancerInv
<1>3. ASSUME Watch, NEW c \in Clients, Frame(c), CallInv(c)'  PROVE  BalancerInv'
  <2>1. ASSUME NEW d \in Clients  PROVE  CallInv(d)'
    <3>1. CASE d = c
      BY <1>3, <3>1
    <3>2. CASE d # c
      <4>1. call'[d] = call[d]
        BY <1>3, <3>2 DEF Frame
      <4> QED  BY <1>1, <1>3, <4>1, CallInvKept
    <3> QED  BY <3>1, <3>2
  <2> QED  BY <1>1, <2>1 DEF BalancerInv
<1>4. CASE Next
  <2>1. Watch
    BY <1>4 DEF Next
  <2>2. ASSUME NEW c \in Clients, NEW s \in Services, NextBackend(c, s)  PROVE  BalancerInv'
    BY <1>1, <1>3, <2>1, <2>2, NextBackendFacts, CallInvBegins
  <2>3. ASSUME NEW c \in Clients, Select(c)  PROVE  BalancerInv'
    <3>1. CASE ReadFlag(c)
      BY <1>1, <1>3, <2>1, <3>1, ReadFlagFacts, CallInvReads
    <3>2. CASE LoadConnections(c)
      <4>1. call[c].pc = "load"
        BY <3>2 DEF LoadConnections
      <4>2. call[c].rest # <<>>
        BY <4>1 DEF BalancerInv, CallInv, InCall, During, Comparing
      <4> QED  BY <1>1, <1>3, <2>1, <3>2, <4>2, LoadConnectionsFacts, CallInvLoads
    <3>3. CASE \/ SelectRoundRobin(c) \/ SelectLeast(c) \/ SelectWeighted(c)
               \/ SelectHashed(c) \/ SelectRandom(c)
      <4>1. call[c].pc = "select"
        BY <3>3 DEF SelectRoundRobin, SelectLeast, SelectWeighted, SelectHashed, SelectRandom, Selecting
      <4>2. call[c].list # <<>> /\ call[c].service \in Services
        BY <4>1 DEF BalancerInv, CallInv, InCall
      <4>3. PICK b \in Backends \cup {None} : SelectAnswers(c, b)
        BY <1>1, <3>3, <4>2, SelectRoundRobinFacts, SelectWeightedFacts, SelectOtherFacts
      <4>4. Frame(c)
        BY <1>1, <4>3, AnswerFacts DEF SelectAnswers
      <4>5. CallInv(c)'
        BY <1>1, <2>1, <4>3, CallInvAnswers
      <4> QED  BY <1>3, <2>1, <4>4, <4>5
    <3> QED  BY <2>3, <3>1, <3>2, <3>3 DEF Select
  <2>4. ASSUME NEW c \in Clients, IncrementConnections(c) \/ DecrementConnections(c) \/ Leave(c)
        PROVE  BalancerInv'
    BY <1>1, <1>3, <2>1, <2>4, IncrementFacts, LeaveFacts, CallInvLeaves
  <2>5. CASE HealthMoves \/ ListMoves
    <3>1. call' = call
      BY <2>5 DEF HealthMoves, ListMoves
    <3>2. ASSUME NEW d \in Clients  PROVE  CallInv(d)'
      BY <1>1, <2>1, <3>1, CallInvKept
    <3> QED  BY <1>1, <3>2 DEF BalancerInv
  <2> QED  BY <1>4, <2>2, <2>3, <2>4, <2>5 DEF Next
<1> QED  BY <1>2, <1>4

\* Nobody is in a call at first.
LEMMA BalancerInit == Init => BalancerInv
<1> SUFFICES ASSUME Init PROVE BalancerInv
  OBVIOUS
<1>1. Types
  BY TypesInit
<1>2. ASSUME NEW c \in Clients  PROVE  CallInv(c)
  <2>1. call[c].pc = "idle"
    BY NoCallShape DEF Init
  <2> QED  BY <2>1 DEF CallInv, InCall
<1> QED  BY <1>1, <1>2 DEF BalancerInv

-----------------------------------------------------------------------------
(* What callers may rely on.                                               *)

\* The invariant of NextBackend: what a call has kept, compared and passed
\* over is true of the flags and counters it has overlapped so far, and a
\* backend's counter is the number of the callers connected to it.
THEOREM BalancerInvariant == Spec => []BalancerInv
<1>1. BalancerInv /\ [Next]_bvars => BalancerInv'
  BY BalancerStep
<1> QED  BY <1>1, BalancerInit, PTL DEF Spec

\* Lists, flags, counters and calls have their types: a connection counter is
\* never negative, since nobody leaves a backend they did not connect to.
THEOREM BalancerTypes == Spec => []TypeOK
<1>1. BalancerInv => TypeOK
  BY DEF BalancerInv, Types
<1> QED  BY <1>1, BalancerInvariant, PTL

\* For any number of backends and callers: the four algorithms that read the
\* flags answer only a backend that was listed and healthy during the call.
THEOREM ServesHealthy == Spec => []ServedHealthy
<1>1. BalancerInv => ServedHealthy
  BY DEF BalancerInv, CallInv, Answering, ServedHealthy, Answered, Offered, Elements
<1> QED  BY <1>1, BalancerInvariant, PTL

\* nil is answered only when no listed backend was healthy all through the
\* call, and by round robin only for an empty list.
THEOREM NilIsNone == Spec => []NilMeansNone
<1>1. ASSUME BalancerInv, NEW c \in Clients, call[c].pc = "answered", call[c].ans = None
      PROVE  /\ Offered(c) \cap watch[c].through = {}
             /\ Kind = "roundrobin" => Offered(c) = {}
  <2>1. CallInv(c)
    BY <1>1 DEF BalancerInv
  <2>2. CASE Kind = "roundrobin"
    <3>1. call[c].list = <<>>
      BY <1>1, <2>1, <2>2 DEF CallInv
    <3>2. Offered(c) = {}
      BY SMT, <3>1 DEF Offered
    <3> QED  BY <3>2
  <2>3. CASE Kind # "roundrobin"
    <3>1. Answering(Kind, call[c], watch[c], Hash[c])
      BY <1>1, <2>1, <2>3 DEF CallInv
    <3> QED  BY <1>1, <2>3, <3>1 DEF Answering, Offered, Elements
  <2> QED  BY <2>2, <2>3
<1>2. BalancerInv => NilMeansNone
  BY <1>1 DEF NilMeansNone
<1> QED  BY <1>2, BalancerInvariant, PTL

\* Least connections answers a backend that had, at some moment of the call,
\* no more connections than any backend healthy throughout had at one,
\* although it reads the counters one by one while others connect and leave.
THEOREM AnswersLeastLoaded == Spec => []LeastLoaded
<1>1. ASSUME BalancerInv, NEW c \in Clients, Answered(c), Kind = "leastconnection",
             call[c].ans # None, NEW b \in Offered(c) \cap watch[c].through
      PROVE  watch[c].lo[call[c].ans] <= watch[c].hi[b]
  <2>1. CallInv(c)
    BY <1>1 DEF BalancerInv
  <2>2. Answering(Kind, call[c], watch[c], Hash[c])
    BY <1>1, <2>1 DEF CallInv, Answered
  <2> QED  BY <1>1, <2>2 DEF Answering, Offered, Elements
<1>2. BalancerInv => LeastLoaded
  BY <1>1 DEF LeastLoaded
<1> QED  BY <1>2, BalancerInvariant, PTL

\* Two calls of one address over one list get one backend when no flag
\* changed during either: both filtered the list to the same candidates.
THEOREM OneClientOneBackend == Spec => []SameClientSameBackend
<1>1. ASSUME BalancerInv, NEW c \in Clients, NEW d \in Clients,
             Answered(c), Answered(d), Kind = "iphash", Hash[c] = Hash[d],
             call[c].list = call[d].list, watch[c] = watch[d], watch[c].up = watch[c].through
      PROVE  call[c].ans = call[d].ans
  <2>1. CallInv(c) /\ CallInv(d)
    BY <1>1 DEF BalancerInv
  <2>2. Answering(Kind, call[c], watch[c], Hash[c]) /\ Answering(Kind, call[d], watch[d], Hash[d])
    BY <1>1, <2>1 DEF CallInv, Answered
  <2>3. /\ call[c].ans = Hashed(Filtered(call[c].list, watch[c].up)[Len(call[c].list)], Hash[c])
        /\ call[d].ans = Hashed(Filtered(call[d].list, watch[d].up)[Len(call[d].list)], Hash[d])
    BY <1>1, <2>2 DEF Answering
  <2> QED  BY <1>1, <2>3
<1>2. BalancerInv => SameClientSameBackend
  BY <1>1 DEF SameClientSameBackend
<1> QED  BY <1>2, BalancerInvariant, PTL

-----------------------------------------------------------------------------
(* Rounds of the counter.                                                  *)

\* The counter selects candidate i of a round when its point lies between
\* Steps(of)[i - 1] and Steps(of)[i].
Steps(of) == IF Kind = "roundrobin" THEN [i \in 0 .. Len(of) |-> i] ELSE Sums(Weights(of))

AreSteps(B, n) ==
  /\ n \in Nat \ {0} /\ B[0] = 0
  /\ \A i \in 0 .. n : B[i] \in Nat
  /\ \A i \in 1 .. n : B[i - 1] < B[i]
  /\ \A i, j \in 0 .. n : i <= j => B[i] <= B[j]

\* The point after p in a round of R points.
After(p, R) == IF p = R - 1 THEN 0 ELSE p + 1

\* One for a point q in a .. b - 1.
In(a, b, q) == IF a <= q /\ q < b THEN 1 ELSE 0

\* How many points of a .. b - 1 lie in c .. d - 1.
Overlap(a, b, c, d) ==
  LET first == IF a < c THEN c ELSE a
      end   == IF b < d THEN b ELSE d
  IN IF first < end THEN end - first ELSE 0

\* How many points of a .. b - 1 the counter meets on its way from f to p, in
\* less than one round.
Met(a, b, f, p) ==
  IF f <= p THEN Overlap(a, b, f, p + 1) ELSE (b - a) - Overlap(a, b, p + 1, f)

\* The calls counted since the counter was at f are k full rounds and the way
\* from f to p.
Rounds(B, n, hits, k, f, p) ==
  \A i \in 1 .. n : hits[i] = k * (B[i] - B[i - 1]) + Met(B[i - 1], B[i], f, p)

\* The calls counted are explained by the points the counter met.
ExplainedBy(of, hits, current, B) ==
  LET n == Len(of)
  IN /\ of \in Seq(Backends)
     /\ of # <<>> =>
          /\ hits \in [1 .. n -> Nat]
          /\ \E k \in 0 .. current, f \in 0 .. B[n] - 1 : Rounds(B, n, hits, k, f, current % B[n])

Explained(s) == ExplainedBy(share[s].of, share[s].hits, counter[s], Steps(share[s].of))

ShareInv == DOMAIN share = Services /\ \A s \in Services : Explained(s)

\* A step of the counter moves its point on, around at the end of a round.
LEMMA PointMoves ==
  ASSUME NEW R \in Nat \ {0}, NEW c \in Nat
  PROVE  (c + 1) % R = After(c % R, R) /\ c % R \in 0 .. R - 1
<1> DEFINE q == c \div R
           r == c % R
<1>1. c = R * q + r /\ r \in 0 .. R - 1 /\ q \in Int
  BY SMT
<1> HIDE DEF q, r
<1>2. CASE r = R - 1
  <2>1. c + 1 = R * (q + 1) + 0
    BY SMT, <1>1, <1>2
  <2>2. (R * (q + 1) + 0) % R = 0
    BY SMT, <1>1
  <2> QED  BY <1>1, <1>2, <2>1, <2>2 DEF After, r
<1>3. CASE r # R - 1
  <2>1. c + 1 = R * q + (r + 1) /\ r + 1 \in 0 .. R - 1
    BY SMT, <1>1, <1>3
  <2>2. (R * q + (r + 1)) % R = r + 1
    BY SMT, <1>1, <2>1
  <2> QED  BY <1>1, <1>3, <2>1, <2>2 DEF After, r
<1> QED  BY <1>2, <1>3

\* The next point is met by the candidate it belongs to,
LEMMA MetStep ==
  ASSUME NEW R \in Nat \ {0}, NEW a \in Nat, NEW b \in Nat, a < b, b <= R,
         NEW f \in 0 .. R - 1, NEW p \in 0 .. R - 1, After(p, R) # f
  PROVE  Met(a, b, f, After(p, R)) = Met(a, b, f, p) + In(a, b, After(p, R))
<1>1. CASE f <= p /\ p # R - 1
  BY SMT, <1>1 DEF Met, Overlap, After, In
<1>2. CASE f <= p /\ p = R - 1
  BY SMT, <1>2 DEF Met, Overlap, After, In
<1>3. CASE f > p
  BY SMT, <1>3 DEF Met, Overlap, After, In
<1> QED  BY SMT, <1>1, <1>2, <1>3

\* and where it is the first one again, a round is full.
LEMMA MetFull ==
  ASSUME NEW R \in Nat \ {0}, NEW a \in Nat, NEW b \in Nat, a < b, b <= R,
         NEW f \in 0 .. R - 1, NEW p \in 0 .. R - 1, After(p, R) = f
  PROVE  Met(a, b, f, p) = b - a
BY SMT DEF Met, Overlap, After

\* A candidate meets no more points than it has,
LEMMA MetIn ==
  ASSUME NEW R \in Nat \ {0}, NEW a \in Nat, NEW b \in Nat, a < b, b <= R,
         NEW f \in 0 .. R - 1, NEW p \in 0 .. R - 1
  PROVE  Met(a, b, f, p) \in 0 .. (b - a)
BY SMT DEF Met, Overlap

\* and the first point is met by one.
LEMMA MetOne ==
  ASSUME NEW a \in Nat, NEW b \in Nat, a < b, NEW f \in Nat
  PROVE  Met(a, b, f, f) = In(a, b, f)
BY SMT DEF Met, Overlap, In

\* One round more.
LEMMA OneRoundMore ==
  ASSUME NEW k \in Nat, NEW w \in Nat
  PROVE  (k + 1) * w = k * w + w /\ k * w \in Nat
BY SMT

\* A point belongs to one candidate.
LEMMA OneCandidate ==
  ASSUME NEW B, NEW n, AreSteps(B, n), NEW i \in 1 .. n, NEW j \in 1 .. n,
         NEW q \in Nat, B[i - 1] <= q, q < B[i]
  PROVE  B[j - 1] <= q /\ q < B[j] <=> i = j
<1>1. n \in Nat /\ i - 1 \in 0 .. n /\ i \in 0 .. n /\ j - 1 \in 0 .. n /\ j \in 0 .. n
  BY SMT DEF AreSteps
<1>2. B[i] \in Nat /\ B[i - 1] \in Nat /\ B[j] \in Nat /\ B[j - 1] \in Nat
  BY <1>1 DEF AreSteps
<1>3. CASE i < j
  <2>1. B[i] <= B[j - 1]
    BY SMT, <1>1, <1>3 DEF AreSteps
  <2> QED  BY SMT, <1>2, <1>3, <2>1
<1>4. CASE j < i
  <2>1. B[j] <= B[i - 1]
    BY SMT, <1>1, <1>4 DEF AreSteps
  <2> QED  BY SMT, <1>2, <1>4, <2>1
<1> QED  BY SMT, <1>1, <1>3, <1>4

\* Counting the call the next point selects.
LEMMA RoundsStep ==
  ASSUME NEW B, NEW n, AreSteps(B, n), NEW hits \in [1 .. n -> Nat],
         NEW k \in Nat, NEW f \in 0 .. B[n] - 1, NEW p \in 0 .. B[n] - 1,
         Rounds(B, n, hits, k, f, p),
         NEW i \in 1 .. n, B[i - 1] <= After(p, B[n]), After(p, B[n]) < B[i]
  PROVE  \E l \in 0 .. k + 1 :
           Rounds(B, n, [hits EXCEPT ![i] = @ + 1], l, f, After(p, B[n]))
<1> DEFINE R == B[n]
           q == After(p, R)
           new == [hits EXCEPT ![i] = @ + 1]
           w(j) == B[j] - B[j - 1]
<1>1. n \in Nat \ {0} /\ R \in Nat
  BY SMT DEF AreSteps
<1>2. R \in Nat \ {0} /\ q \in 0 .. R - 1
  BY SMTT(30), <1>1 DEF After
<1>3. ASSUME NEW j \in 1 .. n
      PROVE  /\ B[j - 1] \in Nat /\ B[j] \in Nat /\ B[j - 1] < B[j] /\ B[j] <= R
             /\ w(j) \in Nat
             /\ new[j] = hits[j] + In(B[j - 1], B[j], q)
             /\ hits[j] = k * w(j) + Met(B[j - 1], B[j], f, p)
  <2>1. j - 1 \in 0 .. n /\ j \in 0 .. n /\ n \in 0 .. n /\ j <= n
    BY SMT, <1>1
  <2>2. B[j - 1] \in Nat /\ B[j] \in Nat /\ B[j - 1] < B[j] /\ B[j] <= R
    BY <2>1 DEF AreSteps
  <2>3. (B[j - 1] <= q /\ q < B[j]) <=> i = j
    BY SMT, <1>2, OneCandidate
  <2>4. new[j] = IF j = i THEN hits[j] + 1 ELSE hits[j]
    OBVIOUS
  <2>5. hits[j] = k * w(j) + Met(B[j - 1], B[j], f, p)
    BY DEF Rounds
  <2>6. In(B[j - 1], B[j], q) = IF i = j THEN 1 ELSE 0
    BY <2>3 DEF In
  <2>7. new[j] = hits[j] + In(B[j - 1], B[j], q)
    <3> HIDE DEF new, q, R
    <3> QED  BY SMT, <2>4, <2>6
  <2>8. w(j) \in Nat
    BY SMT, <2>2
  <2> HIDE DEF new, q, R, w
  <2> QED  BY <2>2, <2>5, <2>7, <2>8
<1> HIDE DEF R, new
<1>4. CASE q # f
  <2>1. ASSUME NEW j \in 1 .. n  PROVE  new[j] = k * w(j) + Met(B[j - 1], B[j], f, q)
    <3> DEFINE a == B[j - 1]
               b == B[j]
    <3>1. /\ a \in Nat /\ b \in Nat /\ a < b /\ b <= R /\ b - a \in Nat
          /\ new[j] = hits[j] + In(a, b, q) /\ hits[j] = k * (b - a) + Met(a, b, f, p)
      BY <1>3
    <3> HIDE DEF a, b
    <3>2. R \in Nat \ {0} /\ f \in 0 .. R - 1 /\ p \in 0 .. R - 1 /\ After(p, R) # f
      BY <1>2, <1>4 DEF R
    <3>3. Met(a, b, f, q) = Met(a, b, f, p) + In(a, b, q) /\ In(a, b, q) \in Nat
      BY SMT, <3>1, <3>2, MetStep DEF In
    <3>4. Met(a, b, f, p) \in 0 .. (b - a) /\ k * (b - a) \in Nat
      BY <3>1, <3>2, MetIn, OneRoundMore
    <3>5. new[j] = k * (b - a) + Met(a, b, f, q)
      BY SMT, <3>1, <3>3, <3>4
    <3> QED  BY <3>5 DEF a, b
  <2>2. Rounds(B, n, new, k, f, q)
    BY <2>1 DEF Rounds
  <2> QED  BY SMT, <2>2 DEF new, R
<1>5. CASE q = f
  <2>1. ASSUME NEW j \in 1 .. n  PROVE  new[j] = (k + 1) * w(j) + Met(B[j - 1], B[j], f, q)
    <3> DEFINE a == B[j - 1]
               b == B[j]
    <3>1. /\ a \in Nat /\ b \in Nat /\ a < b /\ b <= R /\ b - a \in Nat
          /\ new[j] = hits[j] + In(a, b, q) /\ hits[j] = k * (b - a) + Met(a, b, f, p)
      BY <1>3
    <3> HIDE DEF a, b
    <3>2. R \in Nat \ {0} /\ f \in 0 .. R - 1 /\ p \in 0 .. R - 1 /\ After(p, R) = f
      BY <1>2, <1>5 DEF R
    <3>3. Met(a, b, f, p) = b - a
      BY SMT, <3>1, <3>2, MetFull
    <3>4. Met(a, b, f, f) = In(a, b, f) /\ In(a, b, f) \in Nat
      BY SMT, <3>1, <3>2, MetOne DEF In
    <3>5. k * (b - a) \in Nat /\ (k + 1) * (b - a) = k * (b - a) + (b - a)
      BY <3>1, OneRoundMore
    <3>6. new[j] = (k + 1) * (b - a) + Met(a, b, f, q)
      BY <1>5, <3>1, <3>3, <3>4, <3>5
    <3> QED  BY <3>6 DEF a, b
  <2>2. Rounds(B, n, new, k + 1, f, q)
    BY <2>1 DEF Rounds
  <2> QED  BY SMT, <2>2 DEF new, R
<1> QED  BY <1>4, <1>5

\* So a candidate has as many points in a round as it is due.
LEMMA StepsAre ==
  \A of \in Seq(Backends) :
    config \in Configs /\ of # <<>>
      => /\ AreSteps(Steps(of), Len(of))
         /\ \A i \in 1 .. Len(of) : Steps(of)[i] - Steps(of)[i - 1] = Due(of[i])
\* Sums of positive weights grow.
<1>SumsGrow.
  ASSUME NEW w \in Seq(Nat \ {0}), w # <<>>
  PROVE  AreSteps(Sums(w), Len(w))
  <2> USE <1>SumsGrow
  <2> DEFINE B == Sums(w)
             n == Len(w)
  <2>1. n \in Nat \ {0} /\ w \in Seq(Nat)
    BY SMT
  <2>2. /\ \A i \in 0 .. n : B[i] \in Nat
        /\ B[0] = 0
        /\ \A i \in 1 .. n : B[i] = B[i - 1] + w[i]
    BY <2>1, SumsAdd
  <2> HIDE DEF B
  <2>3. ASSUME NEW i \in 1 .. n  PROVE  B[i - 1] < B[i]
    <3>1. i - 1 \in 0 .. n /\ i \in 0 .. n /\ w[i] \in Nat \ {0}
      BY SMT, <2>1
    <3>2. B[i] = B[i - 1] + w[i] /\ B[i - 1] \in Nat
      BY <2>2, <3>1
    <3> QED  BY SMT, <3>1, <3>2
  <2> HIDE DEF n
  <2>4. ASSUME NEW i \in 0 .. n, NEW j \in 0 .. n, i <= j  PROVE  B[i] <= B[j]
    <3> DEFINE Bad == {k \in i .. n : ~(B[i] <= B[k])}
    <3>1. Bad = {}
      <4> SUFFICES ASSUME Bad # {} PROVE FALSE
        OBVIOUS
      <4>1. Bad \in SUBSET Nat
        BY SMT, <2>1
      <4> DEFINE m == Min(Bad)
      <4>2. m \in Bad /\ \A k \in Bad : m <= k
        <5> HIDE DEF Bad
        <5> QED  BY <4>1, MinIn
      <4> HIDE DEF m
      <4>3. m \in i .. n /\ ~(B[i] <= B[m])
        BY <4>2
      <4>4. m # i
        BY SMT, <2>1, <2>2, <4>3
      <4>5. m \in 1 .. n /\ m - 1 \in i .. n /\ m - 1 \in 0 .. n /\ m \in 0 .. n
        BY SMT, <2>1, <4>3, <4>4
      <4>6. B[i] <= B[m - 1]
        BY SMT, <4>2, <4>5
      <4> QED  BY SMT, <2>2, <2>3, <4>3, <4>5, <4>6
    <3>2. j \in i .. n
      BY SMT, <2>1, <2>4
    <3> QED  BY <3>1, <3>2
  <2> QED  BY <2>1, <2>2, <2>3, <2>4 DEF AreSteps, B, n
<1> SUFFICES ASSUME NEW of \in Seq(Backends), config \in Configs, of # <<>>
             PROVE  /\ AreSteps(Steps(of), Len(of))
                    /\ \A i \in 1 .. Len(of) : Steps(of)[i] - Steps(of)[i - 1] = Due(of[i])
  OBVIOUS
<1> DEFINE n == Len(of)
<1>0. n \in Nat \ {0}
  BY SMT
<1>1. CASE Kind = "roundrobin"
  <2>1. Steps(of) = [i \in 0 .. n |-> i]
    BY <1>1 DEF Steps
  <2>2. \A i \in 1 .. n : Due(of[i]) = 1
    BY <1>1 DEF Due
  <2> HIDE DEF n
  <2>3. AreSteps(Steps(of), n) /\ \A i \in 1 .. n : Steps(of)[i] - Steps(of)[i - 1] = 1
    BY SMT, <1>0, <2>1 DEF AreSteps
  <2> QED  BY <2>2, <2>3 DEF n
<1>2. CASE Kind # "roundrobin"
  <2> DEFINE W == Weights(of)
  <2>1. /\ W \in Seq(Nat \ {0}) /\ W # <<>> /\ Len(W) = n
        /\ \A i \in 1 .. n : W[i] = Due(of[i])
    BY <1>2, WeightsAre
  <2> HIDE DEF W
  <2>2. Steps(of) = Sums(W)
    BY <1>2 DEF Steps, W
  <2>3. AreSteps(Sums(W), n)
    BY <2>1, <1>SumsGrow
  <2>4. W \in Seq(Nat)
    BY SMT, <2>1
  <2>5. ASSUME NEW i \in 1 .. n  PROVE  Sums(W)[i] - Sums(W)[i - 1] = Due(of[i])
    <3>1. Sums(W)[i] = Sums(W)[i - 1] + W[i]
      BY <2>1, <2>4, SumsAdd
    <3>2. i - 1 \in 0 .. n /\ W[i] \in Nat
      BY SMT, <1>0, <2>1
    <3>3. Sums(W)[i - 1] \in Nat
      BY <2>3, <3>2 DEF AreSteps
    <3> QED  BY SMT, <2>1, <3>1, <3>2, <3>3
  <2> QED  BY <2>2, <2>3, <2>5
<1> QED  BY <1>1, <1>2

\* The counter counts a call for the candidate its new point belongs to.
Selects(of, i, current, B) ==
  LET q == current % B[Len(of)]
  IN i \in 1 .. Len(of) /\ B[i - 1] <= q /\ q < B[i]

\* Round robin selects by the remainder, weighted round robin by subtracting.
LEMMA SelectsAt ==
  ASSUME config \in Configs, NEW of \in Seq(Backends), of # <<>>, NEW current \in Nat
  PROVE  /\ Kind = "roundrobin" => Selects(of, RoundRobinAt(Len(of), current), current, Steps(of))
         /\ Kind = "weightedroundrobin" => Selects(of, WeightedAt(Weights(of), current), current, Steps(of))
<1> DEFINE n == Len(of)
<1>0. n \in Nat \ {0}
  BY SMT
<1>1. CASE Kind = "roundrobin"
  <2>1. Steps(of) = [i \in 0 .. n |-> i]
    BY <1>1 DEF Steps
  <2> DEFINE q == current % n
  <2>2. q \in 0 .. n - 1
    BY SMT, <1>0
  <2>3. Steps(of)[n] = n /\ Steps(of)[q] = q /\ Steps(of)[q + 1] = q + 1
    <3> HIDE DEF n, q
    <3> QED  BY SMT, <1>0, <2>1, <2>2
  <2>4. RoundRobinAt(n, current) = q + 1
    BY DEF RoundRobinAt
  <2> HIDE DEF n, q
  <2>5. q + 1 \in 1 .. n /\ (q + 1) - 1 = q
    BY SMT, <1>0, <2>2
  <2>6. Selects(of, q + 1, current, Steps(of))
    BY SMT, <1>0, <2>2, <2>3, <2>5 DEF Selects, n, q
  <2> QED  BY <1>1, <2>4, <2>6 DEF n
<1>2. CASE Kind = "weightedroundrobin"
  <2> DEFINE W == Weights(of)
             B == Sums(W)
             i == WeightedAt(W, current)
             q == current % B[n]
  <2>1. W \in Seq(Nat \ {0}) /\ W # <<>> /\ Len(W) = n
    BY WeightsAre
  <2>2. Steps(of) = B
    BY <1>2 DEF Steps
  <2>3. AreSteps(B, n)
    BY <1>2, <2>2, StepsAre
  <2> HIDE DEF W, n
  <2>4. i \in DOMAIN W /\ q - B[i] < 0 /\ \A j \in 1 .. i - 1 : q - B[j] >= 0
    BY <2>1, WeightedAtIn DEF SumTo
  <2>5. i \in 1 .. n
    BY SMT, <2>1, <2>4
  <2> HIDE DEF i, B
  <2>6. B[n] \in Nat \ {0} /\ B[i] \in Nat /\ B[i - 1] \in Nat /\ i - 1 \in 0 .. n /\ B[0] = 0
    <3>1. i \in 0 .. n /\ i - 1 \in 0 .. n /\ n \in 0 .. n /\ n \in 1 .. n /\ n - 1 \in 0 .. n
      BY SMT, <1>0, <2>5
    <3> QED  BY SMT, <2>3, <3>1 DEF AreSteps
  <2>7. q \in Nat
    BY SMT, <2>6
  <2>8. B[i - 1] <= q
    <3> HIDE DEF q
    <3>1. CASE i = 1
      BY SMT, <2>6, <2>7, <3>1
    <3>2. CASE i # 1
      <4>1. i - 1 \in 1 .. i - 1
        BY SMT, <1>0, <2>5, <3>2
      <4> QED  BY SMTT(30), <2>4, <2>6, <2>7, <4>1
    <3> QED  BY <3>1, <3>2
  <2>9. q < B[i]
    BY SMT, <2>4, <2>6, <2>7
  <2>10. Selects(of, i, current, Steps(of))
    BY <2>2, <2>5, <2>8, <2>9 DEF Selects, n
  <2> QED  BY <1>2, <2>10 DEF i, W
<1> QED  BY <1>1, <1>2

\* Counting a call leaves the calls of its Service explained: while the
\* candidates are the same and the counter has not wrapped, by one more point.
LEMMA CountExplained ==
  \A s \in Services, of \in Seq(Backends) : \A i :
       /\ config \in Configs /\ config' = config
       /\ counter \in [Services -> 0 .. 2^CounterBits - 1] /\ ShareInv /\ of # <<>>
       /\ Selects(of, i, Increment(counter[s]), Steps(of)) /\ Count(s, of, i)
    => ShareInv'
\* The first call that is counted is explained by the point it is at,
<1>FirstExplained.
  ASSUME NEW of \in Seq(Backends), NEW B, AreSteps(B, Len(of)), NEW c \in Nat, NEW i,
         Selects(of, i, c, B)
  PROVE  ExplainedBy(of, [[j \in DOMAIN of |-> 0] EXCEPT ![i] = @ + 1], c, B)
  <2> USE <1>FirstExplained
  <2> DEFINE n == Len(of)
             f == c % B[n]
             hits == [[j \in DOMAIN of |-> 0] EXCEPT ![i] = @ + 1]
  <2>1. n \in Nat \ {0} /\ DOMAIN of = 1 .. n /\ i \in 1 .. n /\ AreSteps(B, n)
    BY SMT DEF AreSteps, Selects
  <2>2. hits \in [1 .. n -> Nat] /\ \A j \in 1 .. n : hits[j] = IF j = i THEN 1 ELSE 0
    <3> DEFINE zero == [j \in 1 .. n |-> 0]
    <3>1. hits = [zero EXCEPT ![i] = zero[i] + 1]
      BY <2>1
    <3>2. zero \in [1 .. n -> Nat] /\ \A j \in 1 .. n : zero[j] = 0
      OBVIOUS
    <3> HIDE DEF zero, n, hits
    <3>3. zero[i] + 1 = 1
      BY SMT, <2>1, <3>2
    <3> QED  BY SMT, <2>1, <3>1, <3>2, <3>3
  <2> HIDE DEF n, hits
  <2>3. B[n] \in Nat /\ B[n] \in Nat \ {0}
    <3>1. n \in 1 .. n /\ n \in 0 .. n /\ n - 1 \in 0 .. n
      BY SMT, <2>1
    <3> QED  BY SMT, <2>1, <3>1 DEF AreSteps
  <2>4. f \in 0 .. B[n] - 1 /\ B[i - 1] <= f /\ f < B[i]
    BY SMT, <2>3 DEF Selects, n
  <2> HIDE DEF f
  <2>5. ASSUME NEW j \in 1 .. n
        PROVE  hits[j] = 0 * (B[j] - B[j - 1]) + Met(B[j - 1], B[j], f, f)
    <3> DEFINE a == B[j - 1]
               b == B[j]
    <3>1. a \in Nat /\ b \in Nat /\ a < b
      <4>1. j - 1 \in 0 .. n /\ j \in 0 .. n
        BY SMT, <2>1
      <4> QED  BY <2>1, <4>1 DEF AreSteps
    <3>2. a <= f /\ f < b <=> i = j
      BY SMTT(30), <2>1, <2>3, <2>4, OneCandidate
    <3> HIDE DEF a, b
    <3>3. Met(a, b, f, f) = In(a, b, f) /\ In(a, b, f) = IF i = j THEN 1 ELSE 0
      BY SMT, <2>3, <2>4, <3>1, <3>2, MetOne DEF In
    <3>4. hits[j] = 0 * (b - a) + Met(a, b, f, f)
      BY SMT, <2>2, <3>1, <3>3
    <3> QED  BY <3>4 DEF a, b
  <2>6. Rounds(B, n, hits, 0, f, f)
    BY <2>5 DEF Rounds
  <2>7. 0 \in 0 .. c
    BY SMT
  <2> QED  BY <2>2, <2>4, <2>6, <2>7 DEF ExplainedBy, n, f, hits
\* and the next one by the point after that.
<1>NextExplained.
  ASSUME NEW of \in Seq(Backends), of # <<>>, NEW B, AreSteps(B, Len(of)), NEW c \in Nat, NEW i, NEW hits,
         ExplainedBy(of, hits, c, B), Selects(of, i, c + 1, B)
  PROVE  ExplainedBy(of, [hits EXCEPT ![i] = @ + 1], c + 1, B)
  <2> USE <1>NextExplained
  <2> DEFINE n == Len(of)
             R == B[n]
             p == c % R
             new == [hits EXCEPT ![i] = @ + 1]
  <2>1. n \in Nat \ {0} /\ i \in 1 .. n /\ AreSteps(B, n)
    BY DEF AreSteps, Selects
  <2>2. R \in Nat \ {0}
    <3> HIDE DEF n
    <3>1. n \in 1 .. n /\ n \in 0 .. n /\ n - 1 \in 0 .. n
      BY SMT, <2>1
    <3> QED  BY SMTT(30), <2>1, <3>1 DEF AreSteps
  <2>3. hits \in [1 .. n -> Nat] /\ \E k \in 0 .. c, f \in 0 .. R - 1 : Rounds(B, n, hits, k, f, p)
    BY DEF ExplainedBy
  <2>4. PICK k \in 0 .. c, f \in 0 .. R - 1 : Rounds(B, n, hits, k, f, p)
    BY <2>3
  <2>5. /\ (c + 1) % R = After(p, R) /\ p \in 0 .. R - 1
        /\ B[i - 1] <= (c + 1) % R /\ (c + 1) % R < B[i]
    <3> HIDE DEF R
    <3>1. (c + 1) % R = After(p, R) /\ p \in 0 .. R - 1
      BY <2>2, PointMoves
    <3> QED  BY <3>1 DEF Selects, R
  <2> HIDE DEF p, n
  <2>6. PICK l \in 0 .. k + 1 : Rounds(B, n, new, l, f, After(p, R))
    <3>1. k \in Nat
      BY SMT
    <3> QED  BY <2>1, <2>3, <2>4, <2>5, <3>1, RoundsStep
  <2>7. l \in 0 .. c + 1
    BY SMT
  <2>8. new \in [1 .. n -> Nat]
    BY SMT, <2>1, <2>3
  <2> HIDE DEF new
  <2>9. Rounds(B, n, new, l, f, (c + 1) % R)
    BY <2>5, <2>6
  <2> QED  BY <2>7, <2>8, <2>9 DEF ExplainedBy, n, new
<1> SUFFICES ASSUME NEW s \in Services, NEW of \in Seq(Backends), NEW i, config \in Configs,
                    config' = config, counter \in [Services -> 0 .. 2^CounterBits - 1],
                    ShareInv, of # <<>>, Selects(of, i, Increment(counter[s]), Steps(of)),
                    Count(s, of, i)
             PROVE  ShareInv'
  OBVIOUS
<1> DEFINE m     == 2^CounterBits
           c     == counter[s]
           next  == Increment(c)
           zero  == [j \in DOMAIN of |-> 0]
           old   == IF share[s].of = of /\ next # 0 THEN share[s].hits ELSE zero
           hits  == [old EXCEPT ![i] = @ + 1]
           B     == Steps(of)
<1>1. m \in Nat \ {0} /\ c \in 0 .. m - 1 /\ c \in Nat
  BY SMT, BalancerAssumption
<1>2. next \in Nat /\ (next # 0 => next = c + 1)
  <2>1. next = (c + 1) % m
    BY DEF Increment
  <2> HIDE DEF m, c, next
  <2>2. c + 1 < m => (c + 1) % m = c + 1
    BY SMT, <1>1
  <2>3. c + 1 = m => (c + 1) % m = 0
    BY SMT, <1>1
  <2>4. c + 1 < m \/ c + 1 = m
    BY SMT, <1>1
  <2> QED  BY SMT, <1>1, <2>1, <2>2, <2>3, <2>4
<1>3. /\ counter' = [counter EXCEPT ![s] = next]
      /\ share' = [share EXCEPT ![s] = [of |-> of, hits |-> hits]]
  BY DEF Count
<1> HIDE DEF next, hits
<1>4. /\ DOMAIN share' = Services
      /\ share'[s] = [of |-> of, hits |-> hits] /\ counter'[s] = next
      /\ \A t \in Services \ {s} : share'[t] = share[t] /\ counter'[t] = counter[t]
  BY <1>3 DEF ShareInv
<1>5. \A x : Steps(x)' = Steps(x)
  BY DEF Steps, Kind, Weights
<1>6. AreSteps(B, Len(of))
  BY StepsAre
<1>7. ExplainedBy(of, hits, next, B)
  <2>1. Selects(of, i, next, B)
    BY DEF next
  <2>2. CASE share[s].of = of /\ next # 0
    <3>1. hits = [share[s].hits EXCEPT ![i] = @ + 1]
      BY <2>2 DEF hits
    <3>2. ExplainedBy(of, share[s].hits, c, B)
      BY <2>2 DEF ShareInv, Explained
    <3> HIDE DEF B, c
    <3> QED  BY <1>1, <1>2, <1>6, <2>1, <2>2, <3>1, <3>2, <1>NextExplained
  <2>3. CASE ~(share[s].of = of /\ next # 0)
    <3>1. hits = [zero EXCEPT ![i] = @ + 1]
      BY <2>3 DEF hits
    <3> HIDE DEF B
    <3> QED  BY <1>2, <1>6, <2>1, <3>1, <1>FirstExplained
  <2> QED  BY <2>2, <2>3
<1>8. ASSUME NEW t \in Services  PROVE  Explained(t)'
  <2>1. CASE t = s
    <3>1. share'[s].of = of /\ share'[s].hits = hits
      BY SMT, <1>4
    <3> HIDE DEF B
    <3>2. Steps(share[s].of)' = B
      BY <1>5, <3>1 DEF B
    <3> QED  BY <1>4, <1>7, <2>1, <3>1, <3>2 DEF Explained
  <2>2. CASE t # s
    <3>1. share'[t] = share[t] /\ counter'[t] = counter[t] /\ Explained(t)
      BY <1>4, <2>2 DEF ShareInv
    <3>2. Steps(share[t].of)' = Steps(share[t].of)
      BY <1>5, <3>1 DEF Steps, Kind, Weights
    <3> QED  BY <3>1, <3>2 DEF Explained
  <2> QED  BY <2>1, <2>2
<1> QED  BY <1>4, <1>8 DEF ShareInv

\* Only the selections of round robin and weighted round robin count.
LEMMA ShareStep ==
  ASSUME BalancerInv, ShareInv, [Next]_bvars
  PROVE  ShareInv'
<1>0. /\ config \in Configs /\ counter \in [Services -> 0 .. 2^CounterBits - 1]
      /\ \A c \in Clients : call[c].list \in Seq(Backends) /\ call[c].keep \in Seq(Backends)
  BY DEF BalancerInv, Types, TypeOK, Calls
<1>1. config' = config
  BY KindKept
<1>2. ASSUME UNCHANGED <<counter, share>>  PROVE  ShareInv'
  <2>1. ASSUME NEW t \in Services  PROVE  Explained(t)'
    <3>1. share' = share /\ counter' = counter /\ Explained(t)
      BY <1>2 DEF ShareInv
    <3>2. Steps(share[t].of)' = Steps(share[t].of)
      BY <1>1, <3>1 DEF Steps, Kind, Weights
    <3> QED  BY <3>1, <3>2 DEF Explained
  <2> QED  BY <1>2, <2>1 DEF ShareInv
<1>3. ASSUME NEW c \in Clients, SelectRoundRobin(c)  PROVE  ShareInv'
  <2> DEFINE of == call[c].list
             s  == call[c].service
  <2>1. of # <<>> /\ s \in Services /\ of \in Seq(Backends)
    BY <1>0, <1>3 DEF SelectRoundRobin, Selecting, BalancerInv, CallInv, InCall
  <2>2. Increment(counter[s]) \in Nat
    <3> DEFINE m == 2^CounterBits
    <3>1. m \in Nat /\ \A x \in 0 .. m - 1 : x \in Nat
      BY SMT, BalancerAssumption
    <3>2. counter[s] \in Nat
      BY <1>0, <2>1, <3>1
    <3> QED  BY <3>1, <3>2, IncrementIn
  <2>3. /\ Kind = "roundrobin"
        /\ Count(s, of, RoundRobinAt(Len(of), Increment(counter[s])))
    BY <1>3 DEF SelectRoundRobin
  <2> HIDE DEF of, s
  <2> QED  BY <1>0, <1>1, <2>1, <2>2, <2>3, SelectsAt, CountExplained
<1>4. ASSUME NEW c \in Clients, SelectWeighted(c)  PROVE  ShareInv'
  <2> DEFINE of == call[c].keep
             s  == call[c].service
  <2>1. CASE of = <<>>
    BY <1>2, <1>4, <2>1 DEF SelectWeighted
  <2>2. CASE of # <<>>
    <3>1. s \in Services /\ of \in Seq(Backends)
      BY <1>0, <1>4 DEF SelectWeighted, Selecting, BalancerInv, CallInv, InCall
    <3>2. Increment(counter[s]) \in Nat
      <4> DEFINE m == 2^CounterBits
      <4>1. m \in Nat /\ \A x \in 0 .. m - 1 : x \in Nat
        BY SMT, BalancerAssumption
      <4>2. counter[s] \in Nat
        BY <1>0, <3>1, <4>1
      <4> QED  BY <4>1, <4>2, IncrementIn
    <3>3. /\ Kind = "weightedroundrobin"
          /\ Count(s, of, WeightedAt(Weights(of), Increment(counter[s])))
      BY <1>4, <2>2 DEF SelectWeighted
    <3> HIDE DEF of, s
    <3> QED  BY <1>0, <1>1, <2>2, <3>1, <3>2, <3>3, SelectsAt, CountExplained
  <2> QED  BY <2>1, <2>2
<1>5. CASE Next
  <2>1. ASSUME NEW c \in Clients, Select(c)  PROVE  ShareInv'
    <3>1. CASE ReadFlag(c) \/ LoadConnections(c) \/ SelectLeast(c) \/ SelectHashed(c) \/ SelectRandom(c)
      BY <1>2, <3>1 DEF ReadFlag, LoadConnections, SelectLeast, SelectHashed, SelectRandom
    <3> QED  BY <1>3, <1>4, <2>1, <3>1 DEF Select
  <2>2. ASSUME NEW c \in Clients, IncrementConnections(c) \/ DecrementConnections(c) \/ Leave(c)
        PROVE  ShareInv'
    BY <1>2, <2>2 DEF IncrementConnections, DecrementConnections, Leave
  <2>3. ASSUME NEW c \in Clients, NEW s \in Services, NextBackend(c, s)  PROVE  ShareInv'
    BY <1>2, <2>3 DEF NextBackend
  <2>4. CASE HealthMoves \/ ListMoves
    BY <1>2, <2>4 DEF HealthMoves, ListMoves
  <2> QED  BY <1>5, <2>1, <2>2, <2>3, <2>4 DEF Next
<1>6. CASE UNCHANGED bvars
  BY <1>2, <1>6 DEF bvars, observed
<1> QED  BY <1>5, <1>6

\* The shares that are explained are fair.
LEMMA ExplainedIsFair ==
  ASSUME BalancerInv, ShareInv, NEW s \in Services, share[s].of # <<>>
  PROVE  Fair(share[s].of, share[s].hits)
<1> DEFINE of   == share[s].of
           hits == share[s].hits
           n    == Len(of)
           B    == Steps(of)
           c    == counter[s]
           m    == 2^CounterBits
<1>1. /\ of \in Seq(Backends) /\ hits \in [1 .. n -> Nat]
      /\ \E k \in 0 .. c, f \in 0 .. B[n] - 1 : Rounds(B, n, hits, k, f, c % B[n])
  BY DEF ShareInv, Explained, ExplainedBy
<1>2. m \in Nat \ {0} /\ c \in 0 .. m - 1 /\ config \in Configs
  BY BalancerAssumption DEF BalancerInv, Types, TypeOK
<1>3. AreSteps(B, n) /\ \A i \in 1 .. n : B[i] - B[i - 1] = Due(of[i])
  BY <1>1, <1>2, StepsAre
<1>4. n \in Nat \ {0} /\ DOMAIN of = 1 .. n
  BY SMT, <1>1
<1> HIDE DEF of, hits, n, B, c, m
<1>5. PICK k \in 0 .. c, f \in 0 .. B[n] - 1 : Rounds(B, n, hits, k, f, c % B[n])
  BY <1>1
<1>6. k \in 0 .. m - 1 /\ k \in Nat
  BY SMT, <1>2
<1>7. ASSUME NEW i \in 1 .. n  PROVE  k * Due(of[i]) <= hits[i] /\ hits[i] <= (k + 1) * Due(of[i])
  <2> DEFINE R == B[n]
             a == B[i - 1]
             b == B[i]
             p == c % R
  <2>1. i - 1 \in 0 .. n /\ i \in 0 .. n /\ n \in 0 .. n
    BY SMT, <1>4
  <2>2. R \in Nat /\ a \in Nat /\ b \in Nat /\ a < b /\ b <= R
    BY SMT, <1>3, <1>4, <2>1 DEF AreSteps
  <2>3. R \in Nat \ {0} /\ p \in 0 .. R - 1 /\ f \in 0 .. R - 1
    <3> HIDE DEF a, b
    <3>1. R \in Nat \ {0} /\ c \in Nat
      BY SMT, <1>2, <2>2
    <3> HIDE DEF R
    <3> QED  BY <3>1, PointMoves DEF R
  <2>4. hits[i] = k * (b - a) + Met(a, b, f, p)
    BY <1>5 DEF Rounds
  <2>5. Due(of[i]) = b - a
    BY <1>3
  <2> HIDE DEF R, a, b, p
  <2>6. Met(a, b, f, p) \in 0 .. (b - a)
    BY <2>2, <2>3, MetIn
  <2>7. b - a \in Nat
    BY SMT, <2>2
  <2>8. (k + 1) * (b - a) = k * (b - a) + (b - a) /\ k * (b - a) \in Nat
    BY <1>6, <2>7, OneRoundMore
  <2> QED  BY SMTT(30), <2>4, <2>5, <2>6, <2>7, <2>8
<1> QED  BY <1>4, <1>6, <1>7 DEF Fair, of, hits, m

\* For any number of backends, weights and callers, and at any width of the
\* counter: while the candidates of a Service stay the same and its counter
\* does not wrap, round robin gives each as many calls as any other, but for
\* one, and weighted round robin shares them by weight, round by round.
THEOREM SharesFairly == Spec => []FairShare
<1>1. Init => ShareInv
  <2> SUFFICES ASSUME Init PROVE ShareInv
    OBVIOUS
  <2>1. share = [s \in Services |-> NoShare]
    BY DEF Init
  <2>2. DOMAIN share = Services /\ \A s \in Services : share[s].of = <<>>
    BY <2>1 DEF NoShare
  <2>3. \A s \in Services : Explained(s)
    <3>1. <<>> \in Seq(Backends)
      BY SMT
    <3> QED  BY <2>2, <3>1 DEF Explained, ExplainedBy
  <2> QED  BY <2>2, <2>3 DEF ShareInv
<1>2. BalancerInv /\ ShareInv /\ [Next]_bvars => ShareInv'
  BY ShareStep
<1>3. BalancerInv /\ ShareInv => FairShare
  BY ExplainedIsFair DEF FairShare
<1> QED  BY <1>1, <1>2, <1>3, BalancerInvariant, PTL DEF Spec
=============================================================================
