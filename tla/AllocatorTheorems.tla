------------------------- MODULE AllocatorTheorems -------------------------
(***************************************************************************)
(* What the allocator answers, for every address space, range and scan     *)
(* limit: an address of the space, free unless its range has no other.     *)
(***************************************************************************)
EXTENDS AllocatorOps, WellFoundedInduction, TLAPS

-----------------------------------------------------------------------------
(* Numbers.                                                                *)

\* A nonempty set of naturals contains its minimum.
LEMMA MinIn ==
  ASSUME NEW S \in SUBSET Nat, S # {}
  PROVE  Min(S) \in S /\ \A y \in S : Min(S) <= y
<1> DEFINE Below == {ss \in Nat \X Nat : ss[1] < ss[2]}
<1>1. IsWellFoundedOn(Below, Nat)
  BY NatLessThanWellFounded, Zenon DEF OpToRel
<1>2. PICK x \in S : \A y \in S : ~ (<<y, x>> \in Below)
  <2> HIDE DEF Below
  <2> QED  BY Zenon, <1>1, WFMin
<1>3. ASSUME NEW y \in S  PROVE  x <= y
  <2>1. y \in Nat /\ x \in Nat
    OBVIOUS
  <2>2. y < x => <<y, x>> \in Below
    BY <2>1
  <2> QED  BY <2>1, <2>2, <1>2
<1> QED  BY Zenon, <1>3 DEF Min

\* A remainder is smaller than the divisor.
LEMMA ModRange ==
  ASSUME NEW a \in Int, NEW n \in Nat \ {0}
  PROVE  a % n \in 0 .. (n - 1)
OBVIOUS

\* A block of b addresses that starts inside a family that b divides stays
\* above the first address m of that family.
LEMMA BlockAbove ==
  ASSUME NEW a \in Nat, NEW b \in Nat \ {0}, NEW m \in Nat, m % b = 0, m <= a
  PROVE  a - (a % b) \in m .. a
<1>1. m = b * (m \div b) /\ m \div b \in Int
  OBVIOUS
<1>2. a = b * (a \div b) + (a % b) /\ a \div b \in Int /\ a % b \in 0 .. (b - 1)
  BY ModRange
<1>3. a \div b >= m \div b
  <2> DEFINE q == a \div b
             p == m \div b
  <2>1. CASE q < p
    <3>1. q + 1 <= p
      BY <1>1, <1>2, <2>1
    <3>2. b * (q + 1) <= b * p
      BY <3>1, <1>1, <1>2
    <3>3. b * (q + 1) = b * q + b
      BY <1>2
    <3> QED  BY <3>2, <3>3, <1>1, <1>2
  <2> QED  BY <2>1, <1>1, <1>2
<1>4. b * (a \div b) >= b * (m \div b)
  BY <1>1, <1>2, <1>3
<1> QED  BY <1>1, <1>2, <1>4

\* It stays below the first address m of the next family, too.
LEMMA BlockBelow ==
  ASSUME NEW a \in Nat, NEW b \in Nat \ {0}, NEW m \in Nat, m % b = 0, a < m
  PROVE  a - (a % b) + b <= m
<1>1. m = b * (m \div b) /\ m \div b \in Int
  OBVIOUS
<1>2. a = b * (a \div b) + (a % b) /\ a \div b \in Int /\ a % b \in 0 .. (b - 1)
  BY ModRange
<1> DEFINE q == a \div b
           p == m \div b
<1>3. q < p
  <2>1. CASE p <= q
    <3>1. b * p <= b * q
      BY <2>1, <1>1, <1>2
    <3> QED  BY <3>1, <1>1, <1>2
  <2> QED  BY <2>1, <1>1, <1>2
<1>4. b * (q + 1) <= b * p
  BY <1>1, <1>2, <1>3
<1>5. b * (q + 1) = b * q + b
  BY <1>2
<1> QED  BY <1>1, <1>2, <1>4, <1>5

-----------------------------------------------------------------------------
(* Ranges.                                                                 *)

\* A block of a range starts in its family.
LEMMA BlockStart ==
  ASSUME NEW r \in Ranges, r.kind = "cidr"
  PROVE  /\ CIDRFirst(r) \in Addr /\ CIDRLast(r) \in Int
         /\ IsV4(r.a) => CIDRFirst(r) \in V4
<1> USE AddrSpaceAssumption
<1>1. r.a \in Addr /\ r.b \in 1 .. AddrSpace /\ AddrSpace % r.b = 0
  BY DEF Ranges, SingleIP, Span, CIDR, BadRange, NoRange
<1>2. r.a \in Nat /\ r.b \in Nat \ {0}
  BY <1>1 DEF Addr, V4, V6
<1>3. CASE IsV4(r.a)
  <2>1. 0 % r.b = 0
    BY <1>2
  <2>2. r.a - (r.a % r.b) \in 0 .. r.a
    BY <1>2, <2>1, BlockAbove
  <2> QED  BY <1>2, <1>3, <2>2 DEF CIDRFirst, CIDRLast, IsV4, Addr, V4
<1>4. CASE ~IsV4(r.a)
  <2>1. r.a - (r.a % r.b) \in AddrSpace .. r.a
    BY <1>1, <1>2, <1>4, BlockAbove DEF IsV4
  <2> QED  BY <1>1, <1>2, <1>4, <2>1 DEF CIDRFirst, CIDRLast, IsV4, Addr, V4, V6
<1> QED  BY <1>3, <1>4

\* A range that parses starts at an address.
LEMMA ParsedStart ==
  ASSUME NEW r \in Ranges, ParseIPRange(r).ok
  PROVE  ParseIPRange(r).start \in Addr /\ ParseIPRange(r).end \in Int
<1> USE AddrSpaceAssumption
<1>1. CASE r.kind = "cidr"
  <2>1. CIDRFirst(r) \in Addr /\ CIDRLast(r) \in Int /\ (IsV4(r.a) => CIDRFirst(r) \in V4)
    BY <1>1, BlockStart
  <2>2. IncrementIP(CIDRFirst(r)) \in Addr /\ DecrementIP(CIDRLast(r)) \in Int
    BY <2>1 DEF IncrementIP, DecrementIP, Addr, V4, V6
  <2> QED  BY <1>1, <2>1, <2>2 DEF ParseIPRange
<1>2. CASE r.kind \in {"single", "span"}
  <2>1. r.a \in Addr /\ r.b \in Addr
    BY <1>2 DEF Ranges, SingleIP, Span, CIDR, BadRange, NoRange
  <2>2. ParseIPRange(r) = [ok |-> TRUE, start |-> r.a, end |-> r.b]
    BY <1>2 DEF ParseIPRange
  <2> QED  BY <2>1, <2>2 DEF Addr, V4, V6
<1>3. CASE r.kind \notin {"cidr", "single", "span"}
  BY <1>3 DEF ParseIPRange
<1> QED  BY <1>1, <1>2, <1>3

\* A range that parses ends in the family it starts in.
LEMMA ParsedEnd ==
  ASSUME NEW r \in Ranges, ParseIPRange(r).ok
  PROVE  \/ ParseIPRange(r).start \in V4 /\ ParseIPRange(r).end \in V4
         \/ ParseIPRange(r).start \in V6 /\ ParseIPRange(r).end \in V6
<1> USE AddrSpaceAssumption
<1>1. CASE r.kind = "cidr"
  <2>1. r.a \in Addr /\ r.b \in 1 .. AddrSpace /\ AddrSpace % r.b = 0
    BY <1>1 DEF Ranges, SingleIP, Span, CIDR, BadRange, NoRange
  <2>2. r.a \in Nat /\ r.b \in Nat \ {0}
    BY <2>1 DEF Addr, V4, V6
  <2>3. CASE IsV4(r.a)
    <3>1. CIDRFirst(r) \in V4
      BY <1>1, <2>3, BlockStart
    <3>2. CIDRFirst(r) + r.b <= AddrSpace
      BY <2>1, <2>2, <2>3, BlockBelow DEF IsV4, CIDRFirst
    <3>3. CIDRLast(r) = CIDRFirst(r) + r.b - 1
      BY DEF CIDRLast
    <3>4. CASE r.b > 2
      <4>1. IncrementIP(CIDRFirst(r)) \in V4 /\ DecrementIP(CIDRLast(r)) \in V4
        BY <2>2, <3>1, <3>2, <3>3, <3>4 DEF IncrementIP, DecrementIP, V4
      <4> QED  BY <1>1, <2>3, <3>4, <4>1 DEF ParseIPRange
    <3>5. CASE ~(r.b > 2)
      <4>1. CIDRLast(r) \in V4
        BY <2>2, <3>1, <3>2, <3>3 DEF V4
      <4> QED  BY <1>1, <3>1, <3>5, <4>1 DEF ParseIPRange
    <3> QED  BY <3>4, <3>5
  <2>4. CASE ~IsV4(r.a)
    <3>1. (2 * AddrSpace) % r.b = 0
      <4>1. AddrSpace = r.b * (AddrSpace \div r.b) /\ AddrSpace \div r.b \in Int
        BY <2>1, <2>2
      <4>2. 2 * AddrSpace = r.b * (2 * (AddrSpace \div r.b))
        BY <2>2, <4>1
      <4> QED  BY <2>2, <4>1, <4>2
    <3>2. CIDRFirst(r) + r.b <= 2 * AddrSpace
      <4> DEFINE m == 2 * AddrSpace
      <4>1. m \in Nat /\ m % r.b = 0 /\ r.a < m
        BY <2>1, <3>1 DEF Addr, V4, V6
      <4> HIDE DEF m
      <4>2. r.a - (r.a % r.b) + r.b <= m
        BY <2>2, <4>1, BlockBelow
      <4> QED  BY <4>2 DEF m, CIDRFirst
    <3>3. CIDRFirst(r) \in V6
      <4>1. r.a - (r.a % r.b) \in AddrSpace .. r.a
        BY <2>1, <2>2, <2>4, BlockAbove DEF IsV4
      <4> QED  BY <2>1, <2>2, <4>1 DEF CIDRFirst, Addr, V4, V6
    <3>4. CIDRLast(r) \in V6
      BY <2>2, <3>2, <3>3 DEF CIDRLast, V6
    <3> QED  BY <1>1, <2>4, <3>3, <3>4 DEF ParseIPRange
  <2> QED  BY <2>3, <2>4
<1>2. CASE r.kind \in {"single", "span"}
  <2>1. r.a \in Addr /\ r.b \in Addr /\ SameFamily(r.a, r.b)
    BY <1>2 DEF Ranges, SingleIP, Span, CIDR, BadRange, NoRange, SameFamily
  <2>2. ParseIPRange(r) = [ok |-> TRUE, start |-> r.a, end |-> r.b]
    BY <1>2 DEF ParseIPRange
  <2> QED  BY <2>1, <2>2 DEF SameFamily, IsV4, Addr, V4, V6
<1>3. CASE r.kind \notin {"cidr", "single", "span"}
  BY <1>3 DEF ParseIPRange
<1> QED  BY <1>1, <1>2, <1>3

\* Every turn of the scan looks at an address.
LEMMA NthInAddr ==
  ASSUME NEW start \in Addr, NEW k \in Nat
  PROVE  NthIP(start, k) \in Addr
<1> USE AddrSpaceAssumption
<1>1. (start + k) % AddrSpace \in 0 .. (AddrSpace - 1)
  BY ModRange DEF Addr, V4, V6
<1>2. (start - AddrSpace + k) % AddrSpace \in 0 .. (AddrSpace - 1)
  BY ModRange DEF Addr, V4, V6
<1> QED  BY <1>1, <1>2 DEF NthIP, Addr, V4, V6

-----------------------------------------------------------------------------
(* The answers.                                                            *)

\* AllocateIP fails, or answers an address that is not in use or that is the
\* only one of its range.
THEOREM AllocateIPAnswer ==
  ASSUME NEW u, NEW r \in Ranges
  PROVE  \/ AllocateIP(u, r) = NoIP
         \/ /\ AllocateIP(u, r) \in Addr
            /\ \/ AllocateIP(u, r) \notin u
               \/ /\ ParseIPRange(r).ok
                  /\ ParseIPRange(r).start = ParseIPRange(r).end
                  /\ AllocateIP(u, r) = ParseIPRange(r).start
<1> DEFINE p == ParseIPRange(r)
           f == FreeTurns(u, p.start, p.end)
<1>1. CASE ~p.ok
  BY <1>1 DEF AllocateIP
<1>2. CASE p.ok /\ p.start = p.end
  BY <1>2, ParsedStart DEF AllocateIP
<1>3. CASE p.ok /\ p.start # p.end /\ f = {}
  BY <1>3 DEF AllocateIP
<1>4. CASE p.ok /\ p.start # p.end /\ f # {}
  <2>1. f \in SUBSET Nat
    BY MaxScanAssumption DEF FreeTurns
  <2>2. Min(f) \in f /\ Min(f) \in Nat
    BY <1>4, <2>1, MinIn
  <2>3. NthIP(p.start, Min(f)) \notin u
    BY <2>2 DEF FreeTurns
  <2>4. NthIP(p.start, Min(f)) \in Addr
    BY <1>4, <2>2, ParsedStart, NthInAddr
  <2>5. AllocateIP(u, r) = NthIP(p.start, Min(f))
    BY <1>4 DEF AllocateIP
  <2> QED  BY <2>3, <2>4, <2>5
<1> QED  BY <1>1, <1>2, <1>3, <1>4

\* AllocateSpecificIP fails, or answers the address it was asked for, which
\* was not in use and which the range can hand out.
THEOREM AllocateSpecificIPAnswer ==
  ASSUME NEW u, NEW r \in Ranges, NEW requested \in Addr
  PROVE  \/ AllocateSpecificIP(u, r, requested) = NoIP
         \/ /\ AllocateSpecificIP(u, r, requested) = requested
            /\ requested \notin u /\ IPAllocatable(requested, r)
BY DEF AllocateSpecificIP
=============================================================================
