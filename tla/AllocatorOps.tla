---------------------------- MODULE AllocatorOps ----------------------------
(***************************************************************************)
(* What the methods of IPAllocator (internal/network/ip_allocator.go)      *)
(* answer for a given content u of the map a.used.  Every method runs      *)
(* under a.mu, so it is a function of that content.                        *)
(***************************************************************************)
EXTENDS IPRange, FiniteSets, FiniteSetsExt

CONSTANT MaxScan     \* a.maxScan (65536 in the code)

ASSUME MaxScanAssumption == MaxScan \in Nat \ {0}

\* The address the k-th turn of the scan looks at.
NthIP(start, k) ==
  IF IsV4(start) THEN (start + k) % AddrSpace
                 ELSE AddrSpace + ((start - AddrSpace + k) % AddrSpace)

\* The turns of the scan that find a free address, were the earlier ones to
\* find none.
FreeTurns(u, start, end) ==
  {k \in 0 .. (MaxScan - 1) : /\ \A j \in 0 .. k : NthIP(start, j) <= end
                              /\ NthIP(start, k) \notin u}

\* A range of one address is shared: it is answered even when in use.
\* NoIP stands for the error.
AllocateIP(u, r) ==
  LET p == ParseIPRange(r)
      f == FreeTurns(u, p.start, p.end)
  IN  CASE ~p.ok                              -> NoIP
        [] p.ok /\ p.start = p.end            -> p.start
        [] p.ok /\ p.start # p.end /\ f = {}  -> NoIP
        [] OTHER                              -> NthIP(p.start, Min(f))

AllocateSpecificIP(u, r, requested) ==
  IF IPAllocatable(requested, r) /\ requested \notin u THEN requested ELSE NoIP

\* Mutant: nothing is marked.
MarkNothing(u, ip) == u

MarkUsed(u, ip) == IF ip = NoIP THEN u ELSE u \cup {ip}

ReleaseIP(u, ip) == u \ {ip}
=============================================================================
