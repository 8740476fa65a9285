------------------------------ MODULE IPRange ------------------------------
(***************************************************************************)
(* Addresses and address ranges (internal/network/parse.go and the range   *)
(* predicates of ip_allocator.go).                                         *)
(*                                                                         *)
(* The code keeps an address as 4 or 16 bytes and orders addresses of one  *)
(* family with bytes.Compare, which is the order of the numbers they       *)
(* denote.  Here an address is that number: each family has AddrSpace      *)
(* addresses (2^32 and 2^128 in the code), IPv4 first, IPv6 after it.      *)
(* Bytes are not modelled, so a range whose two ends belong to different   *)
(* families is outside this module (Ranges requires one family), and an    *)
(* address is never in a range of the other family, whereas bytes.Compare  *)
(* of 4 with 16 bytes may place it there.                                  *)
(***************************************************************************)
EXTENDS Integers

CONSTANT AddrSpace

ASSUME AddrSpaceAssumption == AddrSpace \in Nat \ {0}

V4   == 0 .. (AddrSpace - 1)
V6   == AddrSpace .. (2 * AddrSpace - 1)
Addr == V4 \cup V6

\* The empty string where the code keeps an address as a string.
NoIP == -1

\* ip.To4() != nil
IsV4(ip) == ip < AddrSpace

\* Carrying past the first byte wraps around inside the family.
IncrementIP(ip) ==
  IF ip = AddrSpace - 1 THEN 0
  ELSE IF ip = 2 * AddrSpace - 1 THEN AddrSpace
  ELSE ip + 1

DecrementIP(ip) ==
  IF ip = 0 THEN AddrSpace - 1
  ELSE IF ip = AddrSpace THEN 2 * AddrSpace - 1
  ELSE ip - 1

(***************************************************************************)
(* A range as the user writes it: one address (a = b), "a-b", a CIDR block *)
(* given by an address a in it and the number b of its addresses, a string *)
(* that does not parse, or the empty string of an unset ipv6Range.         *)
(***************************************************************************)
SingleIP(ip) == [kind |-> "single", a |-> ip, b |-> ip]
Span(lo, hi) == [kind |-> "span", a |-> lo, b |-> hi]
CIDR(ip, n)  == [kind |-> "cidr", a |-> ip, b |-> n]
BadRange     == [kind |-> "bad", a |-> 0, b |-> 0]
NoRange      == [kind |-> "none", a |-> 0, b |-> 0]

SameFamily(ip, other) == IsV4(ip) <=> IsV4(other)

Ranges ==
  {SingleIP(ip) : ip \in Addr}
    \cup {r \in {Span(lo, hi) : lo, hi \in Addr} : SameFamily(r.a, r.b)}
    \cup {r \in {CIDR(ip, n) : ip \in Addr, n \in 1 .. AddrSpace} : AddrSpace % r.b = 0}
    \cup {BadRange, NoRange}

\* ipNet.IP, and the address with every host bit set.
CIDRFirst(r) == r.a - (r.a % r.b)
CIDRLast(r)  == CIDRFirst(r) + r.b - 1

\* The first and last address of a range; an IPv4 block wider than /31 loses
\* its network and broadcast addresses.  ok is FALSE where the code errors.
ParseIPRange(r) ==
  CASE r.kind = "cidr" /\ IsV4(r.a) /\ r.b > 2 ->
         [ok |-> TRUE, start |-> IncrementIP(CIDRFirst(r)), end |-> DecrementIP(CIDRLast(r))]
    [] r.kind = "cidr" /\ ~(IsV4(r.a) /\ r.b > 2) ->
         [ok |-> TRUE, start |-> CIDRFirst(r), end |-> CIDRLast(r)]
    [] r.kind \in {"single", "span"} -> [ok |-> TRUE, start |-> r.a, end |-> r.b]
    [] OTHER -> [ok |-> FALSE, start |-> 0, end |-> 0]

\* An address the allocator would hand out for r.
IPAllocatable(ip, r) ==
  LET p == ParseIPRange(r)
  IN  ip # NoIP /\ p.ok /\ p.start <= ip /\ ip <= p.end

\* Plain containment: a CIDR block contains all of its addresses.
IPInRange(ip, r) ==
  IF r.kind = "cidr" THEN ip # NoIP /\ CIDRFirst(r) <= ip /\ ip <= CIDRLast(r)
                     ELSE IPAllocatable(ip, r)
=============================================================================
