-------------------------- MODULE MCAllocatorScan --------------------------
(***************************************************************************)
(* Two goroutines in a space of four addresses per family.  The ranges are *)
(* a block that loses its network and broadcast addresses, a span longer   *)
(* than the scan limit, a span at the top of IPv4, which the scan leaves   *)
(* when it is full, a single address and a range that does not parse.      *)
(***************************************************************************)
EXTENDS AllocatorScan

MCRanges == {CIDR(1, 4), Span(4, 7), Span(2, 3), SingleIP(1), BadRange}
MCAddrs  == {0, 1, 3, 5}
=============================================================================
