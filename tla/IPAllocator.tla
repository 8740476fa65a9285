---------------------------- MODULE IPAllocator ----------------------------
(***************************************************************************)
(* What the IP allocator promises to the goroutines that call it: every    *)
(* call takes effect at one instant, on the set of addresses in use.       *)
(* AllocatorScan models the code and implements this specification.        *)
(***************************************************************************)
EXTENDS AllocatorOps

CONSTANTS Clients,     \* the goroutines that call the allocator
          CallRanges,  \* the ranges they allocate from
          CallAddrs    \* the addresses they ask for or mark by name

VARIABLES used,        \* a.used
          call,        \* the call each client is waiting for
          result       \* the address each client was answered and still holds

vars == <<used, call, result>>

NoCall == [op |-> "none", range |-> NoRange, ip |-> NoIP]

Calls ==
  [op : {"allocate"}, range : CallRanges, ip : {NoIP}]
    \cup [op : {"specific"}, range : CallRanges, ip : CallAddrs]
    \cup [op : {"mark"}, range : {NoRange}, ip : CallAddrs]
    \cup [op : {"release"}, range : {NoRange}, ip : Addr]

\* What a client may ask for: the discipline of AllocateAndAssign, which gives
\* back what it has just been handed when the assignment fails.  The releases of
\* ReleaseAll, of addresses that come from a status and may be stale, are the
\* controller's: HeliosController models them.
MayCall(c, k) ==
  CASE k.op = "release" -> k.ip = result[c]
    [] k.op = "mark"    -> TRUE
    [] OTHER            -> result[c] = NoIP

Init ==
  /\ used = {}
  /\ call = [c \in Clients |-> NoCall]
  /\ result = [c \in Clients |-> NoIP]

Invoke(c, k) ==
  /\ call[c] = NoCall
  /\ MayCall(c, k)
  /\ call' = [call EXCEPT ![c] = k]
  /\ UNCHANGED <<used, result>>

\* The address call k is answered when u is in use.
Answer(u, k) ==
  IF k.op = "allocate" THEN AllocateIP(u, k.range)
                       ELSE AllocateSpecificIP(u, k.range, k.ip)

\* The call of c takes effect: its answer is computed and applied at once.
Serve(c) ==
  /\ call[c] # NoCall
  /\ call' = [call EXCEPT ![c] = NoCall]
  /\ \/ /\ call[c].op \in {"allocate", "specific"}
        /\ used' = MarkUsed(used, Answer(used, call[c]))
        /\ result' = [result EXCEPT ![c] = Answer(used, call[c])]
     \/ /\ call[c].op = "mark"
        /\ used' = MarkUsed(used, call[c].ip)
        /\ UNCHANGED result
     \/ /\ call[c].op = "release"
        /\ used' = ReleaseIP(used, call[c].ip)
        /\ result' = [result EXCEPT ![c] = NoIP]

Next == \E c \in Clients : Serve(c) \/ \E k \in Calls : Invoke(c, k)

Safe == Init /\ [][Next]_vars
Spec == Safe /\ \A c \in Clients : WF_vars(Serve(c))
=============================================================================
