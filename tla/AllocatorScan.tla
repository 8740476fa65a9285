--------------------------- MODULE AllocatorScan ---------------------------
(***************************************************************************)
(* The IP allocator as internal/network/ip_allocator.go runs it: callers   *)
(* on several goroutines, the mutex a.mu, and the loop of AllocateIP one   *)
(* turn at a time.                                                         *)
(***************************************************************************)
EXTENDS AllocatorOps

CONSTANTS Clients, CallRanges, CallAddrs, Nobody

ASSUME ScanCallsAssumption == CallRanges \subseteq Ranges /\ CallAddrs \subseteq Addr
ASSUME NobodyAssumption == Nobody \notin Clients

VARIABLES used, call, result,   \* as in IPAllocator
          mu,                   \* the goroutine that holds a.mu, or Nobody
          at,                   \* where each goroutine is in its method
          cursor,               \* its local ip: the address it looks at
          scanned               \* its local counter of turns

locals == <<at, cursor, scanned>>
vars   == <<used, call, result, mu, locals>>

\* The mutex and the locals are what the atomic allocator does not have.
Atomic == INSTANCE IPAllocator WITH used <- used, call <- call, result <- result

NoCall == Atomic!NoCall
Calls  == Atomic!Calls

Init ==
  /\ Atomic!Init
  /\ mu = Nobody
  /\ at = [c \in Clients |-> "outside"]
  /\ cursor = [c \in Clients |-> NoIP]
  /\ scanned = [c \in Clients |-> 0]

Invoke(c, k) == Atomic!Invoke(c, k) /\ UNCHANGED <<mu, locals>>

\* The method returns ip, or an error.
Return(c, ip) ==
  /\ result' = [result EXCEPT ![c] = ip]
  /\ call' = [call EXCEPT ![c] = NoCall]

\* Mutant: the counter of turns is not reset.
UnlockKeepsCount(c) ==
  /\ mu' = Nobody
  /\ at' = [at EXCEPT ![c] = "outside"]
  /\ cursor' = [cursor EXCEPT ![c] = NoIP]
  /\ UNCHANGED scanned

\* The deferred a.mu.Unlock(); the locals are gone.
Unlock(c) ==
  /\ mu' = Nobody
  /\ at' = [at EXCEPT ![c] = "outside"]
  /\ cursor' = [cursor EXCEPT ![c] = NoIP]
  /\ scanned' = [scanned EXCEPT ![c] = 0]

\* The checks made before the mutex is taken: the range of AllocateIP must
\* parse, the address AllocateSpecificIP is asked for must be allocatable.
PassesChecks(k) ==
  CASE k.op = "allocate" -> ParseIPRange(k.range).ok
    [] k.op = "specific" -> IPAllocatable(k.ip, k.range)
    [] OTHER             -> TRUE

RejectEarly(c) ==
  /\ call[c] # NoCall
  /\ at[c] = "outside"
  /\ ~PassesChecks(call[c])
  /\ Return(c, NoIP)
  /\ UNCHANGED <<used, mu, locals>>

\* What the method looks at first: the start of the range, or the address it
\* is asked for.
FirstIP(k) == IF k.op = "allocate" THEN ParseIPRange(k.range).start ELSE k.ip

\* Mutant: the mutex is not taken.
LockNothing(c) ==
  /\ call[c] # NoCall
  /\ at[c] = "outside"
  /\ PassesChecks(call[c])
  /\ mu' = c
  /\ at' = [at EXCEPT ![c] = "inside"]
  /\ cursor' = [cursor EXCEPT ![c] = FirstIP(call[c])]
  /\ UNCHANGED <<used, call, result, scanned>>

\* a.mu.Lock(), and the initialisation of the locals.
Lock(c) ==
  /\ call[c] # NoCall
  /\ at[c] = "outside"
  /\ PassesChecks(call[c])
  /\ mu = Nobody
  /\ mu' = c
  /\ at' = [at EXCEPT ![c] = "inside"]
  /\ cursor' = [cursor EXCEPT ![c] = FirstIP(call[c])]
  /\ UNCHANGED <<used, call, result, scanned>>

\* The lookup has found the address free: it is marked and returned.
Take(c) ==
  /\ at[c] = "found"
  /\ used' = used \cup {cursor[c]}
  /\ Return(c, cursor[c])
  /\ Unlock(c)

\* AllocateIP on a range of one address returns it without a lookup.
AllocateSingle(c) ==
  /\ at[c] = "inside"
  /\ call[c].op = "allocate"
  /\ ParseIPRange(call[c].range).start = ParseIPRange(call[c].range).end
  /\ used' = used \cup {cursor[c]}
  /\ Return(c, cursor[c])
  /\ Unlock(c)

\* AllocateIP is at the top of a turn of its loop.
Scanning(c) ==
  /\ at[c] = "inside"
  /\ call[c].op = "allocate"
  /\ ParseIPRange(call[c].range).start # ParseIPRange(call[c].range).end

\* The loop is left without an address: ip is past the end, or the scan limit
\* is reached.
ScanFails(c) ==
  /\ Scanning(c)
  /\ cursor[c] > ParseIPRange(call[c].range).end \/ scanned[c] >= MaxScan
  /\ Return(c, NoIP)
  /\ Unlock(c)
  /\ UNCHANGED used

\* Mutant: the end of the range is not looked at.
ScanHitsPastEnd(c) ==
  /\ Scanning(c)
  /\ scanned[c] < MaxScan
  /\ cursor[c] \notin used
  /\ at' = [at EXCEPT ![c] = "found"]
  /\ UNCHANGED <<used, call, result, mu, cursor, scanned>>

ScanHits(c) ==
  /\ Scanning(c)
  /\ cursor[c] <= ParseIPRange(call[c].range).end /\ scanned[c] < MaxScan
  /\ cursor[c] \notin used
  /\ at' = [at EXCEPT ![c] = "found"]
  /\ UNCHANGED <<used, call, result, mu, cursor, scanned>>

\* Mutant: the scan limit is not looked at.
ScanNextUnlimited(c) ==
  /\ Scanning(c)
  /\ cursor[c] <= ParseIPRange(call[c].range).end
  /\ cursor[c] \in used
  /\ cursor' = [cursor EXCEPT ![c] = IncrementIP(@)]
  /\ scanned' = [scanned EXCEPT ![c] = @ + 1]
  /\ UNCHANGED <<used, call, result, mu, at>>

ScanNext(c) ==
  /\ Scanning(c)
  /\ cursor[c] <= ParseIPRange(call[c].range).end /\ scanned[c] < MaxScan
  /\ cursor[c] \in used
  /\ cursor' = [cursor EXCEPT ![c] = IncrementIP(@)]
  /\ scanned' = [scanned EXCEPT ![c] = @ + 1]
  /\ UNCHANGED <<used, call, result, mu, at>>

\* The lookup of AllocateSpecificIP.
SpecificHits(c) ==
  /\ at[c] = "inside"
  /\ call[c].op = "specific"
  /\ cursor[c] \notin used
  /\ at' = [at EXCEPT ![c] = "found"]
  /\ UNCHANGED <<used, call, result, mu, cursor, scanned>>

SpecificFails(c) ==
  /\ at[c] = "inside"
  /\ call[c].op = "specific"
  /\ cursor[c] \in used
  /\ Return(c, NoIP)
  /\ Unlock(c)
  /\ UNCHANGED used

\* MarkUsed and ReleaseIP: one assignment under the mutex.
Mark(c) ==
  /\ at[c] = "inside"
  /\ call[c].op = "mark"
  /\ used' = used \cup {cursor[c]}
  /\ call' = [call EXCEPT ![c] = NoCall]
  /\ UNCHANGED result
  /\ Unlock(c)

Release(c) ==
  /\ at[c] = "inside"
  /\ call[c].op = "release"
  /\ used' = used \ {cursor[c]}
  /\ Return(c, NoIP)
  /\ Unlock(c)

Body(c) ==
  \/ RejectEarly(c) \/ AllocateSingle(c) \/ ScanFails(c) \/ ScanHits(c) \/ ScanNext(c)
  \/ SpecificHits(c) \/ SpecificFails(c) \/ Take(c) \/ Mark(c) \/ Release(c)

Next == \E c \in Clients : Lock(c) \/ Body(c) \/ \E k \in Calls : Invoke(c, k)

\* A goroutine that can run does, and a Go mutex hands itself to a waiter
\* that has been waiting for long, so nobody waits for a.mu for ever.
Fairness == \A c \in Clients : WF_vars(Body(c)) /\ SF_vars(Lock(c))

Spec == Init /\ [][Next]_vars /\ Fairness

-----------------------------------------------------------------------------
\* Every variable has its type; in particular only addresses are marked in
\* use, and the counter of turns of AllocateIP never passes the scan limit.
TypeOK ==
  /\ used \subseteq Addr
  /\ call \in [Clients -> Calls \cup {NoCall}]
  /\ result \in [Clients -> Addr \cup {NoIP}]
  /\ mu \in Clients \cup {Nobody}
  /\ at \in [Clients -> {"outside", "inside", "found"}]
  /\ cursor \in [Clients -> Addr \cup {NoIP}]
  /\ scanned \in [Clients -> 0 .. MaxScan]

\* The addresses of the one-address ranges, which AllocateIP shares among all
\* who ask.
Shared ==
  {ParseIPRange(r).start : r \in {q \in CallRanges : ParseIPRange(q).ok /\
                                   ParseIPRange(q).start = ParseIPRange(q).end}}

\* An address is held by one client at a time, whatever the interleaving of
\* AllocateIP, AllocateSpecificIP, MarkUsed and ReleaseIP, unless it comes
\* from a range of one address.
Exclusive ==
  \A c, d \in Clients : c # d /\ result[c] # NoIP /\ result[c] = result[d]
                          => result[c] \in Shared

\* A range that ends at the last address of its family: past that address
\* IncrementIP is back at the first one, which is below the end again.
EndsAtTop(r) == ParseIPRange(r).end \in {AddrSpace - 1, 2 * AddrSpace - 1}

\* An address that is handed out lies in the range the call was given.  The
\* scan of AllocateIP leaves the range in one case only: the range ends at the
\* last address of its family, and every address of it is in use.
FromRange ==
  [][\A c \in Clients : result'[c] \notin {NoIP, result[c]} =>
       \/ IPAllocatable(result'[c], call[c].range)
       \/ EndsAtTop(call[c].range) /\ \A a \in Addr : IPAllocatable(a, call[c].range) => a \in used]_vars

\* The methods are atomic and complete: the scan under the mutex answers what
\* AllocateIP is specified to answer, and every call is answered.
Linearizable == Atomic!Spec

\* What the loop of AllocateIP knows at the top of each turn: it stands on
\* the address of that turn, and the earlier turns found theirs in use.
ScanInv ==
  \A c \in Clients :
    Scanning(c) =>
      LET p == ParseIPRange(call[c].range)
      IN  /\ cursor[c] = NthIP(p.start, scanned[c])
          /\ \A j \in 0 .. (scanned[c] - 1) : NthIP(p.start, j) <= p.end /\ NthIP(p.start, j) \in used
=============================================================================
