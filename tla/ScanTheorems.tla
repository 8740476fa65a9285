---------------------------- MODULE ScanTheorems ----------------------------
(***************************************************************************)
(* The allocator of ip_allocator.go is linearizable: the scan under the    *)
(* mutex implements the atomic allocator, for every address space, set of  *)
(* callers and ranges, and scan limit.                                     *)
(***************************************************************************)
EXTENDS AllocatorScan, AllocatorTheorems

\* Zenon proves the steps that do not name a prover.
USE ZenonT(30)

-----------------------------------------------------------------------------
(* Arithmetic: a turn of the loop increments the address of the turn.      *)

\* A number is its quotient times the divisor, plus its remainder.
LEMMA DivMod ==
  ASSUME NEW n \in Nat \ {0}, NEW x \in Int
  PROVE  x = n * (x \div n) + (x % n) /\ x \div n \in Int /\ x % n \in 0 .. (n - 1)
<1>1. x = n * (x \div n) + (x % n) /\ x \div n \in Int
  BY SMT
<1> QED BY <1>1, ModRange

\* Quotient and remainder are unique.
LEMMA ModUnique ==
  ASSUME NEW n \in Nat \ {0}, NEW q \in Int, NEW r \in 0 .. (n - 1),
         NEW p \in Int, NEW s \in 0 .. (n - 1), n * p + s = n * q + r
  PROVE  s = r
<1>1. CASE q < p
  <2>1. n * (q + 1) <= n * p
    BY SMT, <1>1
  <2>2. n * (q + 1) = n * q + n
    BY SMT
  <2> QED BY SMT, <2>1, <2>2
<1>2. CASE p < q
  <2>1. n * (p + 1) <= n * q
    BY SMT, <1>2
  <2>2. n * (p + 1) = n * p + n
    BY SMT
  <2> QED BY SMT, <2>1, <2>2
<1>3. CASE p = q
  BY SMT, <1>3
<1> QED BY SMT, <1>1, <1>2, <1>3

\* The remainder of the successor.
LEMMA ModNext ==
  ASSUME NEW n \in Nat \ {0}, NEW x \in Int
  PROVE  (x + 1) % n = IF x % n = n - 1 THEN 0 ELSE (x % n) + 1
<1> DEFINE y == x + 1
           p == y \div n
           s == y % n
           q == x \div n
           r == x % n
<1>1. y \in Int
  BY SMT
<1>2. y = n * p + s /\ p \in Int /\ s \in 0 .. (n - 1)
  BY <1>1, DivMod, Zenon
<1>3. x = n * q + r /\ q \in Int /\ r \in 0 .. (n - 1)
  BY DivMod
<1>4. y = x + 1
  OBVIOUS
<1> SUFFICES s = IF r = n - 1 THEN 0 ELSE r + 1
  OBVIOUS
<1> HIDE DEF y, p, s, q, r
<1>5. CASE r = n - 1
  <2> DEFINE z == q + 1
  <2>1. n * z = n * q + n /\ z \in Int /\ 0 \in 0 .. (n - 1)
    BY SMT, <1>3
  <2> HIDE DEF z
  <2>2. n * p + s = n * z + 0
    BY SMT, <1>2, <1>3, <1>4, <1>5, <2>1
  <2>3. s = 0
    BY <1>2, <2>1, <2>2, ModUnique, Zenon
  <2> QED BY <1>5, <2>3
<1>6. CASE r # n - 1
  <2>1. n * p + s = n * q + (r + 1) /\ r + 1 \in 0 .. (n - 1)
    BY SMT, <1>2, <1>3, <1>4, <1>6
  <2>2. s = r + 1
    BY <1>2, <1>3, <2>1, ModUnique
  <2> QED BY <1>6, <2>2
<1> QED BY <1>5, <1>6

\* A number below the divisor is its own remainder.
LEMMA ModSmall ==
  ASSUME NEW n \in Nat \ {0}, NEW x \in 0 .. (n - 1)
  PROVE  x % n = x
<1> DEFINE p == x \div n
           s == x % n
<1>1. x = n * p + s /\ p \in Int /\ s \in 0 .. (n - 1)
  BY SMT, DivMod
<1> HIDE DEF p, s
<1>2. n * p + s = n * 0 + x
  BY SMT, <1>1
<1>3. s = x
  BY SMT, <1>1, <1>2, ModUnique
<1> QED BY <1>3 DEF s

\* IncrementIP takes the scan from the address of one turn to that of the
\* next, across the wrap of the family too.
LEMMA NthNext ==
  ASSUME NEW start \in Addr, NEW k \in Nat
  PROVE  IncrementIP(NthIP(start, k)) = NthIP(start, k + 1)
<1> USE AddrSpaceAssumption
<1>1. start \in Nat
  BY SMT DEF Addr, V4, V6
<1>2. CASE IsV4(start)
  <2> DEFINE x == start + k
  <2>1. (x + 1) % AddrSpace = IF x % AddrSpace = AddrSpace - 1 THEN 0 ELSE (x % AddrSpace) + 1
    <3>1. x \in Int
      BY SMT, <1>1
    <3> HIDE DEF x
    <3> QED BY <3>1, ModNext, Zenon
  <2>2. x % AddrSpace \in 0 .. (AddrSpace - 1)
    BY SMT, <1>1, ModRange
  <2>3. start + (k + 1) = x + 1
    BY SMT, <1>1
  <2>4. NthIP(start, k) = x % AddrSpace /\ NthIP(start, k + 1) = (x + 1) % AddrSpace
    BY <1>2, <2>3 DEF NthIP
  <2> HIDE DEF x
  <2> QED BY SMT, <2>1, <2>2, <2>4 DEF IncrementIP
<1>3. CASE ~IsV4(start)
  <2> DEFINE x == start - AddrSpace + k
  <2>1. (x + 1) % AddrSpace = IF x % AddrSpace = AddrSpace - 1 THEN 0 ELSE (x % AddrSpace) + 1
    <3>1. x \in Int
      BY SMT, <1>1
    <3> HIDE DEF x
    <3> QED BY <3>1, ModNext, Zenon
  <2>2. x % AddrSpace \in 0 .. (AddrSpace - 1)
    BY SMT, <1>1, ModRange
  <2>3. start - AddrSpace + (k + 1) = x + 1
    BY SMT, <1>1
  <2>4. NthIP(start, k) = AddrSpace + (x % AddrSpace) /\ NthIP(start, k + 1) = AddrSpace + ((x + 1) % AddrSpace)
    BY <1>3, <2>3 DEF NthIP
  <2> HIDE DEF x
  <2> QED BY SMT, <2>1, <2>2, <2>4 DEF IncrementIP
<1> QED BY <1>2, <1>3

\* The scan starts on the first address of the range.
LEMMA NthFirst ==
  ASSUME NEW start \in Addr
  PROVE  NthIP(start, 0) = start
<1> USE AddrSpaceAssumption
<1>1. CASE IsV4(start)
  <2>1. start \in 0 .. (AddrSpace - 1) /\ start + 0 = start
    BY SMT, <1>1 DEF IsV4, Addr, V4, V6
  <2>2. start % AddrSpace = start
    BY <2>1, ModSmall
  <2> QED BY <1>1, <2>1, <2>2 DEF NthIP
<1>2. CASE ~IsV4(start)
  <2> DEFINE x == start - AddrSpace
  <2>1. x \in 0 .. (AddrSpace - 1) /\ x + 0 = x /\ AddrSpace + x = start
    BY SMT, <1>2 DEF IsV4, Addr, V4, V6
  <2>2. x % AddrSpace = x
    BY <2>1, ModSmall
  <2> QED BY <1>2, <2>1, <2>2 DEF NthIP
<1> QED BY <1>1, <1>2

-----------------------------------------------------------------------------
(* Types, and what a goroutine inside a method knows.                      *)

\* Whoever is inside a method holds the mutex and has a call that passed the
\* checks; it stands on the first address unless it scans or has found one;
\* outside, the counter of turns is reset.
LockInv ==
  \A c \in Clients :
    /\ at[c] # "outside" => mu = c /\ call[c] # NoCall /\ PassesChecks(call[c])
    /\ at[c] = "inside" /\ ~Scanning(c) => cursor[c] = FirstIP(call[c])
    /\ at[c] = "outside" => scanned[c] = 0
    /\ at[c] # "outside" => cursor[c] \in Addr

\* The atomic allocator is built from the same operators.
LEMMA SameData == Atomic!NoIP = NoIP /\ Atomic!NoRange = NoRange /\ Atomic!Addr = Addr
BY DEF Atomic!NoIP, NoIP, Atomic!NoRange, NoRange, Atomic!Addr, Addr, Atomic!V4, V4, Atomic!V6, V6

\* The fields of a call.
LEMMA CallFields ==
  ASSUME NEW k \in Calls
  PROVE  /\ k # NoCall
         /\ k.op \in {"allocate", "specific", "mark", "release"}
         /\ k.op \in {"allocate", "specific"} => k.range \in Ranges /\ k.range \in CallRanges
         /\ k.op \in {"specific", "mark", "release"} => k.ip \in Addr
<1>1. NoCall.op = "none"
  BY DEF NoCall, Atomic!NoCall
<1>2. CASE k \in [op : {"allocate"}, range : CallRanges, ip : {NoIP}]
  BY <1>1, <1>2, ScanCallsAssumption
<1>3. CASE k \in [op : {"specific"}, range : CallRanges, ip : CallAddrs]
  BY <1>1, <1>3, ScanCallsAssumption
<1>4. CASE k \in [op : {"mark"}, range : {NoRange}, ip : CallAddrs]
  BY <1>1, <1>4, ScanCallsAssumption
<1>5. CASE k \in [op : {"release"}, range : {NoRange}, ip : Addr]
  BY <1>1, <1>5
<1> QED BY <1>2, <1>3, <1>4, <1>5, SameData, Zenon DEF Calls, Atomic!Calls

\* Addresses are numbers, and the empty string is not one.
LEMMA AddrNat == Addr \subseteq Nat /\ NoIP \notin Addr /\ NoIP \in Int
BY SMT, AddrSpaceAssumption DEF Addr, V4, V6, NoIP

\* A call that passed the checks looks at an address first.
LEMMA FirstInAddr ==
  ASSUME NEW k \in Calls, PassesChecks(k)
  PROVE  FirstIP(k) \in Addr
<1>1. CASE k.op = "allocate"
  <2>1. ParseIPRange(k.range).ok /\ k.range \in Ranges
    BY <1>1, CallFields DEF PassesChecks
  <2> QED BY <1>1, <2>1, ParsedStart DEF FirstIP
<1>2. CASE k.op # "allocate"
  BY <1>2, CallFields DEF FirstIP
<1> QED BY <1>1, <1>2

\* A goroutine inside a method has a call, and stands on an address.
LEMMA InsideCall ==
  ASSUME TypeOK, LockInv, NEW c \in Clients, at[c] # "outside"
  PROVE  mu = c /\ call[c] \in Calls /\ call[c] # NoCall /\ PassesChecks(call[c])
BY DEF TypeOK, LockInv

\* Two goroutines are never inside a method.
LEMMA Alone ==
  ASSUME LockInv, NEW c \in Clients, NEW d \in Clients, at[c] # "outside", at[d] # "outside"
  PROVE  c = d
BY DEF LockInv

\* A method that returns an address, or the error, keeps the types.
LEMMA ReturnTypes ==
  ASSUME TypeOK, NEW c \in Clients, NEW i \in Addr \cup {NoIP}, Return(c, i)
  PROVE  /\ call' \in [Clients -> Calls \cup {NoCall}]
         /\ result' \in [Clients -> Addr \cup {NoIP}]
BY DEF TypeOK, Return

\* Unlocking resets the locals.
LEMMA UnlockTypes ==
  ASSUME TypeOK, NEW c \in Clients, Unlock(c)
  PROVE  /\ mu' \in Clients \cup {Nobody}
         /\ at' \in [Clients -> {"outside", "inside", "found"}]
         /\ cursor' \in [Clients -> Addr \cup {NoIP}]
         /\ scanned' \in [Clients -> 0 .. MaxScan]
BY SMT, MaxScanAssumption DEF Unlock, TypeOK

\* Every step keeps the types.
LEMMA ScanTypeStep == TypeOK /\ LockInv /\ [Next]_vars => TypeOK'
<1> SUFFICES ASSUME TypeOK, LockInv, [Next]_vars PROVE TypeOK'
  OBVIOUS
<1>1. CASE UNCHANGED vars
  BY <1>1 DEF vars, locals, TypeOK
<1>2. ASSUME NEW c \in Clients, NEW k \in Calls, Invoke(c, k) PROVE TypeOK'
  BY <1>2 DEF Invoke, Atomic!Invoke, locals, TypeOK
<1>3. ASSUME NEW c \in Clients, Lock(c) PROVE TypeOK'
  <2>1. FirstIP(call[c]) \in Addr
    BY <1>3, FirstInAddr DEF Lock, TypeOK
  <2> QED BY <1>3, <2>1 DEF Lock, TypeOK
<1>4. ASSUME NEW c \in Clients, RejectEarly(c) PROVE TypeOK'
  BY <1>4, ReturnTypes DEF RejectEarly, locals, TypeOK
<1>5. ASSUME NEW c \in Clients, Take(c) \/ AllocateSingle(c) PROVE TypeOK'
  <2>1. cursor[c] \in Addr
    BY <1>5 DEF Take, AllocateSingle, LockInv
  <2>2. Return(c, cursor[c]) /\ Unlock(c) /\ used' = used \cup {cursor[c]}
    BY <1>5 DEF Take, AllocateSingle
  <2> QED BY <2>1, <2>2, ReturnTypes, UnlockTypes DEF TypeOK
<1>6. ASSUME NEW c \in Clients, ScanFails(c) \/ SpecificFails(c) PROVE TypeOK'
  BY <1>6, ReturnTypes, UnlockTypes DEF ScanFails, SpecificFails, TypeOK
<1>7. ASSUME NEW c \in Clients, ScanHits(c) \/ SpecificHits(c) PROVE TypeOK'
  BY <1>7 DEF ScanHits, SpecificHits, TypeOK
<1>8. ASSUME NEW c \in Clients, ScanNext(c) PROVE TypeOK'
  <2>1. cursor[c] \in Addr
    BY <1>8 DEF ScanNext, TypeOK
  <2>2. IncrementIP(cursor[c]) \in Addr
    BY SMT, <2>1, AddrSpaceAssumption DEF IncrementIP, Addr, V4, V6
  <2>3. scanned[c] + 1 \in 0 .. MaxScan
    BY SMT, <1>8, MaxScanAssumption DEF ScanNext, TypeOK
  <2> QED BY <1>8, <2>2, <2>3 DEF ScanNext, TypeOK
<1>9. ASSUME NEW c \in Clients, Mark(c) PROVE TypeOK'
  <2>1. cursor[c] \in Addr
    BY <1>9 DEF Mark, LockInv
  <2> QED BY <1>9, <2>1, UnlockTypes DEF Mark, TypeOK
<1>10. ASSUME NEW c \in Clients, Release(c) PROVE TypeOK'
  BY <1>10, ReturnTypes, UnlockTypes DEF Release, TypeOK
<1> QED
  BY <1>1, <1>2, <1>3, <1>4, <1>5, <1>6, <1>7, <1>8, <1>9, <1>10 DEF Next, Body

\* A goroutine whose call and locals a step leaves alone knows what it knew.
LEMMA LockKept ==
  ASSUME LockInv, NEW d \in Clients, at[d] # "outside" => mu' = mu,
         call'[d] = call[d], at'[d] = at[d], cursor'[d] = cursor[d], scanned'[d] = scanned[d]
  PROVE  /\ at'[d] # "outside" => mu' = d /\ call'[d] # NoCall /\ PassesChecks(call'[d])
         /\ at'[d] = "inside" /\ ~Scanning(d)' => cursor'[d] = FirstIP(call'[d])
         /\ at'[d] = "outside" => scanned'[d] = 0
         /\ at'[d] # "outside" => cursor'[d] \in Addr
<1>1. Scanning(d)' <=> Scanning(d)
  BY DEF Scanning
<1> QED BY <1>1 DEF LockInv

\* Every step keeps what the goroutines inside a method know.
LEMMA LockStep == TypeOK /\ LockInv /\ [Next]_vars => LockInv'
<1> SUFFICES ASSUME TypeOK, LockInv, [Next]_vars, NEW d \in Clients
             PROVE  /\ at'[d] # "outside" => mu' = d /\ call'[d] # NoCall /\ PassesChecks(call'[d])
                    /\ at'[d] = "inside" /\ ~Scanning(d)' => cursor'[d] = FirstIP(call'[d])
                    /\ at'[d] = "outside" => scanned'[d] = 0
                    /\ at'[d] # "outside" => cursor'[d] \in Addr
  BY DEF LockInv
<1> DEFINE Goal == /\ at'[d] # "outside" => mu' = d /\ call'[d] # NoCall /\ PassesChecks(call'[d])
                   /\ at'[d] = "inside" /\ ~Scanning(d)' => cursor'[d] = FirstIP(call'[d])
                   /\ at'[d] = "outside" => scanned'[d] = 0
                   /\ at'[d] # "outside" => cursor'[d] \in Addr
           Same == call'[d] = call[d] /\ at'[d] = at[d] /\ cursor'[d] = cursor[d] /\ scanned'[d] = scanned[d]
<1> SUFFICES Goal
  OBVIOUS
<1>0. ASSUME Same, at[d] # "outside" => mu' = mu PROVE Goal
  BY <1>0, LockKept
<1> HIDE DEF Goal, Same
<1>1. CASE UNCHANGED vars
  BY <1>0, <1>1 DEF vars, locals, Same
<1>2. ASSUME NEW c \in Clients, NEW k \in Calls, Invoke(c, k) PROVE Goal
  <2>1. CASE c = d
    <3>1. at[d] = "outside"
      BY <1>2, <2>1 DEF Invoke, Atomic!Invoke, LockInv, NoCall
    <3> QED BY <1>2, <3>1 DEF Invoke, locals, Goal, LockInv
  <2>2. CASE c # d
    BY <1>0, <1>2, <2>2 DEF Invoke, Atomic!Invoke, locals, Same, TypeOK
  <2> QED BY <2>1, <2>2
<1>3. ASSUME NEW c \in Clients, Lock(c) PROVE Goal
  <2>1. CASE c = d
    <3>1. FirstIP(call[d]) \in Addr
      BY <1>3, <2>1, FirstInAddr DEF Lock, TypeOK
    <3> QED BY <1>3, <2>1, <3>1 DEF Lock, Goal, TypeOK
  <2>2. CASE c # d
    <3>1. at[d] = "outside"
      BY <1>3, NobodyAssumption DEF Lock, LockInv
    <3> QED BY <1>0, <1>3, <2>2, <3>1 DEF Lock, Same, TypeOK
  <2> QED BY <2>1, <2>2
<1>4. ASSUME NEW c \in Clients, RejectEarly(c) PROVE Goal
  <2>1. CASE c = d
    BY <1>4, <2>1 DEF RejectEarly, locals, Goal, LockInv
  <2>2. CASE c # d
    BY <1>0, <1>4, <2>2 DEF RejectEarly, Return, locals, Same, TypeOK
  <2> QED BY <2>1, <2>2
<1>5. ASSUME NEW c \in Clients, ScanHits(c) \/ SpecificHits(c) PROVE Goal
  <2>1. CASE c = d
    <3>1. at[d] = "inside" /\ at'[d] = "found" /\ mu' = mu /\ call' = call /\ cursor' = cursor
      BY <1>5, <2>1 DEF ScanHits, SpecificHits, Scanning, TypeOK
    <3> QED BY <3>1 DEF Goal, LockInv
  <2>2. CASE c # d
    BY <1>0, <1>5, <2>2 DEF ScanHits, SpecificHits, Same, TypeOK
  <2> QED BY <2>1, <2>2
<1>6. ASSUME NEW c \in Clients, ScanNext(c) PROVE Goal
  <2>1. CASE c = d
    <3>1. at'[d] = "inside" /\ mu' = mu /\ call' = call /\ Scanning(d)'
      BY <1>6, <2>1 DEF ScanNext, Scanning
    <3>2. at[d] = "inside" /\ cursor[d] \in Addr /\ cursor'[d] = IncrementIP(cursor[d])
      BY <1>6, <2>1 DEF ScanNext, Scanning, LockInv, TypeOK
    <3>3. IncrementIP(cursor[d]) \in Addr
      BY SMT, <3>2, AddrSpaceAssumption DEF IncrementIP, Addr, V4, V6
    <3> QED BY <3>1, <3>2, <3>3 DEF Goal, LockInv
  <2>2. CASE c # d
    BY <1>0, <1>6, <2>2 DEF ScanNext, Same, TypeOK
  <2> QED BY <2>1, <2>2
<1>7. ASSUME NEW c \in Clients, Unlock(c), at[c] # "outside", \A e \in Clients \ {c} : call'[e] = call[e]
      PROVE  Goal
  <2>1. CASE c = d
    BY <1>7, <2>1 DEF Unlock, Goal, TypeOK
  <2>2. CASE c # d
    <3>1. at[d] = "outside"
      BY <1>7, <2>2, Alone
    <3> QED BY <1>0, <1>7, <2>2, <3>1 DEF Unlock, Same, TypeOK
  <2> QED BY <2>1, <2>2
<1>8. ASSUME NEW c \in Clients,
             Take(c) \/ AllocateSingle(c) \/ ScanFails(c) \/ SpecificFails(c) \/ Mark(c) \/ Release(c)
      PROVE  Goal
  <2>1. Unlock(c) /\ at[c] # "outside" /\ call' = [call EXCEPT ![c] = NoCall]
    BY <1>8 DEF Take, AllocateSingle, ScanFails, Scanning, SpecificFails, Mark, Release, Return
  <2> QED BY <1>7, <2>1 DEF TypeOK
<1> QED BY <1>1, <1>2, <1>3, <1>4, <1>5, <1>6, <1>8 DEF Next, Body

-----------------------------------------------------------------------------
(* The loop of AllocateIP.                                                 *)

\* The range a goroutine scans parses, and starts at an address.
LEMMA ScannedRange ==
  ASSUME TypeOK, LockInv, NEW c \in Clients, Scanning(c)
  PROVE  /\ call[c] \in Calls /\ call[c].op = "allocate" /\ call[c].range \in Ranges
         /\ ParseIPRange(call[c].range).ok
         /\ ParseIPRange(call[c].range).start \in Addr
         /\ ParseIPRange(call[c].range).end \in Int
<1>1. call[c] \in Calls /\ call[c].op = "allocate"
  BY DEF Scanning, LockInv, TypeOK
<1>2. ParseIPRange(call[c].range).ok
  BY <1>1 DEF Scanning, LockInv, PassesChecks
<1> QED BY <1>1, <1>2, CallFields, ParsedStart

\* The addresses in use change only where a goroutine leaves its method, and
\* the call and the locals of a goroutine inside one only by its own step.
LEMMA OthersKeep ==
  ASSUME TypeOK, LockInv, [Next]_vars, NEW c \in Clients, at[c] # "outside"
  PROVE  \/ used' = used /\ call'[c] = call[c] /\ at'[c] = at[c] /\ cursor'[c] = cursor[c] /\ scanned'[c] = scanned[c]
         \/ ScanHits(c) \/ ScanNext(c) \/ SpecificHits(c)
         \/ at'[c] = "outside"
<1> DEFINE Same == used' = used /\ call'[c] = call[c] /\ at'[c] = at[c] /\ cursor'[c] = cursor[c] /\ scanned'[c] = scanned[c]
<1>1. CASE UNCHANGED vars
  BY <1>1 DEF vars, locals
<1>2. ASSUME NEW d \in Clients, NEW k \in Calls, Invoke(d, k) PROVE Same
  <2>1. d # c
    BY <1>2 DEF Invoke, Atomic!Invoke, LockInv, NoCall
  <2> QED BY <1>2, <2>1 DEF Invoke, Atomic!Invoke, locals, TypeOK
<1>3. ASSUME NEW d \in Clients, RejectEarly(d) PROVE Same
  <2>1. d # c
    BY <1>3 DEF RejectEarly
  <2> QED BY <1>3, <2>1 DEF RejectEarly, Return, locals, TypeOK
<1>4. ASSUME NEW d \in Clients, Lock(d) PROVE FALSE
  BY <1>4, NobodyAssumption DEF Lock, LockInv
<1>5. ASSUME NEW d \in Clients, Body(d), ~RejectEarly(d) PROVE d = c
  <2>1. at[d] # "outside"
    BY <1>5 DEF Body, Take, AllocateSingle, ScanFails, ScanHits, ScanNext, Scanning,
                SpecificHits, SpecificFails, Mark, Release
  <2> QED BY <2>1, Alone
<1>6. ASSUME Take(c) \/ AllocateSingle(c) \/ ScanFails(c) \/ SpecificFails(c) \/ Mark(c) \/ Release(c)
      PROVE  at'[c] = "outside"
  BY <1>6 DEF Take, AllocateSingle, ScanFails, SpecificFails, Mark, Release, Unlock, TypeOK
<1> QED BY <1>1, <1>2, <1>3, <1>4, <1>5, <1>6 DEF Next, Body

\* Every step keeps what the loop knows at the top of each turn.
LEMMA ScanStep == TypeOK /\ LockInv /\ ScanInv /\ [Next]_vars => ScanInv'
<1> SUFFICES ASSUME TypeOK, LockInv, ScanInv, [Next]_vars,
                    NEW c \in Clients, Scanning(c)'
             PROVE  LET p == ParseIPRange(call'[c].range)
                    IN  /\ cursor'[c] = NthIP(p.start, scanned'[c])
                        /\ \A j \in 0 .. (scanned'[c] - 1) : NthIP(p.start, j) <= p.end /\ NthIP(p.start, j) \in used'
  BY DEF ScanInv
<1> DEFINE p  == ParseIPRange(call[c].range)
           pp == ParseIPRange(call'[c].range)
           Goal == /\ cursor'[c] = NthIP(pp.start, scanned'[c])
                   /\ \A j \in 0 .. (scanned'[c] - 1) : NthIP(pp.start, j) <= pp.end /\ NthIP(pp.start, j) \in used'
<1>0. at'[c] = "inside" /\ call'[c].op = "allocate" /\ pp.start # pp.end
  BY DEF Scanning
<1>1. CASE at[c] = "outside"
  <2>1. Lock(c)
    <3>1. ASSUME NEW d \in Clients, Next, d # c, at'[c] # at[c] PROVE ~Lock(d) /\ ~Body(d)
      BY <3>1 DEF Lock, Body, RejectEarly, Take, AllocateSingle, ScanFails, ScanHits, ScanNext,
                  SpecificHits, SpecificFails, Mark, Release, Unlock, locals, TypeOK
    <3>2. ~Body(c)
      BY <1>0, <1>1 DEF Body, RejectEarly, Take, AllocateSingle, ScanFails, ScanHits, ScanNext,
                  Scanning, SpecificHits, SpecificFails, Mark, Release, locals
    <3>3. at'[c] # at[c] /\ ~(UNCHANGED vars) /\ \A d \in Clients, k \in Calls : ~Invoke(d, k)
      BY <1>0, <1>1 DEF vars, locals, Invoke
    <3> QED BY <3>1, <3>2, <3>3 DEF Next
  <2>2. call'[c] = call[c] /\ call[c].op = "allocate" /\ scanned'[c] = 0 /\ cursor'[c] = p.start
    BY <1>0, <1>1, <2>1 DEF Lock, LockInv, FirstIP, TypeOK
  <2>3. call[c] \in Calls /\ p.ok
    BY <2>1, <2>2 DEF Lock, PassesChecks, TypeOK
  <2>4. p.start \in Addr
    BY <2>2, <2>3, CallFields, ParsedStart
  <2> QED BY SMT, <2>2, <2>4, NthFirst
<1>2. CASE at[c] # "outside"
  <2>1. ASSUME used' = used, call'[c] = call[c], at'[c] = at[c], cursor'[c] = cursor[c], scanned'[c] = scanned[c]
        PROVE  Goal
    <3>1. Scanning(c)
      BY <1>0, <2>1 DEF Scanning
    <3> QED BY <2>1, <3>1 DEF ScanInv
  <2>2. ASSUME ScanNext(c) PROVE Goal
    <3>1. call' = call /\ used' = used /\ Scanning(c)
      BY <2>2 DEF ScanNext
    <3>2. /\ cursor[c] = NthIP(p.start, scanned[c]) /\ scanned[c] \in Nat
          /\ \A j \in 0 .. (scanned[c] - 1) : NthIP(p.start, j) <= p.end /\ NthIP(p.start, j) \in used
      BY SMT, <3>1 DEF ScanInv, TypeOK
    <3>3. p.start \in Addr
      BY <3>1, ScannedRange
    <3>4. cursor'[c] = NthIP(p.start, scanned[c] + 1)
      BY <2>2, <3>2, <3>3, NthNext DEF ScanNext, TypeOK
    <3>5. scanned'[c] = scanned[c] + 1 /\ cursor[c] <= p.end /\ cursor[c] \in used
      BY <2>2 DEF ScanNext, TypeOK
    <3>6. ASSUME NEW j \in 0 .. (scanned'[c] - 1)
          PROVE  NthIP(p.start, j) <= p.end /\ NthIP(p.start, j) \in used
      <4>1. j = scanned[c] \/ j \in 0 .. (scanned[c] - 1)
        BY SMT, <3>2, <3>5, <3>6
      <4> QED BY <3>2, <3>5, <4>1
    <3> QED BY <3>1, <3>4, <3>5, <3>6
  <2>3. ~ScanHits(c) /\ ~SpecificHits(c)
    BY <1>0 DEF ScanHits, SpecificHits, TypeOK
  <2> QED BY <1>0, <1>2, <2>1, <2>2, <2>3, OthersKeep
<1> QED BY <1>1, <1>2

\* The types and the invariants of the loop hold in a new allocator.
LEMMA ScanInit == Init => TypeOK /\ LockInv /\ ScanInv
<1> SUFFICES ASSUME Init PROVE TypeOK /\ LockInv /\ ScanInv
  OBVIOUS
<1>1. /\ used = {} /\ call = [c \in Clients |-> NoCall] /\ result = [c \in Clients |-> NoIP]
      /\ mu = Nobody /\ at = [c \in Clients |-> "outside"]
      /\ cursor = [c \in Clients |-> NoIP] /\ scanned = [c \in Clients |-> 0]
  BY SameData DEF Init, Atomic!Init, NoCall, Atomic!NoCall
<1>2. TypeOK
  BY SMT, <1>1, MaxScanAssumption DEF TypeOK
<1>3. LockInv /\ ScanInv
  BY <1>1 DEF LockInv, ScanInv, Scanning
<1> QED BY <1>2, <1>3

\* At the top of each turn the loop stands on the address of that turn and
\* has found the earlier ones in use, whatever other goroutines do.
THEOREM ScanInvariant == Spec => [](TypeOK /\ LockInv /\ ScanInv)
<1>1. TypeOK /\ LockInv /\ ScanInv /\ [Next]_vars => (TypeOK /\ LockInv /\ ScanInv)'
  BY ScanTypeStep, LockStep, ScanStep
<1> QED BY <1>1, ScanInit, PTL DEF Spec

-----------------------------------------------------------------------------
(* What the lookup has found.                                              *)

\* ip is an address of r, or r ends at the top of its family and all of it is
\* in u.
InRangeOrFull(ip, r, u) ==
  \/ IPAllocatable(ip, r)
  \/ EndsAtTop(r) /\ \A a \in Addr : IPAllocatable(a, r) => a \in u

\* Until the end of the family the turns of the scan look at one address
\* after the other.
LEMMA NthNear ==
  ASSUME NEW start \in Addr, NEW k \in Nat,
         start + k < (IF IsV4(start) THEN AddrSpace ELSE 2 * AddrSpace)
  PROVE  NthIP(start, k) = start + k
<1> USE AddrSpaceAssumption
<1>1. CASE IsV4(start)
  <2>1. start + k \in 0 .. (AddrSpace - 1)
    BY SMT, <1>1 DEF Addr, V4, V6
  <2> QED BY <1>1, <2>1, ModSmall DEF NthIP
<1>2. CASE ~IsV4(start)
  <2> DEFINE x == start - AddrSpace + k
  <2>1. x \in 0 .. (AddrSpace - 1) /\ AddrSpace + x = start + k
    BY SMT, <1>2 DEF IsV4, Addr, V4, V6
  <2>2. NthIP(start, k) = AddrSpace + (x % AddrSpace)
    BY <1>2 DEF NthIP
  <2> HIDE DEF x
  <2>3. x % AddrSpace = x
    BY <2>1, ModSmall
  <2> QED BY <2>1, <2>2, <2>3
<1> QED BY <1>1, <1>2

\* A scan that is not past the end stands on an address of the range, unless
\* it has come around from the top and found all of the range in use.
LEMMA ScanStays ==
  ASSUME NEW r \in Ranges, ParseIPRange(r).ok, NEW u, NEW k \in Nat,
         NthIP(ParseIPRange(r).start, k) <= ParseIPRange(r).end,
         \A j \in 0 .. (k - 1) : /\ NthIP(ParseIPRange(r).start, j) <= ParseIPRange(r).end
                                 /\ NthIP(ParseIPRange(r).start, j) \in u
  PROVE  InRangeOrFull(NthIP(ParseIPRange(r).start, k), r, u)
<1> USE AddrSpaceAssumption
<1> DEFINE s == ParseIPRange(r).start
           e == ParseIPRange(r).end
           top == IF IsV4(s) THEN AddrSpace - 1 ELSE 2 * AddrSpace - 1
<1>1. \/ s \in V4 /\ e \in V4
      \/ s \in V6 /\ e \in V6
  BY ParsedEnd
<1>2. NthIP(s, k) <= e /\ \A j \in 0 .. (k - 1) : NthIP(s, j) <= e /\ NthIP(s, j) \in u
  OBVIOUS
<1>3. \A ip : IPAllocatable(ip, r) <=> ip # NoIP /\ s <= ip /\ ip <= e
  BY DEF IPAllocatable
<1>4. EndsAtTop(r) <=> e \in {AddrSpace - 1, 2 * AddrSpace - 1}
  BY DEF EndsAtTop
<1> HIDE DEF s, e
<1>5. s \in Addr /\ s \in Nat /\ e \in Nat /\ top \in Nat /\ s <= top /\ e <= top
  BY SMT, <1>1 DEF Addr, V4, V6, IsV4
<1>6. \A j \in Nat : s + j <= top => NthIP(s, j) = s + j
  BY SMT, <1>5, NthNear
<1>7. CASE s + k <= top
  <2>1. NthIP(s, k) = s + k /\ s + k \in Nat
    BY SMT, <1>5, <1>6, <1>7
  <2>2. IPAllocatable(s + k, r)
    BY SMT, <1>2, <1>3, <1>5, <2>1 DEF NoIP
  <2> QED BY <2>1, <2>2 DEF InRangeOrFull, s
<1>8. CASE ~(s + k <= top)
  <2>1. ASSUME NEW a \in s .. top PROVE a <= e /\ a \in u
    <3>1. a - s \in 0 .. (k - 1) /\ a - s \in Nat /\ s + (a - s) = a
      BY SMT, <1>5, <1>8, <2>1
    <3>2. NthIP(s, a - s) = a
      BY SMT, <1>5, <1>6, <2>1, <3>1
    <3> QED BY <1>2, <3>1, <3>2
  <2>2. e = top
    <3>1. top \in s .. top
      BY SMT, <1>5
    <3>2. top <= e
      BY <2>1, <3>1
    <3> QED BY SMT, <1>5, <3>2
  <2>3. EndsAtTop(r)
    BY <1>4, <2>2
  <2>4. \A a \in Addr : IPAllocatable(a, r) => a \in u
    <3> SUFFICES ASSUME NEW a \in Addr, IPAllocatable(a, r) PROVE a \in u
      OBVIOUS
    <3>1. a \in Nat /\ s <= a /\ a <= e
      BY <1>3, AddrNat
    <3>2. a \in s .. top
      BY SMT, <1>5, <2>2, <3>1
    <3> QED BY <2>1, <3>2
  <2> QED BY <2>3, <2>4 DEF InRangeOrFull
<1> QED BY <1>7, <1>8

\* The address on which the loop stops is the one AllocateIP is specified to
\* answer.
LEMMA HitIsAnswer ==
  ASSUME TypeOK, LockInv, ScanInv, NEW c \in Clients, ScanHits(c)
  PROVE  /\ AllocateIP(used, call[c].range) = cursor[c]
         /\ InRangeOrFull(cursor[c], call[c].range, used)
<1> DEFINE p == ParseIPRange(call[c].range)
           f == FreeTurns(used, p.start, p.end)
           n == scanned[c]
<1>1. call[c].range \in Ranges /\ p.ok /\ p.start # p.end /\ p.start \in Addr /\ p.end \in Int
  BY ScannedRange DEF ScanHits, Scanning
<1>2. /\ cursor[c] = NthIP(p.start, n) /\ n \in Nat /\ n < MaxScan
      /\ cursor[c] <= p.end /\ cursor[c] \notin used
      /\ \A j \in 0 .. (n - 1) : NthIP(p.start, j) <= p.end /\ NthIP(p.start, j) \in used
  BY SMT DEF ScanHits, ScanInv, TypeOK
<1> HIDE DEF n
<1>3. \A j \in 0 .. n : NthIP(p.start, j) <= p.end
  <2> TAKE j \in 0 .. n
  <2>1. j = n \/ j \in 0 .. (n - 1)
    BY SMT, <1>2
  <2> QED BY <1>2, <2>1
<1>4. n \in f
  BY SMT, <1>2, <1>3, MaxScanAssumption DEF FreeTurns
<1>5. f \in SUBSET Nat
  BY SMT DEF FreeTurns
<1>6. \A k \in f : k >= n
  <2> SUFFICES ASSUME NEW k \in f, k < n PROVE FALSE
    BY SMT, <1>2, <1>5
  <2>1. k \in 0 .. (n - 1) /\ NthIP(p.start, k) \notin used
    BY SMT, <1>2, <1>5 DEF FreeTurns
  <2> QED BY <1>2, <2>1
<1>7. Min(f) = n
  <2> HIDE DEF f
  <2>1. Min(f) \in f /\ \A y \in f : Min(f) <= y
    BY <1>4, <1>5, MinIn
  <2> DEFINE m == Min(f)
  <2>2. m \in Nat /\ m <= n /\ m >= n
    BY <1>4, <1>5, <1>6, <2>1, Zenon
  <2> HIDE DEF m
  <2>3. m = n
    BY SMT, <1>2, <2>2
  <2> QED BY <2>3 DEF m
<1>8. AllocateIP(used, call[c].range) = NthIP(p.start, Min(f))
  <2>1. f # {}
    BY <1>4
  <2> QED BY <1>1, <2>1, Zenon DEF AllocateIP
<1>9. InRangeOrFull(NthIP(p.start, n), call[c].range, used)
  <2>1. NthIP(p.start, n) <= p.end
    BY <1>2
  <2> QED BY <1>1, <1>2, <2>1, ScanStays, Zenon
<1> QED BY <1>2, <1>7, <1>8, <1>9

\* A goroutine that has found an address stands on one that is free and that
\* the method is specified to answer.
FoundInv ==
  \A c \in Clients : at[c] = "found" =>
    /\ call[c].op \in {"allocate", "specific"}
    /\ cursor[c] \notin used
    /\ call[c].op = "allocate" => /\ AllocateIP(used, call[c].range) = cursor[c]
                                  /\ InRangeOrFull(cursor[c], call[c].range, used)
    /\ call[c].op = "specific" => cursor[c] = call[c].ip

\* Every step keeps what has been found.
LEMMA FoundStep == TypeOK /\ LockInv /\ ScanInv /\ FoundInv /\ [Next]_vars => FoundInv'
<1> SUFFICES ASSUME TypeOK, LockInv, ScanInv, FoundInv, [Next]_vars,
                    NEW c \in Clients, at'[c] = "found"
             PROVE  /\ call'[c].op \in {"allocate", "specific"}
                    /\ cursor'[c] \notin used'
                    /\ call'[c].op = "allocate" => /\ AllocateIP(used', call'[c].range) = cursor'[c]
                                                   /\ InRangeOrFull(cursor'[c], call'[c].range, used')
                    /\ call'[c].op = "specific" => cursor'[c] = call'[c].ip
  BY DEF FoundInv
<1>1. at[c] # "outside"
  <2> SUFFICES ASSUME at[c] = "outside" PROVE FALSE
    OBVIOUS
  <2>1. ASSUME NEW d \in Clients PROVE ~Lock(d)
    BY <2>1 DEF Lock, TypeOK
  <2>2. ASSUME NEW d \in Clients PROVE ~Body(d)
    BY <2>2 DEF Body, RejectEarly, Take, AllocateSingle, ScanFails, ScanHits, ScanNext, Scanning,
                SpecificHits, SpecificFails, Mark, Release, Unlock, locals, TypeOK
  <2>3. ~(UNCHANGED vars) /\ \A d \in Clients, k \in Calls : ~Invoke(d, k)
    BY DEF vars, locals, Invoke
  <2> QED BY <2>1, <2>2, <2>3 DEF Next
<1>2. CASE used' = used /\ call'[c] = call[c] /\ at'[c] = at[c] /\ cursor'[c] = cursor[c]
  BY <1>2 DEF FoundInv
<1>3. CASE ScanHits(c)
  BY <1>3, HitIsAnswer, Zenon DEF ScanHits, Scanning
<1>4. CASE SpecificHits(c)
  <2>1. cursor[c] = call[c].ip
    BY <1>4 DEF SpecificHits, LockInv, Scanning, FirstIP
  <2> QED BY <1>4, <2>1 DEF SpecificHits
<1>5. ~ScanNext(c)
  BY DEF ScanNext, Scanning
<1> QED BY <1>1, <1>2, <1>3, <1>4, <1>5, OthersKeep

-----------------------------------------------------------------------------
(* Who holds an address.                                                   *)

\* What a client holds is marked in use or shared, a client releases what it
\* holds, and nothing is held twice unless it is shared.
HeldInv ==
  /\ \A c \in Clients : result[c] # NoIP => result[c] \in used \cup Shared
  /\ \A c \in Clients : call[c].op = "release" => call[c].ip = result[c]
  /\ Exclusive

\* Answering an address nobody holds unless it is shared keeps HeldInv.
LEMMA ReturnHeld ==
  ASSUME TypeOK, HeldInv, NEW c \in Clients, NEW i \in Addr \cup {NoIP}, Return(c, i),
         used' = MarkUsed(used, i), i = NoIP \/ i \notin used \/ i \in Shared
  PROVE  HeldInv'
<1>1. \A d \in Clients : result'[d] = IF d = c THEN i ELSE result[d]
  BY DEF Return, TypeOK
<1>2. used \subseteq used' /\ (i # NoIP => i \in used')
  BY DEF MarkUsed
<1>3. \A d \in Clients : call'[d] = IF d = c THEN NoCall ELSE call[d]
  BY DEF Return, TypeOK
<1>4. NoCall.op # "release"
  BY DEF NoCall, Atomic!NoCall
<1>5. \A d \in Clients : result'[d] # NoIP => result'[d] \in used' \cup Shared
  BY <1>1, <1>2 DEF HeldInv
<1>6. \A d \in Clients : call'[d].op = "release" => call'[d].ip = result'[d]
  BY <1>1, <1>3, <1>4 DEF HeldInv
<1>7. \A d, e \in Clients : d # e /\ result'[d] # NoIP /\ result'[d] = result'[e]
                              => result'[d] \in Shared
  BY <1>1 DEF HeldInv, Exclusive
<1> QED BY <1>5, <1>6, <1>7, Zenon DEF HeldInv, Exclusive, Shared

\* Every step keeps HeldInv.
LEMMA HeldStep == TypeOK /\ LockInv /\ FoundInv /\ HeldInv /\ [Next]_vars => HeldInv'
<1> SUFFICES ASSUME TypeOK, LockInv, FoundInv, HeldInv, [Next]_vars PROVE HeldInv'
  OBVIOUS
<1>1. CASE UNCHANGED vars
  BY <1>1 DEF vars, HeldInv, Exclusive, Shared
<1>2. ASSUME NEW c \in Clients, NEW k \in Calls, Invoke(c, k) PROVE HeldInv'
  <2>1. used' = used /\ result' = result /\ \A d \in Clients : call'[d] = IF d = c THEN k ELSE call[d]
    BY <1>2 DEF Invoke, Atomic!Invoke, TypeOK
  <2>2. k.op = "release" => k.ip = result[c]
    BY <1>2 DEF Invoke, Atomic!Invoke, Atomic!MayCall
  <2>3. \A d \in Clients : call'[d].op = "release" => call'[d].ip = result'[d]
    BY <2>1, <2>2 DEF HeldInv
  <2> QED BY <2>1, <2>3 DEF HeldInv, Exclusive, Shared
<1>3. ASSUME NEW c \in Clients, Lock(c) \/ ScanNext(c) \/ ScanHits(c) \/ SpecificHits(c)
      PROVE  HeldInv'
  BY <1>3 DEF Lock, ScanNext, ScanHits, SpecificHits, HeldInv, Exclusive, Shared
<1>4. ASSUME NEW c \in Clients, RejectEarly(c) \/ ScanFails(c) \/ SpecificFails(c) PROVE HeldInv'
  <2>1. Return(c, NoIP) /\ used' = MarkUsed(used, NoIP)
    BY <1>4 DEF RejectEarly, ScanFails, SpecificFails, MarkUsed
  <2> QED BY <2>1, ReturnHeld
<1>5. ASSUME NEW c \in Clients, AllocateSingle(c) PROVE HeldInv'
  <2>1. call[c] \in Calls /\ ParseIPRange(call[c].range).ok
    BY <1>5, InsideCall DEF AllocateSingle, PassesChecks
  <2>2. call[c].range \in CallRanges
    BY <1>5, <2>1, CallFields DEF AllocateSingle
  <2>3. cursor[c] = ParseIPRange(call[c].range).start /\ cursor[c] \in Addr
    BY <1>5 DEF AllocateSingle, Scanning, LockInv, FirstIP
  <2>4. cursor[c] \in Shared
    BY <1>5, <2>1, <2>2, <2>3, Zenon DEF AllocateSingle, Shared
  <2>5. used' = MarkUsed(used, cursor[c])
    BY <1>5, <2>3, AddrNat DEF AllocateSingle, MarkUsed
  <2> QED BY <1>5, <2>3, <2>4, <2>5, ReturnHeld DEF AllocateSingle
<1>6. ASSUME NEW c \in Clients, Take(c) PROVE HeldInv'
  <2>1. cursor[c] \in Addr /\ cursor[c] \notin used
    BY <1>6 DEF Take, LockInv, FoundInv
  <2>2. used' = MarkUsed(used, cursor[c])
    BY <1>6, <2>1, AddrNat DEF Take, MarkUsed
  <2> QED BY <1>6, <2>1, <2>2, ReturnHeld DEF Take
<1>7. ASSUME NEW c \in Clients, Mark(c) PROVE HeldInv'
  <2>1. /\ used \subseteq used' /\ result' = result
        /\ \A d \in Clients : call'[d] = IF d = c THEN NoCall ELSE call[d]
    BY <1>7 DEF Mark, TypeOK
  <2>2. NoCall.op # "release"
    BY DEF NoCall, Atomic!NoCall
  <2>3. \A d \in Clients : call'[d].op = "release" => call'[d].ip = result'[d]
    BY <2>1, <2>2 DEF HeldInv
  <2> QED BY <2>1, <2>3 DEF HeldInv, Exclusive, Shared
<1>8. ASSUME NEW c \in Clients, Release(c) PROVE HeldInv'
  <2>0. cursor[c] = call[c].ip /\ call[c].ip = result[c]
    BY <1>8 DEF Release, Scanning, LockInv, FirstIP, HeldInv
  <2>1. /\ used' = used \ {call[c].ip} /\ call[c].ip = result[c]
        /\ \A d \in Clients : call'[d] = IF d = c THEN NoCall ELSE call[d]
        /\ \A d \in Clients : result'[d] = IF d = c THEN NoIP ELSE result[d]
    BY <1>8, <2>0 DEF Release, Return, TypeOK
  <2>2. NoCall.op # "release"
    BY DEF NoCall, Atomic!NoCall
  <2>3. \A d \in Clients : call'[d].op = "release" => call'[d].ip = result'[d]
    BY <2>1, <2>2 DEF HeldInv
  <2>4. \A d \in Clients : result'[d] # NoIP => result'[d] \in used' \cup Shared
    BY <2>1 DEF HeldInv, Exclusive
  <2>5. \A d, e \in Clients : d # e /\ result'[d] # NoIP /\ result'[d] = result'[e]
                                => result'[d] \in Shared
    BY <2>1 DEF HeldInv, Exclusive
  <2> QED BY <2>3, <2>4, <2>5, Zenon DEF HeldInv, Exclusive, Shared
<1> QED
  BY <1>1, <1>2, <1>3, <1>4, <1>5, <1>6, <1>7, <1>8 DEF Next, Body

\* An address is held by one client at a time, however the goroutines that
\* call AllocateIP, AllocateSpecificIP, MarkUsed and ReleaseIP interleave,
\* unless it comes from a range of one address.
THEOREM HeldByOne == Spec => []Exclusive
<1> DEFINE I == TypeOK /\ LockInv /\ ScanInv /\ FoundInv /\ HeldInv
<1>1. Init => I
  <2> SUFFICES ASSUME Init PROVE FoundInv /\ HeldInv
    BY ScanInit
  <2>1. call = [c \in Clients |-> NoCall] /\ result = [c \in Clients |-> NoIP] /\ at = [c \in Clients |-> "outside"]
    BY SameData DEF Init, Atomic!Init, NoCall, Atomic!NoCall
  <2>2. NoCall.op # "release"
    BY DEF NoCall, Atomic!NoCall
  <2> QED BY <2>1, <2>2 DEF FoundInv, HeldInv, Exclusive
<1>2. I /\ [Next]_vars => I'
  BY ScanTypeStep, LockStep, ScanStep, FoundStep, HeldStep
<1>3. I => Exclusive
  BY DEF HeldInv
<1> QED BY <1>1, <1>2, <1>3, PTL DEF Spec

-----------------------------------------------------------------------------
(* The scan stays in its range.                                            *)

\* What a step hands out lies in the range of the call, or the range ends at
\* the top of its family and is full.
LEMMA RangeStep ==
  TypeOK /\ LockInv /\ FoundInv /\ [Next]_vars =>
    \A c \in Clients : result'[c] \notin {NoIP, result[c]} => InRangeOrFull(result'[c], call[c].range, used)
<1> SUFFICES ASSUME TypeOK, LockInv, FoundInv, [Next]_vars,
                    NEW c \in Clients, result'[c] \notin {NoIP, result[c]}
             PROVE  InRangeOrFull(result'[c], call[c].range, used)
  OBVIOUS
<1>1. Take(c) \/ AllocateSingle(c)
  <2>1. ASSUME UNCHANGED vars \/ (\E d \in Clients : Lock(d) \/ ScanHits(d) \/ ScanNext(d) \/ SpecificHits(d) \/ Mark(d)
                                                      \/ \E k \in Calls : Invoke(d, k))
        PROVE  FALSE
    BY <2>1 DEF vars, Lock, ScanHits, ScanNext, SpecificHits, Mark, Invoke, Atomic!Invoke
  <2>2. ASSUME NEW d \in Clients, RejectEarly(d) \/ ScanFails(d) \/ SpecificFails(d) \/ Release(d) PROVE FALSE
    BY <2>2 DEF RejectEarly, ScanFails, SpecificFails, Release, Return, TypeOK
  <2>3. ASSUME NEW d \in Clients, Take(d) \/ AllocateSingle(d) PROVE d = c
    BY <2>3 DEF Take, AllocateSingle, Return, TypeOK
  <2> QED BY <2>1, <2>2, <2>3 DEF Next, Body
<1>2. result'[c] = cursor[c] /\ cursor[c] \in Addr /\ call[c] \in Calls /\ PassesChecks(call[c])
  <2>1. at[c] # "outside" /\ Return(c, cursor[c])
    BY <1>1 DEF Take, AllocateSingle
  <2> QED BY <2>1, InsideCall DEF Return, LockInv, TypeOK
<1>3. CASE AllocateSingle(c)
  <2>1. cursor[c] = ParseIPRange(call[c].range).start /\ cursor[c] = ParseIPRange(call[c].range).end
    BY <1>3 DEF AllocateSingle, Scanning, LockInv, FirstIP
  <2>2. ParseIPRange(call[c].range).ok /\ cursor[c] \in Nat /\ cursor[c] # NoIP
    BY <1>2, <1>3, AddrNat DEF AllocateSingle, PassesChecks
  <2>3. IPAllocatable(cursor[c], call[c].range)
    BY SMT, <2>1, <2>2 DEF IPAllocatable
  <2> QED BY <1>2, <2>3 DEF InRangeOrFull
<1>4. CASE Take(c)
  <2>1. CASE call[c].op = "allocate"
    BY <1>2, <1>4, <2>1 DEF Take, FoundInv
  <2>2. CASE call[c].op = "specific"
    BY <1>2, <1>4, <2>2 DEF Take, FoundInv, PassesChecks, InRangeOrFull
  <2> QED BY <1>4, <2>1, <2>2 DEF Take, FoundInv
<1> QED BY <1>1, <1>3, <1>4

\* AllocateIP and AllocateSpecificIP hand out only addresses of the range they
\* were given, with one exception: the scan of a full range that ends at the
\* last address of its family goes on at the first one.
THEOREM HandedOutFromRange == Spec => FromRange
<1> DEFINE I == TypeOK /\ LockInv /\ ScanInv /\ FoundInv
<1>1. Init => I
  <2> SUFFICES ASSUME Init PROVE FoundInv
    BY ScanInit
  <2> QED BY DEF Init, FoundInv
<1>2. I /\ [Next]_vars => I'
  BY ScanTypeStep, LockStep, ScanStep, FoundStep
<1>3. I /\ [Next]_vars =>
        [\A c \in Clients : result'[c] \notin {NoIP, result[c]} =>
           \/ IPAllocatable(result'[c], call[c].range)
           \/ EndsAtTop(call[c].range) /\ \A a \in Addr : IPAllocatable(a, call[c].range) => a \in used]_vars
  BY RangeStep DEF InRangeOrFull
<1> QED BY <1>1, <1>2, <1>3, PTL DEF Spec, FromRange

-----------------------------------------------------------------------------
(* The code implements the atomic allocator.                               *)

\* The methods answer the same in both specifications.
LEMMA SameMethods ==
  /\ \A u, r : Atomic!AllocateIP(u, r) = AllocateIP(u, r)
  /\ \A u, r, i : Atomic!AllocateSpecificIP(u, r, i) = AllocateSpecificIP(u, r, i)
  /\ \A u, i : Atomic!MarkUsed(u, i) = MarkUsed(u, i)
  /\ \A u, i : Atomic!ReleaseIP(u, i) = ReleaseIP(u, i)
<1>1. ASSUME NEW r PROVE Atomic!ParseIPRange(r) = ParseIPRange(r)
  BY Zenon DEF Atomic!ParseIPRange, ParseIPRange, Atomic!IsV4, IsV4,
               Atomic!CIDRFirst, CIDRFirst, Atomic!CIDRLast, CIDRLast,
               Atomic!IncrementIP, IncrementIP, Atomic!DecrementIP, DecrementIP
<1>2. ASSUME NEW s, NEW k PROVE Atomic!NthIP(s, k) = NthIP(s, k)
  BY Zenon DEF Atomic!NthIP, NthIP, Atomic!IsV4, IsV4
<1>3. ASSUME NEW S PROVE Atomic!Min(S) = Min(S)
  BY Zenon DEF Atomic!Min, Min
<1>4. ASSUME NEW u, NEW s, NEW e PROVE Atomic!FreeTurns(u, s, e) = FreeTurns(u, s, e)
  BY Zenon DEF Atomic!FreeTurns, FreeTurns, Atomic!NthIP, NthIP, Atomic!IsV4, IsV4
<1>5. ASSUME NEW u, NEW r PROVE Atomic!AllocateIP(u, r) = AllocateIP(u, r)
  <2> DEFINE p == ParseIPRange(r)
             f == FreeTurns(u, p.start, p.end)
  <2>1. Atomic!ParseIPRange(r) = p /\ Atomic!FreeTurns(u, p.start, p.end) = f
        /\ Atomic!NthIP(p.start, Min(f)) = NthIP(p.start, Min(f))
        /\ Atomic!Min(f) = Min(f) /\ Atomic!NoIP = NoIP
    BY <1>1, <1>2, <1>3, <1>4, SameData, Zenon
  <2> QED BY <2>1, Zenon DEF Atomic!AllocateIP, AllocateIP
<1>6. ASSUME NEW u, NEW r, NEW i PROVE Atomic!AllocateSpecificIP(u, r, i) = AllocateSpecificIP(u, r, i)
  <2>1. Atomic!IPAllocatable(i, r) <=> IPAllocatable(i, r)
    BY <1>1, SameData, Zenon DEF Atomic!IPAllocatable, IPAllocatable
  <2> QED BY <2>1, SameData, Zenon DEF Atomic!AllocateSpecificIP, AllocateSpecificIP
<1>7. ASSUME NEW u, NEW i PROVE Atomic!MarkUsed(u, i) = MarkUsed(u, i) /\ Atomic!ReleaseIP(u, i) = ReleaseIP(u, i)
  BY SameData, Zenon DEF Atomic!MarkUsed, MarkUsed, Atomic!ReleaseIP, ReleaseIP
<1> QED BY <1>5, <1>6, <1>7, Zenon

\* The loop gives up where AllocateIP is specified to fail.
LEMMA FailIsAnswer ==
  ASSUME TypeOK, LockInv, ScanInv, NEW c \in Clients, ScanFails(c)
  PROVE  AllocateIP(used, call[c].range) = NoIP
<1> DEFINE p == ParseIPRange(call[c].range)
           f == FreeTurns(used, p.start, p.end)
           n == scanned[c]
<1>1. p.ok /\ p.start # p.end /\ p.start \in Addr /\ p.end \in Int
  BY ScannedRange DEF ScanFails, Scanning
<1>2. /\ cursor[c] = NthIP(p.start, n) /\ n \in Nat /\ n <= MaxScan
      /\ cursor[c] > p.end \/ n >= MaxScan
      /\ \A j \in 0 .. (n - 1) : NthIP(p.start, j) <= p.end /\ NthIP(p.start, j) \in used
  BY SMT, MaxScanAssumption DEF ScanFails, ScanInv, TypeOK
<1> HIDE DEF n
<1>3. f = {}
  <2> SUFFICES ASSUME NEW k \in f PROVE FALSE
    OBVIOUS
  <2>1. /\ k \in Nat /\ k < MaxScan /\ NthIP(p.start, k) \notin used
        /\ \A j \in 0 .. k : NthIP(p.start, j) <= p.end
    BY SMT, MaxScanAssumption DEF FreeTurns
  <2>2. k \notin 0 .. (n - 1)
    BY <1>2, <2>1
  <2>3. k >= n
    BY SMT, <1>2, <2>1, <2>2
  <2>4. cursor[c] > p.end
    BY SMT, <1>2, <2>1, <2>3, MaxScanAssumption
  <2>5. n \in 0 .. k
    BY SMT, <1>2, <2>1, <2>3
  <2>6. cursor[c] <= p.end
    BY <1>2, <2>1, <2>5
  <2>7. cursor[c] \in Int
    <3>1. cursor[c] \in Addr \cup {NoIP}
      BY DEF TypeOK
    <3>2. cursor[c] \in Nat \/ cursor[c] \in {-1}
      BY <3>1, AddrNat, Zenon DEF NoIP
    <3> HIDE DEF p
    <3> QED BY SMT, <3>2
  <2> HIDE DEF p
  <2> QED BY SMT, <1>1, <2>4, <2>6, <2>7
<1> QED BY <1>1, <1>3, Zenon DEF AllocateIP

\* A call that ends with an answer is served by the atomic allocator.
LEMMA ReturnServes ==
  ASSUME NEW c \in Clients, NEW i, call[c] # NoCall, Return(c, i), used' = MarkUsed(used, i),
         \/ call[c].op = "allocate" /\ i = AllocateIP(used, call[c].range)
         \/ call[c].op = "specific" /\ i = AllocateSpecificIP(used, call[c].range, call[c].ip)
  PROVE  Atomic!Serve(c)
<1>1. Atomic!Answer(used, call[c]) = i
  BY SameMethods DEF Atomic!Answer
<1>2. Atomic!MarkUsed(used, i) = MarkUsed(used, i)
  BY SameMethods
<1> QED BY <1>1, <1>2 DEF Return, Atomic!Serve, NoCall

\* Every step of the code is a step of the atomic allocator, or changes
\* nothing it has.
LEMMA ScanRefines ==
  TypeOK /\ LockInv /\ ScanInv /\ FoundInv /\ [Next]_vars => [Atomic!Next]_(Atomic!vars)
<1> SUFFICES ASSUME TypeOK, LockInv, ScanInv, FoundInv, [Next]_vars
             PROVE  Atomic!Next \/ UNCHANGED Atomic!vars
  OBVIOUS
<1>1. ASSUME UNCHANGED vars \/ \E c \in Clients : Lock(c) \/ ScanNext(c) \/ ScanHits(c) \/ SpecificHits(c)
      PROVE  UNCHANGED Atomic!vars
  BY <1>1 DEF vars, Lock, ScanNext, ScanHits, SpecificHits, Atomic!vars
<1>2. ASSUME NEW c \in Clients, NEW k \in Calls, Invoke(c, k) PROVE Atomic!Next
  BY <1>2 DEF Invoke, Atomic!Next, Calls
<1>3. ASSUME NEW c \in Clients, RejectEarly(c) PROVE Atomic!Serve(c)
  <2>1. call[c] # NoCall /\ Return(c, NoIP) /\ used' = MarkUsed(used, NoIP)
    BY <1>3 DEF RejectEarly, MarkUsed
  <2>2. CASE call[c].op = "allocate"
    <3>1. ~ParseIPRange(call[c].range).ok
      BY <1>3, <2>2 DEF RejectEarly, PassesChecks
    <3>2. AllocateIP(used, call[c].range) = NoIP
      BY <3>1, Zenon DEF AllocateIP
    <3> QED BY <2>1, <2>2, <3>2, ReturnServes
  <2>3. CASE call[c].op = "specific"
    <3>1. ~IPAllocatable(call[c].ip, call[c].range)
      BY <1>3, <2>3 DEF RejectEarly, PassesChecks
    <3> QED BY <2>1, <2>3, <3>1, ReturnServes DEF AllocateSpecificIP
  <2>4. CASE call[c].op \notin {"allocate", "specific"}
    BY <1>3, <2>4 DEF RejectEarly, PassesChecks
  <2> QED BY <2>2, <2>3, <2>4
<1>4. ASSUME NEW c \in Clients, AllocateSingle(c) PROVE Atomic!Serve(c)
  <2>1. call[c] # NoCall /\ call[c].op = "allocate" /\ ParseIPRange(call[c].range).ok
    BY <1>4, InsideCall DEF AllocateSingle, PassesChecks
  <2>2. cursor[c] = ParseIPRange(call[c].range).start /\ cursor[c] \in Addr
    BY <1>4 DEF AllocateSingle, Scanning, LockInv, FirstIP
  <2>3. AllocateIP(used, call[c].range) = cursor[c]
    BY <1>4, <2>1, <2>2 DEF AllocateSingle, AllocateIP
  <2>4. Return(c, cursor[c]) /\ used' = MarkUsed(used, cursor[c])
    BY <1>4, <2>2, AddrNat DEF AllocateSingle, MarkUsed
  <2> QED BY <2>1, <2>3, <2>4, ReturnServes
<1>5. ASSUME NEW c \in Clients, ScanFails(c) PROVE Atomic!Serve(c)
  <2>1. call[c] # NoCall /\ call[c].op = "allocate" /\ Return(c, NoIP) /\ used' = MarkUsed(used, NoIP)
    BY <1>5, InsideCall DEF ScanFails, Scanning, MarkUsed
  <2> QED BY <1>5, <2>1, FailIsAnswer, ReturnServes
<1>6. ASSUME NEW c \in Clients, SpecificFails(c) PROVE Atomic!Serve(c)
  <2>1. call[c] # NoCall /\ call[c].op = "specific" /\ Return(c, NoIP) /\ used' = MarkUsed(used, NoIP)
    BY <1>6, InsideCall DEF SpecificFails, MarkUsed
  <2>2. call[c].ip \in used
    BY <1>6 DEF SpecificFails, Scanning, LockInv, FirstIP
  <2> QED BY <2>1, <2>2, ReturnServes DEF AllocateSpecificIP
<1>7. ASSUME NEW c \in Clients, Take(c) PROVE Atomic!Serve(c)
  <2>1. call[c] # NoCall /\ PassesChecks(call[c]) /\ cursor[c] \in Addr /\ cursor[c] \notin used
    BY <1>7, InsideCall DEF Take, LockInv, FoundInv
  <2>2. Return(c, cursor[c]) /\ used' = MarkUsed(used, cursor[c])
    BY <1>7, <2>1, AddrNat DEF Take, MarkUsed
  <2>3. CASE call[c].op = "allocate"
    BY <1>7, <2>1, <2>2, <2>3, ReturnServes DEF Take, FoundInv
  <2>4. CASE call[c].op = "specific"
    <3>1. cursor[c] = call[c].ip /\ IPAllocatable(call[c].ip, call[c].range)
      BY <1>7, <2>1, <2>4 DEF Take, FoundInv, PassesChecks
    <3> QED BY <2>1, <2>2, <2>4, <3>1, ReturnServes DEF AllocateSpecificIP
  <2> QED BY <1>7, <2>3, <2>4 DEF Take, FoundInv
<1>8. ASSUME NEW c \in Clients, Mark(c) PROVE Atomic!Serve(c)
  <2>1. call[c] # NoCall /\ cursor[c] = call[c].ip /\ cursor[c] \in Addr
    BY <1>8 DEF Mark, Scanning, LockInv, FirstIP
  <2>2. Atomic!MarkUsed(used, call[c].ip) = used \cup {call[c].ip}
    BY <2>1, SameMethods, AddrNat, Zenon DEF MarkUsed
  <2> QED BY <1>8, <2>1, <2>2 DEF Mark, Atomic!Serve, NoCall
<1>9. ASSUME NEW c \in Clients, Release(c) PROVE Atomic!Serve(c)
  <2>1. call[c] # NoCall /\ cursor[c] = call[c].ip
    BY <1>9 DEF Release, Scanning, LockInv, FirstIP
  <2>2. Atomic!ReleaseIP(used, call[c].ip) = used \ {call[c].ip}
    BY SameMethods DEF ReleaseIP
  <2> QED BY <1>9, <2>1, <2>2, SameData DEF Release, Return, Atomic!Serve, NoCall
<1> QED
  BY <1>1, <1>2, <1>3, <1>4, <1>5, <1>6, <1>7, <1>8, <1>9 DEF Next, Body, Atomic!Next

\* The methods are atomic: the scan under the mutex, its early returns and
\* its loop, answer what AllocateIP is specified to answer at one instant.
THEOREM AllocatorIsAtomic == Spec => Atomic!Safe
<1> DEFINE I == TypeOK /\ LockInv /\ ScanInv /\ FoundInv
<1>1. Init => I /\ Atomic!Init
  <2> SUFFICES ASSUME Init PROVE FoundInv /\ Atomic!Init
    BY ScanInit
  <2> QED BY DEF Init, FoundInv
<1>2. I /\ [Next]_vars => I'
  BY ScanTypeStep, LockStep, ScanStep, FoundStep
<1>3. I /\ [Next]_vars => [Atomic!Next]_(Atomic!vars)
  BY ScanRefines
<1> QED BY <1>1, <1>2, <1>3, PTL DEF Spec, Atomic!Safe

\* The allocator and the goroutines in it are well-typed: a goroutine that
\* returned holds nothing or one address, and the set in use only contains
\* addresses.
THEOREM ScanTypes == Spec => []TypeOK
BY ScanInvariant, PTL
=============================================================================
