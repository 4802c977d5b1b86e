------------------------- MODULE LinuxThreadsProofs -------------------------
(***************************************************************************)
(* Proofs about LinuxThreads, LinuxWait and LinuxGuest, for every number   *)
(* of threads and words.                                                   *)
(***************************************************************************)
EXTENDS LinuxWait, LinuxGuest, FiniteSetTheorems, NaturalsInduction,
        WellFoundedInduction, TLAPS

Keys == {VforkKey(t) : t \in Tids}

\* Thread indices, vfork keys, words and None cannot be mistaken for each other.
LEMMA KeysApart ==
    /\ \A t \in Tids : t \in Nat /\ t < MaxThreads /\ VforkKey(t) # None /\ VforkKey(t) \notin Words
    /\ \A t, u \in Tids : VforkKey(t) = VforkKey(u) => t = u
    /\ None \notin Words /\ 0 \notin Words /\ MaxThreads \in Nat
  BY LinuxThreadsAssumption DEF Tids, VforkKey, None

\* What WaitInv says of blocked_on, suspended and the number of threads, for
\* given values of the three.
TablesOK(blocked, susp, len) ==
    /\ blocked \in [Tids -> Words \cup {None} \cup Keys]
    /\ susp \in [Tids -> BOOLEAN]
    /\ \A p, c \in Tids : blocked[p] = VforkKey(c) =>
         /\ p < c /\ c < len /\ ~ susp[c]
         /\ \A q \in Tids : blocked[q] = VforkKey(c) => q = p
    /\ \A t \in Tids : susp[t] => blocked[t] = None
    /\ \A t \in Tids : t >= len => ~ susp[t] /\ blocked[t] = None

\* WaitInv is TablesOK, SleepOK and the types of the remaining variables.
SleepOK(slp, blocked, len) ==
    /\ slp \in [Tids -> Nat]
    /\ \A t \in Tids : t >= len \/ blocked[t] # None => slp[t] = 0

LEMMA WaitInvTables ==
    WaitInv <=> /\ TablesOK(blocked_on, suspended, n)
                /\ SleepOK(sleep, blocked_on, n)
                /\ n \in 1 .. MaxThreads
                /\ clear_child_tid \in [Tids -> Words \cup {0}]
                /\ mem \in [Words -> Nat]
                /\ current_thread_id \in 0 .. n - 1
                /\ status \in {"running", "stopped", "blocked"}
  BY DEF WaitInv, TypeOK, VforkChildAlive, IdleUnblocked, TablesOK, SleepOK, Keys

\* futex blocking a running thread on a word keeps the tables consistent.
LEMMA BlockStep ==
    ASSUME NEW blocked, NEW susp, NEW len \in Nat, TablesOK(blocked, susp, len),
           NEW t \in Tids, ~ susp[t], t < len, NEW w \in Words
    PROVE  TablesOK([blocked EXCEPT ![t] = w], susp, len)
  BY KeysApart DEF TablesOK

\* So does waking any set of threads,
LEMMA WakeStep ==
    ASSUME NEW blocked, NEW susp, NEW len \in Nat, TablesOK(blocked, susp, len), NEW woken
    PROVE  TablesOK([u \in Tids |-> IF u \in woken THEN None ELSE blocked[u]], susp, len)
  BY KeysApart DEF TablesOK

\* ending a thread whose vfork parent is among the woken,
LEMMA RetireStep ==
    ASSUME NEW blocked, NEW susp, NEW len \in Nat, TablesOK(blocked, susp, len),
           NEW t \in Tids, t < len, blocked[t] = None,
           NEW woken, \A u \in Tids : blocked[u] = VforkKey(t) => u \in woken
    PROVE  TablesOK([u \in Tids |-> IF u \in woken THEN None ELSE blocked[u]],
                    [susp EXCEPT ![t] = TRUE], len)
  <1> DEFINE b2 == [u \in Tids |-> IF u \in woken THEN None ELSE blocked[u]]
             s2 == [susp EXCEPT ![t] = TRUE]
  <1>1. /\ s2 \in [Tids -> BOOLEAN]
        /\ \A u \in Tids : s2[u] = IF u = t THEN TRUE ELSE susp[u]
    BY DEF TablesOK
  <1>2. TablesOK(b2, susp, len)
    BY WakeStep
  <1>3. b2[t] = None /\ \A u \in Tids : b2[u] # VforkKey(t)
    BY KeysApart
  <1> HIDE DEF b2, s2
  <1>4. t \in Nat
    BY KeysApart
  <1>5. \A p, c \in Tids : b2[p] = VforkKey(c) =>
         /\ p < c /\ c < len /\ ~ s2[c]
         /\ \A q \in Tids : b2[q] = VforkKey(c) => q = p
    BY <1>1, <1>2, <1>3, Zenon DEF TablesOK
  <1>6. \A u \in Tids : s2[u] => b2[u] = None
    BY <1>1, <1>2, <1>3, Zenon DEF TablesOK
  <1>7. ASSUME NEW u \in Tids, u >= len PROVE ~ s2[u] /\ b2[u] = None
    <2>1. u # t
      BY <1>4, <1>7
    <2> QED  BY <1>1, <1>2, <1>7, <2>1, Zenon DEF TablesOK
  <1> QED  BY <1>1, <1>2, <1>5, <1>6, <1>7 DEF TablesOK, b2, s2

\* and adding a thread, with its parent waiting for it or not.
LEMMA CloneStep ==
    ASSUME NEW blocked, NEW susp, NEW len \in Nat, TablesOK(blocked, susp, len),
           NEW t \in Tids, t < len, ~ susp[t], len < MaxThreads, NEW vfork \in BOOLEAN
    PROVE  TablesOK([u \in Tids |-> IF u = len THEN None
                                    ELSE IF u = t /\ vfork THEN VforkKey(len)
                                    ELSE blocked[u]],
                    [susp EXCEPT ![len] = FALSE], len + 1)
  <1> DEFINE b2 == [u \in Tids |-> IF u = len THEN None
                                   ELSE IF u = t /\ vfork THEN VforkKey(len)
                                   ELSE blocked[u]]
             s2 == [susp EXCEPT ![len] = FALSE]
  <1>0. len \in Tids /\ t # len /\ \A u \in Tids : u \in Nat
    BY KeysApart DEF Tids
  <1>1. /\ s2 \in [Tids -> BOOLEAN]
        /\ ~ s2[len] /\ \A u \in Tids : u # len => s2[u] = susp[u]
    BY <1>0 DEF TablesOK
  <1>2. /\ b2 \in [Tids -> Words \cup {None} \cup Keys]
        /\ \A u \in Tids : b2[u] = IF u = len THEN None
                                   ELSE IF u = t /\ vfork THEN VforkKey(len)
                                   ELSE blocked[u]
    BY <1>0 DEF TablesOK, Keys
  <1> HIDE DEF b2, s2
  <1>3. \A u \in Tids : blocked[u] # VforkKey(len)
    BY <1>0 DEF TablesOK
  <1>4. ASSUME NEW p \in Tids, NEW c \in Tids, b2[p] = VforkKey(c)
        PROVE  /\ p < c /\ c < len + 1 /\ ~ s2[c]
               /\ \A q \in Tids : b2[q] = VforkKey(c) => q = p
    <2>1. CASE c = len
      <3>1. p = t
        BY <1>0, <1>2, <1>3, <1>4, <2>1, KeysApart
      <3>2. \A q \in Tids : b2[q] = VforkKey(c) => q = t
        BY <1>0, <1>2, <1>3, <2>1, KeysApart
      <3>3. p < c /\ c < len + 1
        BY <2>1, <3>1
      <3> QED  BY <1>1, <2>1, <3>1, <3>2, <3>3
    <2>2. CASE c # len
      <3>1. \A q \in Tids : b2[q] = VforkKey(c) => blocked[q] = VforkKey(c)
        BY <1>0, <1>2, <2>2, KeysApart
      <3>2. /\ p < c /\ c < len /\ ~ susp[c]
            /\ \A q \in Tids : blocked[q] = VforkKey(c) => q = p
        BY <1>4, <3>1 DEF TablesOK
      <3>3. c < len + 1
        BY <1>0, <3>2
      <3> QED  BY <1>1, <2>2, <3>1, <3>2, <3>3
    <2> QED  BY <2>1, <2>2
  <1>5. \A u \in Tids : s2[u] => b2[u] = None
    BY <1>0, <1>1, <1>2 DEF TablesOK
  <1>6. ASSUME NEW u \in Tids, u >= len + 1 PROVE ~ s2[u] /\ b2[u] = None
    <2>1. u # len /\ u # t /\ u >= len
      BY <1>0, <1>6
    <2> QED  BY <1>1, <1>2, <2>1 DEF TablesOK
  <1> QED  BY <1>1, <1>2, <1>4, <1>5, <1>6 DEF TablesOK, b2, s2

-----------------------------------------------------------------------------
(* One instruction *)

\* No vfork parent is let go before its child has ended, and with the clock
\* standing still no parked thread gets closer to its wake tick.
Released ==
    \A p, c \in Tids :
        blocked_on[p] = VforkKey(c) /\ blocked_on'[p] # VforkKey(c) => suspended'[c]
StaysParked == \A u \in Tids : sleep[u] > 0 => ~ sleep'[u] < sleep[u]

\* An index into the thread table stays one when the table grows.
LEMMA IndexStaysInRange ==
    \A i, len, len2, max \in Nat :
        1 <= len /\ i < len /\ len <= len2 /\ len2 <= max => len2 \in 1 .. max /\ i \in 0 .. len2 - 1
  OBVIOUS

\* Every instruction of a thread that the scheduler picked preserves WaitInv
\* and has these two properties.
LEMMA InstructionStep ==
    ASSUME WaitInv, NEW t \in Tids, NEW delay \in Nat,
           is_runnable(t, delay), status = "running", current_thread_id' = t,
           Instruction(t, delay)
    PROVE  WaitInv' /\ Released /\ (delay = 0 => StaysParked)
  <1>1. /\ TablesOK(blocked_on, suspended, n)
        /\ SleepOK(sleep, blocked_on, n)
        /\ n \in 1 .. MaxThreads /\ n \in Nat
        /\ clear_child_tid \in [Tids -> Words \cup {0}]
        /\ mem \in [Words -> Nat]
        /\ t < n /\ blocked_on[t] = None /\ ~ suspended[t] /\ sleep[t] <= delay
    BY WaitInvTables, KeysApart DEF is_runnable
  <1> DEFINE Good == /\ TablesOK(blocked_on, suspended, n)'
                     /\ SleepOK(sleep, blocked_on, n)'
                     /\ n' \in n .. MaxThreads
                     /\ clear_child_tid' \in [Tids -> Words \cup {0}]
                     /\ mem' \in [Words -> Nat]
                     /\ status' \in {"running", "stopped", "blocked"}
                     /\ Released
                     /\ delay = 0 => StaysParked
  <1>2. ASSUME Good PROVE WaitInv'
    <2>1. n' \in n .. MaxThreads
      BY <1>2
    <2>2. t \in Nat /\ MaxThreads \in Nat
      BY KeysApart
    <2>3. n' \in Nat /\ n <= n' /\ n' <= MaxThreads /\ 1 <= n
      BY <1>1, <2>1, <2>2
    <2>4. n' \in 1 .. MaxThreads /\ current_thread_id' \in 0 .. n' - 1
      BY <1>1, <2>2, <2>3, IndexStaysInRange, Zenon
    <2> QED  BY <1>2, <2>4 DEF WaitInv, TypeOK, VforkChildAlive, IdleUnblocked, TablesOK, SleepOK, Keys
  <1>3. /\ Elapsed(delay) \in [Tids -> Nat]
        /\ \A u \in Tids : /\ sleep[u] <= delay => Elapsed(delay)[u] = 0
                           /\ delay = 0 => Elapsed(delay)[u] = sleep[u]
                           /\ Elapsed(delay)[u] = Remaining(sleep[u], delay)
                           /\ sleep[u] \in Nat
    BY <1>1 DEF Elapsed, Remaining, SleepOK
  \* sleep' of an instruction that wakes or adds the threads in "woken", and
  \* may block t.
  <1>4. ASSUME NEW woken, \A u \in woken : u \in Tids => blocked_on[u] # None \/ u = n,
               sleep' = [u \in Tids |-> IF u \in woken THEN 0 ELSE Remaining(sleep[u], delay)],
               \A u \in Tids : blocked_on'[u] # None => u = t \/ blocked_on[u] # None,
               n' \in Nat, n <= n'
        PROVE  SleepOK(sleep, blocked_on, n)' /\ (delay = 0 => StaysParked)
    <2>1. \A u \in Tids : u \in woken => sleep[u] = 0
      BY <1>1, <1>4 DEF SleepOK
    <2>2. sleep' \in [Tids -> Nat] /\ \A u \in Tids : sleep'[u] = 0 \/ sleep'[u] = Elapsed(delay)[u]
      BY <1>3, <1>4
    <2>3. ASSUME NEW u \in Tids, u >= n' \/ blocked_on'[u] # None PROVE sleep'[u] = 0
      <3>1. u >= n \/ u = t \/ blocked_on[u] # None
        <4>1. u \in Nat
          BY KeysApart
        <4> QED  BY <1>1, <1>4, <2>3, <4>1
      <3>2. sleep[u] <= delay
        BY <1>1, <3>1 DEF SleepOK
      <3> QED  BY <1>3, <2>2, <3>2
    <2>4. ASSUME delay = 0 PROVE StaysParked
      <3>1. \A u \in Tids : sleep'[u] = sleep[u]
        BY <1>3, <1>4, <2>1, <2>4
      <3> QED  BY <1>3, <3>1 DEF StaysParked
    <2> QED  BY <2>2, <2>3, <2>4 DEF SleepOK
  \* The same for instructions that wake nobody.
  <1>5. ASSUME sleep' = Elapsed(delay), n' = n,
               \A u \in Tids : blocked_on'[u] # None => u = t \/ blocked_on[u] # None
        PROVE  SleepOK(sleep, blocked_on, n)' /\ (delay = 0 => StaysParked)
    <2> DEFINE nobody == {}
    <2>1. /\ sleep' = [u \in Tids |-> IF u \in nobody THEN 0 ELSE Remaining(sleep[u], delay)]
          /\ \A u \in nobody : u \in Tids => blocked_on[u] # None \/ u = n
      BY <1>5 DEF Elapsed
    <2>2. n' \in Nat /\ n <= n'
      BY <1>1, <1>5
    <2> HIDE DEF nobody
    <2> QED  BY <1>4, <1>5, <2>1, <2>2
  \* Instructions that change neither blocked_on nor suspended.
  <1>6. ASSUME UNCHANGED <<n, blocked_on, suspended>>
        PROVE  TablesOK(blocked_on, suspended, n)' /\ n' \in n .. MaxThreads /\ Released
    BY <1>1, <1>6 DEF Released
  <1>7. ASSUME NEW vfork \in BOOLEAN, NEW parent_tid \in Words \cup {0}, NEW child_tid \in Words,
               NEW settid \in BOOLEAN, NEW cleartid \in BOOLEAN,
               clone(t, vfork, parent_tid, child_tid, settid, cleartid, delay)
        PROVE  Good
    <2>1. n \in Tids /\ t # n /\ n' = n + 1 /\ n < MaxThreads /\ n' \in n .. MaxThreads /\ n <= n' /\ n' \in Nat
      BY <1>1, <1>7, KeysApart DEF clone, Tids
    <2>2. TablesOK(blocked_on, suspended, n)'
      <3>1. TablesOK([u \in Tids |-> IF u = n THEN None
                                    ELSE IF u = t /\ vfork THEN VforkKey(n)
                                    ELSE blocked_on[u]],
                    [suspended EXCEPT ![n] = FALSE], n + 1)
        BY <1>1, <2>1, CloneStep
      <3> QED  BY <1>7, <2>1, <3>1 DEF clone
    <2>3. \A u \in Tids : blocked_on'[u] = IF u = n THEN None
                                           ELSE IF u = t /\ vfork THEN VforkKey(n)
                                           ELSE blocked_on[u]
      BY <1>7 DEF clone
    <2>4. SleepOK(sleep, blocked_on, n)' /\ (delay = 0 => StaysParked)
      <3> DEFINE child == {n}
      <3>1. /\ sleep' = [u \in Tids |-> IF u \in child THEN 0 ELSE Remaining(sleep[u], delay)]
            /\ \A u \in child : u \in Tids => blocked_on[u] # None \/ u = n
        BY <1>7, <2>1, Zenon DEF clone, Elapsed
      <3> HIDE DEF child
      <3>2. \A u \in Tids : blocked_on'[u] # None => u = t \/ blocked_on[u] # None
        BY <2>3
      <3> QED  BY <1>4, <2>1, <3>1, <3>2
    <2>5. Released
      <3>1. blocked_on[n] = None
        BY <1>1, <2>1 DEF TablesOK
      <3>2. \A p, c \in Tids : blocked_on[p] = VforkKey(c) => p # n /\ p # t
        BY <1>1, <3>1, KeysApart
      <3>3. \A p \in Tids : p # n /\ p # t => blocked_on'[p] = blocked_on[p]
        BY <2>3
      <3>4. ASSUME NEW p \in Tids, NEW c \in Tids, blocked_on[p] = VforkKey(c)
            PROVE  blocked_on'[p] = VforkKey(c)
        BY <3>2, <3>3, <3>4
      <3> QED  BY <3>4 DEF Released
    <2>6. clear_child_tid' \in [Tids -> Words \cup {0}] /\ mem' \in [Words -> Nat]
      <3>1. (IF cleartid THEN child_tid ELSE 0) \in Words \cup {0}
        OBVIOUS
      <3>2. clear_child_tid' = [clear_child_tid EXCEPT ![n] = IF cleartid THEN child_tid ELSE 0]
        BY <1>7 DEF clone
      <3>3. n + 1 \in Nat
        BY <1>1
      <3>4. mem' \in [Words -> Nat]
        BY <1>1, <1>7, <3>3 DEF clone
      <3> QED  BY <1>1, <3>1, <3>2, <3>4, Zenon
    <2> QED  BY <1>7, <2>1, <2>2, <2>4, <2>5, <2>6 DEF clone
  <1>8. ASSUME yield_current(t, delay), UNCHANGED blocked_on, n' = n
        PROVE  SleepOK(sleep, blocked_on, n)' /\ (delay = 0 => StaysParked)
    <2>1. CASE sleep' = Elapsed(delay)
      BY <1>5, <1>8, <2>1
    <2>2. CASE sleep' = [Elapsed(delay) EXCEPT ![t] = 1]
      <3>1. /\ sleep' \in [Tids -> Nat] /\ sleep'[t] = 1
            /\ \A u \in Tids : u # t => sleep'[u] = Elapsed(delay)[u]
        BY <1>3, <2>2
      <3>2. ASSUME NEW u \in Tids, u >= n' \/ blocked_on'[u] # None PROVE sleep'[u] = 0
        <4>1. u # t /\ (u >= n \/ blocked_on[u] # None)
          <5>1. u \in Nat
            BY KeysApart
          <5> QED  BY <1>1, <1>8, <3>2, <5>1
        <4>2. sleep[u] = 0
          BY <1>1, <4>1 DEF SleepOK
        <4>3. Elapsed(delay)[u] = 0
          BY <1>3, <4>2
        <4> QED  BY <3>1, <4>1, <4>3
      <3>3. ASSUME delay = 0 PROVE StaysParked
        BY <1>1, <1>3, <3>1, <3>3 DEF StaysParked
      <3> QED  BY <3>1, <3>2, <3>3 DEF SleepOK
    <2> QED  BY <1>8, <2>1, <2>2 DEF yield_current
  <1>9. ASSUME NEW uaddr \in Words, NEW val \in Values, NEW timeout \in BOOLEAN,
               futex_wait(t, uaddr, val, timeout, delay)
        PROVE  Good
    <2>1. /\ n' = n /\ suspended' = suspended /\ clear_child_tid' = clear_child_tid
          /\ status' = status
          /\ mem' \in [Words -> Nat]
      BY <1>1, <1>9 DEF futex_wait
    <2>2. CASE UNCHANGED blocked_on /\ sleep' = Elapsed(delay)
      BY <1>1, <1>5, <1>6, <2>1, <2>2
    <2>3. CASE UNCHANGED blocked_on /\ yield_current(t, delay)
      BY <1>1, <1>6, <1>8, <2>1, <2>3
    <2>4. CASE blocked_on' = [blocked_on EXCEPT ![t] = uaddr] /\ sleep' = Elapsed(delay)
      <3>1. TablesOK(blocked_on', suspended, n)
        BY <1>1, <2>4, BlockStep, Zenon
      <3>2. \A u \in Tids : u # t => blocked_on'[u] = blocked_on[u]
        BY <1>1, <2>4 DEF TablesOK
      <3>3. Released
        BY <1>1, <3>2, KeysApart DEF Released
      <3>4. SleepOK(sleep, blocked_on, n)' /\ (delay = 0 => StaysParked)
        BY <1>5, <2>1, <2>4, <3>2
      <3>5. TablesOK(blocked_on, suspended, n)' /\ n' \in n .. MaxThreads
        BY <1>1, <2>1, <3>1
      <3> QED  BY <1>1, <2>1, <3>3, <3>4, <3>5
    <2> QED  BY <1>9, <2>2, <2>3, <2>4 DEF futex_wait
  <1>10. ASSUME NEW uaddr \in Words, NEW val \in Values, futex_wake(t, uaddr, val, delay)
         PROVE  Good
    <2> DEFINE woken == Woken(uaddr, val)
    <2>1. \A u \in woken : u \in Tids /\ blocked_on[u] = uaddr
      BY DEF Woken, Waiters
    <2>2. /\ blocked_on' = [u \in Tids |-> IF u \in woken THEN None ELSE blocked_on[u]]
          /\ sleep' = [u \in Tids |-> IF u \in woken THEN 0 ELSE Remaining(sleep[u], delay)]
          /\ n' = n /\ suspended' = suspended /\ clear_child_tid' = clear_child_tid
          /\ mem' = mem /\ status' = status
      BY <1>10 DEF futex_wake, Wake
    <2> HIDE DEF woken
    <2>3. TablesOK(blocked_on', suspended, n)
      BY <1>1, <2>2, WakeStep
    <2>4. SleepOK(sleep, blocked_on, n)' /\ (delay = 0 => StaysParked)
      <3>1. \A u \in woken : u \in Tids => blocked_on[u] # None \/ u = n
        BY <2>1, KeysApart
      <3>2. \A u \in Tids : blocked_on'[u] # None => u = t \/ blocked_on[u] # None
        BY <2>2
      <3>3. n' \in Nat /\ n <= n'
        BY <1>1, <2>2
      <3> QED  BY <1>4, <2>2, <3>1, <3>2, <3>3
    <2>5. Released
      BY <2>1, <2>2, KeysApart DEF Released
    <2>6. TablesOK(blocked_on, suspended, n)' /\ n' \in n .. MaxThreads
      BY <1>1, <2>2, <2>3
    <2> QED  BY <1>1, <2>2, <2>4, <2>5, <2>6
  <1>11. ASSUME retire_current_thread(t, delay) PROVE Good
    <2> DEFINE woken == Waiters(VforkKey(t)) \cup
                         {u \in Waiters(clear_child_tid[t]) : clear_child_tid[t] # 0}
    <2>1. /\ \A u \in woken : u \in Tids /\ (blocked_on[u] = VforkKey(t) \/ blocked_on[u] \in Words)
          /\ \A u \in Tids : blocked_on[u] = VforkKey(t) => u \in woken
      <3>1. clear_child_tid[t] # 0 => clear_child_tid[t] \in Words
        BY <1>1
      <3>2. \A u \in Tids : blocked_on[u] = VforkKey(t) => u < n
        <4> SUFFICES ASSUME NEW u \in Tids, blocked_on[u] = VforkKey(t) PROVE u < n
          OBVIOUS
        <4>1. u < t /\ u \in Nat /\ t \in Nat
          BY <1>1, KeysApart DEF TablesOK
        <4> QED  BY <1>1, <4>1
      <3> QED  BY <3>1, <3>2 DEF Waiters
    <2>2. /\ blocked_on' = [u \in Tids |-> IF u \in woken THEN None ELSE blocked_on[u]]
          /\ sleep' = [u \in Tids |-> IF u \in woken THEN 0 ELSE Remaining(sleep[u], delay)]
          /\ suspended' = [suspended EXCEPT ![t] = TRUE]
          /\ n' = n /\ clear_child_tid' = clear_child_tid /\ status' = status
          /\ mem' \in [Words -> Nat]
      BY <1>1, <1>11 DEF retire_current_thread, Wake
    <2> HIDE DEF woken
    <2>3. TablesOK(blocked_on', suspended', n)
      BY <1>1, <2>1, <2>2, RetireStep, Zenon
    <2>4. SleepOK(sleep, blocked_on, n)' /\ (delay = 0 => StaysParked)
      <3>1. \A u \in woken : u \in Tids => blocked_on[u] # None \/ u = n
        BY <2>1, KeysApart
      <3>2. \A u \in Tids : blocked_on'[u] # None => u = t \/ blocked_on[u] # None
        BY <2>2
      <3>3. n' \in Nat /\ n <= n'
        BY <1>1, <2>2
      <3> QED  BY <1>4, <2>2, <3>1, <3>2, <3>3
    <2>5. Released
      <3>1. \A c \in Tids : c = t => suspended'[c]
        BY <1>1, <2>2 DEF TablesOK
      <3> QED  BY <2>1, <2>2, <3>1, KeysApart DEF Released
    <2>6. TablesOK(blocked_on, suspended, n)' /\ n' \in n .. MaxThreads
      BY <1>1, <2>2, <2>3
    <2> QED  BY <1>1, <2>2, <2>4, <2>5, <2>6
  <1>12. ASSUME handle_syscall64_exit(t, delay) PROVE Good
    BY <1>1, <1>5, <1>6, <1>12 DEF handle_syscall64_exit
  <1>13. ASSUME OtherInstruction(t, delay) PROVE Good
    BY <1>1, <1>5, <1>6, <1>13 DEF OtherInstruction
  <1>14. ASSUME NEW ptr \in Words \cup {0}, set_tid_address(t, ptr, delay) PROVE Good
    BY <1>1, <1>5, <1>6, <1>14 DEF set_tid_address
  <1>15. ASSUME sched_yield(t, delay) PROVE Good
    BY <1>1, <1>6, <1>8, <1>15 DEF sched_yield
  <1>16. ASSUME NEW w \in Words, NEW v \in Values, Store(t, w, v, delay) PROVE Good
    <2>1. v \in Nat
      BY LinuxThreadsAssumption
    <2> QED  BY <1>1, <1>5, <1>6, <1>16, <2>1 DEF Store
  <1>17. Good
    <2> HIDE DEF Good
    <2> QED  BY <1>7, <1>9, <1>10, <1>11, <1>12, <1>13, <1>14, <1>15, <1>16
                DEF Instruction, exit_thread, execve
  <1> QED  BY <1>2, <1>17

-----------------------------------------------------------------------------
(* Theorems *)

\* WaitInv holds in the initial state.
LEMMA InitWaitInv == Init => WaitInv
  <1> SUFFICES ASSUME Init PROVE WaitInv
    OBVIOUS
  <1>1. TablesOK(blocked_on, suspended, n) /\ SleepOK(sleep, blocked_on, n)
    BY KeysApart DEF Init, TablesOK, SleepOK
  <1> QED  BY <1>1, WaitInvTables, LinuxThreadsAssumption DEF Init

\* A step of the run loop preserves WaitInv, and has the two action properties.
LEMMA NextStep ==
    ASSUME WaitInv, [Next]_vars
    PROVE  WaitInv' /\ Released /\ (Runnable(0) # {} => StaysParked)
  <1>1. CASE Step
    <2>1. PICK t \in Tids, delay \in WakeDelays :
            /\ status = "running" /\ t \in Runnable(delay) /\ Waited(delay, Ready)
            /\ current_thread_id' = t /\ Instruction(t, delay)
      BY <1>1 DEF Step, Scheduled, Picked
    <2>2. delay \in Nat /\ is_runnable(t, delay)
      BY <2>1 DEF WakeDelays, WaitInv, TypeOK, Runnable, Live
    <2>3. Runnable(0) # {} => delay = 0
      <3>1. Runnable(0) # {} => 0 \in Ready
        BY DEF Ready, WakeDelays
      <3>2. \A d \in Ready : delay <= d
        BY <2>1 DEF Waited
      <3> QED  BY <2>2, <3>1, <3>2
    <2> QED  BY <2>1, <2>2, <2>3, InstructionStep
  <1>2. CASE AllBlocked
    BY <1>2 DEF AllBlocked, threads, WaitInv, TypeOK, VforkChildAlive, IdleUnblocked, Released,
                StaysParked
  <1>3. CASE UNCHANGED vars
    BY <1>3 DEF vars, threads, WaitInv, TypeOK, VforkChildAlive, IdleUnblocked, Released, StaysParked
  <1> QED  BY <1>1, <1>2, <1>3 DEF Next, Finished

\* Vfork parents always wait for a live child of their own, for any number of
\* threads: retire_current_thread will release them.
THEOREM VforkInvariant == Spec => []WaitInv
  <1>1. Init => WaitInv
    BY InitWaitInv
  <1>2. WaitInv /\ [Next]_vars => WaitInv'
    BY NextStep
  <1> QED  BY <1>1, <1>2, PTL DEF Spec

\* A vfork parent does not run again before its child has called execve or
\* exit.
THEOREM VforkRelease == Spec => VforkParentWaits
  <1>1. Init => WaitInv
    BY InitWaitInv
  <1>2. WaitInv /\ [Next]_vars => WaitInv'
    BY NextStep
  <1>3. WaitInv /\ [Next]_vars =>
          [\A p, c \in Tids :
             blocked_on[p] = VforkKey(c) /\ blocked_on'[p] # VforkKey(c) => suspended'[c]]_vars
    BY NextStep DEF Released
  <1> QED  BY <1>1, <1>2, <1>3, PTL DEF Spec, VforkParentWaits

\* A thread parked by yield_current stays parked for as long as any other
\* thread is runnable.
THEOREM YieldedWait == Spec => YieldIsLowestPriority
  <1>1. Init => WaitInv
    BY InitWaitInv
  <1>2. WaitInv /\ [Next]_vars => WaitInv'
    BY NextStep
  <1>3. WaitInv /\ [Next]_vars =>
          [\A t \in Tids : sleep[t] > 0 /\ sleep'[t] < sleep[t] => Runnable(0) = {}]_vars
    BY NextStep DEF StaysParked
  <1> QED  BY <1>1, <1>2, <1>3, PTL DEF Spec, YieldIsLowestPriority

-----------------------------------------------------------------------------
(* wait4 *)

\* A set of numbers that is not empty has a least one.
LEMMA HasLeast ==
    ASSUME NEW S \in SUBSET Nat, S # {}
    PROVE  \E i \in S : \A j \in S : i <= j
  <1>1. PICK i \in S : \A j \in S : ~ (<<j, i>> \in OpToRel(<, Nat))
    BY NatLessThanWellFounded, WFMin, Zenon
  <1>2. ASSUME NEW j \in S PROVE i <= j
    <2>1. i \in Nat /\ j \in Nat
      OBVIOUS
    <2>2. j < i => <<j, i>> \in OpToRel(<, Nat)
      BY <2>1 DEF OpToRel
    <2>3. ~ (j < i)
      BY <1>1, <2>2, Zenon
    <2> QED  BY <2>1, <2>3
  <1> QED  BY <1>2

\* A set of thread indices that is not empty has a last one.
LEMMA HasLast ==
    ASSUME NEW S \in SUBSET Tids, S # {}
    PROVE  \E u \in S : \A v \in S : v <= u
  <1>1. MaxThreads \in Nat /\ \A u \in S : u \in Nat /\ u < MaxThreads
    BY KeysApart
  <1> DEFINE D == {MaxThreads - u : u \in S}
  <1>2. D \in SUBSET Nat /\ D # {}
    BY <1>1
  <1> HIDE DEF D
  <1>3. PICK d \in D : \A e \in D : d <= e
    BY <1>2, HasLeast
  <1>4. PICK u \in S : d = MaxThreads - u
    BY DEF D
  <1>5. ASSUME NEW v \in S PROVE v <= u
    <2>1. MaxThreads - u <= MaxThreads - v
      BY <1>3, <1>4 DEF D
    <2> QED  BY <1>1, <2>1
  <1> QED  BY <1>5

\* A wait4 for any child (wait4 of thread.rs with a pid below 1) never reports a
\* thread that still runs.
THEOREM WaitReportsEnded == WaitSpec => []AnyChildHasFinished
  <1>1. WaitInit => AnyChildHasFinished
    BY DEF WaitInit, AnyChildHasFinished
  <1>2. AnyChildHasFinished /\ [WaitStep \/ OtherNext]_<<vars, reported, named>>
          => AnyChildHasFinished'
    <2> SUFFICES ASSUME AnyChildHasFinished, [WaitStep \/ OtherNext]_<<vars, reported, named>>
                 PROVE  AnyChildHasFinished'
      OBVIOUS
    <2>1. CASE WaitStep
      <3>1. PICK t \in Tids, delay \in WakeDelays, pid \in Tids \cup {None},
                 status_ptr \in Words \cup {0} : wait4(t, pid, status_ptr, delay)
        BY <2>1 DEF WaitStep
      <3>2. UNCHANGED suspended
        BY <3>1 DEF wait4, Store, OtherInstruction
      <3>3. CASE named'
        BY <3>3 DEF AnyChildHasFinished
      <3>4. CASE ~ named'
        <4>1. reported' = IF Ended = {} THEN None ELSE CHOOSE u \in Ended : \A v \in Ended : v <= u
          BY <3>1, <3>4 DEF wait4
        <4>2. Ended \in SUBSET Tids
          BY DEF Ended
        <4>3. Ended # {} => reported' \in Ended
          BY <4>1, <4>2, HasLast
        <4> QED  BY <3>2, <4>1, <4>3 DEF AnyChildHasFinished, Ended
      <3> QED  BY <3>3, <3>4
    <2>2. CASE OtherNext
      BY <2>2 DEF OtherNext, AnyChildHasFinished
    <2>3. CASE UNCHANGED <<vars, reported, named>>
      BY <2>3 DEF vars, threads, AnyChildHasFinished
    <2> QED  BY <2>1, <2>2, <2>3
  <1> QED  BY <1>1, <1>2, PTL DEF WaitSpec

-----------------------------------------------------------------------------
(* The threaded program *)

\* Two live threads are enough for OthersLive.
LEMMA NotAlone ==
    ASSUME NEW t \in Live, NEW u \in Live, t # u
    PROVE  OthersLive
  <1>1. IsFiniteSet(Tids)
    <2>1. 0 \in Int /\ MaxThreads - 1 \in Int
      BY KeysApart
    <2> QED  BY <2>1, FS_Interval DEF Tids
  <1>2. IsFiniteSet(Live)
    BY <1>1, FS_Subset DEF Live
  <1> DEFINE R == Live \ {t}
  <1>3. IsFiniteSet(R) /\ Cardinality(R) = Cardinality(Live) - 1
    BY <1>2, FS_RemoveElement
  <1>4. u \in R
    OBVIOUS
  <1> HIDE DEF R
  <1>5. Cardinality(R) # 0 /\ Cardinality(R) \in Nat /\ Cardinality(Live) \in Nat
    BY <1>2, <1>3, <1>4, FS_EmptySet, FS_CardinalityType
  <1> QED  BY <1>3, <1>5 DEF OthersLive

\* The program's instructions: "unlock" is the one of the thread that has the lock.
OtherLabels == {"spawn", "cas", "xchg", "wait", "wake", "load", "join", "exit", "ended"}
Labels == OtherLabels \cup {"unlock"}

\* Having the lock is told from every other place in the program.
LEMMA LabelsApart ==
    /\ "unlock" \in Labels /\ \A l \in OtherLabels : l \in Labels /\ l # "unlock"
    /\ "spawn" \in OtherLabels /\ "cas" \in OtherLabels /\ "xchg" \in OtherLabels
    /\ "wait" \in OtherLabels /\ "wake" \in OtherLabels /\ "load" \in OtherLabels
    /\ "join" \in OtherLabels /\ "exit" \in OtherLabels /\ "ended" \in OtherLabels
  BY DEF Labels, OtherLabels

ProgramTypes ==
    /\ n \in Nat \ {0}
    /\ suspended \in [Tids -> BOOLEAN]
    /\ mem \in [Words -> Nat]
    /\ clear_child_tid \in [Tids -> Nat]
    /\ pc \in [Tids -> Labels]
    /\ target \in Nat \ {0}

\* No tid word is the lock, and the thread that has the lock is live and has
\* set the lock word: the word is found 0, and cleared by a thread that is
\* alone, only while nobody has the lock.
LockHeld ==
    \A t \in Tids :
        /\ clear_child_tid[t] # lock
        /\ suspended[t] => pc[t] = "ended"
        /\ t >= n => pc[t] = "cas"
        /\ pc[t] = "unlock" => mem[lock] # 0

ProgramInv == ProgramTypes /\ LockHeld /\ LockExcludes

\* An instruction of thread t that changes no thread and leaves the lock word set
\* unless nobody has the lock keeps the invariant, if t does not get the lock by it.
LEMMA QuietStep ==
    ASSUME ProgramInv, NEW t \in Tids, t < n, ~ suspended[t],
           NEW label \in OtherLabels, Goto(t, label),
           UNCHANGED <<n, suspended, clear_child_tid>>, target' \in Nat \ {0},
           mem' \in [Words -> Nat],
           \A u \in Tids : u # t /\ pc[u] = "unlock" => mem'[lock] # 0
    PROVE  ProgramInv'
  <1>1. /\ pc' \in [Tids -> Labels] /\ pc'[t] = label
        /\ \A u \in Tids : u # t => pc'[u] = pc[u]
    BY LabelsApart DEF Goto, ProgramInv, ProgramTypes
  <1>2. ProgramTypes'
    BY <1>1 DEF ProgramInv, ProgramTypes
  <1>3. n \in Nat /\ t \in Nat
    BY KeysApart DEF ProgramInv, ProgramTypes
  <1>4. LockHeld'
    <2> SUFFICES ASSUME NEW u \in Tids
                 PROVE  /\ clear_child_tid[u] # lock
                        /\ suspended[u] => pc'[u] = "ended"
                        /\ u >= n => pc'[u] = "cas"
                        /\ pc'[u] = "unlock" => mem'[lock] # 0
      BY DEF LockHeld, lock
    <2>1. CASE u = t
      BY LabelsApart, <1>1, <1>3, <2>1 DEF ProgramInv, LockHeld
    <2>2. CASE u # t
      BY <1>1, <2>2 DEF ProgramInv, LockHeld
    <2> QED  BY <2>1, <2>2
  <1>5. LockExcludes'
    BY LabelsApart, <1>1 DEF ProgramInv, LockExcludes
  <1> QED  BY <1>2, <1>4, <1>5 DEF ProgramInv

\* A thread gets the lock when it finds the word 0, and sets it.
LEMMA TakeStep ==
    ASSUME ProgramInv, NEW t \in Tids, t < n, ~ suspended[t], lock \in Words,
           Goto(t, "unlock"), mem[lock] = 0,
           NEW v \in Nat \ {0}, mem' = [mem EXCEPT ![lock] = v],
           UNCHANGED <<n, suspended, clear_child_tid, target>>
    PROVE  ProgramInv'
  <1>1. /\ pc' \in [Tids -> Labels] /\ pc'[t] = "unlock"
        /\ \A u \in Tids : u # t => pc'[u] = pc[u]
    BY LabelsApart DEF Goto, ProgramInv, ProgramTypes
  <1>2. mem' \in [Words -> Nat] /\ mem'[lock] = v
    BY DEF ProgramInv, ProgramTypes
  <1>3. ProgramTypes'
    BY <1>1, <1>2 DEF ProgramInv, ProgramTypes
  <1>4. n \in Nat /\ t \in Nat
    BY KeysApart DEF ProgramInv, ProgramTypes
  <1>5. \A u \in Tids : pc[u] # "unlock"
    BY DEF ProgramInv, LockHeld
  <1>6. LockHeld'
    <2> SUFFICES ASSUME NEW u \in Tids
                 PROVE  /\ clear_child_tid[u] # lock
                        /\ suspended[u] => pc'[u] = "ended"
                        /\ u >= n => pc'[u] = "cas"
                        /\ mem'[lock] # 0
      BY DEF LockHeld, lock
    <2>1. CASE u = t
      BY <1>1, <1>2, <1>4, <2>1 DEF ProgramInv, LockHeld
    <2>2. CASE u # t
      BY <1>1, <1>2, <2>2 DEF ProgramInv, LockHeld
    <2> QED  BY <2>1, <2>2
  <1>7. LockExcludes'
    BY <1>1, <1>5 DEF LockExcludes
  <1> QED  BY <1>3, <1>6, <1>7 DEF ProgramInv

\* A futex wait clears the lock word only when nobody has the lock.
LEMMA WaitKeepsLock ==
    ASSUME ProgramInv, NEW t \in Tids, t < n, ~ suspended[t], pc[t] # "unlock",
           NEW uaddr, NEW val, NEW timeout, NEW delay,
           futex_wait(t, uaddr, val, timeout, delay)
    PROVE  /\ mem' \in [Words -> Nat]
           /\ UNCHANGED <<n, suspended, clear_child_tid>>
           /\ \A u \in Tids : u # t /\ pc[u] = "unlock" => mem'[lock] # 0
  <1>1. UNCHANGED <<n, suspended, clear_child_tid>>
    BY DEF futex_wait
  <1>2. UNCHANGED mem \/ (~ OthersLive /\ mem' = [mem EXCEPT ![uaddr] = 0])
    BY Zenon DEF futex_wait
  <1>3. mem' \in [Words -> Nat]
    BY <1>2 DEF ProgramInv, ProgramTypes
  <1>4. ASSUME NEW u \in Tids, u # t, pc[u] = "unlock" PROVE OthersLive /\ mem[lock] # 0
    <2>1. ~ suspended[u] /\ ~ (u >= n) /\ mem[lock] # 0
      BY <1>4 DEF ProgramInv, LockHeld
    <2>2. u < n
      BY <2>1, KeysApart DEF ProgramInv, ProgramTypes
    <2>3. t \in Live /\ u \in Live
      BY <2>1, <2>2 DEF Live
    <2> QED  BY <1>4, <2>1, <2>3, NotAlone
  <1> QED  BY <1>1, <1>2, <1>3, <1>4

\* Every instruction of the program keeps the invariant.
LEMMA ProgramStep ==
    ASSUME ProgramInv, NEW t \in Tids, t < n, ~ suspended[t], NEW delay,
           lock \in Words, GuestInstruction(t, delay)
    PROVE  ProgramInv'
  <1>1. /\ n \in Nat \ {0} /\ target \in Nat \ {0} /\ MaxThreads \in Nat
        /\ mem \in [Words -> Nat] /\ pc \in [Tids -> Labels]
        /\ \A u \in Tids : pc[u] = "unlock" => mem[lock] # 0
    BY KeysApart DEF ProgramInv, ProgramTypes, LockHeld
  <1>2. CASE Spawn(t, delay)
    <2> DEFINE label == IF n' = MaxThreads THEN "cas" ELSE "spawn"
    <2>1. /\ pc[t] = "spawn" /\ Goto(t, label)
          /\ n < MaxThreads /\ n' = n + 1
          /\ suspended' = [suspended EXCEPT ![n] = FALSE]
          /\ clear_child_tid' = [clear_child_tid EXCEPT ![n] = n + 1]
          /\ mem' = [w \in Words |-> IF w = n + 1 THEN n + 1 ELSE mem[w]]
          /\ UNCHANGED target
      BY <1>2 DEF Spawn, clone, TidWord
    <2>2. label \in OtherLabels
      BY LabelsApart
    <2> HIDE DEF label
    <2>3. n \in Tids /\ n # t /\ n + 1 # lock /\ n + 1 \in Nat \ {0}
      BY <1>1, <2>1 DEF Tids, lock
    <2>4. /\ pc' \in [Tids -> Labels] /\ pc'[t] = label
          /\ \A u \in Tids : u # t => pc'[u] = pc[u]
      BY <1>1, <2>1, <2>2, LabelsApart DEF Goto
    <2>5. mem' \in [Words -> Nat] /\ mem'[lock] = mem[lock]
      BY <1>1, <2>1, <2>3
    <2>6. /\ suspended' \in [Tids -> BOOLEAN] /\ ~ suspended'[n]
          /\ \A u \in Tids : u # n => suspended'[u] = suspended[u]
      BY <2>1, <2>3 DEF ProgramInv, ProgramTypes
    <2>7. /\ clear_child_tid' \in [Tids -> Nat] /\ clear_child_tid'[n] = n + 1
          /\ \A u \in Tids : u # n => clear_child_tid'[u] = clear_child_tid[u]
      BY <2>1, <2>3 DEF ProgramInv, ProgramTypes
    <2>8. ProgramTypes'
      BY <1>1, <2>1, <2>3, <2>4, <2>5, <2>6, <2>7 DEF ProgramTypes
    <2>9. ASSUME NEW u \in Tids
          PROVE  /\ clear_child_tid'[u] # lock
                 /\ suspended'[u] => pc'[u] = "ended"
                 /\ u >= n + 1 => pc'[u] = "cas"
                 /\ pc'[u] = "unlock" => mem'[lock] # 0
      <3>1. u \in Nat /\ t \in Nat /\ (u >= n + 1 => u >= n /\ u # t)
        BY <1>1, KeysApart
      <3>2. clear_child_tid'[u] # lock
        BY <2>3, <2>7 DEF ProgramInv, LockHeld
      <3>3. suspended'[u] => pc'[u] = "ended"
        BY <2>4, <2>6 DEF ProgramInv, LockHeld
      <3>4. u >= n + 1 => pc'[u] = "cas"
        BY <2>4, <3>1 DEF ProgramInv, LockHeld
      <3>5. pc'[u] = "unlock" => mem'[lock] # 0
        BY LabelsApart, <1>1, <2>2, <2>4, <2>5
      <3> QED  BY <3>2, <3>3, <3>4, <3>5
    <2>10. LockHeld'
      BY <2>1, <2>9 DEF LockHeld, lock
    <2>11. LockExcludes'
      BY LabelsApart, <2>2, <2>4 DEF ProgramInv, LockExcludes
    <2> QED  BY <2>8, <2>10, <2>11 DEF ProgramInv
  <1>3. CASE Cas(t, delay)
    <2>1. CASE mem[lock] = 0
      <3>1. /\ Goto(t, "unlock") /\ mem' = [mem EXCEPT ![lock] = 1]
            /\ UNCHANGED <<n, suspended, clear_child_tid, target>>
        BY <1>3, <2>1 DEF Cas, Store
      <3>2. 1 \in Nat \ {0}
        OBVIOUS
      <3> QED  BY <2>1, <3>1, <3>2, TakeStep, Zenon
    <2>2. CASE mem[lock] # 0
      <3>1. Goto(t, "xchg") /\ UNCHANGED <<n, suspended, clear_child_tid, target, mem>>
        BY <1>3, <2>2 DEF Cas, OtherInstruction
      <3> QED  BY <1>1, <2>2, <3>1, LabelsApart, QuietStep
    <2> QED  BY <2>1, <2>2
  <1>4. CASE Xchg(t, delay)
    <2>1. /\ Goto(t, IF mem[lock] = 0 THEN "unlock" ELSE "wait")
          /\ mem' = [mem EXCEPT ![lock] = 2]
          /\ UNCHANGED <<n, suspended, clear_child_tid, target>>
      BY <1>4 DEF Xchg, Store
    <2>2. CASE mem[lock] = 0
      <3>1. 2 \in Nat \ {0} /\ Goto(t, "unlock")
        BY <2>1, <2>2
      <3> QED  BY <2>1, <2>2, <3>1, TakeStep, Zenon
    <2>3. CASE mem[lock] # 0
      <3>1. mem' \in [Words -> Nat] /\ mem'[lock] = 2
        BY <1>1, <2>1
      <3> QED  BY <1>1, <2>1, <2>3, <3>1, LabelsApart, QuietStep
    <2> QED  BY <2>2, <2>3
  <1>5. CASE Wait(t, delay)
    <2>1. PICK timeout \in BOOLEAN : futex_wait(t, lock, 2, timeout, delay)
      BY <1>5 DEF Wait
    <2>2. pc[t] = "wait" /\ Goto(t, "xchg") /\ UNCHANGED target
      BY <1>5 DEF Wait
    <2>3. /\ mem' \in [Words -> Nat] /\ UNCHANGED <<n, suspended, clear_child_tid>>
          /\ \A u \in Tids : u # t /\ pc[u] = "unlock" => mem'[lock] # 0
      BY <2>1, <2>2, WaitKeepsLock
    <2> QED  BY <1>1, <2>2, <2>3, LabelsApart, QuietStep
  <1>6. CASE Unlock(t, delay)
    <2> DEFINE label == IF mem[lock] = 2 THEN "wake" ELSE NextRound(t)
    <2>1. /\ pc[t] = "unlock" /\ Goto(t, label) /\ mem' = [mem EXCEPT ![lock] = 0]
          /\ UNCHANGED <<n, suspended, clear_child_tid, target>>
      BY <1>6 DEF Unlock, Store
    <2>2. label \in OtherLabels
      BY LabelsApart DEF NextRound
    <2>3. \A u \in Tids : pc[u] = "unlock" => u = t
      BY <2>1 DEF ProgramInv, LockExcludes
    <2>4. mem' \in [Words -> Nat]
      BY <1>1, <2>1
    <2> HIDE DEF label
    <2> QED  BY <1>1, <2>1, <2>2, <2>3, <2>4, LabelsApart, QuietStep
  <1>7. CASE Wakeup(t, delay)
    <2> DEFINE label == IF left[t] > 0 THEN "cas" ELSE IF t = 0 THEN "load" ELSE "exit"
    <2>1. Goto(t, label) /\ UNCHANGED <<n, suspended, clear_child_tid, target, mem>>
      BY <1>7 DEF Wakeup, futex_wake
    <2>2. label \in OtherLabels
      BY LabelsApart
    <2> HIDE DEF label
    <2> QED  BY <1>1, <2>1, <2>2, LabelsApart, QuietStep
  <1>8. CASE Load(t, delay)
    <2>1. pc[t] = "load" /\ UNCHANGED <<n, suspended, clear_child_tid, mem>>
      BY <1>8 DEF Load, OtherInstruction
    <2>2. target' \in Nat \ {0}
      BY <1>1, <1>8 DEF Load
    <2>3. Goto(t, "join") \/ Goto(t, "exit") \/ Goto(t, "load")
      <3>1. [pc EXCEPT ![t] = "load"] = pc
        BY <1>1, <2>1
      <3> QED  BY <1>8, <3>1 DEF Load, Goto
    <2> QED  BY <1>1, <2>1, <2>2, <2>3, LabelsApart, QuietStep
  <1>9. CASE Join(t, delay)
    <2>1. /\ pc[t] = "join" /\ Goto(t, "load") /\ UNCHANGED target
          /\ futex_wait(t, TidWord(target), seen, FALSE, delay)
      BY <1>9, Zenon DEF Join
    <2>2. /\ mem' \in [Words -> Nat] /\ UNCHANGED <<n, suspended, clear_child_tid>>
          /\ \A u \in Tids : u # t /\ pc[u] = "unlock" => mem'[lock] # 0
      BY <2>1, WaitKeepsLock, Zenon
    <2> QED  BY <1>1, <2>1, <2>2, LabelsApart, QuietStep
  <1>10. CASE Exit(t, delay)
    <2>1. pc[t] = "exit" /\ Goto(t, "ended") /\ UNCHANGED target
      BY <1>10 DEF Exit
    <2>2. CASE retire_current_thread(t, delay)
      <3>1. /\ suspended' = [suspended EXCEPT ![t] = TRUE]
            /\ mem' = [w \in Words |-> IF w = clear_child_tid[t] THEN 0 ELSE mem[w]]
            /\ UNCHANGED <<n, clear_child_tid>>
        BY <2>2 DEF retire_current_thread
      <3>2. /\ pc' \in [Tids -> Labels] /\ pc'[t] = "ended"
            /\ \A u \in Tids : u # t => pc'[u] = pc[u]
        BY <1>1, <2>1, LabelsApart DEF Goto
      <3>3. mem' \in [Words -> Nat] /\ mem'[lock] = mem[lock]
        BY <1>1, <3>1 DEF ProgramInv, LockHeld
      <3>4. /\ suspended' \in [Tids -> BOOLEAN]
            /\ \A u \in Tids : u # t => suspended'[u] = suspended[u]
        BY <3>1 DEF ProgramInv, ProgramTypes
      <3>5. ProgramTypes'
        BY <2>1, <3>1, <3>2, <3>3, <3>4 DEF ProgramInv, ProgramTypes
      <3>6. t \in Nat
        BY KeysApart
      <3>7. ASSUME NEW u \in Tids
            PROVE  /\ clear_child_tid[u] # lock
                   /\ suspended'[u] => pc'[u] = "ended"
                   /\ u >= n => pc'[u] = "cas"
                   /\ pc'[u] = "unlock" => mem'[lock] # 0
        <4>1. CASE u = t
          BY <1>1, <3>2, <3>6, <4>1 DEF ProgramInv, LockHeld
        <4>2. CASE u # t
          BY <3>2, <3>3, <3>4, <4>2 DEF ProgramInv, LockHeld
        <4> QED  BY <4>1, <4>2
      <3>8. LockHeld'
        BY <3>1, <3>7 DEF LockHeld, lock
      <3>9. LockExcludes'
        BY <3>2 DEF ProgramInv, LockExcludes
      <3> QED  BY <3>5, <3>8, <3>9 DEF ProgramInv
    <2>3. CASE handle_syscall64_exit(t, delay)
      <3>1. UNCHANGED <<n, suspended, clear_child_tid, mem>>
        BY <2>3 DEF handle_syscall64_exit
      <3> QED  BY <1>1, <2>1, <3>1, LabelsApart, QuietStep
    <2> QED  BY <1>10, <2>2, <2>3 DEF Exit, exit_thread
  <1>11. CASE Pause(t, delay)
    <2>1. UNCHANGED <<n, suspended, clear_child_tid, mem, pc, target>>
      BY <1>11 DEF Pause, OtherInstruction, sched_yield
    <2> QED  BY <2>1 DEF ProgramInv, ProgramTypes, LockHeld, LockExcludes
  <1> QED  BY <1>2, <1>3, <1>4, <1>5, <1>6, <1>7, <1>8, <1>9, <1>10, <1>11 DEF GuestInstruction

\* glibc's low-level lock excludes on this emulator, for any number of threads
\* and rounds, although futex frees the word when its caller is the only live
\* thread.  (The lock word is a word of memory.)
THEOREM LockIsExclusive ==
    ASSUME lock \in Words
    PROVE  GuestSpec => []LockExcludes
  <1>1. GuestInit => ProgramInv
    <2> SUFFICES ASSUME GuestInit PROVE ProgramInv
      OBVIOUS
    <2>1. \A t \in Tids : pc[t] \in Labels /\ pc[t] # "unlock" /\ (t # 0 => pc[t] = "cas")
      BY LabelsApart DEF GuestInit
    <2>2. ProgramTypes
      BY <2>1 DEF GuestInit, Init, ProgramTypes
    <2>3. LockHeld
      BY <2>1, KeysApart DEF GuestInit, Init, LockHeld, lock
    <2> QED  BY <2>1, <2>2, <2>3 DEF ProgramInv, LockExcludes
  <1>2. ProgramInv /\ [GuestNext]_<<vars, guest>> => ProgramInv'
    <2> SUFFICES ASSUME ProgramInv, [GuestNext]_<<vars, guest>> PROVE ProgramInv'
      OBVIOUS
    <2>1. CASE GuestStep
      <3>1. PICK t \in Tids, delay \in WakeDelays :
              Scheduled(t, delay) /\ GuestInstruction(t, delay)
        BY <2>1 DEF GuestStep
      <3>2. t < n /\ ~ suspended[t]
        BY <3>1 DEF Scheduled, Picked, Runnable, is_runnable
      <3> QED  BY <3>1, <3>2, ProgramStep
    <2>2. CASE UNCHANGED <<n, suspended, clear_child_tid, mem, pc, target>>
      BY <2>2 DEF ProgramInv, ProgramTypes, LockHeld, LockExcludes
    <2> QED  BY <2>1, <2>2 DEF GuestNext, AllBlocked, Finished, vars, threads, guest
  <1>3. ProgramInv => LockExcludes
    BY DEF ProgramInv
  <1> QED  BY <1>1, <1>2, <1>3, PTL DEF GuestSpec
=============================================================================
