------------------------- MODULE CritSectionsProofs -------------------------
(***************************************************************************)
(* Proofs about CritSections, for every number of threads and sections.    *)
(***************************************************************************)
EXTENDS CritSections, TLAPS

\* Appending to a queue (push_back) adds exactly the appended thread to its
\* members, and keeps it free of duplicates when the thread was not in it.
LEMMA AppendMembers ==
    ASSUME NEW q \in Seq(Tids), NEW t \in Tids
    PROVE  /\ Append(q, t) \in Seq(Tids)
           /\ \A u : Member(Append(q, t), u) <=> Member(q, u) \/ u = t
           /\ Distinct(q) /\ ~ Member(q, t) => Distinct(Append(q, t))
  <1> DEFINE a == Append(q, t)
  <1>1. /\ a \in Seq(Tids)
        /\ DOMAIN q = 1 .. Len(q) /\ DOMAIN a = 1 .. Len(q) + 1
        /\ \A k \in 1 .. Len(q) : a[k] = q[k]
        /\ a[Len(q) + 1] = t
        /\ Len(q) \in Nat
    OBVIOUS
  <1> HIDE DEF a
  <1>2. ASSUME NEW u PROVE Member(a, u) <=> Member(q, u) \/ u = t
    <2>1. ASSUME Member(a, u) PROVE Member(q, u) \/ u = t
      BY <1>1, <2>1 DEF Member
    <2>2. ASSUME Member(q, u) PROVE Member(a, u)
      BY <1>1, <2>2 DEF Member
    <2>3. Member(a, t)
      <3>1. Len(q) + 1 \in DOMAIN a
        BY <1>1
      <3> QED  BY <1>1, <3>1 DEF Member
    <2> QED  BY <2>1, <2>2, <2>3
  <1>3. ASSUME Distinct(q), ~ Member(q, t) PROVE Distinct(a)
    BY <1>1, <1>3 DEF Distinct, Member
  <1> QED  BY <1>1, <1>2, <1>3 DEF a

\* Taking the front off a queue without duplicates (pop_front) removes exactly
\* that thread from its members.
LEMMA TailMembers ==
    ASSUME NEW q \in Seq(Tids), q # << >>, Distinct(q)
    PROVE  /\ Head(q) \in Tids
           /\ Tail(q) \in Seq(Tids)
           /\ Member(q, Head(q))
           /\ \A u : Member(Tail(q), u) <=> Member(q, u) /\ u # Head(q)
           /\ Distinct(Tail(q))
  <1> DEFINE r == Tail(q)
             h == Head(q)
  <1>1. /\ r \in Seq(Tids) /\ h \in Tids /\ h = q[1]
        /\ DOMAIN q = 1 .. Len(q) /\ DOMAIN r = 1 .. Len(q) - 1
        /\ \A k \in 1 .. Len(q) - 1 : r[k] = q[k + 1]
        /\ Len(q) \in Nat /\ Len(q) >= 1
    OBVIOUS
  <1> HIDE DEF r, h
  <1>2. Member(q, h)
    <2>1. 1 \in DOMAIN q
      BY <1>1
    <2> QED  BY <1>1, <2>1 DEF Member
  <1>3. ASSUME NEW u PROVE Member(r, u) <=> Member(q, u) /\ u # h
    <2>1. ASSUME Member(r, u) PROVE Member(q, u) /\ u # h
      <3>1. PICK k \in DOMAIN r : r[k] = u
        BY <2>1 DEF Member
      <3>2. k + 1 \in DOMAIN q /\ q[k + 1] = u /\ 1 \in DOMAIN q /\ k + 1 # 1
        BY <1>1, <3>1
      <3> QED  BY <1>1, <3>2 DEF Member, Distinct
    <2>2. ASSUME Member(q, u), u # h PROVE Member(r, u)
      <3>1. PICK k \in DOMAIN q : q[k] = u
        BY <2>2 DEF Member
      <3>2. k - 1 \in DOMAIN r /\ r[k - 1] = u
        BY <1>1, <2>2, <3>1
      <3> QED  BY <3>2 DEF Member
    <2> QED  BY <2>1, <2>2
  <1>4. Distinct(r)
    <2> SUFFICES ASSUME NEW j \in DOMAIN r, NEW k \in DOMAIN r, r[j] = r[k] PROVE j = k
      BY DEF Distinct
    <2>1. j + 1 \in DOMAIN q /\ k + 1 \in DOMAIN q /\ q[j + 1] = q[k + 1]
      BY <1>1
    <2>2. j + 1 = k + 1
      BY <2>1 DEF Distinct
    <2> QED  BY <2>2, <1>1
  <1> QED  BY <1>1, <1>2, <1>3, <1>4 DEF r, h

-----------------------------------------------------------------------------
(* The operations of GlobalLocks on one section *)

\* What LockInv says of one section.
SectionOK(s) ==
    /\ s \in CritState
    /\ Distinct(s.wait_queue)
    /\ s.owner_tid = None <=> s.recursion_count = 0
    /\ s.wait_queue # << >> => s.owner_tid # None
    /\ ~ Queued(s, s.owner_tid)

\* GlobalLocks::enter keeps a section consistent, and queues the caller
\* exactly when it does not acquire the section.
LEMMA EnterSection ==
    ASSUME NEW s, SectionOK(s), NEW t \in Tids, ~ Queued(s, t)
    PROVE  /\ SectionOK(enter(s, t))
           /\ \A u : Queued(enter(s, t), u) <=> Queued(s, u) \/ (u = t /\ ~ acquired(s, t))
  <1> USE DEF SectionOK, CritState, enter, acquired, Queued
  <1>0. t # None
    BY CritSectionsAssumption DEF Tids, None
  <1>1. CASE s.owner_tid = None
    <2>1. enter(s, t) = [owner_tid |-> t, recursion_count |-> 1, wait_queue |-> s.wait_queue]
      BY <1>1, Zenon
    <2> HIDE DEF enter
    <2> QED  BY <1>0, <1>1, <2>1
  <1>2. CASE s.owner_tid = t
    <2>1. enter(s, t) = [owner_tid |-> t, recursion_count |-> s.recursion_count + 1,
                         wait_queue |-> s.wait_queue]
      BY <1>0, <1>2
    <2> HIDE DEF enter
    <2> QED  BY <1>0, <1>2, <2>1
  <1>3. CASE s.owner_tid \notin {None, t}
    <2>1. enter(s, t) = [s EXCEPT !.wait_queue = Append(@, t)]
      BY <1>3
    <2>2. /\ Append(s.wait_queue, t) \in Seq(Tids)
          /\ \A u : Member(Append(s.wait_queue, t), u) <=> Member(s.wait_queue, u) \/ u = t
          /\ Distinct(Append(s.wait_queue, t))
      BY AppendMembers
    <2> QED  BY <1>3, <2>1, <2>2
  <1> QED  BY <1>1, <1>2, <1>3

\* GlobalLocks::leave keeps a section consistent; the thread it returns is the
\* one it takes out of the queue.
LEMMA LeaveSection ==
    ASSUME NEW s, SectionOK(s), NEW t \in Tids
    PROVE  /\ SectionOK(leave(s, t).state)
           /\ \A u \in Tids : Queued(leave(s, t).state, u) <=> Queued(s, u) /\ u # leave(s, t).wake
           /\ leave(s, t).wake \in Tids => Queued(s, leave(s, t).wake)
           /\ leave(s, t).wake \in Tids \cup {None}
  <1> USE DEF SectionOK, CritState, leave, Queued
  <1>0. \A u \in Tids : u # None
    BY CritSectionsAssumption DEF Tids, None
  <1>1. CASE s.owner_tid # t
    BY <1>0, <1>1
  <1>2. CASE s.owner_tid = t /\ s.recursion_count > 1
    BY <1>0, <1>2
  <1>3. CASE s.owner_tid = t /\ ~ s.recursion_count > 1 /\ s.wait_queue = << >>
    <2>1. /\ leave(s, t).state = [owner_tid |-> None, recursion_count |-> 0, wait_queue |-> << >>]
          /\ leave(s, t).wake = None
      BY <1>3, Zenon
    <2>2. << >> \in Seq(Tids) /\ Distinct(<< >>) /\ \A u : ~ Member(<< >>, u)
      BY DEF Member, Distinct
    <2> HIDE DEF leave
    <2> QED  BY <1>0, <1>3, <2>1, <2>2
  <1>4. CASE s.owner_tid = t /\ ~ s.recursion_count > 1 /\ s.wait_queue # << >>
    <2> DEFINE h == Head(s.wait_queue)
    <2>1. /\ leave(s, t).state = [owner_tid |-> h, recursion_count |-> 1,
                                  wait_queue |-> Tail(s.wait_queue)]
          /\ leave(s, t).wake = h
      BY <1>4
    <2>2. /\ h \in Tids
          /\ Tail(s.wait_queue) \in Seq(Tids)
          /\ Member(s.wait_queue, h)
          /\ \A u : Member(Tail(s.wait_queue), u) <=> Member(s.wait_queue, u) /\ u # h
          /\ Distinct(Tail(s.wait_queue))
      BY <1>4, TailMembers
    <2> HIDE DEF h, leave
    <2> QED  BY <1>0, <2>1, <2>2
  <1> QED  BY <1>1, <1>2, <1>3, <1>4
-----------------------------------------------------------------------------
(* The invariant *)

\* The part of LockInv that relates threads and sections, for given values of
\* the two tables and of the number of threads.
TablesOK(blocked, cm, len) ==
    /\ blocked \in [Tids -> CS \cup {None}]
    /\ cm \in [CS -> CritState]
    /\ \A cs \in CS : SectionOK(cm[cs])
    /\ \A cs \in CS, t \in Tids : blocked[t] = cs <=> Queued(cm[cs], t)
    /\ \A t \in Tids : t >= len => blocked[t] = None

\* LockInv is TablesOK and the types of the remaining variables.
LEMMA LockInvTables ==
    LockInv <=> /\ TablesOK(blocked_on_cs, crit_map, n)
                /\ n \in 1 .. MaxThreads
                /\ suspended \in [Tids -> BOOLEAN]
                /\ sleep \in [Tids -> Nat]
                /\ current_thread_id \in 0 .. n - 1
                /\ status \in {"running", "stopped", "blocked"}
  BY DEF LockInv, TypeOK, BlockedIffQueued, QueuedOnce, WaitersHaveOwner, UnusedUnblocked,
         TablesOK, SectionOK

\* A handler that changes one section, and blocks or wakes threads on that
\* section only, keeps the tables consistent if the section's queue follows.
LEMMA SectionStep ==
    ASSUME NEW blocked, NEW cm, NEW len, TablesOK(blocked, cm, len),
           NEW cs \in CS, NEW s, SectionOK(s),
           NEW blocked2 \in [Tids -> CS \cup {None}],
           \A u \in Tids : blocked2[u] = cs <=> Queued(s, u),
           \A u \in Tids : blocked2[u] # blocked[u] =>
                u < len /\ blocked[u] \in {cs, None} /\ blocked2[u] \in {cs, None},
           len \in Nat
    PROVE  TablesOK(blocked2, [cm EXCEPT ![cs] = s], len)
  <1> DEFINE cm2 == [cm EXCEPT ![cs] = s]
  <1>0. None \notin CS
    BY CritSectionsAssumption DEF None
  <1>1. cm2 \in [CS -> CritState] /\ \A c \in CS : cm2[c] = IF c = cs THEN s ELSE cm[c]
    BY DEF TablesOK, SectionOK
  <1> HIDE DEF cm2
  <1>2. \A c \in CS : SectionOK(cm2[c])
    BY <1>1 DEF TablesOK
  <1>3. ASSUME NEW c \in CS, NEW u \in Tids PROVE blocked2[u] = c <=> Queued(cm2[c], u)
    <2>1. CASE c = cs
      BY <1>1, <2>1
    <2>2. CASE c # cs
      <3>1. cm2[c] = cm[c] /\ (blocked[u] = c <=> Queued(cm[c], u))
        BY <1>1, <2>2 DEF TablesOK
      <3>2. blocked2[u] = c <=> blocked[u] = c
        BY <1>0, <2>2
      <3> QED  BY <3>1, <3>2
    <2> QED  BY <2>1, <2>2
  <1>4. ASSUME NEW u \in Tids, u >= len PROVE blocked2[u] = None
    <2>1. u \in Int
      BY DEF Tids
    <2> QED  BY <1>4, <2>1 DEF TablesOK
  <1> QED  BY <1>1, <1>2, <1>3, <1>4 DEF TablesOK, cm2

\* An index into the thread table stays one when the table grows.
LEMMA IndexStaysInRange ==
    \A i, len, len2, max \in Nat :
        1 <= len /\ i < len /\ len <= len2 /\ len2 <= max => len2 \in 1 .. max /\ i \in 0 .. len2 - 1
  OBVIOUS

\* LockInv holds in the initial state.
LEMMA InitLockInv == Init => LockInv
  <1> SUFFICES ASSUME Init PROVE LockInv
    OBVIOUS
  <1>1. << >> \in Seq(Tids) /\ Distinct(<< >>) /\ \A u : ~ Member(<< >>, u)
    BY DEF Member, Distinct
  <1>2. None \notin CS
    BY CritSectionsAssumption DEF None
  <1>3. NewCritState \in CritState /\ SectionOK(NewCritState) /\ \A t : ~ Queued(NewCritState, t)
    BY <1>1 DEF SectionOK, Queued, NewCritState, CritState
  <1>4. TablesOK(blocked_on_cs, crit_map, n)
    BY <1>2, <1>3 DEF Init, TablesOK
  <1> QED  BY <1>4, LockInvTables, CritSectionsAssumption DEF Init

\* LockInv survives every instruction of a thread that the scheduler picked.
LEMMA InstructionLockInv ==
    ASSUME LockInv, NEW t \in Tids, NEW delay \in Nat,
           is_runnable(t, delay), status = "running", current_thread_id' = t,
           Instruction(t, delay)
    PROVE  LockInv'
  <1>1. /\ TablesOK(blocked_on_cs, crit_map, n)
        /\ n \in 1 .. MaxThreads /\ n \in Nat
        /\ sleep \in [Tids -> Nat] /\ suspended \in [Tids -> BOOLEAN]
        /\ t < n /\ blocked_on_cs[t] = None
    BY LockInvTables, CritSectionsAssumption DEF is_runnable
  <1>2. None \notin CS /\ None \notin Tids /\ MaxThreads \in Nat /\ MaxMillis \in Nat
    BY CritSectionsAssumption DEF None, Tids
  <1> DEFINE Good == /\ TablesOK(blocked_on_cs, crit_map, n)'
                     /\ n' \in n .. MaxThreads
                     /\ suspended' \in [Tids -> BOOLEAN]
                     /\ sleep' \in [Tids -> Nat]
                     /\ status' \in {"running", "stopped", "blocked"}
  <1>3. ASSUME Good PROVE LockInv'
    <2>1. n' \in 1 .. MaxThreads /\ current_thread_id' \in 0 .. n' - 1
      <3>1. n' \in n .. MaxThreads
        BY <1>3
      <3>2. t \in Nat
        BY <1>2 DEF Tids
      <3>3. n' \in Nat /\ n <= n' /\ n' <= MaxThreads /\ 1 <= n
        BY <1>1, <1>2, <3>1
      <3>4. t < n /\ n \in Nat
        BY <1>1
      <3> QED  BY <1>2, <3>2, <3>3, <3>4, IndexStaysInRange, Zenon
    <2> QED  BY <1>3, <2>1, LockInvTables DEF LockInv, TypeOK, BlockedIffQueued, QueuedOnce,
                WaitersHaveOwner, UnusedUnblocked, TablesOK, SectionOK
  \* A thread that is not blocked stands in no queue.
  <1>4. \A cs \in CS : ~ Queued(crit_map[cs], t)
    BY <1>1, <1>2 DEF TablesOK
  <1>5. \A ticks \in Nat : Elapsed(ticks) \in [Tids -> Nat]
    BY <1>1 DEF Elapsed, Remaining
  <1>6. ASSUME NEW cs \in CS, EnterCriticalSection(t, cs, delay) PROVE Good
    <2> DEFINE s == crit_map[cs]
    <2>1. /\ SectionOK(enter(s, t))
          /\ \A u : Queued(enter(s, t), u) <=> Queued(s, u) \/ (u = t /\ ~ acquired(s, t))
      <3>1. SectionOK(s)
        BY <1>1 DEF TablesOK
      <3> QED  BY <1>4, <3>1, EnterSection
    <2>2. \A u \in Tids : blocked_on_cs[u] = cs <=> Queued(s, u)
      BY <1>1 DEF TablesOK
    <2>3. blocked_on_cs' \in [Tids -> CS \cup {None}]
      BY <1>1, <1>6 DEF EnterCriticalSection, TablesOK
    <2>4. \A u \in Tids : blocked_on_cs'[u] = cs <=> Queued(enter(s, t), u)
      <3>1. CASE acquired(s, t)
        BY <1>6, <2>1, <2>2, <3>1 DEF EnterCriticalSection
      <3>2. CASE ~ acquired(s, t)
        <4>1. blocked_on_cs' = [blocked_on_cs EXCEPT ![t] = cs]
          BY <1>6, <3>2 DEF EnterCriticalSection
        <4> QED  BY <1>1, <2>1, <2>2, <3>2, <4>1 DEF TablesOK
      <3> QED  BY <3>1, <3>2
    <2>5. \A u \in Tids : blocked_on_cs'[u] # blocked_on_cs[u] =>
            u < n /\ blocked_on_cs[u] \in {cs, None} /\ blocked_on_cs'[u] \in {cs, None}
      BY <1>1, <1>6 DEF EnterCriticalSection, TablesOK
    <2>6. TablesOK(blocked_on_cs', [crit_map EXCEPT ![cs] = enter(s, t)], n)
      BY <1>1, <2>1, <2>3, <2>4, <2>5, SectionStep
    <2>7. /\ crit_map' = [crit_map EXCEPT ![cs] = enter(s, t)]
          /\ n' = n /\ suspended' = suspended /\ status' = status
          /\ \E ticks \in Nat : sleep' = Elapsed(ticks)
      BY <1>6 DEF EnterCriticalSection
    <2> QED  BY <1>1, <1>2, <1>5, <2>6, <2>7
  <1>7. ASSUME NEW cs \in CS, LeaveCriticalSection(t, cs, delay) PROVE Good
    <2> DEFINE s == crit_map[cs]
               w == leave(s, t).wake
    <2>1. /\ SectionOK(leave(s, t).state)
          /\ \A u \in Tids : Queued(leave(s, t).state, u) <=> Queued(s, u) /\ u # w
          /\ w \in Tids => Queued(s, w)
      BY <1>1, LeaveSection DEF TablesOK
    <2>2. /\ crit_map' = [crit_map EXCEPT ![cs] = leave(s, t).state]
          /\ blocked_on_cs' = [u \in Tids |-> IF u = w THEN None ELSE blocked_on_cs[u]]
          /\ sleep' = [u \in Tids |-> IF u = w THEN 0 ELSE Remaining(sleep[u], delay + 1)]
          /\ n' = n /\ suspended' = suspended /\ status' = status
      BY <1>7 DEF LeaveCriticalSection
    <2>3. \A u \in Tids : (blocked_on_cs[u] = cs <=> Queued(s, u)) /\ (u >= n => blocked_on_cs[u] = None)
      BY <1>1 DEF TablesOK
    <2> HIDE DEF w, s
    <2>4. blocked_on_cs' \in [Tids -> CS \cup {None}]
      BY <1>1, <2>2 DEF TablesOK
    <2>5. \A u \in Tids : blocked_on_cs'[u] = cs <=> Queued(leave(s, t).state, u)
      BY <1>2, <2>1, <2>2, <2>3
    <2>6. \A u \in Tids : blocked_on_cs'[u] # blocked_on_cs[u] =>
            u < n /\ blocked_on_cs[u] \in {cs, None} /\ blocked_on_cs'[u] \in {cs, None}
      <3>1. \A u \in Tids : u \in Int
        BY DEF Tids
      <3> QED  BY <1>1, <2>1, <2>2, <2>3, <3>1
    <2>7. TablesOK(blocked_on_cs', [crit_map EXCEPT ![cs] = leave(s, t).state], n)
      BY <1>1, <2>1, <2>4, <2>5, <2>6, SectionStep
    <2>8. sleep' \in [Tids -> Nat]
      BY <1>1, <2>2 DEF Remaining
    <2> QED  BY <1>1, <1>2, <2>2, <2>7, <2>8
  \* The other handlers leave sections and blocked_on_cs alone.
  <1>8. ASSUME blocked_on_cs' = blocked_on_cs, crit_map' = crit_map, n' = n
        PROVE  TablesOK(blocked_on_cs, crit_map, n)' /\ n' \in n .. MaxThreads
    BY <1>1, <1>2, <1>8
  <1>9. ASSUME NEW millis \in 0 .. MaxMillis, Sleep(t, millis, delay) PROVE Good
    <2>1. sleep' \in [Tids -> Nat]
      <3>1. CASE \E ticks \in Nat : sleep' = Elapsed(ticks)
        BY <1>5, <3>1
      <3>2. CASE sleep' = [u \in Tids |-> IF u = t THEN Remaining(millis, millis)
                                         ELSE Remaining(sleep[u], delay + millis)]
        <4>1. millis \in Nat
          BY <1>2
        <4> QED  BY <1>1, <3>2, <4>1 DEF Remaining
      <3> QED  BY <1>9, <3>1, <3>2 DEF Sleep
    <2> QED  BY <1>1, <1>8, <1>9, <2>1 DEF Sleep
  <1>10. ASSUME NEW susp \in BOOLEAN, CreateThread(t, susp, delay) PROVE Good
    <2>1. n \in Tids /\ n' = n + 1 /\ n' \in n .. MaxThreads
      BY <1>1, <1>2, <1>10 DEF CreateThread, Tids
    <2>2. blocked_on_cs[n] = None
      BY <1>1, <2>1 DEF TablesOK
    <2>3. blocked_on_cs' = blocked_on_cs /\ crit_map' = crit_map /\ status' = status
      BY <1>1, <1>10, <2>2 DEF CreateThread, TablesOK
    <2>4. TablesOK(blocked_on_cs, crit_map, n)'
      <3>1. \A u \in Tids : u \in Int
        BY DEF Tids
      <3> QED  BY <1>1, <2>1, <2>3, <3>1 DEF TablesOK
    <2>5. sleep' \in [Tids -> Nat] /\ suspended' \in [Tids -> BOOLEAN]
      BY <1>1, <1>5, <1>10, Zenon DEF CreateThread
    <2> QED  BY <2>1, <2>3, <2>4, <2>5
  <1>11. ASSUME NEW target \in Tids, ResumeThread(t, target, delay) PROVE Good
    BY <1>1, <1>5, <1>8, <1>11 DEF ResumeThread
  <1>12. ASSUME ExitThread(t, delay) PROVE Good
    BY <1>1, <1>5, <1>8, <1>12 DEF ExitThread
  <1>13. ASSUME OtherInstruction(t, delay) PROVE Good
    <2>1. sleep' \in [Tids -> Nat]
      BY <1>2, <1>5, <1>13 DEF OtherInstruction
    <2> QED  BY <1>1, <1>8, <1>13, <2>1 DEF OtherInstruction
  <1> HIDE DEF Good
  <1> QED  BY <1>3, <1>6, <1>7, <1>9, <1>10, <1>11, <1>12, <1>13 DEF Instruction

\* The invariant of the critical sections: TypeOK, and the agreement between
\* the threads' blocked_on_cs and the sections' owners and queues, hold in
\* every state of every program, for any number of threads and sections.
THEOREM LockInvariant == Spec => []LockInv
  <1>1. Init => LockInv
    BY InitLockInv
  <1>2. LockInv /\ [Next]_vars => LockInv'
    <2> SUFFICES ASSUME LockInv, [Next]_vars PROVE LockInv'
      OBVIOUS
    <2>1. CASE Step
      <3>1. PICK t \in Tids, delay \in WakeDelays :
              /\ status = "running" /\ t \in Runnable(delay)
              /\ current_thread_id' = t /\ Instruction(t, delay)
        BY <2>1 DEF Step, Picked
      <3>2. delay \in Nat
        BY DEF WakeDelays, LockInv, TypeOK
      <3>3. is_runnable(t, delay)
        BY <3>1 DEF Runnable
      <3> QED  BY <3>1, <3>2, <3>3, InstructionLockInv
    <2>2. CASE AllBlocked
      BY <2>2 DEF AllBlocked, LockInv, TypeOK, BlockedIffQueued, QueuedOnce, WaitersHaveOwner,
                  UnusedUnblocked
    <2>3. CASE UNCHANGED vars
      BY <2>3 DEF vars, LockInv, TypeOK, BlockedIffQueued, QueuedOnce, WaitersHaveOwner,
                  UnusedUnblocked
    <2> QED  BY <2>1, <2>2, <2>3 DEF Next, Finished
  <1> QED  BY <1>1, <1>2, PTL DEF Spec

\* No wake-up is lost: the threads that blocked_on_cs keeps off the processor
\* are exactly those that a later leave of the section's owner wakes.
THEOREM NoLostWakeup == Spec => [](BlockedIffQueued /\ QueuedOnce /\ WaitersHaveOwner)
  <1>1. LockInv => BlockedIffQueued /\ QueuedOnce /\ WaitersHaveOwner
    BY DEF LockInv
  <1> QED  BY <1>1, LockInvariant, PTL

-----------------------------------------------------------------------------
(* The scheduler *)

\* If i comes before t in the scan after cur, then t is nearer to i than it
\* was to cur.
LEMMA OffsetShrinks ==
    ASSUME NEW len \in Nat, NEW cur \in 0 .. len - 1, NEW i \in 0 .. len - 1,
           NEW t \in 0 .. len - 1, i # t, Offset(i, cur, len) <= Offset(t, cur, len)
    PROVE  Offset(t, i, len) < Offset(t, cur, len)
  BY DEF Offset

\* Bounded bypass in step_multi_threaded: a runnable thread that is passed
\* over moves up in the scan, so at most n - 1 instructions of other threads
\* come between two of its own, whatever the guest executes.
THEOREM BoundedBypass == Spec => TurnApproaches
  <1> DEFINE Approaches == \A t \in Runnable(0) :
               n' = n /\ current_thread_id' # t =>
               Offset(t, current_thread_id', n) < Offset(t, current_thread_id, n)
  <1>1. LockInv /\ [Next]_vars => [Approaches]_vars
    <2> SUFFICES ASSUME LockInv, Next, NEW t \in Runnable(0), current_thread_id' # t
                 PROVE  Offset(t, current_thread_id', n) < Offset(t, current_thread_id, n)
                        \/ UNCHANGED vars
      OBVIOUS
    <2>1. 0 \in Ready
      BY DEF Ready, WakeDelays
    <2>2. CASE Step
      <3>1. PICK i \in Tids, delay \in WakeDelays :
              /\ Waited(delay, Ready)
              /\ Picked(i, Runnable(delay), current_thread_id, n)
              /\ current_thread_id' = i
        BY <2>2 DEF Step
      <3>2. delay = 0
        <4>1. delay \in Nat
          BY DEF WakeDelays, LockInv, TypeOK
        <4> QED  BY <2>1, <3>1, <4>1 DEF Waited
      <3>3. i \in Runnable(0) /\ Offset(i, current_thread_id, n) <= Offset(t, current_thread_id, n)
        BY <3>1, <3>2 DEF Picked
      <3>4. n \in Nat /\ \A u \in Runnable(0) : u \in 0 .. n - 1
        <4>1. n \in Nat
          BY DEF LockInv, TypeOK
        <4> QED  BY <4>1, CritSectionsAssumption DEF Runnable, is_runnable, Tids
      <3>5. current_thread_id \in 0 .. n - 1
        BY DEF LockInv, TypeOK
      <3> QED  BY <3>1, <3>3, <3>4, <3>5, OffsetShrinks
    <2>3. CASE AllBlocked
      BY <2>1, <2>3 DEF AllBlocked
    <2> QED  BY <2>2, <2>3 DEF Next, Finished
  <1> QED  BY <1>1, LockInvariant, PTL DEF Spec, TurnApproaches

-----------------------------------------------------------------------------
(* The clock *)

Awake == sleep = [t \in Tids |-> 0]

\* Whatever time passes, a thread that is due stays due.
LEMMA DueStaysDue ==
    /\ \A e \in Nat : Remaining(0, e) = 0
    /\ \A e \in Nat : Remaining(e, e) = 0
  BY DEF Remaining

\* No instruction leaves a thread with a wake tick ahead: Sleep moves the
\* clock up to the one it sets, and every other handler only moves the clock.
LEMMA InstructionAwake ==
    ASSUME Awake, NEW t \in Tids, Instruction(t, 0)
    PROVE  Awake'
  <1>1. MaxMillis \in Nat /\ \A u \in Tids : sleep[u] = 0
    BY CritSectionsAssumption DEF Awake
  <1>2. \A e \in Nat : Elapsed(0 + e) = [u \in Tids |-> 0] /\ Elapsed(e) = [u \in Tids |-> 0]
    BY <1>1, DueStaysDue DEF Elapsed
  <1>3. ASSUME NEW cs \in CS, EnterCriticalSection(t, cs, 0) PROVE Awake'
    <2>1. sleep' = Elapsed(0 + 1) \/ sleep' = Elapsed(0 + 2)
      BY <1>3 DEF EnterCriticalSection
    <2> QED  BY <1>2, <2>1 DEF Awake
  <1>4. ASSUME NEW cs \in CS, LeaveCriticalSection(t, cs, 0) PROVE Awake'
    <2>1. sleep' = [u \in Tids |-> IF u = leave(crit_map[cs], t).wake THEN 0
                                   ELSE Remaining(sleep[u], 0 + 1)]
      BY <1>4 DEF LeaveCriticalSection
    <2>2. \A u \in Tids : Remaining(sleep[u], 0 + 1) = 0
      BY <1>1, DueStaysDue
    <2> QED  BY <2>1, <2>2 DEF Awake
  <1>5. ASSUME NEW millis \in 0 .. MaxMillis, Sleep(t, millis, 0) PROVE Awake'
    <2>1. millis \in Nat
      BY <1>1
    <2>2. \/ sleep' = Elapsed(0 + 1)
          \/ \E variance \in 1 .. 3 : sleep' = Elapsed(0 + variance)
          \/ sleep' = [u \in Tids |-> IF u = t THEN Remaining(millis, millis)
                                      ELSE Remaining(sleep[u], 0 + millis)]
      BY <1>5 DEF Sleep
    <2>3. Remaining(millis, millis) = 0 /\ \A u \in Tids : Remaining(sleep[u], 0 + millis) = 0
      BY <1>1, <2>1, DueStaysDue
    <2>4. \A v \in 1 .. 3 : v \in Nat
      OBVIOUS
    <2> QED  BY <1>2, <2>2, <2>3, <2>4 DEF Awake
  <1>6. ASSUME NEW create_suspended \in BOOLEAN, CreateThread(t, create_suspended, 0) PROVE Awake'
    BY <1>2, <1>6 DEF CreateThread, Awake
  <1>7. ASSUME NEW target \in Tids, ResumeThread(t, target, 0) PROVE Awake'
    BY <1>2, <1>7 DEF ResumeThread, Awake
  <1>8. ASSUME ExitThread(t, 0) PROVE Awake'
    BY <1>2, <1>8 DEF ExitThread, Awake
  <1>9. ASSUME OtherInstruction(t, 0) PROVE Awake'
    <2>1. PICK millis \in 0 .. MaxMillis : sleep' = Elapsed(0 + millis)
      BY <1>9 DEF OtherInstruction
    <2>2. millis \in Nat
      BY <1>1
    <2> QED  BY <1>2, <2>1, <2>2 DEF Awake
  <1> QED  BY <1>3, <1>4, <1>5, <1>6, <1>7, <1>8, <1>9 DEF Instruction

\* No Windows thread is ever asleep when step_multi_threaded looks for one to
\* run: Sleep costs the caller its turn and every thread the time.
THEOREM SleepPasses == Spec => []NeverAsleep
  <1>1. Init => Awake
    BY DEF Init, Awake
  <1>2. Awake /\ [Next]_vars => Awake'
    <2> SUFFICES ASSUME Awake, [Next]_vars PROVE Awake'
      OBVIOUS
    <2>1. CASE Step
      <3>1. PICK t \in Tids, delay \in WakeDelays : Instruction(t, delay)
        BY <2>1 DEF Step
      <3>2. delay = 0
        BY DEF WakeDelays, Awake
      <3> QED  BY <3>1, <3>2, InstructionAwake
    <2>2. CASE AllBlocked \/ UNCHANGED vars
      BY <2>2 DEF AllBlocked, vars, Awake
    <2> QED  BY <2>1, <2>2 DEF Next, Finished
  <1>3. Awake => NeverAsleep
    BY DEF Awake, NeverAsleep
  <1> QED  BY <1>1, <1>2, <1>3, PTL DEF Spec

-----------------------------------------------------------------------------
(* CritSections implements CritSectionsPromise: whatever the threads do,   *)
(* enter and leave give re-entrant mutual exclusion.                       *)

\* How often t is inside c, or about to be.
DepthIn(c, t) ==
    IF crit_map[c].owner_tid = t THEN crit_map[c].recursion_count
    ELSE IF blocked_on_cs[t] = c THEN 1 ELSE 0

\* Two tables of depths that differ in one place.
LEMMA OnePlace ==
    ASSUME NEW d \in [Tids -> [CS -> Nat]], NEW e \in [Tids -> [CS -> Nat]],
           NEW t \in Tids, NEW cs \in CS, NEW v,
           \A u \in Tids, c \in CS : e[u][c] = IF u = t /\ c = cs THEN v ELSE d[u][c]
    PROVE  e = [d EXCEPT ![t][cs] = v]
  <1>1. ASSUME NEW u \in Tids PROVE e[u] = [d EXCEPT ![t][cs] = v][u]
    <2>1. CASE u = t
      BY <2>1
    <2>2. CASE u # t
      BY <2>2
    <2> QED  BY <2>1, <2>2
  <1> QED  BY <1>1

\* The depths that the tables stand for.
LEMMA Depths ==
    ASSUME LockInv
    PROVE  /\ depth \in [Tids -> [CS -> Nat]]
           /\ \A u \in Tids, c \in CS : depth[u][c] = DepthIn(c, u)
  BY DEF LockInv, TypeOK, CritState, depth, DepthIn

\* What LockInv says of a section, its owner and its waiters.
LEMMA Sections ==
    ASSUME LockInv, NEW c \in CS
    PROVE  /\ SectionOK(crit_map[c])
           /\ \A u \in Tids : blocked_on_cs[u] = c <=> Queued(crit_map[c], u)
           /\ \A u \in Tids : crit_map[c].owner_tid = u => blocked_on_cs[u] # c
           /\ None \notin CS /\ None \notin Tids
  <1>1. TablesOK(blocked_on_cs, crit_map, n)
    BY LockInvTables
  <1>2. SectionOK(crit_map[c]) /\ \A u \in Tids : blocked_on_cs[u] = c <=> Queued(crit_map[c], u)
    BY <1>1 DEF TablesOK
  <1>3. \A u \in Tids : crit_map[c].owner_tid = u => blocked_on_cs[u] # c
    BY <1>2 DEF SectionOK
  <1>4. None \notin CS /\ None \notin Tids
    BY CritSectionsAssumption DEF None, Tids
  <1> QED  BY <1>2, <1>3, <1>4

\* Only the owner is inside a section (GlobalLocks keeps one owner).
LEMMA InsideOwns ==
    ASSUME LockInv, NEW c \in CS, NEW u \in Tids
    PROVE  Promise!Inside(u, c) <=> crit_map[c].owner_tid = u
  <1>1. depth[u][c] = DepthIn(c, u)
    BY Depths
  <1>2. /\ SectionOK(crit_map[c])
        /\ crit_map[c].owner_tid = u => blocked_on_cs[u] # c
        /\ u # None
    BY Sections
  <1>3. crit_map[c].owner_tid = u => crit_map[c].recursion_count > 0
    BY <1>2 DEF SectionOK, CritState
  <1> QED  BY <1>1, <1>2, <1>3 DEF Promise!Inside, waiting, DepthIn

\* GlobalLocks keeps one owner, so at most one thread is inside a section.
THEOREM MutuallyExclusive == Spec => []Promise!MutualExclusion
  <1>1. LockInv => Promise!MutualExclusion
    BY InsideOwns DEF Promise!MutualExclusion
  <1> QED  BY <1>1, LockInvariant, PTL

\* A call of EnterCriticalSection is an Enter of the promise: the caller waits exactly if
\* another thread is inside.
LEMMA EnterRefines ==
    ASSUME LockInv, LockInv', NEW t \in Tids, NEW cs \in CS, NEW delay,
           blocked_on_cs[t] = None, EnterCriticalSection(t, cs, delay)
    PROVE  Promise!Enter(t, cs)
  <1> DEFINE s == crit_map[cs]
  <1>1. /\ SectionOK(s) /\ None \notin CS /\ None \notin Tids
        /\ ~ Queued(s, t)
    BY Sections
  <1>2. /\ crit_map \in [CS -> CritState] /\ blocked_on_cs \in [Tids -> CS \cup {None}]
    BY DEF LockInv, TypeOK
  <1>3. crit_map' = [crit_map EXCEPT ![cs] = enter(s, t)]
    BY DEF EnterCriticalSection
  <1>4. /\ \A c \in CS : crit_map'[c] = IF c = cs THEN enter(s, t) ELSE crit_map[c]
        /\ \A u \in Tids : blocked_on_cs'[u] = IF u = t /\ ~ acquired(s, t) THEN cs
                                              ELSE blocked_on_cs[u]
    BY <1>2, <1>3 DEF EnterCriticalSection
  <1>5. /\ enter(s, t).owner_tid = IF s.owner_tid = None THEN t ELSE s.owner_tid
        /\ enter(s, t).recursion_count = IF acquired(s, t) THEN s.recursion_count + 1
                                         ELSE s.recursion_count
    BY <1>1 DEF SectionOK, CritState, enter, acquired
  <1>6. /\ depth \in [Tids -> [CS -> Nat]] /\ depth' \in [Tids -> [CS -> Nat]]
        /\ \A u \in Tids, c \in CS : depth[u][c] = DepthIn(c, u)
        /\ \A u \in Tids, c \in CS : depth'[u][c] = DepthIn(c, u)'
    <2>1. depth' \in [Tids -> [CS -> Nat]] /\ \A u \in Tids, c \in CS : depth'[u][c] = DepthIn(c, u)'
      BY DEF LockInv, TypeOK, CritState, depth, DepthIn
    <2> QED  BY <2>1, Depths
  <1>7. /\ s.owner_tid \in Tids \cup {None} /\ s.recursion_count \in Nat
        /\ s.owner_tid = None <=> s.recursion_count = 0
    BY <1>1 DEF SectionOK, CritState
  <1> HIDE DEF s
  <1>8. ASSUME NEW u \in Tids, NEW c \in CS
        PROVE  DepthIn(c, u)' = IF u = t /\ c = cs THEN DepthIn(c, u) + 1 ELSE DepthIn(c, u)
    <2>1. CASE c # cs
      <3>1. crit_map'[c] = crit_map[c]
        BY <1>4, <2>1
      <3>2. blocked_on_cs'[u] = c <=> blocked_on_cs[u] = c
        BY <1>1, <1>4, <2>1
      <3> QED  BY <2>1, <3>1, <3>2 DEF DepthIn
    <2>2. CASE c = cs
      <3>1. crit_map'[c] = enter(s, t) /\ crit_map[c] = s
        BY <1>4, <2>2 DEF s
      <3>2. CASE u = t
        BY <1>1, <1>4, <1>5, <1>7, <2>2, <3>1, <3>2 DEF DepthIn, acquired
      <3>3. CASE u # t
        BY <1>1, <1>4, <1>5, <1>7, <2>2, <3>1, <3>3 DEF DepthIn, acquired
      <3> QED  BY <3>2, <3>3
    <2> QED  BY <2>1, <2>2
  <1>9. depth' = [depth EXCEPT ![t][cs] = depth[t][cs] + 1]
    BY <1>6, <1>8, OnePlace
  <1>10. (\E u \in Tids \ {t} : Promise!Inside(u, cs)) <=> ~ acquired(s, t)
    BY <1>1, <1>7, InsideOwns DEF acquired, s
  <1>11. blocked_on_cs' = [blocked_on_cs EXCEPT ![t] = IF acquired(s, t) THEN None ELSE cs]
    BY <1>2 DEF EnterCriticalSection, s
  <1> QED  BY <1>9, <1>10, <1>11, Zenon DEF Promise!Enter, waiting

\* GlobalLocks::leave, called by the owner: one recursion less, a free section, or the
\* front of the queue as the new owner.
LEMMA OwnerLeaves ==
    ASSUME NEW s, SectionOK(s), NEW t \in Tids, s.owner_tid = t
    PROVE  LET r == leave(s, t).state
               w == leave(s, t).wake
           IN  /\ s.recursion_count > 1 =>
                    r.owner_tid = t /\ r.recursion_count = s.recursion_count - 1 /\ w = None
               /\ s.recursion_count = 1 /\ s.wait_queue = << >> =>
                    r.owner_tid = None /\ r.recursion_count = 0 /\ w = None
               /\ s.recursion_count = 1 /\ s.wait_queue # << >> =>
                    r.owner_tid = w /\ r.recursion_count = 1 /\ w \in Tids
  <1> USE DEF SectionOK, CritState
  <1>1. CASE s.recursion_count > 1
    BY <1>1 DEF leave
  <1>2. CASE s.recursion_count = 1 /\ s.wait_queue = << >>
    <2> DEFINE free == [s EXCEPT !.owner_tid = None, !.recursion_count = 0]
    <2>1. leave(s, t) = [state |-> free, wake |-> None]
      BY <1>2 DEF leave
    <2>2. DOMAIN s = {"owner_tid", "recursion_count", "wait_queue"}
      OBVIOUS
    <2>3. free.owner_tid = None /\ free.recursion_count = 0
      BY <2>2
    <2> HIDE DEF free
    <2>4. /\ leave(s, t).state.owner_tid = None /\ leave(s, t).state.recursion_count = 0
          /\ leave(s, t).wake = None
      BY <2>1, <2>3
    <2> QED  BY <1>2, <2>4
  <1>3. CASE s.recursion_count = 1 /\ s.wait_queue # << >>
    <2>1. Head(s.wait_queue) \in Tids
      BY <1>3
    <2> QED  BY <1>3, <2>1 DEF leave
  <1> QED  BY <1>1, <1>2, <1>3

\* A call of LeaveCriticalSection by the owner is a Leave of the promise, and any other
\* call of it changes nothing: the front of the queue is let in by the owner's last leave.
LEMMA LeaveRefines ==
    ASSUME LockInv, LockInv', NEW t \in Tids, NEW cs \in CS, NEW delay,
           blocked_on_cs[t] = None, LeaveCriticalSection(t, cs, delay)
    PROVE  Promise!Leave(t, cs) \/ UNCHANGED Promise!vars
  <1> DEFINE s == crit_map[cs]
             w == leave(s, t).wake
             r == leave(s, t).state
  <1>1. /\ SectionOK(s) /\ None \notin CS /\ None \notin Tids
        /\ \A u \in Tids : blocked_on_cs[u] = cs <=> Queued(s, u)
    BY Sections
  <1>2. /\ crit_map \in [CS -> CritState] /\ blocked_on_cs \in [Tids -> CS \cup {None}]
    BY DEF LockInv, TypeOK
  <1>3. /\ crit_map' = [crit_map EXCEPT ![cs] = r]
        /\ blocked_on_cs' = [u \in Tids |-> IF u = w THEN None ELSE blocked_on_cs[u]]
    BY DEF LeaveCriticalSection
  <1>4. /\ \A c \in CS : crit_map'[c] = IF c = cs THEN r ELSE crit_map[c]
        /\ \A u \in Tids : blocked_on_cs'[u] = IF u = w THEN None ELSE blocked_on_cs[u]
    BY <1>2, <1>3
  <1>5. /\ w \in Tids => Queued(s, w)
        /\ w \in Tids \cup {None}
    BY <1>1, LeaveSection
  <1>6. /\ depth \in [Tids -> [CS -> Nat]] /\ depth' \in [Tids -> [CS -> Nat]]
        /\ \A u \in Tids, c \in CS : depth[u][c] = DepthIn(c, u)
        /\ \A u \in Tids, c \in CS : depth'[u][c] = DepthIn(c, u)'
    <2>1. depth' \in [Tids -> [CS -> Nat]] /\ \A u \in Tids, c \in CS : depth'[u][c] = DepthIn(c, u)'
      BY DEF LockInv, TypeOK, CritState, depth, DepthIn
    <2> QED  BY <2>1, Depths
  <1>7. /\ s.owner_tid \in Tids \cup {None} /\ s.recursion_count \in Nat
        /\ s.wait_queue \in Seq(Tids)
        /\ s.owner_tid = None <=> s.recursion_count = 0
        /\ ~ Queued(s, s.owner_tid)
    BY <1>1 DEF SectionOK, CritState
  <1>8. CASE s.owner_tid # t
    <2>1. r = s /\ w = None
      BY <1>8 DEF leave
    <2>2. crit_map' = crit_map /\ blocked_on_cs' = blocked_on_cs
      BY <1>1, <1>2, <1>3, <2>1
    <2> QED  BY <2>2 DEF Promise!vars, depth, waiting
  <1>9. CASE s.owner_tid = t
    <2>1. /\ s.recursion_count > 1 =>
               r.owner_tid = t /\ r.recursion_count = s.recursion_count - 1 /\ w = None
          /\ s.recursion_count = 1 /\ s.wait_queue = << >> =>
               r.owner_tid = None /\ r.recursion_count = 0 /\ w = None
          /\ s.recursion_count = 1 /\ s.wait_queue # << >> =>
               r.owner_tid = w /\ r.recursion_count = 1 /\ w \in Tids
      BY <1>1, <1>9, OwnerLeaves
    <2>2. s.recursion_count = 1 \/ s.recursion_count > 1
      BY <1>1, <1>7, <1>9
    <2>3. w # t
      BY <1>1, <1>5, <1>7, <1>9
    <2> HIDE DEF s, r, w
    <2>4. ASSUME NEW u \in Tids, NEW c \in CS
          PROVE  DepthIn(c, u)' = IF u = t /\ c = cs THEN DepthIn(c, u) - 1 ELSE DepthIn(c, u)
      <3>1. CASE c # cs
        <4>1. crit_map'[c] = crit_map[c]
          BY <1>4, <3>1
        <4>2. blocked_on_cs'[u] = c <=> blocked_on_cs[u] = c
          BY <1>1, <1>4, <1>5, <3>1
        <4> QED  BY <3>1, <4>1, <4>2 DEF DepthIn
      <3>2. CASE c = cs
        <4>1. crit_map'[c] = r /\ crit_map[c] = s
          BY <1>4, <3>2 DEF s
        <4>2. blocked_on_cs[t] # cs /\ blocked_on_cs'[t] # cs
          BY <1>1, <1>4
        <4>3. CASE u = t
          BY <1>1, <1>7, <1>9, <2>1, <2>2, <2>3, <3>2, <4>1, <4>2, <4>3 DEF DepthIn
        <4>4. CASE u # t /\ u = w
          <5>1. blocked_on_cs[u] = cs /\ s.recursion_count = 1 /\ s.wait_queue # << >>
            BY <1>1, <1>5, <2>1, <2>2, <4>4
          <5> QED  BY <1>9, <2>1, <3>2, <4>1, <4>4, <5>1 DEF DepthIn
        <4>5. CASE u # t /\ u # w
          <5>1. r.owner_tid # u
            BY <1>1, <2>1, <2>2, <4>5
          <5> QED  BY <1>4, <1>9, <3>2, <4>1, <4>5, <5>1 DEF DepthIn
        <4> QED  BY <4>3, <4>4, <4>5
      <3> QED  BY <3>1, <3>2
    <2>5. depth' = [depth EXCEPT ![t][cs] = depth[t][cs] - 1]
      BY <1>6, <2>4, OnePlace
    <2>6. depth[t][cs] = s.recursion_count
      BY <1>6, <1>9 DEF DepthIn, s
    <2>7. CASE depth[t][cs] = 1 /\ \E u \in Tids : blocked_on_cs[u] = cs
      <3>1. s.wait_queue # << >>
        BY <1>1, <2>7 DEF Queued, Member
      <3>2. w \in Tids /\ blocked_on_cs[w] = cs
        BY <1>1, <1>5, <2>1, <2>6, <2>7, <3>1
      <3>3. blocked_on_cs' = [blocked_on_cs EXCEPT ![w] = None]
        BY <1>2, <1>3, <3>2, Zenon
      <3>4. \E u \in Tids : blocked_on_cs[u] = cs /\ blocked_on_cs' = [blocked_on_cs EXCEPT ![u] = None]
        BY <3>2, <3>3, Zenon
      <3>5. depth[t][cs] > 0
        BY <2>7
      <3> QED  BY <2>5, <2>7, <3>4, <3>5, Zenon DEF Promise!Leave, waiting
    <2>8. CASE ~ (depth[t][cs] = 1 /\ \E u \in Tids : blocked_on_cs[u] = cs)
      <3>1. w = None
        BY <1>1, <1>5, <2>1, <2>2, <2>6, <2>8
      <3>2. blocked_on_cs' = blocked_on_cs
        BY <1>1, <1>2, <1>3, <3>1
      <3>3. depth[t][cs] > 0
        BY <1>7, <2>2, <2>6
      <3> QED  BY <2>5, <2>8, <3>2, <3>3 DEF Promise!Leave, waiting
    <2> QED  BY <2>7, <2>8
  <1> QED  BY <1>8, <1>9

\* GlobalLocks and the handlers implement re-entrant mutual exclusion: every step is an
\* Enter or a Leave of the promise, or leaves what the guest can tell as it is.
THEOREM CritSectionsRefine == Spec => KeepsPromise
  <1>1. Init => Promise!Init
    <2> SUFFICES ASSUME Init PROVE Promise!Init
      OBVIOUS
    <2>1. None \notin CS /\ None \notin Tids
      BY CritSectionsAssumption DEF None, Tids
    <2>2. \A t \in Tids, cs \in CS : DepthIn(cs, t) = 0
      BY <2>1 DEF Init, DepthIn, NewCritState
    <2>3. depth = [t \in Tids |-> [cs \in CS |-> 0]]
      BY <2>2 DEF depth, DepthIn
    <2> QED  BY <2>3 DEF Init, Promise!Init, waiting
  <1>2. LockInv /\ LockInv' /\ [Next]_vars => [Promise!Next]_(Promise!vars)
    <2> SUFFICES ASSUME LockInv, LockInv', [Next]_vars
                 PROVE  Promise!Next \/ UNCHANGED Promise!vars
      OBVIOUS
    <2>1. ASSUME blocked_on_cs' = blocked_on_cs, crit_map' = crit_map
          PROVE  UNCHANGED Promise!vars
      BY <2>1 DEF Promise!vars, depth, waiting
    <2>2. CASE Step
      <3>1. PICK t \in Tids, delay \in WakeDelays :
              /\ t \in Runnable(delay)
              /\ Instruction(t, delay)
        BY <2>2 DEF Step, Picked
      <3>2. blocked_on_cs[t] = None
        BY <3>1 DEF Runnable, is_runnable
      <3>3. CASE \E cs \in CS : EnterCriticalSection(t, cs, delay)
        BY <3>2, <3>3, EnterRefines DEF Promise!Next
      <3>4. CASE \E cs \in CS : LeaveCriticalSection(t, cs, delay)
        BY <3>2, <3>4, LeaveRefines DEF Promise!Next
      <3>5. CASE \E susp \in BOOLEAN : CreateThread(t, susp, delay)
        <4>1. n \in Tids /\ blocked_on_cs[n] = None
          BY <3>5, CritSectionsAssumption DEF CreateThread, LockInv, TypeOK, UnusedUnblocked, Tids
        <4> QED  BY <2>1, <3>5, <4>1 DEF CreateThread, LockInv, TypeOK
      <3>6. CASE \/ \E millis \in 0 .. MaxMillis : Sleep(t, millis, delay)
                 \/ \E target \in Tids : ResumeThread(t, target, delay)
                 \/ ExitThread(t, delay)
                 \/ OtherInstruction(t, delay)
        BY <2>1, <3>6 DEF Sleep, ResumeThread, ExitThread, OtherInstruction
      <3> QED  BY <3>1, <3>3, <3>4, <3>5, <3>6 DEF Instruction
    <2>3. CASE AllBlocked \/ UNCHANGED vars
      BY <2>1, <2>3 DEF AllBlocked, vars
    <2> QED  BY <2>2, <2>3 DEF Next, Finished
  <1> QED  BY <1>1, <1>2, LockInvariant, PTL DEF Spec, KeepsPromise, Promise!Spec
=============================================================================
