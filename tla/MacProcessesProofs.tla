------------------------- MODULE MacProcessesProofs -------------------------
(***************************************************************************)
(* Proofs about MacProcesses, for every number of threads, locks and       *)
(* processes: the process table accounts for every pid, and only the exit  *)
(* of a thread stops a child.                                              *)
(***************************************************************************)
EXTENDS MacProcesses, FiniteSetTheorems, TLAPS

-----------------------------------------------------------------------------
(* Processes: types.  In a forked child the rest of ParkedInv need not hold: *)
(* its locks may belong to threads that the fork left behind.               *)

\* A nonempty set of natural numbers has a least element.
LEMMA HasLeast ==
    ASSUME NEW S \in SUBSET Nat, S # {}
    PROVE  \E i \in S : \A j \in S : i <= j
<1>1. PICK i \in S : \A j \in S : ~ (<<j, i>> \in OpToRel(<, Nat))
  BY NatLessThanWellFounded, WFMin, Zenon
<1>2. ASSUME NEW j \in S PROVE i <= j
  <2>1. i \in Nat /\ j \in Nat
    OBVIOUS
  <2>2. j < i => <<j, i>> \in OpToRel(<, Nat)
    BY <2>1 DEF OpToRel
  <2>3. ~ (j < i)
    BY <2>2, <1>1, Zenon
  <2> QED  BY <2>1, <2>3
<1> QED  BY <1>2

\* The scan of sync.rs finds the nearest thread of a nonempty set.
LEMMA FirstAfterNearest ==
    ASSUME n \in Nat, NEW S \in SUBSET (0 .. n - 1), S # {}, NEW t \in 0 .. n - 1
    PROVE  /\ FirstAfter(S, t) \in S
           /\ \A j \in S : Offset(FirstAfter(S, t), t, n) <= Offset(j, t, n)
<1> DEFINE O == {Offset(j, t, n) : j \in S}
<1>1. O \in SUBSET Nat /\ O # {}
  <2>1. \A j \in S : Offset(j, t, n) \in Nat
    BY DEF Offset
  <2> QED  BY <2>1, Zenon
<1>2. PICK o \in O : \A p \in O : o <= p
  <2> HIDE DEF O
  <2> QED  BY <1>1, HasLeast
<1>3. \E i \in S : \A j \in S : Offset(i, t, n) <= Offset(j, t, n)
  BY <1>2
<1> QED  BY <1>3, Zenon DEF FirstAfter

\* The constants are numbers, so that "nobody" and "no lock" are none of them.
LEMMA Nothing ==
    /\ None \notin Locks /\ None \notin Ids /\ Mutexes \subseteq Locks /\ UnfairLocks \subseteq Locks
    /\ Indices \subseteq Ids
    /\ \A c \in Conds, m \in Mutexes : <<c, m>> # NoWait
BY MacThreadsAssumption DEF None, Locks, Ids, Indices, NoWait

\* The threads that wait for a condition are parked.
LEMMA WaitersWait ==
    ASSUME NEW c \in Conds
    PROVE  \A i \in CondWaiters(c) : i \in Indices /\ i < n /\ cond_wait[i] # NoWait
<1>1. c # None /\ NoWait[1] = None
  BY MacThreadsAssumption DEF None, NoWait
<1> QED  BY <1>1 DEF CondWaiters

ThreadTypes ==
    /\ n \in 1 .. MaxThreads
    /\ id \in [Indices -> Ids]
    /\ exited \in [Indices -> BOOLEAN]
    /\ joining \in [Indices -> Ids \cup {None}]
    /\ blocked_on_lock \in [Indices -> Locks \cup {None}]
    /\ cond_wait \in [Indices -> (Conds \X Mutexes) \cup {NoWait}]
    /\ owner \in [Locks -> Ids \cup {None}]
    /\ count \in [Mutexes -> Nat]
    /\ kind \in [Mutexes -> Kinds]

\* A release has an heir that is a thread, or none.
LEMMA HeirTypes ==
    ASSUME ThreadTypes, NEW t \in Indices, t < n, NEW l \in Locks
    PROVE  /\ Heir(l, t) \in Ids \cup {None}
           /\ CountAfter(l, t) \in Nat
           /\ Handed(l, t) \in [Indices -> Locks \cup {None}]
<1>1. n \in Nat /\ t \in 0 .. n - 1 /\ Waiting(l) \in SUBSET (0 .. n - 1)
  BY MacThreadsAssumption DEF ThreadTypes, Indices, Waiting
<1>2. Waiting(l) # {} => next_waiter(l, t) \in Indices
  <2>1. Waiting(l) # {} => next_waiter(l, t) \in Waiting(l)
    BY <1>1, FirstAfterNearest, Zenon DEF next_waiter
  <2> QED  BY <2>1 DEF Waiting
<1>3. Heir(l, t) \in Ids \cup {None}
  BY <1>2 DEF Heir, ThreadTypes
<1>4. Handed(l, t) \in [Indices -> Locks \cup {None}]
  BY DEF Handed, ThreadTypes
<1> QED  BY <1>3, <1>4 DEF CountAfter

\* Resumed waiters get or queue up for their mutex.
LEMMA ResumeTypes ==
    ASSUME ThreadTypes, NEW t, NEW W \in SUBSET Indices,
           \A i \in W : cond_wait[i] # NoWait, resume_cond_waiters(W, t)
    PROVE  /\ cond_wait' \in [Indices -> (Conds \X Mutexes) \cup {NoWait}]
           /\ blocked_on_lock' \in [Indices -> Locks \cup {None}]
           /\ owner' \in [Locks -> Ids \cup {None}]
           /\ count' \in [Mutexes -> Nat]
<1> DEFINE mutex(i) == cond_wait[i][2]
           takes(i) == owner[mutex(i)] = None
                       /\ i = FirstAfter({j \in W : mutex(j) = mutex(i)}, t)
           taker(m) == {i \in W : mutex(i) = m /\ takes(i)}
<1>1. /\ cond_wait' = [i \in Indices |-> IF i \in W THEN NoWait ELSE cond_wait[i]]
      /\ blocked_on_lock' = [i \in Indices |-> IF i \in W /\ ~ takes(i) THEN mutex(i)
                                               ELSE blocked_on_lock[i]]
      /\ owner' = [l \in Locks |-> IF taker(l) = {} THEN owner[l]
                                   ELSE id[CHOOSE i \in taker(l) : TRUE]]
      /\ count' = [m \in Mutexes |-> IF taker(m) = {} THEN count[m] ELSE 1]
  BY DEF resume_cond_waiters
<1>2. \A i \in W : mutex(i) \in Locks
  <2> SUFFICES ASSUME NEW i \in W PROVE mutex(i) \in Mutexes
    BY Nothing
  <2>1. cond_wait[i] \in Conds \X Mutexes
    BY DEF ThreadTypes
  <2> QED  BY <2>1
<1>3. \A l : taker(l) # {} => (CHOOSE i \in taker(l) : TRUE) \in Indices
  <2> SUFFICES ASSUME NEW l, taker(l) # {} PROVE (CHOOSE i \in taker(l) : TRUE) \in Indices
    OBVIOUS
  <2>1. (CHOOSE i \in taker(l) : TRUE) \in taker(l)
    <3> HIDE DEF taker
    <3> QED  OBVIOUS
  <2> QED  BY <2>1, Zenon
<1> HIDE DEF mutex, takes, taker
<1>4. owner' \in [Locks -> Ids \cup {None}]
  BY <1>1, <1>3 DEF ThreadTypes
<1>5. blocked_on_lock' \in [Indices -> Locks \cup {None}]
  BY <1>1, <1>2 DEF ThreadTypes
<1> QED  BY <1>1, <1>4, <1>5 DEF ThreadTypes

\* What every thread call keeps, in a child as well.
Kept ==
    /\ ThreadTypes'
    /\ n' = n \/ n' = n + 1
    /\ \A i \in Indices : id'[i] = id[i] \/ (i = n /\ id'[i] = i)

\* Every thread call keeps the types, the number of threads and their ids, except that
\* pthread_create adds a thread.
LEMMA ThreadCalls ==
    ASSUME ThreadTypes, NEW t \in Indices, is_runnable(t), ThreadInstruction(t)
    PROVE  Kept
<1>1. /\ t < n /\ n \in Nat /\ t \in 0 .. n - 1 /\ Mutexes \subseteq Locks /\ UnfairLocks \subseteq Locks
  BY MacThreadsAssumption, Nothing DEF is_runnable, ThreadTypes, Indices
<1>2. id[t] \in Ids /\ None \notin Ids /\ 0 \in Nat /\ 1 \in Nat
  BY Nothing DEF ThreadTypes
<1>3. ASSUME UNCHANGED <<n, id, exited, joining>>,
             blocked_on_lock' \in [Indices -> Locks \cup {None}],
             cond_wait' \in [Indices -> (Conds \X Mutexes) \cup {NoWait}],
             owner' \in [Locks -> Ids \cup {None}],
             count' \in [Mutexes -> Nat],
             kind' \in [Mutexes -> Kinds]
      PROVE  Kept
  BY <1>3 DEF Kept, ThreadTypes
<1>4. ASSUME NEW m \in Mutexes, NEW k \in Kinds, api_mutex_init(t, m, k) PROVE Kept
  BY <1>1, <1>2, <1>3, <1>4 DEF api_mutex_init, ThreadTypes, threads, parked
<1>5. ASSUME NEW m \in Mutexes, api_mutex_lock(t, m) PROVE Kept
  <2>1. UNCHANGED <<n, id, exited, joining, cond_wait, kind>>
    BY <1>5 DEF api_mutex_lock
  <2>2. owner' \in [Locks -> Ids \cup {None}]
    BY <1>2, <1>5 DEF api_mutex_lock, mutex_take, ThreadTypes
  <2>3. count' \in [Mutexes -> Nat]
    BY <1>2, <1>5 DEF api_mutex_lock, mutex_take, ThreadTypes
  <2>4. blocked_on_lock' \in [Indices -> Locks \cup {None}]
    BY <1>1, <1>5 DEF api_mutex_lock, ThreadTypes
  <2> QED  BY <1>3, <2>1, <2>2, <2>3, <2>4 DEF ThreadTypes
<1>6. ASSUME NEW m \in Mutexes, api_mutex_trylock(t, m) PROVE Kept
  <2>1. UNCHANGED <<n, id, exited, joining, cond_wait, kind, blocked_on_lock>>
    BY <1>6 DEF api_mutex_trylock, threads, parked
  <2>2. owner' \in [Locks -> Ids \cup {None}]
    BY <1>2, <1>6 DEF api_mutex_trylock, mutex_take, ThreadTypes
  <2>3. count' \in [Mutexes -> Nat]
    BY <1>2, <1>6 DEF api_mutex_trylock, mutex_take, ThreadTypes
  <2> QED  BY <1>3, <2>1, <2>2, <2>3 DEF ThreadTypes
<1>7. ASSUME NEW m \in Mutexes, mutex_release(m, t)
      PROVE  /\ blocked_on_lock' \in [Indices -> Locks \cup {None}]
             /\ owner' \in [Locks -> Ids \cup {None}]
             /\ count' \in [Mutexes -> Nat]
  <2>1. m \in Locks
    BY <1>1
  <2>2. /\ Heir(m, t) \in Ids \cup {None} /\ CountAfter(m, t) \in Nat
        /\ Handed(m, t) \in [Indices -> Locks \cup {None}]
    BY <1>1, <2>1, HeirTypes
  <2> QED  BY <1>7, <2>2, Zenon DEF mutex_release, ThreadTypes
<1>8. ASSUME NEW m \in Mutexes, api_mutex_unlock(t, m) PROVE Kept
  <2>1. UNCHANGED <<n, id, exited, joining, cond_wait, kind>>
    BY <1>8 DEF api_mutex_unlock
  <2>2. CASE mutex_release(m, t)
    BY <1>3, <1>7, <2>1, <2>2 DEF ThreadTypes
  <2>3. CASE UNCHANGED <<owner, blocked_on_lock>> /\ count' = [count EXCEPT ![m] = @ - 1] /\ count[m] > 1
    <3>1. count[m] - 1 \in Nat
      BY <2>3 DEF ThreadTypes
    <3> QED  BY <1>3, <2>1, <2>3, <3>1 DEF ThreadTypes
  <2>4. CASE UNCHANGED <<owner, count, blocked_on_lock>>
    BY <1>3, <2>1, <2>4 DEF ThreadTypes
  <2> QED  BY <1>8, <2>2, <2>3, <2>4 DEF api_mutex_unlock
<1>9. ASSUME NEW c \in Conds, NEW m \in Mutexes, api_cond_wait(t, c, m) PROVE Kept
  <2>1. UNCHANGED <<n, id, exited, joining, kind>>
    BY <1>9 DEF api_cond_wait
  <2>2. CASE UNCHANGED <<owner, count, blocked_on_lock, cond_wait>>
    BY <1>3, <2>1, <2>2 DEF ThreadTypes
  <2>3. CASE mutex_release(m, t) /\ cond_wait' = [cond_wait EXCEPT ![t] = <<c, m>>]
    <3>1. cond_wait' \in [Indices -> (Conds \X Mutexes) \cup {NoWait}]
      BY <2>3 DEF ThreadTypes
    <3> QED  BY <1>3, <1>7, <2>1, <2>3, <3>1 DEF ThreadTypes
  <2> QED  BY <1>9, <2>2, <2>3 DEF api_cond_wait
<1>10. ASSUME NEW m \in Mutexes, api_cond_timedwait(t, m) PROVE Kept
  <2>1. UNCHANGED <<n, id, exited, joining, cond_wait, kind>> /\ m \in Locks
    BY <1>1, <1>10 DEF api_cond_timedwait
  <2>2. /\ Heir(m, t) \in Ids \cup {None}
        /\ Handed(m, t) \in [Indices -> Locks \cup {None}]
    BY <1>1, <2>1, HeirTypes
  <2>3. owner' \in [Locks -> Ids \cup {None}]
    BY <1>2, <1>10, <2>2 DEF api_cond_timedwait, mutex_take, ThreadTypes
  <2>4. count' \in [Mutexes -> Nat]
    BY <1>2, <1>10 DEF api_cond_timedwait, mutex_take, ThreadTypes
  <2>5. blocked_on_lock' \in [Indices -> Locks \cup {None}]
    BY <1>10, <2>1, <2>2 DEF api_cond_timedwait, ThreadTypes
  <2> QED  BY <1>3, <2>1, <2>3, <2>4, <2>5 DEF ThreadTypes
<1>11. ASSUME NEW c \in Conds, NEW all \in BOOLEAN, api_cond_wake(t, c, all) PROVE Kept
  <2> DEFINE W == IF all \/ CondWaiters(c) = {} THEN CondWaiters(c) ELSE {FirstAfter(CondWaiters(c), t)}
  <2>1. UNCHANGED <<n, id, exited, joining, kind>> /\ resume_cond_waiters(W, t)
    BY <1>11 DEF api_cond_wake
  <2>2. CondWaiters(c) \in SUBSET (0 .. n - 1)
    BY <1>1, MacThreadsAssumption DEF CondWaiters, Indices
  <2>3. W \subseteq CondWaiters(c)
    BY <1>1, <2>2, FirstAfterNearest, Zenon
  <2>4. W \in SUBSET Indices /\ \A i \in W : cond_wait[i] # NoWait
    BY <2>3, WaitersWait
  <2> HIDE DEF W
  <2>5. /\ cond_wait' \in [Indices -> (Conds \X Mutexes) \cup {NoWait}]
        /\ blocked_on_lock' \in [Indices -> Locks \cup {None}]
        /\ owner' \in [Locks -> Ids \cup {None}]
        /\ count' \in [Mutexes -> Nat]
    BY <2>1, <2>4, ResumeTypes
  <2> QED  BY <1>3, <2>1, <2>5 DEF ThreadTypes
<1>12. ASSUME NEW l \in UnfairLocks, api_unfair_lock(t, l) PROVE Kept
  <2>1. UNCHANGED <<n, id, exited, joining, cond_wait, count, kind>> /\ l \in Locks
    BY <1>1, <1>12 DEF api_unfair_lock
  <2>2. owner' \in [Locks -> Ids \cup {None}] /\ blocked_on_lock' \in [Indices -> Locks \cup {None}]
    BY <1>2, <1>12, <2>1 DEF api_unfair_lock, ThreadTypes
  <2> QED  BY <1>3, <2>1, <2>2 DEF ThreadTypes
<1>13. ASSUME NEW l \in UnfairLocks, api_unfair_trylock(t, l) PROVE Kept
  <2>1. /\ UNCHANGED <<n, id, exited, joining, cond_wait, count, kind, blocked_on_lock>>
        /\ l \in Locks
    BY <1>1, <1>13 DEF api_unfair_trylock, threads, parked
  <2>2. owner' \in [Locks -> Ids \cup {None}]
    BY <1>2, <1>13, <2>1 DEF api_unfair_trylock, ThreadTypes
  <2> QED  BY <1>3, <2>1, <2>2 DEF ThreadTypes
<1>14. ASSUME NEW l \in UnfairLocks, api_unfair_unlock(t, l) PROVE Kept
  <2>1. /\ UNCHANGED <<n, id, exited, joining, cond_wait, count, kind>> /\ l \in Locks
        /\ owner' = [owner EXCEPT ![l] = Heir(l, t)] /\ blocked_on_lock' = Handed(l, t)
    BY <1>1, <1>14 DEF api_unfair_unlock
  <2>2. Heir(l, t) \in Ids \cup {None} /\ Handed(l, t) \in [Indices -> Locks \cup {None}]
    BY <1>1, <2>1, HeirTypes
  <2> QED  BY <1>3, <2>1, <2>2 DEF ThreadTypes
<1>15. ASSUME api_pthread_create(t) PROVE Kept
  <2>1. /\ n < MaxThreads /\ n' = n + 1
        /\ id' = [id EXCEPT ![n] = n] /\ exited' = [exited EXCEPT ![n] = FALSE]
        /\ joining' = [joining EXCEPT ![n] = None]
        /\ blocked_on_lock' = [blocked_on_lock EXCEPT ![n] = None]
        /\ cond_wait' = [cond_wait EXCEPT ![n] = NoWait]
        /\ UNCHANGED <<owner, count, kind>>
    BY <1>15 DEF api_pthread_create, locks
  <2>2. n' \in 1 .. MaxThreads /\ n \in Ids /\ n \in Indices
    BY <1>1, <2>1, MacThreadsAssumption DEF Ids, Indices
  <2>3. id' \in [Indices -> Ids] /\ \A i \in Indices : id'[i] = id[i] \/ (i = n /\ id'[i] = i)
    BY <2>1, <2>2 DEF ThreadTypes
  <2>4. exited' \in [Indices -> BOOLEAN]
    BY <2>1, <2>2 DEF ThreadTypes
  <2>5. /\ joining' \in [Indices -> Ids \cup {None}]
        /\ blocked_on_lock' \in [Indices -> Locks \cup {None}]
        /\ cond_wait' \in [Indices -> (Conds \X Mutexes) \cup {NoWait}]
    BY <2>1, <2>2 DEF ThreadTypes
  <2> QED  BY <2>1, <2>2, <2>3, <2>4, <2>5 DEF Kept, ThreadTypes
<1>16. ASSUME NEW target \in Indices, api_pthread_join(t, target) PROVE Kept
  <2>1. /\ joining' \in [Indices -> Ids \cup {None}]
        /\ UNCHANGED <<n, id, exited, blocked_on_lock, cond_wait, owner, count, kind>>
    BY <1>16, Nothing DEF api_pthread_join, locks, ThreadTypes
  <2> QED  BY <2>1 DEF Kept, ThreadTypes
<1>17. ASSUME thread_exit(t) PROVE Kept
  <2>1. /\ exited' \in [Indices -> BOOLEAN] /\ joining' \in [Indices -> Ids \cup {None}]
        /\ UNCHANGED <<n, id, blocked_on_lock, cond_wait, owner, count, kind>>
    BY <1>17 DEF thread_exit, locks, ThreadTypes
  <2> QED  BY <2>1 DEF Kept, ThreadTypes
<1>18. ASSUME OtherInstruction(t) PROVE Kept
  BY <1>18 DEF OtherInstruction, threads, parked, locks, Kept, ThreadTypes
<1> QED
  BY <1>4, <1>5, <1>6, <1>8, <1>9, <1>10, <1>11, <1>12, <1>13, <1>14, <1>15, <1>16, <1>17, <1>18
     DEF ThreadInstruction

-----------------------------------------------------------------------------
(* Processes: counting *)

\* Where the members of A stand in a sequence.
At(q, A) == {i \in DOMAIN q : q[i] \in A}

\* The places are finitely many.
LEMMA AtFinite ==
    ASSUME NEW S, NEW q \in Seq(S), NEW A
    PROVE  IsFiniteSet(At(q, A)) /\ Cardinality(At(q, A)) \in Nat
<1>1. DOMAIN q = 1 .. Len(q) /\ Len(q) \in Int /\ 1 \in Int
  OBVIOUS
<1>2. IsFiniteSet(1 .. Len(q))
  BY <1>1, FS_Interval
<1>3. At(q, A) \in SUBSET (1 .. Len(q))
  BY <1>1 DEF At
<1> QED  BY <1>2, <1>3, FS_Subset, FS_CardinalityType

\* Appending an element counts it.
LEMMA CountAppend ==
    ASSUME NEW S, NEW q \in Seq(S), NEW x \in S, NEW A
    PROVE  Cardinality(At(Append(q, x), A)) =
              Cardinality(At(q, A)) + (IF x \in A THEN 1 ELSE 0)
<1> DEFINE r == Append(q, x)
           m == Len(q) + 1
<1>1. /\ DOMAIN q = 1 .. Len(q) /\ Len(q) \in Nat /\ DOMAIN r = 1 .. m
      /\ r[m] = x /\ \A i \in 1 .. Len(q) : r[i] = q[i]
  OBVIOUS
<1>2. IsFiniteSet(At(q, A)) /\ Cardinality(At(q, A)) \in Nat /\ m \notin At(q, A)
  <2>1. IsFiniteSet(At(q, A)) /\ Cardinality(At(q, A)) \in Nat
    BY AtFinite
  <2>2. m \notin 1 .. Len(q)
    BY <1>1
  <2> QED  BY <1>1, <2>1, <2>2 DEF At
<1>3. CASE x \in A
  <2>1. At(r, A) = At(q, A) \cup {m}
    BY <1>1, <1>3 DEF At
  <2> HIDE DEF r, m
  <2> QED  BY <1>2, <1>3, <2>1, FS_AddElement, Zenon DEF r
<1>4. CASE x \notin A
  <2>1. At(r, A) = At(q, A)
    BY <1>1, <1>4 DEF At
  <2> QED  BY <1>2, <1>4, <2>1
<1> QED  BY <1>3, <1>4

\* A sequence with one element taken out.
LEMMA RemoveElements ==
    ASSUME NEW S, NEW q \in Seq(S), NEW k \in 1 .. Len(q)
    PROVE  /\ remove(q, k) \in Seq(S)
           /\ Len(remove(q, k)) = Len(q) - 1
           /\ \A j \in 1 .. Len(q) - 1 : remove(q, k)[j] = IF j < k THEN q[j] ELSE q[j + 1]
<1> DEFINE len == Len(q) - 1
<1>1. len \in Nat /\ \A i \in 1 .. len : i \in 1 .. Len(q) /\ i + 1 \in 1 .. Len(q)
  OBVIOUS
<1>2. \A i \in 1 .. len : (IF i < k THEN q[i] ELSE q[i + 1]) \in S
  BY <1>1
<1> HIDE DEF len
<1>3. [i \in 1 .. len |-> IF i < k THEN q[i] ELSE q[i + 1]] \in Seq(S)
  BY <1>1, <1>2
<1>4. remove(q, k) = [i \in 1 .. len |-> IF i < k THEN q[i] ELSE q[i + 1]]
  BY DEF remove, len
<1>5. Len(remove(q, k)) = len
  BY <1>1, <1>3, <1>4
<1> QED  BY <1>3, <1>4, <1>5 DEF len

\* Sequences with the same elements are the same.
LEMMA SameElements ==
    ASSUME NEW S, NEW p \in Seq(S), NEW q \in Seq(S), Len(p) = Len(q),
           \A i \in 1 .. Len(p) : p[i] = q[i]
    PROVE  p = q
<1>1. DOMAIN p = 1 .. Len(p) /\ DOMAIN q = 1 .. Len(p)
  OBVIOUS
<1>2. p = [i \in 1 .. Len(p) |-> p[i]] /\ q = [i \in 1 .. Len(p) |-> q[i]]
  BY <1>1
<1> QED  BY <1>2, Zenon

\* Taking an element out uncounts it.
LEMMA CountRemove ==
    ASSUME NEW S, NEW q \in Seq(S), NEW k \in 1 .. Len(q), NEW A
    PROVE  Cardinality(At(remove(q, k), A)) =
              Cardinality(At(q, A)) - (IF q[k] \in A THEN 1 ELSE 0)
<1> DEFINE r == remove(q, k)
           R == At(q, A) \ {k}
           f == [j \in At(r, A) |-> IF j < k THEN j ELSE j + 1]
<1>1. /\ r \in Seq(S) /\ Len(r) = Len(q) - 1 /\ Len(q) \in Nat /\ k \in Nat
      /\ \A j \in 1 .. Len(q) - 1 : r[j] = IF j < k THEN q[j] ELSE q[j + 1]
  <2>1. Len(q) \in Nat /\ k \in Nat
    OBVIOUS
  <2> QED  BY <2>1, RemoveElements, Zenon
<1>2. IsFiniteSet(At(r, A)) /\ IsFiniteSet(At(q, A)) /\ Cardinality(At(q, A)) \in Nat
  BY <1>1, AtFinite
<1> HIDE DEF r
<1>3. DOMAIN r = 1 .. Len(q) - 1 /\ DOMAIN q = 1 .. Len(q)
  BY <1>1
<1>4. f \in [At(r, A) -> R]
  <2> SUFFICES ASSUME NEW j \in At(r, A) PROVE f[j] \in R
    OBVIOUS
  <2>1. j \in 1 .. Len(q) - 1 /\ r[j] \in A
    BY <1>3 DEF At
  <2>2. CASE j < k
    BY <1>1, <1>3, <2>1, <2>2 DEF At
  <2>3. CASE ~ (j < k)
    BY <1>1, <1>3, <2>1, <2>3 DEF At
  <2> QED  BY <2>2, <2>3
<1>5. \A a, b \in At(r, A) : f[a] = f[b] => a = b
  <2> SUFFICES ASSUME NEW a \in At(r, A), NEW b \in At(r, A), f[a] = f[b] PROVE a = b
    OBVIOUS
  <2>1. a \in Int /\ b \in Int
    BY <1>3 DEF At
  <2> QED  BY <1>1, <2>1
<1>6. \A i \in R : \E j \in At(r, A) : f[j] = i
  <2> SUFFICES ASSUME NEW i \in R PROVE \E j \in At(r, A) : f[j] = i
    OBVIOUS
  <2>1. i \in 1 .. Len(q) /\ i # k /\ q[i] \in A
    BY <1>3 DEF At
  <2>2. CASE i < k
    <3>1. i \in At(r, A)
      BY <1>1, <1>3, <2>1, <2>2 DEF At
    <3>2. f[i] = i
      BY <2>2, <3>1
    <3> QED  BY <3>1, <3>2
  <2>3. CASE ~ (i < k)
    <3>1. i - 1 \in 1 .. Len(q) - 1 /\ ~ (i - 1 < k) /\ (i - 1) + 1 = i
      BY <1>1, <2>1, <2>3
    <3>2. i - 1 \in At(r, A)
      BY <1>1, <1>3, <2>1, <3>1 DEF At
    <3>3. f[i - 1] = i
      BY <3>1, <3>2
    <3> QED  BY <3>2, <3>3
  <2> QED  BY <2>2, <2>3
<1>7. ExistsBijection(At(r, A), R)
  <2>1. f \in Bijection(At(r, A), R)
    <3> HIDE DEF f, R
    <3> QED  BY <1>4, <1>5, <1>6 DEF Bijection, Injection, Surjection, IsInjective
  <2> QED  BY <2>1, Zenon DEF ExistsBijection
<1>8. Cardinality(R) = Cardinality(At(r, A))
  BY <1>2, <1>7, FS_Bijection
<1>9. k \in At(q, A) <=> q[k] \in A
  BY <1>3 DEF At
<1>10. Cardinality(R) = IF k \in At(q, A) THEN Cardinality(At(q, A)) - 1 ELSE Cardinality(At(q, A))
  BY <1>2, FS_RemoveElement, Zenon
<1> QED  BY <1>2, <1>8, <1>9, <1>10 DEF r

\* So does leaving out the last one.
LEMMA CountOuter ==
    ASSUME NEW S, NEW q \in Seq(S), q # <<>>, NEW A
    PROVE  /\ Outer(q) \in Seq(S) /\ Len(Outer(q)) = Len(q) - 1
           /\ \A i \in 1 .. Len(q) - 1 : Outer(q)[i] = q[i]
           /\ Cardinality(At(Outer(q), A)) =
                Cardinality(At(q, A)) - (IF Innermost(q) \in A THEN 1 ELSE 0)
<1>1. Len(q) \in Nat /\ Len(q) # 0 /\ Len(q) \in 1 .. Len(q)
  OBVIOUS
<1>2. Outer(q) = remove(q, Len(q))
  BY <1>1 DEF Outer, remove
<1>3. \A i \in 1 .. Len(q) - 1 : i < Len(q)
  BY <1>1
<1> QED  BY <1>1, <1>2, <1>3, RemoveElements, CountRemove DEF Innermost

-----------------------------------------------------------------------------
(* Processes: the process table *)

\* Threads other than the first have the id of their place.
OwnIds(ids) == \A i \in Indices : i # 0 => ids[i] = i

\* What fork_begin can have saved.
SavedFrames ==
    {f \in [pid : Nat, ppid : Nat, n : 1 .. MaxThreads, id : [Indices -> Ids],
            exited : [Indices -> BOOLEAN], joining : [Indices -> Ids \cup {None}],
            blocked_on_lock : [Indices -> Locks \cup {None}],
            cond_wait : [Indices -> (Conds \X Mutexes) \cup {NoWait}],
            owner : [Locks -> Ids \cup {None}], count : [Mutexes -> Nat],
            kind : [Mutexes -> Kinds], current_thread_id : Nat] :
        f.current_thread_id < f.n /\ OwnIds(f.id)}

ZombieSet == [pid : Nat, ppid : Nat, status : WaitStatuses]
Reports == [child : ZombieSet, by : Nat]

TableTypes ==
    /\ ThreadTypes
    /\ current_thread_id \in 0 .. n - 1
    /\ status \in {"running", "stopped", "blocked"}
    /\ pid \in Nat /\ ppid \in Nat
    /\ next_pid \in pid + 1 .. MaxPids + 1
    /\ frames \in Seq(SavedFrames)
    /\ zombies \in Seq(ZombieSet)
    /\ reaped \in Seq(Reports)

\* How often pid p occurs: in the line of descent, among the zombies, in what wait returned.
Alive(p) == Cardinality(At(Lineage, {p}))
Dead(p) == Cardinality(At(zombies, {z \in ZombieSet : z.pid = p}))
Told(p) == Cardinality(At(reaped, {r \in Reports : r.child.pid = p}))

TableInv ==
    /\ TableTypes
    /\ OwnIds(id)
    /\ ~ in_child => id[0] = 0
    /\ in_child => frames[1].id[0] = 0
    /\ ChildrenStopByThreadExit
    /\ LineOfDescent
    /\ \A p \in Nat : Alive(p) + Dead(p) + Told(p) = IF p \in INITIAL_PID .. next_pid - 1 THEN 1 ELSE 0
    /\ \A i \in DOMAIN reaped : reaped[i].by = reaped[i].child.ppid

\* The pids of frames fr and of the running process p, and those of their parents.
LineOf(fr, p) == Append([i \in DOMAIN fr |-> fr[i].pid], p)
ParentsOf(fr, p) == Append([i \in DOMAIN fr |-> fr[i].ppid], p)

\* Lines L and M name the processes of fr and p, and the parents of those and q, in order.
Places(L, M, fr, p, q) ==
    /\ L \in Seq(Nat) /\ Len(L) = Len(fr) + 1 /\ Len(fr) \in Nat
    /\ M \in Seq(Nat) /\ Len(M) = Len(fr) + 1
    /\ \A i \in 1 .. Len(fr) : L[i] = fr[i].pid /\ M[i] = fr[i].ppid
    /\ L[Len(fr) + 1] = p /\ M[Len(fr) + 1] = q

\* Both lines, place by place.
LEMMA LinePlaces ==
    ASSUME NEW fr \in Seq(SavedFrames), NEW p \in Nat, NEW q \in Nat
    PROVE  Places(LineOf(fr, p), ParentsOf(fr, q), fr, p, q)
<1> DEFINE P == [i \in DOMAIN fr |-> fr[i].pid]
           Q == [i \in DOMAIN fr |-> fr[i].ppid]
<1>1. Len(fr) \in Nat /\ DOMAIN fr = 1 .. Len(fr)
  OBVIOUS
<1>2. \A i \in 1 .. Len(fr) : fr[i].pid \in Nat /\ fr[i].ppid \in Nat
  BY DEF SavedFrames
<1>3. P \in Seq(Nat) /\ Len(P) = Len(fr) /\ Q \in Seq(Nat) /\ Len(Q) = Len(fr)
  BY <1>1, <1>2
<1>4. \A i \in 1 .. Len(fr) : P[i] = fr[i].pid /\ Q[i] = fr[i].ppid
  BY <1>1
<1>5. LineOf(fr, p) = Append(P, p) /\ ParentsOf(fr, q) = Append(Q, q)
  BY DEF LineOf, ParentsOf
<1> HIDE DEF P, Q
<1>6. /\ Append(P, p) \in Seq(Nat) /\ Len(Append(P, p)) = Len(fr) + 1 /\ Append(P, p)[Len(fr) + 1] = p
      /\ \A i \in 1 .. Len(fr) : Append(P, p)[i] = P[i]
  BY <1>1, <1>3
<1>7. /\ Append(Q, q) \in Seq(Nat) /\ Len(Append(Q, q)) = Len(fr) + 1 /\ Append(Q, q)[Len(fr) + 1] = q
      /\ \A i \in 1 .. Len(fr) : Append(Q, q)[i] = Q[i]
  BY <1>1, <1>3
<1> QED  BY <1>1, <1>4, <1>5, <1>6, <1>7 DEF Places

\* A step that leaves the process table alone.
LEMMA TableKept ==
    ASSUME TableInv, ThreadTypes', current_thread_id' \in 0 .. n' - 1,
           status' \in {"running", "stopped", "blocked"},
           OwnIds(id'), ~ in_child => id'[0] = 0, ChildrenStopByThreadExit',
           UNCHANGED <<pid, ppid, next_pid, frames, zombies, reaped>>
    PROVE  TableInv'
<1>1. TableTypes'
  BY DEF TableInv, TableTypes
<1>2. UNCHANGED <<Lineage, ParentPids, in_child>>
  BY DEF Lineage, ParentPids, in_child
<1>3. LineOfDescent'
  BY <1>2 DEF TableInv, LineOfDescent
<1>4. \A p : UNCHANGED <<Alive(p), Dead(p), Told(p)>>
  BY <1>2 DEF Alive, Dead, Told
<1> QED  BY <1>1, <1>2, <1>3, <1>4 DEF TableInv

\* The vector's indices are among the model's.
LEMMA Within ==
    ASSUME NEW k \in 1 .. MaxThreads
    PROVE  /\ k \in Nat /\ 0 \in Indices
           /\ \A i \in 0 .. k - 1 : i \in Indices /\ i < k /\ i \in 0 .. (k + 1) - 1
           /\ \A i \in Indices : i < k => i \in 0 .. k - 1
BY MacThreadsAssumption DEF Indices

\* A thread that runs is a thread.
LEMMA ScheduledIsRunnable ==
    ASSUME TableTypes, NEW t \in Indices, Scheduled(t)
    PROVE  is_runnable(t) /\ t \in 0 .. n - 1 /\ status = "running" /\ n \in Nat /\ 0 \in Indices
<1>1. is_runnable(t) /\ status = "running"
  BY DEF Scheduled, Picked, Runnable
<1>2. t < n /\ n \in 1 .. MaxThreads
  BY <1>1 DEF is_runnable, TableTypes, ThreadTypes
<1>3. n \in Nat /\ 0 \in Indices /\ t \in 0 .. n - 1
  BY <1>2, Within
<1> QED  BY <1>1, <1>3

\* Only a thread's end stops the emulator, when it was the last.
LEMMA ThreadStatus ==
    ASSUME NEW t \in Indices, ThreadInstruction(t), n' \in Nat, n \in Nat
    PROVE  status' = status \/ (status' = "stopped" /\ n' = n /\ \A i \in Indices : i < n => exited'[i])
  BY Zenon DEF ThreadInstruction, thread_exit, OtherInstruction, api_mutex_init, api_mutex_lock,
     api_mutex_trylock, api_mutex_unlock, api_cond_wait, api_cond_timedwait, api_cond_wake,
     api_unfair_lock, api_unfair_trylock, api_unfair_unlock, api_pthread_create, api_pthread_join

\* A thread call, in whatever process, leaves the process table alone.
LEMMA ThreadKeepsTable ==
    ASSUME TableInv, NEW t \in Indices, Scheduled(t), ThreadInstruction(t), current_thread_id' = t,
           UNCHANGED <<processes, reaped>>
    PROVE  TableInv'
<1>1. TableTypes /\ ThreadTypes /\ OwnIds(id)
  BY DEF TableInv, TableTypes
<1>2. is_runnable(t) /\ t \in 0 .. n - 1 /\ status = "running" /\ n \in Nat /\ 0 \in Indices
  BY <1>1, ScheduledIsRunnable
<1>3. Kept
  BY <1>1, <1>2, ThreadCalls
<1>4. ThreadTypes' /\ n' \in Nat /\ current_thread_id' \in 0 .. n' - 1
  <2>1. ThreadTypes' /\ (n' = n \/ n' = n + 1) /\ n \in 1 .. MaxThreads
    BY <1>1, <1>3 DEF Kept, ThreadTypes
  <2>2. t \in 0 .. n' - 1
    BY <1>2, <2>1, Within
  <2>3. n' \in Nat
    BY <1>2, <2>1
  <2> QED  BY <2>1, <2>2, <2>3, Zenon
<1>5. OwnIds(id') /\ (id[0] = 0 => id'[0] = 0)
  BY <1>1, <1>2, <1>3 DEF Kept, OwnIds
<1>6. status' = status \/ (status' = "stopped" /\ n' = n /\ \A i \in Indices : i < n => exited'[i])
  BY <1>2, <1>4, ThreadStatus
<1>7. ChildrenStopByThreadExit'
  <2>1. \A i \in 0 .. n' - 1 : i \in Indices /\ i < n'
    <3>1. n' \in 1 .. MaxThreads
      BY <1>4 DEF ThreadTypes
    <3> QED  BY <3>1, Within, Zenon
  <2> QED  BY <1>2, <1>6, <2>1 DEF ChildrenStopByThreadExit
<1>8. UNCHANGED <<pid, ppid, next_pid, frames, zombies, reaped>>
  BY DEF processes
<1> QED  BY <1>2, <1>4, <1>5, <1>6, <1>7, <1>8, TableKept DEF TableInv

\* A line of descent, of frames fr below process p with parent q.
Descent(fr, p, q) ==
    \A i \in 1 .. Len(LineOf(fr, p)) - 1 :
        LineOf(fr, p)[i] < LineOf(fr, p)[i + 1] /\ ParentsOf(fr, q)[i + 1] = LineOf(fr, p)[i]

\* fork_begin adds the child at the end of the line, process_exit takes it off.
LEMMA LineGrows ==
    ASSUME NEW fr \in Seq(SavedFrames), NEW f \in SavedFrames, NEW c \in Nat
    PROVE  /\ LineOf(Append(fr, f), c) = Append(LineOf(fr, f.pid), c)
           /\ ParentsOf(Append(fr, f), f.pid) = Append(ParentsOf(fr, f.ppid), f.pid)
<1> DEFINE g == Append(fr, f)
<1>1. f.pid \in Nat /\ f.ppid \in Nat
  BY DEF SavedFrames
<1>2. g \in Seq(SavedFrames) /\ Len(g) = Len(fr) + 1 /\ Len(fr) \in Nat
      /\ (\A i \in 1 .. Len(fr) : g[i] = fr[i]) /\ g[Len(fr) + 1] = f
  OBVIOUS
<1> HIDE DEF g
<1> DEFINE L == LineOf(g, c)
           M == LineOf(fr, f.pid)
           A == ParentsOf(g, f.pid)
           B == ParentsOf(fr, f.ppid)
<1>3. Places(L, A, g, c, f.pid)
  BY <1>1, <1>2, LinePlaces
<1>4. Places(M, B, fr, f.pid, f.ppid)
  BY <1>1, LinePlaces
<1> HIDE DEF L, M, A, B
<1>5. Len(L) = Len(fr) + 2 /\ Len(A) = Len(L) /\ Len(M) = Len(fr) + 1 /\ Len(B) = Len(M)
  BY <1>2, <1>3, <1>4 DEF Places
<1>6. ASSUME NEW i \in 1 .. Len(fr) + 1 PROVE L[i] = M[i] /\ A[i] = B[i]
  <2>1. L[i] = g[i].pid /\ A[i] = g[i].ppid
    BY <1>2, <1>3 DEF Places
  <2>2. CASE i \in 1 .. Len(fr)
    BY <1>2, <1>4, <2>1, <2>2, Zenon DEF Places
  <2>3. CASE i = Len(fr) + 1
    BY <1>2, <1>4, <2>1, <2>3 DEF Places
  <2> QED  BY <1>2, <2>2, <2>3
<1>7. Append(M, c) \in Seq(Nat) /\ Append(B, f.pid) \in Seq(Nat)
      /\ Len(Append(M, c)) = Len(L) /\ Len(Append(B, f.pid)) = Len(A)
  BY <1>1, <1>2, <1>4, <1>5 DEF Places
<1>8. ASSUME NEW i \in 1 .. Len(L) PROVE L[i] = Append(M, c)[i] /\ A[i] = Append(B, f.pid)[i]
  <2>1. CASE i \in 1 .. Len(fr) + 1
    <3>1. Append(M, c)[i] = M[i] /\ Append(B, f.pid)[i] = B[i]
      BY <1>2, <1>4, <1>5, <2>1 DEF Places
    <3> QED  BY <1>6, <2>1, <3>1
  <2>2. CASE i = Len(fr) + 2
    BY <1>2, <1>3, <1>4, <1>5, <2>2 DEF Places
  <2> QED  BY <1>2, <1>5, <2>1, <2>2
<1>9. L = Append(M, c)
  <2>1. L \in Seq(Nat)
    BY <1>3 DEF Places
  <2> QED  BY <1>7, <1>8, <2>1, SameElements, Zenon
<1>10. A = Append(B, f.pid)
  <2>1. A \in Seq(Nat)
    BY <1>3 DEF Places
  <2> QED  BY <1>5, <1>7, <1>8, <2>1, SameElements
<1> QED  BY <1>9, <1>10 DEF L, M, A, B, g

\* The process that runs is the child of the last in the line.
LEMMA ParentOnTop ==
    ASSUME NEW fr \in Seq(SavedFrames), NEW f \in SavedFrames, NEW p \in Nat, NEW q \in Nat,
           Descent(Append(fr, f), p, q)
    PROVE  q = f.pid
<1> DEFINE g == Append(fr, f)
           k == Len(fr) + 1
<1>1. g \in Seq(SavedFrames) /\ Len(g) = k /\ g[k] = f /\ k \in Nat /\ k \in 1 .. k
  OBVIOUS
<1> HIDE DEF g, k
<1>2. /\ Len(LineOf(g, p)) = k + 1 /\ LineOf(g, p)[k] = f.pid
      /\ ParentsOf(g, q)[k + 1] = q
  <2>1. Places(LineOf(g, p), ParentsOf(g, q), g, p, q)
    BY <1>1, LinePlaces
  <2> QED  BY <1>1, <2>1 DEF Places
<1>3. k \in 1 .. Len(LineOf(g, p)) - 1
  BY <1>1, <1>2
<1>4. Descent(g, p, q)
  BY DEF g
<1> QED  BY <1>2, <1>3, <1>4 DEF Descent

\* The longer line is a line of descent if the shorter one is and the child has a greater
\* pid.
LEMMA DescentGrows ==
    ASSUME NEW fr \in Seq(SavedFrames), NEW f \in SavedFrames, NEW c \in Nat
    PROVE  Descent(Append(fr, f), c, f.pid) <=> Descent(fr, f.pid, f.ppid) /\ f.pid < c
<1> DEFINE M == LineOf(fr, f.pid)
           B == ParentsOf(fr, f.ppid)
           L == Append(M, c)
           A == Append(B, f.pid)
           k == Len(fr) + 1
<1>1. f.pid \in Nat /\ f.ppid \in Nat
  BY DEF SavedFrames
<1>0. Places(M, B, fr, f.pid, f.ppid)
  BY <1>1, LinePlaces, Zenon
<1>3. LineOf(Append(fr, f), c) = L /\ ParentsOf(Append(fr, f), f.pid) = A
  BY LineGrows
<1> HIDE DEF M, B
<1>2. M \in Seq(Nat) /\ Len(M) = k /\ B \in Seq(Nat) /\ Len(B) = k /\ Len(fr) \in Nat /\ M[k] = f.pid
  BY <1>0 DEF Places
<1>4. /\ Len(L) = k + 1 /\ L[k + 1] = c /\ A[k + 1] = f.pid
      /\ \A i \in 1 .. k : L[i] = M[i] /\ A[i] = B[i]
  BY <1>1, <1>2
<1> HIDE DEF L, A
<1>5. Descent(fr, f.pid, f.ppid) <=> \A i \in 1 .. k - 1 : M[i] < M[i + 1] /\ B[i + 1] = M[i]
  BY <1>2 DEF Descent, M, B
<1>6. Descent(Append(fr, f), c, f.pid) <=> \A i \in 1 .. k : L[i] < L[i + 1] /\ A[i + 1] = L[i]
  <2>1. Len(L) - 1 = k
    BY <1>2, <1>4
  <2> QED  BY <1>3, <2>1 DEF Descent
<1>7. k \in Nat /\ k >= 1
  BY <1>2
<1> HIDE DEF k
<1>8. \A i \in 1 .. k - 1 : i \in 1 .. k /\ i + 1 \in 1 .. k
  BY <1>7
<1>9. \A i \in 1 .. k : i \in 1 .. k - 1 \/ i = k
  BY <1>7
<1>10. (\A i \in 1 .. k : L[i] < L[i + 1] /\ A[i + 1] = L[i])
          <=> (\A i \in 1 .. k - 1 : L[i] < L[i + 1] /\ A[i + 1] = L[i]) /\ L[k] < L[k + 1] /\ A[k + 1] = L[k]
  BY <1>7, <1>8, <1>9
<1>11. \A i \in 1 .. k - 1 : L[i] = M[i] /\ L[i + 1] = M[i + 1] /\ A[i + 1] = B[i + 1]
  BY <1>4, <1>8
<1>12. L[k] = f.pid /\ L[k + 1] = c /\ A[k + 1] = f.pid
  BY <1>2, <1>4, <1>7
<1> QED  BY <1>5, <1>6, <1>10, <1>11, <1>12

\* The last frame of a stack and the rest.
LEMMA LastFrame ==
    ASSUME NEW fr \in Seq(SavedFrames), fr # <<>>
    PROVE  /\ Outer(fr) \in Seq(SavedFrames) /\ Innermost(fr) \in SavedFrames
           /\ fr = Append(Outer(fr), Innermost(fr))
           /\ Outer(fr) # <<>> => Outer(fr)[1] = fr[1]
           /\ Outer(fr) = <<>> => Innermost(fr) = fr[1]
<1>1. /\ Outer(fr) \in Seq(SavedFrames) /\ Len(Outer(fr)) = Len(fr) - 1
      /\ \A i \in 1 .. Len(fr) - 1 : Outer(fr)[i] = fr[i]
  BY CountOuter, Zenon
<1>2. Len(fr) \in Nat /\ Len(fr) >= 1 /\ Innermost(fr) = fr[Len(fr)] /\ Innermost(fr) \in SavedFrames
  BY DEF Innermost
<1>3. fr = Append(Outer(fr), Innermost(fr))
  <2> DEFINE g == Append(Outer(fr), Innermost(fr))
  <2>1. g \in Seq(SavedFrames) /\ Len(g) = Len(fr) /\ g[Len(fr)] = fr[Len(fr)]
        /\ \A i \in 1 .. Len(fr) - 1 : g[i] = fr[i]
    BY <1>1, <1>2
  <2>2. \A i \in 1 .. Len(fr) : i \in 1 .. Len(fr) - 1 \/ i = Len(fr)
    BY <1>2
  <2> HIDE DEF g
  <2>3. \A i \in 1 .. Len(g) : g[i] = fr[i]
    BY <2>1, <2>2
  <2>4. g = fr
    BY <2>1, <2>3, SameElements
  <2> QED  BY <2>4 DEF g
<1>4. ASSUME Outer(fr) # <<>> PROVE Outer(fr)[1] = fr[1]
  <2>1. 1 \in 1 .. Len(fr) - 1
    BY <1>1, <1>2, <1>4
  <2> QED  BY <1>1, <2>1
<1>5. ASSUME Outer(fr) = <<>> PROVE Innermost(fr) = fr[1]
  <2>1. Len(fr) = 1
    BY <1>1, <1>2, <1>5
  <2> QED  BY <1>2, <2>1
<1> QED  BY <1>1, <1>2, <1>3, <1>4, <1>5

\* Where the properties speak of the line of descent.
LEMMA LineDefs ==
    /\ Lineage = LineOf(frames, pid) /\ ParentPids = ParentsOf(frames, ppid)
    /\ LineOfDescent <=> Descent(frames, pid, ppid)
    /\ Lineage' = LineOf(frames', pid') /\ ParentPids' = ParentsOf(frames', ppid')
    /\ LineOfDescent' <=> Descent(frames', pid', ppid')
BY DEF Lineage, LineOf, ParentPids, ParentsOf, LineOfDescent, Descent

\* fork_begin: the parent is saved as it is.
LEMMA ForkSaves ==
    ASSUME TableInv, NEW t \in Indices, t \in 0 .. n - 1
    PROVE  ForkFrame(t) \in SavedFrames
<1>1. t \in Nat /\ n \in Nat /\ t < n
  BY DEF TableInv, TableTypes, ThreadTypes
<1> QED  BY <1>1, Zenon DEF ForkFrame, SavedFrames, TableInv, TableTypes, ThreadTypes

\* fork_begin: the child has one thread, the caller's.
LEMMA ForkTypes ==
    ASSUME TableInv, NEW t \in Indices, t \in 0 .. n - 1, OnlyCaller(t), UNCHANGED locks
    PROVE  ThreadTypes' /\ OwnIds(id') /\ current_thread_id' \in 0 .. n' - 1
<1>1. 1 \in 1 .. MaxThreads /\ 0 \in Indices /\ 0 \in 0 .. 1 - 1 /\ Indices \subseteq Ids
  BY MacThreadsAssumption, Nothing DEF Indices
<1>2. id' \in [Indices -> Ids] /\ OwnIds(id')
  BY <1>1 DEF OnlyCaller, TableInv, TableTypes, ThreadTypes, OwnIds
<1>3. /\ exited' \in [Indices -> BOOLEAN]
      /\ joining' \in [Indices -> Ids \cup {None}]
      /\ blocked_on_lock' \in [Indices -> Locks \cup {None}]
      /\ cond_wait' \in [Indices -> (Conds \X Mutexes) \cup {NoWait}]
  BY DEF OnlyCaller
<1>4. n' = 1 /\ current_thread_id' = 0
  BY DEF OnlyCaller
<1> QED  BY <1>1, <1>2, <1>3, <1>4 DEF ThreadTypes, locks, TableInv, TableTypes

\* fork_begin keeps the invariant: the pid it hands out counts as alive from now on.
LEMMA ForkKeepsTable ==
    ASSUME TableInv, NEW t \in Indices, Scheduled(t), fork_begin(t)
    PROVE  TableInv'
<1> DEFINE F == ForkFrame(t)
<1>1. TableTypes
  BY DEF TableInv
<1>2. t \in 0 .. n - 1 /\ status = "running" /\ 0 \in Indices
  BY <1>1, ScheduledIsRunnable
<1>3. F \in SavedFrames /\ F.pid = pid /\ F.ppid = ppid /\ F.id = id
  BY <1>2, ForkSaves DEF ForkFrame
<1>4. ThreadTypes' /\ OwnIds(id') /\ current_thread_id' \in 0 .. n' - 1
  BY <1>2, ForkTypes DEF fork_begin
<1>5. /\ frames' = Append(frames, F) /\ next_pid' = next_pid + 1 /\ pid' = next_pid /\ ppid' = pid
      /\ next_pid <= MaxPids /\ UNCHANGED <<status, zombies, reaped>>
  BY DEF fork_begin
<1> HIDE DEF F
<1>6. /\ pid \in Nat /\ ppid \in Nat /\ next_pid \in Nat /\ pid < next_pid /\ frames \in Seq(SavedFrames)
      /\ MaxPids \in Nat
  BY <1>1, MacProcessesAssumption DEF TableTypes
<1>7. next_pid' \in pid' + 1 .. MaxPids + 1
  BY <1>5, <1>6
<1>8. TableTypes'
  <2>1. frames' \in Seq(SavedFrames)
    BY <1>3, <1>5, <1>6
  <2> QED  BY <1>1, <1>2, <1>4, <1>5, <1>6, <1>7, <2>1 DEF TableTypes
<1>9. frames' # <<>> /\ frames'[1].id[0] = 0
  <2>1. CASE frames = <<>>
    <3>1. frames'[1] = F /\ frames' # <<>>
      BY <1>3, <1>5, <2>1
    <3> QED  BY <1>3, <2>1, <3>1 DEF TableInv, in_child
  <2>2. CASE frames # <<>>
    <3>1. frames'[1] = frames[1] /\ frames' # <<>>
      BY <1>3, <1>5, <1>6, <2>2
    <3> QED  BY <2>2, <3>1, Zenon DEF TableInv, in_child
  <2> QED  BY <2>1, <2>2
<1>10. ChildrenStopByThreadExit'
  BY <1>2, <1>5 DEF ChildrenStopByThreadExit
<1>11. LineOfDescent'
  BY <1>3, <1>5, <1>6, LineDefs, DescentGrows, Zenon DEF TableInv
<1>12. Lineage' = Append(Lineage, next_pid) /\ Lineage \in Seq(Nat)
  <2>1. LineOf(Append(frames, F), next_pid) = Append(LineOf(frames, F.pid), next_pid)
    BY <1>3, <1>6, LineGrows
  <2>2. LineOf(frames, pid) \in Seq(Nat)
    BY <1>6, LinePlaces DEF Places
  <2> QED  BY <1>3, <1>5, <2>1, <2>2, LineDefs
<1>13. ASSUME NEW p \in Nat
       PROVE  (Alive(p) + Dead(p) + Told(p))' = IF p \in INITIAL_PID .. next_pid' - 1 THEN 1 ELSE 0
  <2>1. Alive(p)' = Alive(p) + IF next_pid \in {p} THEN 1 ELSE 0
    BY <1>6, <1>12, CountAppend, Zenon DEF Alive
  <2>2. Dead(p)' = Dead(p) /\ Told(p)' = Told(p)
    BY <1>5 DEF Dead, Told
  <2>3. Alive(p) \in Nat /\ Dead(p) \in Nat /\ Told(p) \in Nat
    BY <1>1, <1>12, AtFinite DEF Alive, Dead, Told, TableTypes
  <2>4. Alive(p) + Dead(p) + Told(p) = IF p \in INITIAL_PID .. next_pid - 1 THEN 1 ELSE 0
    BY DEF TableInv
  <2>5. INITIAL_PID = 1 /\ next_pid >= 1
    BY <1>6 DEF INITIAL_PID
  <2>6. p \in INITIAL_PID .. next_pid' - 1 <=> p \in INITIAL_PID .. next_pid - 1 \/ p = next_pid
    BY <1>5, <1>6, <2>5
  <2>7. p = next_pid => p \notin INITIAL_PID .. next_pid - 1
    BY <1>6
  <2> QED  BY <2>1, <2>2, <2>3, <2>4, <2>6, <2>7
<1> QED  BY <1>4, <1>5, <1>8, <1>9, <1>10, <1>11, <1>13 DEF TableInv, in_child

\* process_exit keeps the invariant: the pid goes from the line of descent to the zombies.
LEMMA ExitKeepsTable ==
    ASSUME TableInv, NEW w \in WaitStatuses, status = "running", process_exit(w)
    PROVE  TableInv'
<1> DEFINE F == Innermost(frames)
           z == [pid |-> pid, ppid |-> F.pid, status |-> w]
<1>1. TableTypes /\ frames # <<>> /\ frames \in Seq(SavedFrames)
  BY DEF TableInv, TableTypes, process_exit, in_child
<1>2. /\ frames' = Outer(frames) /\ zombies' = Append(zombies, z)
      /\ pid' = F.pid /\ ppid' = F.ppid /\ UNCHANGED <<status, next_pid, reaped>>
      /\ n' = F.n /\ id' = F.id /\ exited' = F.exited /\ joining' = F.joining
      /\ blocked_on_lock' = F.blocked_on_lock /\ cond_wait' = F.cond_wait
      /\ current_thread_id' = F.current_thread_id
      /\ owner' = F.owner /\ count' = F.count /\ kind' = F.kind
  BY DEF process_exit, RestorePids, RestoreThreads, RestoreMaps
<1>3. /\ Outer(frames) \in Seq(SavedFrames) /\ F \in SavedFrames
      /\ frames = Append(Outer(frames), F)
      /\ Outer(frames) # <<>> => Outer(frames)[1] = frames[1]
      /\ Outer(frames) = <<>> => F = frames[1]
  BY <1>1, LastFrame
<1> HIDE DEF F
<1>4. /\ F.pid \in Nat /\ F.ppid \in Nat /\ F.n \in 1 .. MaxThreads /\ F.current_thread_id \in Nat
      /\ F.current_thread_id < F.n /\ OwnIds(F.id)
  BY <1>3 DEF SavedFrames
<1>5. ThreadTypes'
  <2>1. F \in [pid : Nat, ppid : Nat, n : 1 .. MaxThreads, id : [Indices -> Ids],
            exited : [Indices -> BOOLEAN], joining : [Indices -> Ids \cup {None}],
            blocked_on_lock : [Indices -> Locks \cup {None}],
            cond_wait : [Indices -> (Conds \X Mutexes) \cup {NoWait}],
            owner : [Locks -> Ids \cup {None}], count : [Mutexes -> Nat],
            kind : [Mutexes -> Kinds], current_thread_id : Nat]
    BY <1>3, Zenon DEF SavedFrames
  <2> QED  BY <1>2, <2>1 DEF ThreadTypes
<1>6. F.current_thread_id \in 0 .. F.n - 1
  BY <1>4
<1>7. /\ pid \in Nat /\ ppid \in Nat /\ next_pid \in Nat /\ pid < next_pid /\ next_pid <= MaxPids + 1
      /\ MaxPids \in Nat /\ zombies \in Seq(ZombieSet)
  BY <1>1, MacProcessesAssumption DEF TableTypes
<1>8. Descent(Append(Outer(frames), F), pid, ppid)
  BY <1>3, LineDefs, Zenon DEF TableInv
<1>9. ppid = F.pid
  BY <1>3, <1>7, <1>8, ParentOnTop, Zenon
<1>10. Descent(Outer(frames), F.pid, F.ppid) /\ F.pid < pid
  <2>1. Descent(Append(Outer(frames), F), pid, F.pid)
    BY <1>8, <1>9, Zenon
  <2> QED  BY <1>3, <1>7, <2>1, DescentGrows, Zenon
<1>11. z \in ZombieSet /\ z.pid = pid
  BY <1>4, <1>7 DEF ZombieSet
<1> HIDE DEF z
<1>12. TableTypes'
  <2>1. zombies' \in Seq(ZombieSet)
    BY <1>2, <1>7, <1>11
  <2>2. next_pid \in F.pid + 1 .. MaxPids + 1
    BY <1>4, <1>7, <1>10
  <2> QED  BY <1>1, <1>2, <1>3, <1>4, <1>5, <1>6, <2>1, <2>2 DEF TableTypes
<1>13. LineOfDescent'
  BY <1>2, <1>10, LineDefs
<1>14. Lineage = Append(Lineage', pid) /\ Lineage' \in Seq(Nat)
  <2>1. LineOf(Append(Outer(frames), F), pid) = Append(LineOf(Outer(frames), F.pid), pid)
    BY <1>3, <1>7, LineGrows
  <2>2. LineOf(Outer(frames), F.pid) \in Seq(Nat)
    BY <1>3, <1>4, LinePlaces, Zenon DEF Places
  <2> QED  BY <1>2, <1>3, <2>1, <2>2, LineDefs, Zenon
<1>15. ASSUME NEW p \in Nat
       PROVE  (Alive(p) + Dead(p) + Told(p))' = IF p \in INITIAL_PID .. next_pid' - 1 THEN 1 ELSE 0
  <2> DEFINE Z == {x \in ZombieSet : x.pid = p}
  <2>1. Alive(p) = Alive(p)' + IF pid \in {p} THEN 1 ELSE 0
    BY <1>7, <1>14, CountAppend, Zenon DEF Alive
  <2>2. Dead(p)' = Dead(p) + IF z \in Z THEN 1 ELSE 0
    BY <1>2, <1>7, <1>11, CountAppend DEF Dead
  <2>3. z \in Z <=> pid = p
    BY <1>11
  <2>4. Told(p)' = Told(p)
    BY <1>2 DEF Told
  <2>5. Alive(p)' \in Nat /\ Dead(p) \in Nat /\ Told(p) \in Nat
    BY <1>1, <1>14, AtFinite DEF Alive, Dead, Told, TableTypes
  <2>6. Alive(p) + Dead(p) + Told(p) = IF p \in INITIAL_PID .. next_pid - 1 THEN 1 ELSE 0
    BY DEF TableInv
  <2> HIDE DEF Z
  <2>7. Alive(p)' + Dead(p)' + Told(p)' = Alive(p) + Dead(p) + Told(p)
    BY <2>1, <2>2, <2>3, <2>4, <2>5
  <2> QED  BY <1>2, <2>6, <2>7
<1>16. OwnIds(id') /\ (frames' = <<>> => id'[0] = 0) /\ (frames' # <<>> => frames'[1].id[0] = 0)
  BY <1>1, <1>2, <1>3, <1>4 DEF TableInv, in_child
<1>17. ChildrenStopByThreadExit'
  BY <1>2 DEF ChildrenStopByThreadExit
<1> QED  BY <1>2, <1>12, <1>13, <1>15, <1>16, <1>17 DEF TableInv, in_child

\* reap_child keeps the invariant: the pid goes from the zombies to what wait has told.
LEMMA ReapKeepsTable ==
    ASSUME TableInv, NEW t \in Indices, Scheduled(t), NEW arg \in -1 .. MaxPids, reap_child(t, arg),
           current_thread_id' = t
    PROVE  TableInv'
<1>1. TableTypes /\ zombies \in Seq(ZombieSet) /\ reaped \in Seq(Reports) /\ pid \in Nat
  BY DEF TableInv, TableTypes
<1>2. t \in 0 .. n - 1 /\ status = "running"
  BY <1>1, ScheduledIsRunnable
<1>3. UNCHANGED <<n, id, exited, joining, blocked_on_lock, cond_wait, owner, count, kind, status,
                  pid, ppid, next_pid, frames>>
  BY DEF reap_child, threads, parked, locks
<1>4. ThreadTypes' /\ OwnIds(id') /\ (~ in_child => id'[0] = 0) /\ t \in 0 .. n' - 1
      /\ status' \in {"running", "stopped", "blocked"}
  BY <1>1, <1>2, <1>3, Zenon DEF TableInv, TableTypes, ThreadTypes
<1>5. ChildrenStopByThreadExit'
  BY <1>2, <1>3 DEF ChildrenStopByThreadExit
<1>6. CASE UNCHANGED <<zombies, reaped>>
  BY <1>3, <1>4, <1>5, <1>6, TableKept
<1>7. ASSUME NEW k \in Matching(arg), zombies' = remove(zombies, k),
             reaped' = Append(reaped, [child |-> zombies[k], by |-> pid])
      PROVE  TableInv'
  <2> DEFINE r == [child |-> zombies[k], by |-> pid]
  <2>1. k \in 1 .. Len(zombies) /\ zombies[k] \in ZombieSet /\ zombies[k].ppid = pid
    BY <1>1 DEF Matching
  <2>2. r \in Reports /\ r.child = zombies[k] /\ r.by = pid
    BY <1>1, <2>1 DEF Reports
  <2> HIDE DEF r
  <2>3. zombies' \in Seq(ZombieSet)
    BY <1>1, <1>7, <2>1, RemoveElements
  <2>4. reaped' = Append(reaped, r) /\ reaped' \in Seq(Reports)
    BY <1>1, <1>7, <2>2 DEF r
  <2>5. TableTypes'
    BY <1>1, <1>3, <1>4, <2>3, <2>4 DEF TableTypes
  <2>6. UNCHANGED <<Lineage, ParentPids, in_child>>
    BY <1>3 DEF Lineage, ParentPids, in_child
  <2>7. LineOfDescent'
    BY <2>6 DEF TableInv, LineOfDescent
  <2>8. \A i \in DOMAIN reaped' : reaped'[i].by = reaped'[i].child.ppid
    <3> SUFFICES ASSUME NEW i \in DOMAIN reaped' PROVE reaped'[i].by = reaped'[i].child.ppid
      OBVIOUS
    <3>1. CASE i \in DOMAIN reaped
      <4>1. reaped'[i] = reaped[i]
        BY <1>1, <2>2, <2>4, <3>1
      <4> QED  BY <3>1, <4>1 DEF TableInv
    <3>2. CASE i \notin DOMAIN reaped
      <4>1. reaped'[i] = r
        BY <1>1, <2>2, <2>4, <3>2
      <4> QED  BY <2>1, <2>2, <4>1
    <3> QED  BY <3>1, <3>2
  <2>9. ASSUME NEW p \in Nat
        PROVE  (Alive(p) + Dead(p) + Told(p))' = IF p \in INITIAL_PID .. next_pid' - 1 THEN 1 ELSE 0
    <3> DEFINE Z == {x \in ZombieSet : x.pid = p}
               R == {x \in Reports : x.child.pid = p}
    <3>1. Alive(p)' = Alive(p)
      BY <2>6 DEF Alive
    <3>2. Dead(p)' = Dead(p) - IF zombies[k] \in Z THEN 1 ELSE 0
      BY <1>1, <1>7, <2>1, CountRemove, Zenon DEF Dead
    <3>3. Told(p)' = Told(p) + IF r \in R THEN 1 ELSE 0
      BY <1>1, <2>2, <2>4, CountAppend DEF Told
    <3>4. zombies[k] \in Z <=> r \in R
      BY <2>1, <2>2
    <3>5. Alive(p) \in Nat /\ Dead(p) \in Nat /\ Told(p) \in Nat
      <4>1. Lineage \in Seq(Nat)
        BY <1>1, LineDefs, LinePlaces DEF Places, TableTypes
      <4> QED  BY <1>1, <4>1, AtFinite DEF Alive, Dead, Told
    <3>6. Alive(p) + Dead(p) + Told(p) = IF p \in INITIAL_PID .. next_pid - 1 THEN 1 ELSE 0
      BY DEF TableInv
    <3> HIDE DEF Z, R
    <3>7. Alive(p)' + Dead(p)' + Told(p)' = Alive(p) + Dead(p) + Told(p)
      BY <3>1, <3>2, <3>3, <3>4, <3>5
    <3> QED  BY <1>3, <3>6, <3>7
  <2> QED  BY <1>3, <1>4, <1>5, <2>5, <2>6, <2>7, <2>8, <2>9 DEF TableInv
<1> QED  BY <1>6, <1>7, Zenon DEF reap_child

\* The process table is empty but for the initial process.
LEMMA TableInit == ProcessInit => TableInv
<1> SUFFICES ASSUME ProcessInit PROVE TableInv
  OBVIOUS
<1>1. /\ pid = 1 /\ ppid = 0 /\ next_pid = 2 /\ frames = <<>> /\ zombies = <<>> /\ reaped = <<>> /\ Init
  BY DEF ProcessInit, INITIAL_PID
<1>2. n = 1 /\ id = [i \in Indices |-> i] /\ current_thread_id = 0 /\ status = "running"
  BY <1>1 DEF Init
<1>3. 1 \in 1 .. MaxThreads /\ 0 \in Indices /\ 0 \in 0 .. 1 - 1 /\ Indices \subseteq Ids
  BY MacThreadsAssumption, Nothing DEF Indices
<1>4. ThreadTypes /\ OwnIds(id) /\ id[0] = 0
  BY <1>1, <1>2, <1>3 DEF Init, ThreadTypes, OwnIds
<1>5. 2 \in 1 + 1 .. MaxPids + 1
  BY MacProcessesAssumption
<1>6. TableTypes
  BY <1>1, <1>2, <1>3, <1>4, <1>5 DEF TableTypes
<1>7. Lineage \in Seq(Nat) /\ Len(Lineage) = 1 /\ Lineage[1] = 1
  BY <1>1 DEF Lineage
<1>8. LineOfDescent
  BY <1>7 DEF LineOfDescent
<1>9. ASSUME NEW p \in Nat
      PROVE  Alive(p) + Dead(p) + Told(p) = IF p \in INITIAL_PID .. next_pid - 1 THEN 1 ELSE 0
  <2>1. At(zombies, {z \in ZombieSet : z.pid = p}) = {} /\ At(reaped, {r \in Reports : r.child.pid = p}) = {}
    BY <1>1 DEF At
  <2>2. Dead(p) = 0 /\ Told(p) = 0
    BY <2>1, FS_EmptySet DEF Dead, Told
  <2>3. DOMAIN Lineage = {1}
    BY <1>7
  <2>4. At(Lineage, {p}) = IF p = 1 THEN {1} ELSE {}
    BY <1>7, <2>3 DEF At
  <2>5. Alive(p) = IF p = 1 THEN 1 ELSE 0
    BY <2>4, FS_EmptySet, FS_Singleton, Zenon DEF Alive
  <2>6. p \in INITIAL_PID .. next_pid - 1 <=> p = 1
    BY <1>1 DEF INITIAL_PID
  <2> QED  BY <2>2, <2>5, <2>6
<1> QED  BY <1>1, <1>2, <1>4, <1>6, <1>8, <1>9 DEF TableInv, in_child, ChildrenStopByThreadExit

\* Every step keeps the invariant.
LEMMA TableStep == TableInv /\ [ProcessNext]_allvars => TableInv'
<1> SUFFICES ASSUME TableInv, [ProcessNext]_allvars PROVE TableInv'
  OBVIOUS
<1>1. TableTypes
  BY DEF TableInv
<1>2. ASSUME UNCHANGED <<threads, locks, current_thread_id, processes, reaped>>,
             status' \in {"running", "stopped", "blocked"}, ChildrenStopByThreadExit'
      PROVE  TableInv'
  <2>1. /\ UNCHANGED <<n, id, exited, joining, blocked_on_lock, cond_wait, owner, count, kind>>
        /\ UNCHANGED <<current_thread_id, pid, ppid, next_pid, frames, zombies, reaped>>
    BY <1>2 DEF threads, parked, locks, processes
  <2>2. ThreadTypes' /\ OwnIds(id') /\ (~ in_child => id'[0] = 0) /\ current_thread_id' \in 0 .. n' - 1
    BY <1>1, <2>1, Zenon DEF TableInv, TableTypes, ThreadTypes
  <2> QED  BY <1>2, <2>1, <2>2, TableKept
<1>3. CASE UNCHANGED allvars
  <2>1. UNCHANGED <<threads, locks, current_thread_id, processes, reaped, status>>
    BY <1>3 DEF allvars, vars
  <2>2. ChildrenStopByThreadExit'
    BY <2>1 DEF ChildrenStopByThreadExit, threads, parked, processes, in_child, TableInv
  <2> QED  BY <1>1, <1>2, <2>1, <2>2 DEF TableTypes
<1>4. CASE AllBlocked /\ UNCHANGED <<processes, reaped>>
  <2>1. status' = "blocked" /\ UNCHANGED <<threads, locks, current_thread_id>>
    BY <1>4 DEF AllBlocked
  <2> QED  BY <1>2, <1>4, <2>1 DEF ChildrenStopByThreadExit
<1>5. CASE Finished /\ UNCHANGED <<processes, reaped>>
  <2>1. UNCHANGED allvars
    BY <1>5 DEF Finished, allvars
  <2> QED  BY <1>3, <2>1
<1>6. ASSUME NEW t \in Indices, Scheduled(t), ProcessInstruction(t) PROVE TableInv'
  <2>1. t \in 0 .. n - 1 /\ status = "running"
    BY <1>1, <1>6, ScheduledIsRunnable
  <2>2. CASE ThreadInstruction(t) /\ current_thread_id' = t /\ UNCHANGED <<processes, reaped>>
    BY <1>6, <2>2, ThreadKeepsTable
  <2>3. CASE fork_begin(t)
    BY <1>6, <2>3, ForkKeepsTable
  <2>4. ASSUME NEW w \in WaitStatuses, process_exit(w) PROVE TableInv'
    BY <2>1, <2>4, ExitKeepsTable
  <2>5. CASE ~ in_child /\ end_process(t) /\ current_thread_id' = t /\ UNCHANGED <<processes, reaped>>
    <3>1. /\ UNCHANGED <<n, id, exited, joining, blocked_on_lock, cond_wait, owner, count, kind>>
          /\ status' = "stopped" /\ UNCHANGED <<pid, ppid, next_pid, frames, zombies, reaped>>
      BY <2>5 DEF end_process, threads, parked, locks, processes
    <3>2. ThreadTypes' /\ OwnIds(id') /\ (~ in_child => id'[0] = 0) /\ current_thread_id' \in 0 .. n' - 1
      BY <1>1, <2>1, <2>5, <3>1, Zenon DEF TableInv, TableTypes, ThreadTypes
    <3>3. ChildrenStopByThreadExit'
      BY <2>5, <3>1 DEF ChildrenStopByThreadExit, in_child
    <3> QED  BY <3>1, <3>2, <3>3, TableKept
  <2>6. ASSUME NEW arg \in -1 .. MaxPids, reap_child(t, arg), current_thread_id' = t PROVE TableInv'
    BY <1>6, <2>6, ReapKeepsTable
  <2> QED  BY <1>6, <2>2, <2>3, <2>4, <2>5, <2>6 DEF ProcessInstruction
<1> QED  BY <1>3, <1>4, <1>5, <1>6 DEF ProcessNext, ProcessStep

\* The invariant holds always.
LEMMA TableHolds == ProcessSpec => []TableInv
BY TableInit, TableStep, PTL DEF ProcessSpec

\* The process table accounts for every process, whatever processes fork, exit and wait for
\* each other in whatever order: the frames are a line of descent, and every pid that
\* fork_begin handed out is that of one process in the line, one zombie or one wait call
\* made by the parent.
THEOREM ProcessTableIsSound == ProcessSpec => []ProcessInv
<1>1. TableInv => ProcessInv
  <2> SUFFICES ASSUME TableInv PROVE ProcessInv
    OBVIOUS
  <2>1. TableTypes /\ LineOfDescent
    BY DEF TableInv
  <2>2. ProcessTypeOK
    <3>1. TypeOK
      BY <2>1 DEF TableTypes, ThreadTypes, TypeOK
    <3>2. \A i \in DOMAIN frames : frames[i] \in SavedFrames
      BY <2>1 DEF TableTypes
    <3>3. \A i \in DOMAIN zombies : zombies[i] \in ZombieSet
      BY <2>1 DEF TableTypes
    <3> QED  BY <2>1, <3>1, <3>2, <3>3, Zenon DEF ProcessTypeOK, TableTypes, SavedFrames, ZombieSet
  <2>3. ASSUME NEW p \in INITIAL_PID .. next_pid - 1
        PROVE  Cardinality({i \in DOMAIN Lineage : Lineage[i] = p})
                 + Cardinality({i \in DOMAIN zombies : zombies[i].pid = p})
                 + Cardinality({i \in DOMAIN reaped : reaped[i].child.pid = p}) = 1
    <3>1. p \in Nat
      BY <2>1 DEF TableTypes, INITIAL_PID
    <3>2. {i \in DOMAIN Lineage : Lineage[i] = p} = At(Lineage, {p})
      BY DEF At
    <3>3. {i \in DOMAIN zombies : zombies[i].pid = p} = At(zombies, {z \in ZombieSet : z.pid = p})
      BY <2>1 DEF At, TableTypes
    <3>4. {i \in DOMAIN reaped : reaped[i].child.pid = p} = At(reaped, {r \in Reports : r.child.pid = p})
      BY <2>1 DEF At, TableTypes
    <3>5. Alive(p) + Dead(p) + Told(p) = 1
      BY <3>1 DEF TableInv
    <3> QED  BY <3>2, <3>3, <3>4, <3>5, Zenon DEF Alive, Dead, Told
  <2> QED  BY <2>1, <2>2, <2>3 DEF ProcessInv, EveryPidOnce, TableInv
<1> QED  BY <1>1, TableHolds, PTL

\* Thread ids tell the threads of a process apart, except that a thread created in a forked
\* child may have the id of the thread that forked it.
THEOREM IdsClashOnlyWithForker == ProcessSpec => []IdsClashWithForkerOnly
<1>1. TableInv => IdsClashWithForkerOnly
  <2> SUFFICES ASSUME TableInv, NEW i \in 0 .. n - 1, NEW j \in 0 .. n - 1, i < j, id[i] = id[j]
               PROVE  in_child /\ i = 0
    BY DEF IdsClashWithForkerOnly
  <2>1. n \in 1 .. MaxThreads
    BY DEF TableInv, TableTypes, ThreadTypes
  <2>2. i \in Indices /\ j \in Indices
    BY <2>1, Within
  <2>3. j # 0 /\ i # j
    BY <2>1
  <2>4. id[j] = j /\ (i # 0 => id[i] = i)
    BY <2>2, <2>3 DEF TableInv, OwnIds
  <2> QED  BY <2>3, <2>4 DEF TableInv
<1> QED  BY <1>1, TableHolds, PTL

\* While a forked child runs, the emulator stops only by pthread_exit of its last thread:
\* exit and abort of a child resume its parent.
THEOREM OnlyThreadExitStopsChildren == ProcessSpec => []ChildrenStopByThreadExit
<1>1. TableInv => ChildrenStopByThreadExit
  BY DEF TableInv
<1> QED  BY <1>1, TableHolds, PTL
=============================================================================
