-------------------------- MODULE MacThreadsProofs --------------------------
(***************************************************************************)
(* Proofs about MacThreads, for every number of threads, mutexes, unfair   *)
(* locks and condition variables, and about the program of MacGuest, for   *)
(* every capacity of its queue and every number of items.                  *)
(***************************************************************************)
EXTENDS MacGuest, WellFoundedInduction, TLAPS

\* A nonempty set of natural numbers has a least element.
LEMMA HasLeast ==
    ASSUME NEW S \in SUBSET Nat, S # {}
    PROVE  \E i \in S : \A j \in S : i <= j
<1>1. PICK i \in S : \A j \in S : ~ (<<j, i>> \in OpToRel(<, Nat))
  BY NatLessThanWellFounded, WFMin, Zenon
<1>2. ASSUME NEW j \in S PROVE i <= j
  <2>1. i \in Nat /\ j \in Nat
    OBVIOUS
  <2>2. j < i => <<j, i>> \in OpToRel(<, Nat)
    BY <2>1 DEF OpToRel
  <2>3. ~ (j < i)
    BY <2>2, <1>1, Zenon
  <2> QED  BY <2>1, <2>3
<1> QED  BY <1>2

\* The scan of sync.rs finds the nearest thread of a nonempty set.
LEMMA FirstAfterNearest ==
    ASSUME n \in Nat, NEW S \in SUBSET (0 .. n - 1), S # {}, NEW t \in 0 .. n - 1
    PROVE  /\ FirstAfter(S, t) \in S
           /\ \A j \in S : Offset(FirstAfter(S, t), t, n) <= Offset(j, t, n)
<1> DEFINE O == {Offset(j, t, n) : j \in S}
<1>1. O \in SUBSET Nat /\ O # {}
  <2>1. \A j \in S : Offset(j, t, n) \in Nat
    BY DEF Offset
  <2> QED  BY <2>1, Zenon
<1>2. PICK o \in O : \A p \in O : o <= p
  <2> HIDE DEF O
  <2> QED  BY <1>1, HasLeast
<1>3. \E i \in S : \A j \in S : Offset(i, t, n) <= Offset(j, t, n)
  BY <1>2
<1> QED  BY <1>3, Zenon DEF FirstAfter

\* A thread that another one passes in the scan after cur is nearer to that one.
LEMMA OffsetShrinks ==
    ASSUME NEW len \in Nat, NEW cur \in 0 .. len - 1, NEW i \in 0 .. len - 1,
           NEW t \in 0 .. len - 1, i # t, Offset(i, cur, len) <= Offset(t, cur, len)
    PROVE  Offset(t, i, len) < Offset(t, cur, len)
BY DEF Offset

-----------------------------------------------------------------------------
(* Locks and condition variables *)

\* A thread that may be parked on a lock or a condition.
Present(i) == i < n /\ ~ exited[i] /\ joining[i] = None

\* What ParkedInv says of the waits for locks and conditions, for given values of the fields
\* that the calls of sync.rs change: their types;
SyncTypes(blocked, cond, own, cnt, knd) ==
    /\ blocked \in [Indices -> Locks \cup {None}]
    /\ cond \in [Indices -> (Conds \X Mutexes) \cup {NoWait}]
    /\ own \in [Locks -> Ids \cup {None}]
    /\ cnt \in [Mutexes -> Nat]
    /\ knd \in [Mutexes -> Kinds]

\* a thread waits for one thing, and not for a condition of its own mutex;
WaitOK(i, b, c, own) ==
    /\ b # None \/ c # NoWait => Present(i)
    /\ b # None => c = NoWait
    /\ c # NoWait => own[c[2]] # i

\* a lock that is waited for is held, and its count goes with its owner.
HeldFor(i, l, own, knd) ==
    own[l] # None /\ (l \in Mutexes /\ knd[l] # "NORMAL" => own[l] # i)

CountOK(o, c, k) == (o = None <=> c = 0) /\ (c > 1 => k = "RECURSIVE")

SyncOK(blocked, cond, own, cnt, knd) ==
    /\ SyncTypes(blocked, cond, own, cnt, knd)
    /\ \A i \in Indices : WaitOK(i, blocked[i], cond[i], own)
    /\ \A i \in Indices, l \in Locks : blocked[i] = l => HeldFor(i, l, own, knd)
    /\ \A m \in Mutexes : CountOK(own[m], cnt[m], knd[m])

\* The rest of ParkedInv.
LifeOK ==
    /\ n \in 1 .. MaxThreads
    /\ id \in [Indices -> Ids]
    /\ exited \in [Indices -> BOOLEAN]
    /\ joining \in [Indices -> Ids \cup {None}]
    /\ status \in {"running", "stopped", "blocked"}
    /\ \A i \in Indices : exited[i] => joining[i] = None
    /\ \A i \in Indices : id[i] = i
    /\ \A i \in Indices : i >= n => ~ exited[i] /\ joining[i] = None
    /\ JoinedThreadsLive

\* ParkedInv in these terms.
LEMMA ParkedInvParts ==
    ParkedInv <=> /\ LifeOK
                  /\ SyncOK(blocked_on_lock, cond_wait, owner, count, kind)
                  /\ current_thread_id \in 0 .. n - 1
<1> USE DEF Indices
<1>1. ASSUME ParkedInv
      PROVE  /\ LifeOK
             /\ SyncOK(blocked_on_lock, cond_wait, owner, count, kind)
             /\ current_thread_id \in 0 .. n - 1
  <2>1. LifeOK
    BY <1>1 DEF ParkedInv, LifeOK, TypeOK, OneWait, UnusedIdle
  <2>2. SyncTypes(blocked_on_lock, cond_wait, owner, count, kind)
    BY <1>1 DEF ParkedInv, SyncTypes, TypeOK
  <2>3. ASSUME NEW i \in Indices PROVE WaitOK(i, blocked_on_lock[i], cond_wait[i], owner)
    <3>1. id[i] = i /\ n \in Int /\ i \in Int /\ (i >= n => blocked_on_lock[i] = None /\ cond_wait[i] = NoWait)
      BY <1>1, MacThreadsAssumption DEF ParkedInv, UnusedIdle, TypeOK
    <3> QED  BY <1>1, <3>1 DEF ParkedInv, OneWait, WaitOK, Present
  <2>4. \A i \in Indices, l \in Locks : blocked_on_lock[i] = l => HeldFor(i, l, owner, kind)
    BY <1>1 DEF ParkedInv, ParkedLocksAreHeld, HeldFor, UnusedIdle
  <2>5. \A m \in Mutexes : CountOK(owner[m], count[m], kind[m])
    BY <1>1 DEF ParkedInv, CountMatchesOwner, CountOK
  <2> QED  BY <1>1, <2>1, <2>2, <2>3, <2>4, <2>5 DEF SyncOK, ParkedInv, TypeOK
<1>2. ASSUME LifeOK, SyncOK(blocked_on_lock, cond_wait, owner, count, kind),
             current_thread_id \in 0 .. n - 1
      PROVE  ParkedInv
  <2>1. TypeOK
    BY <1>2 DEF TypeOK, LifeOK, SyncOK, SyncTypes
  <2>2. OneWait
    BY <1>2 DEF OneWait, LifeOK, SyncOK, WaitOK, Present
  <2>3. ParkedLocksAreHeld
    BY <1>2 DEF ParkedLocksAreHeld, LifeOK, SyncOK, HeldFor
  <2>4. CountMatchesOwner
    BY <1>2 DEF CountMatchesOwner, SyncOK, CountOK
  <2>5. UnusedIdle
    <3>1. n \in Int /\ \A i \in Indices : i \in Int
      BY <1>2, MacThreadsAssumption DEF LifeOK
    <3> QED  BY <1>2, <3>1 DEF UnusedIdle, LifeOK, SyncOK, WaitOK, Present
  <2> QED  BY <1>2, <2>1, <2>2, <2>3, <2>4, <2>5 DEF ParkedInv, LifeOK
<1> QED  BY <1>1, <1>2

\* The constants are numbers, so that "nobody" and "no lock" are none of them.
LEMMA Nothing ==
    /\ None \notin Locks /\ None \notin Ids /\ Mutexes \subseteq Locks /\ UnfairLocks \subseteq Locks
    /\ Indices \subseteq Ids
    /\ \A c \in Conds, m \in Mutexes : <<c, m>> # NoWait
BY MacThreadsAssumption DEF None, Locks, Ids, Indices, NoWait

\* The count word of a lock; unfair locks have none.
CountSet(cnt, l, v) == IF l \in Mutexes THEN [cnt EXCEPT ![l] = v] ELSE cnt

\* What CountSet leaves.
LEMMA CountSetType ==
    ASSUME NEW cnt \in [Mutexes -> Nat], NEW l, NEW v \in Nat
    PROVE  /\ CountSet(cnt, l, v) \in [Mutexes -> Nat]
           /\ \A m \in Mutexes : CountSet(cnt, l, v)[m] = IF m = l THEN v ELSE cnt[m]
BY DEF CountSet

\* A release that hands l to the waiter w.
LEMMA HandSync ==
    ASSUME NEW b, NEW c, NEW o, NEW ct, NEW k, SyncOK(b, c, o, ct, k),
           NEW l \in Locks, NEW w \in Indices, b[w] = l
    PROVE  SyncOK([b EXCEPT ![w] = None], c, [o EXCEPT ![l] = w], CountSet(ct, l, 1), k)
<1> DEFINE b2 == [b EXCEPT ![w] = None]
           o2 == [o EXCEPT ![l] = w]
           ct2 == CountSet(ct, l, 1)
<1>1. /\ b \in [Indices -> Locks \cup {None}]
      /\ c \in [Indices -> (Conds \X Mutexes) \cup {NoWait}]
      /\ o \in [Locks -> Ids \cup {None}]
      /\ ct \in [Mutexes -> Nat] /\ k \in [Mutexes -> Kinds]
  BY DEF SyncOK, SyncTypes
<1>2. b2 \in [Indices -> Locks \cup {None}] /\ \A i \in Indices : b2[i] = IF i = w THEN None ELSE b[i]
  BY <1>1
<1>3. o2 \in [Locks -> Ids \cup {None}] /\ \A j \in Locks : o2[j] = IF j = l THEN w ELSE o[j]
  BY <1>1, Nothing
<1>4. ct2 \in [Mutexes -> Nat] /\ \A m \in Mutexes : ct2[m] = IF m = l THEN 1 ELSE ct[m]
  BY <1>1, CountSetType
<1> HIDE DEF b2, o2, ct2
<1>5. SyncTypes(b2, c, o2, ct2, k)
  BY <1>1, <1>2, <1>3, <1>4 DEF SyncTypes
<1>6. ASSUME NEW i \in Indices PROVE WaitOK(i, b2[i], c[i], o2)
  <2>1. WaitOK(i, b[i], c[i], o) /\ WaitOK(w, b[w], c[w], o)
    BY DEF SyncOK
  <2>2. c[w] = NoWait
    BY <2>1, Nothing DEF WaitOK
  <2>3. c[i] # NoWait => c[i][2] \in Locks
    BY <1>1, Nothing
  <2> QED  BY <1>2, <1>3, <2>1, <2>2, <2>3 DEF WaitOK
<1>7. ASSUME NEW i \in Indices, NEW j \in Locks, b2[i] = j PROVE HeldFor(i, j, o2, k)
  <2>1. i # w /\ b[i] = j
    BY <1>2, <1>7, Nothing
  <2>2. HeldFor(i, j, o, k)
    BY <2>1 DEF SyncOK
  <2> QED  BY <1>3, <2>1, <2>2, Nothing DEF HeldFor
<1>8. ASSUME NEW m \in Mutexes PROVE CountOK(o2[m], ct2[m], k[m])
  <2>1. CountOK(o[m], ct[m], k[m])
    BY DEF SyncOK
  <2> QED  BY <1>3, <1>4, <2>1, Nothing DEF CountOK
<1> QED  BY <1>5, <1>6, <1>7, <1>8, Zenon DEF SyncOK, b2, o2, ct2

\* A release of l that nobody waits for.
LEMMA FreeSync ==
    ASSUME NEW b, NEW c, NEW o, NEW ct, NEW k, SyncOK(b, c, o, ct, k),
           NEW l \in Locks, \A i \in Indices : b[i] # l
    PROVE  SyncOK(b, c, [o EXCEPT ![l] = None], CountSet(ct, l, 0), k)
<1> DEFINE o2 == [o EXCEPT ![l] = None]
           ct2 == CountSet(ct, l, 0)
<1>1. /\ b \in [Indices -> Locks \cup {None}]
      /\ c \in [Indices -> (Conds \X Mutexes) \cup {NoWait}]
      /\ o \in [Locks -> Ids \cup {None}]
      /\ ct \in [Mutexes -> Nat] /\ k \in [Mutexes -> Kinds]
  BY DEF SyncOK, SyncTypes
<1>3. o2 \in [Locks -> Ids \cup {None}] /\ \A j \in Locks : o2[j] = IF j = l THEN None ELSE o[j]
  BY <1>1, Nothing
<1>4. ct2 \in [Mutexes -> Nat] /\ \A m \in Mutexes : ct2[m] = IF m = l THEN 0 ELSE ct[m]
  BY <1>1, CountSetType
<1> HIDE DEF o2, ct2
<1>5. SyncTypes(b, c, o2, ct2, k)
  BY <1>1, <1>3, <1>4 DEF SyncTypes
<1>6. ASSUME NEW i \in Indices PROVE WaitOK(i, b[i], c[i], o2)
  <2>1. WaitOK(i, b[i], c[i], o)
    BY DEF SyncOK
  <2>2. c[i] # NoWait => c[i][2] \in Locks
    BY <1>1, Nothing
  <2>3. i # None
    BY Nothing
  <2> QED  BY <1>3, <2>1, <2>2, <2>3 DEF WaitOK
<1>7. ASSUME NEW i \in Indices, NEW j \in Locks, b[i] = j PROVE HeldFor(i, j, o2, k)
  BY <1>3, <1>7 DEF HeldFor, SyncOK
<1>8. ASSUME NEW m \in Mutexes PROVE CountOK(o2[m], ct2[m], k[m])
  <2>1. CountOK(o[m], ct[m], k[m])
    BY DEF SyncOK
  <2> QED  BY <1>3, <1>4, <2>1, Nothing DEF CountOK
<1> QED  BY <1>5, <1>6, <1>7, <1>8, Zenon DEF SyncOK, o2, ct2

\* Thread t takes a lock that is free.
LEMMA TakeSync ==
    ASSUME NEW b, NEW c, NEW o, NEW ct, NEW k, SyncOK(b, c, o, ct, k),
           NEW l \in Locks, o[l] = None, NEW t \in Indices, c[t] = NoWait
    PROVE  SyncOK(b, c, [o EXCEPT ![l] = t], CountSet(ct, l, 1), k)
<1> DEFINE o2 == [o EXCEPT ![l] = t]
           ct2 == CountSet(ct, l, 1)
<1>1. /\ b \in [Indices -> Locks \cup {None}]
      /\ c \in [Indices -> (Conds \X Mutexes) \cup {NoWait}]
      /\ o \in [Locks -> Ids \cup {None}]
      /\ ct \in [Mutexes -> Nat] /\ k \in [Mutexes -> Kinds]
  BY DEF SyncOK, SyncTypes
<1>3. o2 \in [Locks -> Ids \cup {None}] /\ \A j \in Locks : o2[j] = IF j = l THEN t ELSE o[j]
  BY <1>1, Nothing
<1>4. ct2 \in [Mutexes -> Nat] /\ \A m \in Mutexes : ct2[m] = IF m = l THEN 1 ELSE ct[m]
  BY <1>1, CountSetType
<1> HIDE DEF o2, ct2
<1>5. SyncTypes(b, c, o2, ct2, k)
  BY <1>1, <1>3, <1>4 DEF SyncTypes
<1>6. ASSUME NEW i \in Indices PROVE WaitOK(i, b[i], c[i], o2)
  <2>1. WaitOK(i, b[i], c[i], o)
    BY DEF SyncOK
  <2>2. c[i] # NoWait => c[i][2] \in Locks
    BY <1>1, Nothing
  <2> QED  BY <1>3, <2>1, <2>2 DEF WaitOK
<1>7. ASSUME NEW i \in Indices, NEW j \in Locks, b[i] = j PROVE HeldFor(i, j, o2, k)
  <2>1. HeldFor(i, j, o, k)
    BY <1>7 DEF SyncOK
  <2> QED  BY <1>3, <2>1 DEF HeldFor
<1>8. ASSUME NEW m \in Mutexes PROVE CountOK(o2[m], ct2[m], k[m])
  <2>1. CountOK(o[m], ct[m], k[m])
    BY DEF SyncOK
  <2> QED  BY <1>3, <1>4, <2>1, Nothing DEF CountOK
<1> QED  BY <1>5, <1>6, <1>7, <1>8, Zenon DEF SyncOK, o2, ct2

\* Thread t queues up for a lock that is held.
LEMMA BlockSync ==
    ASSUME NEW b, NEW c, NEW o, NEW ct, NEW k, SyncOK(b, c, o, ct, k),
           NEW l \in Locks, NEW t \in Indices, Present(t), c[t] = NoWait, HeldFor(t, l, o, k)
    PROVE  SyncOK([b EXCEPT ![t] = l], c, o, ct, k)
BY DEF SyncOK, SyncTypes, WaitOK

\* Thread t waits for a condition, without its mutex.
LEMMA CondSync ==
    ASSUME NEW b, NEW c, NEW o, NEW ct, NEW k, SyncOK(b, c, o, ct, k),
           NEW m \in Mutexes, NEW v \in Conds, NEW t \in Indices, Present(t),
           b[t] = None, o[m] # t
    PROVE  SyncOK(b, [c EXCEPT ![t] = <<v, m>>], o, ct, k)
<1> DEFINE c2 == [c EXCEPT ![t] = <<v, m>>]
<1>1. /\ c2 \in [Indices -> (Conds \X Mutexes) \cup {NoWait}]
      /\ \A i \in Indices : c2[i] = IF i = t THEN <<v, m>> ELSE c[i]
  BY DEF SyncOK, SyncTypes
<1>2. <<v, m>>[2] = m
  OBVIOUS
<1> HIDE DEF c2
<1> QED  BY <1>1, <1>2 DEF SyncOK, SyncTypes, WaitOK, c2

\* Abbreviations for the state before a step.
SyncNow == SyncOK(blocked_on_lock, cond_wait, owner, count, kind)

\* The types that SyncNow gives.
LEMMA SyncNowTypes ==
    ASSUME SyncNow
    PROVE  /\ blocked_on_lock \in [Indices -> Locks \cup {None}]
           /\ cond_wait \in [Indices -> (Conds \X Mutexes) \cup {NoWait}]
           /\ owner \in [Locks -> Ids \cup {None}]
           /\ count \in [Mutexes -> Nat] /\ kind \in [Mutexes -> Kinds]
BY DEF SyncNow, SyncOK, SyncTypes

\* What a release of l by thread t does: it frees the lock if nobody waits, and
\* otherwise hands it to the nearest waiter (next_waiter).
LEMMA Heirs ==
    ASSUME LifeOK, SyncNow, NEW t \in Indices, is_runnable(t), NEW l \in Locks
    PROVE  \/ /\ Waiting(l) = {} /\ \A i \in Indices : blocked_on_lock[i] # l
              /\ Heir(l, t) = None /\ CountAfter(l, t) = 0 /\ Handed(l, t) = blocked_on_lock
           \/ \E w \in Indices :
                /\ Waiting(l) # {} /\ w < n /\ w # t /\ blocked_on_lock[w] = l
                /\ Heir(l, t) = w /\ CountAfter(l, t) = 1
                /\ Handed(l, t) = [blocked_on_lock EXCEPT ![w] = None]
                /\ \A i \in Indices : blocked_on_lock[i] = l => Offset(w, t, n) <= Offset(i, t, n)
<1>1. n \in Nat /\ t \in 0 .. n - 1 /\ Waiting(l) \in SUBSET (0 .. n - 1)
  BY MacThreadsAssumption DEF LifeOK, Indices, Waiting, is_runnable
<1>2. \A i \in Indices : blocked_on_lock[i] = l => i \in Waiting(l)
  <2>1. ASSUME NEW i \in Indices, blocked_on_lock[i] = l PROVE i < n
    BY <2>1, Nothing DEF SyncNow, SyncOK, WaitOK, Present
  <2> QED  BY <2>1 DEF Waiting
<1>3. blocked_on_lock \in [Indices -> Locks \cup {None}]
  BY SyncNowTypes
<1>4. CASE Waiting(l) = {}
  <2>1. Handed(l, t) = blocked_on_lock
    BY <1>3, <1>4 DEF Handed, Released
  <2> QED  BY <1>2, <1>4, <2>1 DEF Heir, CountAfter
<1>5. CASE Waiting(l) # {}
  <2> DEFINE w == next_waiter(l, t)
  <2>1. w \in Waiting(l) /\ \A j \in Waiting(l) : Offset(w, t, n) <= Offset(j, t, n)
    BY <1>1, <1>5, FirstAfterNearest, Zenon DEF next_waiter
  <2> HIDE DEF w
  <2>2. w \in Indices /\ w < n /\ blocked_on_lock[w] = l /\ w # t
    BY <2>1, Nothing DEF Waiting, is_runnable
  <2>3. Heir(l, t) = w /\ Released(l, t) = {w} /\ CountAfter(l, t) = 1
    BY <1>5, <2>2 DEF Heir, Released, CountAfter, w, LifeOK
  <2>4. Handed(l, t) = [blocked_on_lock EXCEPT ![w] = None]
    BY <1>3, <2>3, Zenon DEF Handed
  <2> QED  BY <1>2, <1>5, <2>1, <2>2, <2>3, <2>4, Zenon
<1> QED  BY <1>4, <1>5

\* The state after a release; a thread that held the lock no longer does.
LEMMA ReleaseSync ==
    ASSUME LifeOK, SyncNow, NEW t \in Indices, is_runnable(t), NEW l \in Locks
    PROVE  /\ SyncOK(Handed(l, t), cond_wait, [owner EXCEPT ![l] = Heir(l, t)],
                     CountSet(count, l, CountAfter(l, t)), kind)
           /\ Heir(l, t) # t /\ Handed(l, t)[t] = None
<1>1. blocked_on_lock[t] = None /\ t # None
  BY Nothing DEF is_runnable
<1>2. CASE Waiting(l) = {}
  BY <1>1, <1>2, Heirs, FreeSync DEF SyncNow
<1>3. CASE Waiting(l) # {}
  <2>1. PICK w \in Indices :
          /\ w # t /\ blocked_on_lock[w] = l /\ Heir(l, t) = w /\ CountAfter(l, t) = 1
          /\ Handed(l, t) = [blocked_on_lock EXCEPT ![w] = None]
    BY <1>3, Heirs
  <2>2. SyncOK([blocked_on_lock EXCEPT ![w] = None], cond_wait, [owner EXCEPT ![l] = w],
               CountSet(count, l, 1), kind)
    BY <2>1, HandSync, Zenon DEF SyncNow
  <2>3. Handed(l, t)[t] = None
    BY <1>1, <2>1, SyncNowTypes
  <2> QED  BY <2>1, <2>2, <2>3
<1> QED  BY <1>2, <1>3

\* resume_cond_waiter for a set of waiters: of those that want the same free mutex exactly
\* one gets it, and the others queue up behind it.
LEMMA ResumeSync ==
    ASSUME LifeOK, SyncNow, NEW t \in 0 .. n - 1, NEW W \in SUBSET Indices,
           \A i \in W : i < n /\ cond_wait[i] # NoWait, resume_cond_waiters(W, t)
    PROVE  /\ SyncOK(blocked_on_lock', cond_wait', owner', count', kind)
           /\ \A i \in Indices : blocked_on_lock[i] # None => blocked_on_lock'[i] = blocked_on_lock[i]
           /\ \A i \in Indices, m \in Mutexes, c \in Conds :
                 cond_wait[i] = <<c, m>> /\ cond_wait'[i] = NoWait =>
                    owner'[m] = i \/ blocked_on_lock'[i] = m
           /\ \A l \in Locks : owner[l] # None => owner'[l] = owner[l]
<1> DEFINE mutex(i) == cond_wait[i][2]
           same(i) == {j \in W : mutex(j) = mutex(i)}
           takes(i) == owner[mutex(i)] = None /\ i = FirstAfter(same(i), t)
           taker(m) == {i \in W : mutex(i) = m /\ takes(i)}
<1>1. /\ blocked_on_lock \in [Indices -> Locks \cup {None}]
      /\ cond_wait \in [Indices -> (Conds \X Mutexes) \cup {NoWait}]
      /\ owner \in [Locks -> Ids \cup {None}]
      /\ count \in [Mutexes -> Nat] /\ kind \in [Mutexes -> Kinds]
  BY SyncNowTypes
<1>2. /\ cond_wait' = [i \in Indices |-> IF i \in W THEN NoWait ELSE cond_wait[i]]
      /\ blocked_on_lock' = [i \in Indices |-> IF i \in W /\ ~ takes(i) THEN mutex(i)
                                               ELSE blocked_on_lock[i]]
      /\ owner' = [l \in Locks |-> IF taker(l) = {} THEN owner[l]
                                   ELSE id[CHOOSE i \in taker(l) : TRUE]]
      /\ count' = [m \in Mutexes |-> IF taker(m) = {} THEN count[m] ELSE 1]
  BY DEF resume_cond_waiters
<1>3. ASSUME NEW i \in W
      PROVE  /\ mutex(i) \in Mutexes /\ blocked_on_lock[i] = None /\ Present(i)
             /\ owner[mutex(i)] # i /\ i \in Indices
             /\ \A c \in Conds, m \in Mutexes : cond_wait[i] = <<c, m>> => mutex(i) = m
  <2>1. WaitOK(i, blocked_on_lock[i], cond_wait[i], owner)
    BY DEF SyncNow, SyncOK
  <2> QED  BY <1>1, <2>1 DEF WaitOK
<1>4. ASSUME NEW i \in W PROVE FirstAfter(same(i), t) \in same(i)
  <2>1. same(i) \in SUBSET (0 .. n - 1) /\ same(i) # {} /\ n \in Nat
    <3>1. n \in Nat /\ \A j \in W : j \in 0 .. n - 1
      BY MacThreadsAssumption DEF LifeOK, Indices
    <3> QED  BY <3>1
  <2> HIDE DEF same
  <2> QED  BY <2>1, FirstAfterNearest, Zenon
<1>5. ASSUME NEW i \in W, owner[mutex(i)] = None PROVE taker(mutex(i)) # {}
  <2> DEFINE f == FirstAfter(same(i), t)
  <2>1. f \in W /\ mutex(f) = mutex(i)
    BY <1>4
  <2> HIDE DEF f
  <2>2. same(f) = same(i)
    BY <2>1
  <2>3. takes(f)
    BY <1>5, <2>1, <2>2 DEF f
  <2> QED  BY <2>1, <2>3
<1>6. \A i, j \in W : mutex(i) = mutex(j) /\ takes(i) /\ takes(j) => i = j
  <2> SUFFICES ASSUME NEW i \in W, NEW j \in W, mutex(i) = mutex(j), takes(i), takes(j)
               PROVE  i = j
    BY Zenon
  <2>1. same(i) = same(j)
    BY Zenon
  <2> QED  BY <2>1, Zenon
<1> HIDE DEF takes, same, mutex
<1>7. ASSUME NEW l \in Locks, taker(l) # {}
      PROVE  owner'[l] \in taker(l) /\ owner[l] = None
  <2>1. (CHOOSE i \in taker(l) : TRUE) \in taker(l)
    BY <1>7
  <2>2. \A i \in taker(l) : id[i] = i /\ owner[l] = None
    BY DEF LifeOK, takes
  <2> HIDE DEF taker
  <2> QED  BY <1>2, <1>7, <2>1, <2>2
<1>8. ASSUME NEW l \in Locks, taker(l) = {} PROVE owner'[l] = owner[l]
  BY <1>2, <1>8
<1>9. SyncTypes(blocked_on_lock', cond_wait', owner', count', kind)
  <2>1. owner' \in [Locks -> Ids \cup {None}]
    <3>1. \A l \in Locks : owner'[l] \in Ids \cup {None}
      BY <1>1, <1>3, <1>7, <1>8, Nothing
    <3>2. owner' = [l \in Locks |-> owner'[l]]
      <4> HIDE DEF taker
      <4> QED  BY <1>2
    <3> QED  BY <3>1, <3>2
  <2>2. count' \in [Mutexes -> Nat]
    <3> HIDE DEF taker
    <3> QED  BY <1>1, <1>2
  <2>3. blocked_on_lock' \in [Indices -> Locks \cup {None}]
    BY <1>1, <1>2, <1>3, Nothing
  <2>4. cond_wait' \in [Indices -> (Conds \X Mutexes) \cup {NoWait}]
    BY <1>1, <1>2
  <2> QED  BY <1>1, <2>1, <2>2, <2>3, <2>4 DEF SyncTypes
<1>10. ASSUME NEW i \in Indices PROVE WaitOK(i, blocked_on_lock'[i], cond_wait'[i], owner')
  <2>1. CASE i \in W
    BY <1>2, <1>3, <2>1 DEF WaitOK
  <2>2. CASE i \notin W
    <3>1. WaitOK(i, blocked_on_lock[i], cond_wait[i], owner)
      BY Zenon DEF SyncNow, SyncOK
    <3>2. blocked_on_lock'[i] = blocked_on_lock[i] /\ cond_wait'[i] = cond_wait[i]
      BY <1>2, <2>2, Zenon
    <3>3. ASSUME cond_wait[i] # NoWait PROVE owner'[cond_wait[i][2]] # i
      <4> DEFINE m == cond_wait[i][2]
      <4>1. m \in Locks /\ owner[m] # i
        BY <1>1, <3>1, <3>3, Nothing DEF WaitOK
      <4> HIDE DEF m
      <4>2. owner'[m] # i
        BY <1>7, <1>8, <2>2, <4>1
      <4> QED  BY <4>2 DEF m
    <3> QED  BY <3>1, <3>2, <3>3 DEF WaitOK
  <2> QED  BY <2>1, <2>2
<1>11. ASSUME NEW i \in W
       PROVE  \/ takes(i) /\ owner'[mutex(i)] = i /\ blocked_on_lock'[i] = None
              \/ /\ ~ takes(i) /\ blocked_on_lock'[i] = mutex(i)
                 /\ owner'[mutex(i)] # None /\ owner'[mutex(i)] # i
  <2>0. mutex(i) \in Locks /\ \A j \in taker(mutex(i)) : j # None /\ j \in W
    BY <1>3, Nothing
  <2>1. CASE takes(i)
    <3>1. taker(mutex(i)) = {i}
      BY <1>6, <2>1
    <3> HIDE DEF taker
    <3> QED  BY <1>2, <1>3, <1>7, <2>0, <2>1, <3>1
  <2>2. CASE ~ takes(i)
    <3>1. blocked_on_lock'[i] = mutex(i)
      BY <1>2, <1>3, <2>2
    <3>2. i \notin taker(mutex(i))
      BY <2>2
    <3> HIDE DEF taker
    <3> QED  BY <1>3, <1>5, <1>7, <1>8, <2>0, <2>2, <3>1, <3>2
  <2> QED  BY <2>1, <2>2
<1>12. ASSUME NEW i \in Indices, NEW l \in Locks, blocked_on_lock'[i] = l
       PROVE  HeldFor(i, l, owner', kind)
  <2>1. CASE i \in W
    BY <1>11, <1>12, <2>1, Nothing DEF HeldFor
  <2>2. CASE i \notin W
    <3>1. HeldFor(i, l, owner, kind)
      BY <1>2, <1>12, <2>2, Zenon DEF SyncNow, SyncOK
    <3>2. owner'[l] = owner[l]
      BY <1>7, <1>8, <3>1 DEF HeldFor
    <3> QED  BY <3>1, <3>2 DEF HeldFor
  <2> QED  BY <2>1, <2>2
<1>13. ASSUME NEW m \in Mutexes PROVE CountOK(owner'[m], count'[m], kind[m])
  <2>1. CountOK(owner[m], count[m], kind[m]) /\ m \in Locks
    BY Nothing, Zenon DEF SyncNow, SyncOK
  <2>2. CASE taker(m) = {}
    <3> HIDE DEF taker
    <3> QED  BY <1>2, <1>8, <2>1, <2>2
  <2>3. CASE taker(m) # {}
    <3>1. owner'[m] \in Indices
      BY <1>7, <2>1, <2>3
    <3>2. count'[m] = 1
      <4> HIDE DEF taker
      <4> QED  BY <1>2, <2>3
    <3> QED  BY <3>1, <3>2, Nothing DEF CountOK
  <2> QED  BY <2>2, <2>3
<1>14. SyncOK(blocked_on_lock', cond_wait', owner', count', kind)
  BY <1>9, <1>10, <1>12, <1>13 DEF SyncOK
<1>15. \A l \in Locks : owner[l] # None => owner'[l] = owner[l]
  BY <1>7, <1>8
<1>16. \A i \in Indices : blocked_on_lock[i] # None => blocked_on_lock'[i] = blocked_on_lock[i]
  BY <1>2, <1>3
<1>17. ASSUME NEW i \in Indices, NEW m \in Mutexes, NEW c \in Conds,
              cond_wait[i] = <<c, m>>, cond_wait'[i] = NoWait
       PROVE  owner'[m] = i \/ blocked_on_lock'[i] = m
  <2>1. i \in W
    BY <1>2, <1>17, Nothing, Zenon
  <2>2. mutex(i) = m
    BY <1>3, <1>17, <2>1
  <2> QED  BY <1>11, <2>1, <2>2
<1> QED  BY <1>14, <1>15, <1>16, <1>17

-----------------------------------------------------------------------------
(* The invariant *)

\* A call that leaves the vector of threads alone.
SyncOnly == UNCHANGED <<n, id, exited, joining, status>>

\* Such a call keeps the rest of the invariant.
LEMMA SyncOnlyLife ==
    ASSUME LifeOK, SyncOnly,
           SyncOK(blocked_on_lock', cond_wait', owner', count', kind')
    PROVE  LifeOK' /\ SyncNow'
<1>1. LifeOK'
  BY DEF LifeOK, SyncOnly, JoinedThreadsLive
<1>2. \A i \in Indices : Present(i)' <=> Present(i)
  BY DEF Present, SyncOnly
<1>3. SyncNow'
  <2>1. SyncTypes(blocked_on_lock, cond_wait, owner, count, kind)'
    BY DEF SyncOK, SyncTypes
  <2>2. \A i \in Indices : WaitOK(i, blocked_on_lock[i], cond_wait[i], owner)'
    BY <1>2 DEF SyncOK, WaitOK
  <2>3. \A i \in Indices, l \in Locks :
            blocked_on_lock'[i] = l => HeldFor(i, l, owner, kind)'
    BY DEF SyncOK, HeldFor
  <2>4. \A m \in Mutexes : CountOK(owner[m], count[m], kind[m])'
    BY DEF SyncOK, CountOK
  <2> QED  BY <2>1, <2>2, <2>3, <2>4 DEF SyncNow, SyncOK
<1> QED  BY <1>1, <1>3

\* The threads that wait for a condition are parked.
LEMMA WaitersWait ==
    ASSUME NEW c \in Conds
    PROVE  \A i \in CondWaiters(c) : i \in Indices /\ i < n /\ cond_wait[i] # NoWait
<1>1. c # None /\ NoWait[1] = None
  BY MacThreadsAssumption DEF None, NoWait
<1> QED  BY <1>1 DEF CondWaiters

\* Signal and broadcast resume some of the threads that wait for the condition.
LEMMA WakesWaiters ==
    ASSUME LifeOK, NEW t \in Indices, is_runnable(t), NEW c \in Conds, NEW all \in BOOLEAN,
           api_cond_wake(t, c, all)
    PROVE  \E W \in SUBSET CondWaiters(c) : resume_cond_waiters(W, t)
<1>1. CASE all \/ CondWaiters(c) = {}
  BY <1>1 DEF api_cond_wake
<1>2. CASE ~ (all \/ CondWaiters(c) = {})
  <2>1. n \in Nat /\ t \in 0 .. n - 1 /\ CondWaiters(c) \in SUBSET (0 .. n - 1)
    BY MacThreadsAssumption DEF CondWaiters, Indices, LifeOK, is_runnable
  <2>2. FirstAfter(CondWaiters(c), t) \in CondWaiters(c)
    BY <1>2, <2>1, FirstAfterNearest, Zenon
  <2> QED  BY <1>2, <2>2 DEF api_cond_wake
<1> QED  BY <1>1, <1>2

\* Every call of sync.rs that thread t makes keeps the waits consistent.
LEMMA SyncCalls ==
    ASSUME LifeOK, SyncNow, NEW t \in Indices, is_runnable(t)
    PROVE  /\ \A m \in Mutexes, k \in Kinds : api_mutex_init(t, m, k) => LifeOK' /\ SyncNow'
           /\ \A m \in Mutexes : api_mutex_lock(t, m) => LifeOK' /\ SyncNow'
           /\ \A m \in Mutexes : api_mutex_trylock(t, m) => LifeOK' /\ SyncNow'
           /\ \A m \in Mutexes : api_mutex_unlock(t, m) => LifeOK' /\ SyncNow'
           /\ \A c \in Conds, m \in Mutexes : api_cond_wait(t, c, m) => LifeOK' /\ SyncNow'
           /\ \A m \in Mutexes : api_cond_timedwait(t, m) => LifeOK' /\ SyncNow'
           /\ \A c \in Conds, all \in BOOLEAN : api_cond_wake(t, c, all) => LifeOK' /\ SyncNow'
           /\ \A l \in UnfairLocks : api_unfair_lock(t, l) => LifeOK' /\ SyncNow'
           /\ \A l \in UnfairLocks : api_unfair_trylock(t, l) => LifeOK' /\ SyncNow'
           /\ \A l \in UnfairLocks : api_unfair_unlock(t, l) => LifeOK' /\ SyncNow'
<1>1. /\ blocked_on_lock \in [Indices -> Locks \cup {None}]
      /\ cond_wait \in [Indices -> (Conds \X Mutexes) \cup {NoWait}]
      /\ owner \in [Locks -> Ids \cup {None}]
      /\ count \in [Mutexes -> Nat] /\ kind \in [Mutexes -> Kinds]
  BY SyncNowTypes
<1>2. /\ Present(t) /\ blocked_on_lock[t] = None /\ cond_wait[t] = NoWait /\ id[t] = t
      /\ t \in 0 .. n - 1 /\ n \in Nat
  BY MacThreadsAssumption DEF is_runnable, Present, LifeOK, Indices
<1>3. /\ \A v : \A m \in Mutexes : CountSet(count, m, v) = [count EXCEPT ![m] = v]
      /\ \A v : \A l \in UnfairLocks : CountSet(count, l, v) = count
  BY MacThreadsAssumption DEF CountSet
<1>4. ASSUME NEW m \in Mutexes, NEW k \in Kinds, api_mutex_init(t, m, k)
      PROVE  LifeOK' /\ SyncNow'
  <2>1. /\ kind' = [kind EXCEPT ![m] = k] /\ owner' = owner
        /\ count' = [count EXCEPT ![m] = 0] /\ owner[m] = None /\ m \in Locks
        /\ blocked_on_lock' = blocked_on_lock /\ cond_wait' = cond_wait /\ SyncOnly
    BY <1>1, <1>4, Nothing DEF api_mutex_init, threads, parked, SyncOnly
  <2>2. /\ kind' \in [Mutexes -> Kinds] /\ count' \in [Mutexes -> Nat]
        /\ \A x \in Mutexes : /\ kind'[x] = IF x = m THEN k ELSE kind[x]
                              /\ count'[x] = IF x = m THEN 0 ELSE count[x]
    BY <1>1, <2>1
  <2>3. SyncOK(blocked_on_lock', cond_wait', owner', count', kind')
    <3>1. SyncTypes(blocked_on_lock', cond_wait', owner', count', kind')
      BY <1>1, <2>1, <2>2 DEF SyncTypes
    <3>2. \A i \in Indices : WaitOK(i, blocked_on_lock'[i], cond_wait'[i], owner')
      BY <2>1 DEF SyncNow, SyncOK
    <3>3. \A i \in Indices, l \in Locks :
             blocked_on_lock'[i] = l => HeldFor(i, l, owner', kind')
      BY <2>1, <2>2 DEF SyncNow, SyncOK, HeldFor
    <3>4. \A x \in Mutexes : CountOK(owner'[x], count'[x], kind'[x])
      BY <2>1, <2>2 DEF SyncNow, SyncOK, CountOK
    <3> QED  BY <3>1, <3>2, <3>3, <3>4 DEF SyncOK
  <2> QED  BY <2>1, <2>3, SyncOnlyLife
\* The kind of a mutex changes in no other call.
<1>5. ASSUME SyncOnly, kind' = kind, SyncOK(blocked_on_lock', cond_wait', owner', count', kind)
      PROVE  LifeOK' /\ SyncNow'
  BY <1>5, SyncOnlyLife
<1>6. ASSUME UNCHANGED <<blocked_on_lock, cond_wait, owner, count>>
      PROVE  SyncOK(blocked_on_lock', cond_wait', owner', count', kind)
  BY <1>6 DEF SyncNow
<1>7. ASSUME NEW m \in Mutexes, owner[m] = None, mutex_take(m, t),
             UNCHANGED <<blocked_on_lock, cond_wait>>
      PROVE  SyncOK(blocked_on_lock', cond_wait', owner', count', kind)
  <2>1. owner' = [owner EXCEPT ![m] = t] /\ count' = CountSet(count, m, 1) /\ m \in Locks
    BY <1>2, <1>3, <1>7, Nothing DEF mutex_take
  <2>2. SyncOK(blocked_on_lock, cond_wait, [owner EXCEPT ![m] = t], CountSet(count, m, 1), kind)
    BY <1>2, <1>7, <2>1, TakeSync, Zenon DEF SyncNow
  <2> QED  BY <1>7, <2>1, <2>2
\* A recursive mutex is locked once more, or once less.
<1>8. ASSUME NEW m \in Mutexes, NEW v \in Nat, count' = [count EXCEPT ![m] = v],
             owner[m] # None, v # 0, kind[m] = "RECURSIVE",
             UNCHANGED <<owner, blocked_on_lock, cond_wait>>
      PROVE  SyncOK(blocked_on_lock', cond_wait', owner', count', kind)
  <2>1. count' \in [Mutexes -> Nat] /\ \A x \in Mutexes : count'[x] = IF x = m THEN v ELSE count[x]
    BY <1>1, <1>8
  <2>2. \A x \in Mutexes : CountOK(owner[x], count'[x], kind[x])
    BY <1>8, <2>1 DEF SyncNow, SyncOK, CountOK
  <2>3. SyncTypes(blocked_on_lock', cond_wait', owner', count', kind)
    BY <1>1, <1>8, <2>1 DEF SyncTypes
  <2> QED  BY <1>8, <2>2, <2>3 DEF SyncNow, SyncOK
<1>9. ASSUME NEW l \in Locks, owner[l] # None,
             l \in Mutexes /\ kind[l] # "NORMAL" => owner[l] # t,
             blocked_on_lock' = [blocked_on_lock EXCEPT ![t] = l],
             UNCHANGED <<owner, count, cond_wait>>
      PROVE  SyncOK(blocked_on_lock', cond_wait', owner', count', kind)
  <2>1. HeldFor(t, l, owner, kind)
    BY <1>9 DEF HeldFor
  <2> QED  BY <1>2, <1>9, <2>1, BlockSync, Zenon DEF SyncNow
<1>10. ASSUME NEW m \in Mutexes, api_mutex_lock(t, m) PROVE LifeOK' /\ SyncNow'
  <2>1. SyncOnly /\ kind' = kind /\ cond_wait' = cond_wait /\ m \in Locks
    BY <1>10, Nothing DEF api_mutex_lock, SyncOnly
  <2>2. CASE owner[m] = None /\ mutex_take(m, t) /\ UNCHANGED blocked_on_lock
    BY <1>5, <1>7, <2>1, <2>2
  <2>3. CASE /\ owner[m] = id[t] /\ kind[m] = "RECURSIVE"
             /\ count' = [count EXCEPT ![m] = @ + 1] /\ UNCHANGED <<owner, blocked_on_lock>>
    <3>1. count[m] + 1 \in Nat /\ count[m] + 1 # 0 /\ owner[m] # None
      BY <1>1, <1>2, <2>3, Nothing
    <3>2. count' = [count EXCEPT ![m] = count[m] + 1]
      BY <2>3
    <3> QED  BY <1>5, <1>8, <2>1, <2>3, <3>1, <3>2, Zenon
  <2>4. CASE UNCHANGED <<owner, count, blocked_on_lock>>
    BY <1>5, <1>6, <2>1, <2>4
  <2>5. CASE /\ owner[m] # None /\ (owner[m] = id[t] => kind[m] = "NORMAL")
             /\ blocked_on_lock' = [blocked_on_lock EXCEPT ![t] = m] /\ UNCHANGED <<owner, count>>
    BY <1>2, <1>5, <1>9, <2>1, <2>5, Zenon
  <2> QED  BY <1>10, <2>2, <2>3, <2>4, <2>5 DEF api_mutex_lock
<1>11. ASSUME NEW m \in Mutexes, api_mutex_trylock(t, m) PROVE LifeOK' /\ SyncNow'
  <2>1. SyncOnly /\ kind' = kind /\ cond_wait' = cond_wait /\ blocked_on_lock' = blocked_on_lock
    BY <1>11 DEF api_mutex_trylock, SyncOnly, threads, parked
  <2>2. CASE owner[m] = None /\ mutex_take(m, t)
    BY <1>5, <1>7, <2>1, <2>2
  <2>3. CASE /\ owner[m] = id[t] /\ kind[m] = "RECURSIVE"
             /\ count' = [count EXCEPT ![m] = @ + 1] /\ UNCHANGED owner
    <3>1. count[m] + 1 \in Nat /\ count[m] + 1 # 0 /\ owner[m] # None
      BY <1>1, <1>2, <2>3, Nothing
    <3>2. count' = [count EXCEPT ![m] = count[m] + 1]
      BY <2>3
    <3> QED  BY <1>5, <1>8, <2>1, <2>3, <3>1, <3>2, Zenon
  <2>4. CASE UNCHANGED <<owner, count>>
    BY <1>5, <1>6, <2>1, <2>4
  <2> QED  BY <1>11, <2>2, <2>3, <2>4 DEF api_mutex_trylock
\* mutex_release, and the release of an unfair lock.
<1>12. ASSUME NEW l \in Locks
       PROVE  /\ SyncOK(Handed(l, t), cond_wait, [owner EXCEPT ![l] = Heir(l, t)],
                        CountSet(count, l, CountAfter(l, t)), kind)
              /\ Heir(l, t) # t /\ Handed(l, t)[t] = None
  BY ReleaseSync
<1>13. ASSUME NEW m \in Mutexes, api_mutex_unlock(t, m) PROVE LifeOK' /\ SyncNow'
  <2>1. SyncOnly /\ kind' = kind /\ cond_wait' = cond_wait /\ m \in Locks
    BY <1>13, Nothing DEF api_mutex_unlock, SyncOnly
  <2>2. CASE UNCHANGED <<owner, count, blocked_on_lock>>
    BY <1>5, <1>6, <2>1, <2>2
  <2>3. CASE count[m] > 1 /\ count' = [count EXCEPT ![m] = @ - 1] /\ UNCHANGED <<owner, blocked_on_lock>>
    <3>1. count[m] - 1 \in Nat /\ count[m] - 1 # 0 /\ owner[m] # None /\ kind[m] = "RECURSIVE"
      BY <1>1, <2>3 DEF SyncNow, SyncOK, CountOK
    <3>2. count' = [count EXCEPT ![m] = count[m] - 1]
      BY <2>3
    <3> QED  BY <1>5, <1>8, <2>1, <2>3, <3>1, <3>2, Zenon
  <2>4. CASE mutex_release(m, t)
    BY <1>3, <1>5, <1>12, <2>1, <2>4, Zenon DEF mutex_release
  <2> QED  BY <1>13, <2>2, <2>3, <2>4 DEF api_mutex_unlock
<1>14. ASSUME NEW c \in Conds, NEW m \in Mutexes, api_cond_wait(t, c, m)
       PROVE  LifeOK' /\ SyncNow'
  <2>1. SyncOnly /\ kind' = kind /\ m \in Locks
    BY <1>14, Nothing DEF api_cond_wait, SyncOnly
  <2>2. CASE UNCHANGED <<owner, count, blocked_on_lock, cond_wait>>
    BY <1>5, <1>6, <2>1, <2>2
  <2>3. CASE mutex_release(m, t) /\ cond_wait' = [cond_wait EXCEPT ![t] = <<c, m>>]
    <3>1. /\ SyncOK(blocked_on_lock', cond_wait, owner', count', kind)
          /\ blocked_on_lock'[t] = None /\ owner'[m] # t
      BY <1>1, <1>3, <1>12, <2>1, <2>3, Zenon DEF mutex_release
    <3> QED  BY <1>2, <1>5, <2>1, <2>3, <3>1, CondSync, Zenon
  <2> QED  BY <1>14, <2>2, <2>3 DEF api_cond_wait
<1>15. ASSUME NEW m \in Mutexes, api_cond_timedwait(t, m) PROVE LifeOK' /\ SyncNow'
  <2>1. SyncOnly /\ kind' = kind /\ cond_wait' = cond_wait /\ m \in Locks
    BY <1>15, Nothing DEF api_cond_timedwait, SyncOnly
  <2>2. CASE UNCHANGED <<owner, count, blocked_on_lock>>
    BY <1>5, <1>6, <2>1, <2>2
  <2>3. CASE owner[m] = id[t] /\ Waiting(m) = {} /\ mutex_take(m, t) /\ UNCHANGED blocked_on_lock
    <3>1. \A i \in Indices : blocked_on_lock[i] # m
      BY <2>1, <2>3, Heirs
    <3>2. SyncOK(blocked_on_lock, cond_wait, [owner EXCEPT ![m] = None], CountSet(count, m, 0), kind)
      BY <2>1, <3>1, FreeSync DEF SyncNow
    <3>3. SyncOK(blocked_on_lock, cond_wait, [[owner EXCEPT ![m] = None] EXCEPT ![m] = t],
                 CountSet(CountSet(count, m, 0), m, 1), kind)
      <4>1. [owner EXCEPT ![m] = None][m] = None
        BY <1>1, <2>1
      <4> QED  BY <1>2, <2>1, <3>2, <4>1, TakeSync, Zenon
    <3>4. owner' = [[owner EXCEPT ![m] = None] EXCEPT ![m] = t]
      BY <1>1, <1>2, <2>1, <2>3, Zenon DEF mutex_take
    <3>5. count' = CountSet(CountSet(count, m, 0), m, 1)
      BY <1>1, <2>3 DEF mutex_take, CountSet
    <3> QED  BY <1>5, <2>1, <2>3, <3>3, <3>4, <3>5
  <2>4. CASE /\ owner[m] = id[t] /\ Waiting(m) # {}
             /\ owner' = [owner EXCEPT ![m] = Heir(m, t)]
             /\ count' = [count EXCEPT ![m] = 1]
             /\ blocked_on_lock' = [Handed(m, t) EXCEPT ![t] = m]
    <3>1. CountAfter(m, t) = 1 /\ Heir(m, t) # t /\ Heir(m, t) # None
      BY <2>1, <2>4, Heirs, Nothing
    <3>2. SyncOK(Handed(m, t), cond_wait, owner', count', kind)
      <4>1. count' = CountSet(count, m, CountAfter(m, t))
        BY <1>3, <2>1, <2>4, <3>1
      <4> QED  BY <1>12, <2>1, <2>4, <4>1, Zenon
    <3>3. HeldFor(t, m, owner', kind)
      BY <1>1, <2>1, <2>4, <3>1 DEF HeldFor
    <3>4. SyncOK([Handed(m, t) EXCEPT ![t] = m], cond_wait, owner', count', kind)
      BY <1>2, <2>1, <3>2, <3>3, BlockSync
    <3> QED  BY <1>5, <2>1, <2>4, <3>4
  <2> QED  BY <1>15, <2>2, <2>3, <2>4 DEF api_cond_timedwait
<1>16. ASSUME NEW c \in Conds, NEW all \in BOOLEAN, api_cond_wake(t, c, all)
       PROVE  LifeOK' /\ SyncNow'
  <2>1. PICK W \in SUBSET CondWaiters(c) : resume_cond_waiters(W, t)
    BY <1>16, WakesWaiters
  <2>2. W \in SUBSET Indices /\ \A i \in W : i < n /\ cond_wait[i] # NoWait
    BY WaitersWait
  <2>3. SyncOK(blocked_on_lock', cond_wait', owner', count', kind)
    BY <1>2, <2>1, <2>2, ResumeSync
  <2> QED  BY <1>5, <1>16, <2>3 DEF api_cond_wake, SyncOnly
<1>17. ASSUME NEW l \in UnfairLocks, api_unfair_lock(t, l) PROVE LifeOK' /\ SyncNow'
  <2>1. SyncOnly /\ kind' = kind /\ cond_wait' = cond_wait /\ count' = count /\ l \in Locks
        /\ l \notin Mutexes
    BY <1>17, Nothing, MacThreadsAssumption DEF api_unfair_lock, SyncOnly
  <2>2. CASE owner[l] = None /\ owner' = [owner EXCEPT ![l] = id[t]] /\ UNCHANGED blocked_on_lock
    <3>1. SyncOK(blocked_on_lock, cond_wait, [owner EXCEPT ![l] = t], CountSet(count, l, 1), kind)
      BY <1>2, <2>1, <2>2, TakeSync, Zenon DEF SyncNow
    <3> QED  BY <1>2, <1>3, <1>5, <2>1, <2>2, <3>1
  <2>3. CASE /\ owner[l] # None /\ blocked_on_lock' = [blocked_on_lock EXCEPT ![t] = l]
             /\ UNCHANGED owner
    BY <1>5, <1>9, <2>1, <2>3, Zenon
  <2> QED  BY <1>17, <2>2, <2>3 DEF api_unfair_lock
<1>18. ASSUME NEW l \in UnfairLocks, api_unfair_trylock(t, l) PROVE LifeOK' /\ SyncNow'
  <2>1. SyncOnly /\ kind' = kind /\ cond_wait' = cond_wait /\ blocked_on_lock' = blocked_on_lock
        /\ count' = count /\ l \in Locks
    BY <1>18, Nothing DEF api_unfair_trylock, SyncOnly, threads, parked
  <2>2. CASE owner[l] = None
    <3>1. owner' = [owner EXCEPT ![l] = t]
      BY <1>2, <1>18, <2>2 DEF api_unfair_trylock
    <3>2. SyncOK(blocked_on_lock, cond_wait, [owner EXCEPT ![l] = t], CountSet(count, l, 1), kind)
      BY <1>2, <2>1, <2>2, TakeSync DEF SyncNow
    <3> QED  BY <1>3, <1>5, <2>1, <3>1, <3>2
  <2>3. CASE owner[l] # None
    <3>1. owner' = owner
      BY <1>1, <1>18, <2>1, <2>3 DEF api_unfair_trylock
    <3> QED  BY <1>5, <1>6, <2>1, <3>1
  <2> QED  BY <2>2, <2>3
<1>19. ASSUME NEW l \in UnfairLocks, api_unfair_unlock(t, l) PROVE LifeOK' /\ SyncNow'
  BY <1>3, <1>5, <1>12, <1>19, Nothing, Zenon DEF api_unfair_unlock, SyncOnly
<1> QED  BY <1>4, <1>10, <1>11, <1>13, <1>14, <1>15, <1>16, <1>17, <1>18, <1>19

\* A call that parks nobody on a lock or a condition, and takes away no parked thread.
LEMMA StillParked ==
    ASSUME SyncNow, UNCHANGED locks,
           blocked_on_lock' = blocked_on_lock, cond_wait' = cond_wait,
           \A i \in Indices : blocked_on_lock[i] # None \/ cond_wait[i] # NoWait =>
              (Present(i) => Present(i)')
    PROVE  SyncNow'
<1>1. owner' = owner /\ count' = count /\ kind' = kind
  BY DEF locks
<1>2. \A i \in Indices : WaitOK(i, blocked_on_lock[i], cond_wait[i], owner)'
  BY <1>1, Zenon DEF SyncNow, SyncOK, WaitOK
<1>3. /\ SyncTypes(blocked_on_lock, cond_wait, owner, count, kind)'
      /\ \A i \in Indices, l \in Locks : (blocked_on_lock[i] = l => HeldFor(i, l, owner, kind))'
      /\ \A m \in Mutexes : CountOK(owner[m], count[m], kind[m])'
  BY <1>1 DEF SyncNow, SyncOK
<1> QED  BY <1>2, <1>3, Zenon DEF SyncNow, SyncOK

\* Creating, joining and ending threads keeps the invariant: a join waits for a thread that
\* is still there, and the end of that thread completes it.
LEMMA LifeCalls ==
    ASSUME LifeOK, SyncNow, NEW t \in Indices, is_runnable(t)
    PROVE  /\ api_pthread_create(t) => LifeOK' /\ SyncNow'
           /\ \A target \in Indices : api_pthread_join(t, target) => LifeOK' /\ SyncNow'
           /\ thread_exit(t) => LifeOK' /\ SyncNow'
           /\ end_process(t) => LifeOK' /\ SyncNow'
           /\ OtherInstruction(t) => LifeOK' /\ SyncNow'
<1>1. /\ blocked_on_lock[t] = None /\ cond_wait[t] = NoWait /\ joining[t] = None /\ ~ exited[t]
      /\ t < n /\ n \in Nat /\ Indices \subseteq Nat /\ t # None
  BY MacThreadsAssumption DEF is_runnable, LifeOK, Indices, None
<1>2. ASSUME api_pthread_create(t) PROVE LifeOK' /\ SyncNow'
  <2>1. /\ n \in Indices /\ n' = n + 1 /\ n' \in 1 .. MaxThreads
        /\ ~ exited[n] /\ joining[n] = None /\ id[n] = n /\ ~ Present(n)
    BY <1>1, <1>2, MacThreadsAssumption DEF api_pthread_create, LifeOK, Indices, Present
  <2>2. id' = id /\ exited' = exited /\ joining' = joining /\ UNCHANGED <<locks, status>>
    BY <1>2, <2>1 DEF api_pthread_create, LifeOK
  <2>3. blocked_on_lock[n] = None /\ cond_wait[n] = NoWait
    BY <2>1, Zenon DEF SyncNow, SyncOK, WaitOK
  <2>4. blocked_on_lock' = blocked_on_lock /\ cond_wait' = cond_wait
    BY <1>2, <2>3, SyncNowTypes DEF api_pthread_create
  <2>5. \A i \in Indices : i < n => i < n'
    BY <1>1, <2>1
  <2>6. \A i \in Indices : i >= n' => i >= n
    BY <1>1, <2>1
  <2>7. SyncNow'
    BY <2>2, <2>4, <2>5, StillParked DEF Present
  <2>8. JoinedThreadsLive'
    BY <2>2, <2>5 DEF LifeOK, JoinedThreadsLive
  <2> QED  BY <2>1, <2>2, <2>6, <2>7, <2>8 DEF LifeOK
<1>3. ASSUME NEW target \in Indices, api_pthread_join(t, target) PROVE LifeOK' /\ SyncNow'
  <2>1. SyncNow'
    <3>1. \A i \in Indices : i # t => joining'[i] = joining[i]
      BY <1>3 DEF api_pthread_join, LifeOK
    <3> QED  BY <1>1, <1>3, <3>1, StillParked DEF api_pthread_join, Present
  <2>2. UNCHANGED <<n, id, exited, status>>
    BY <1>3 DEF api_pthread_join
  <2>3. CASE ~ JoinWaits(t, target)
    <3>1. joining' = joining
      BY <1>1, <1>3, <2>3 DEF api_pthread_join, LifeOK
    <3> QED  BY <2>1, <2>2, <3>1 DEF LifeOK, JoinedThreadsLive
  <2>4. CASE JoinWaits(t, target)
    <3>1. /\ joining' \in [Indices -> Ids \cup {None}]
          /\ \A i \in Indices : joining'[i] = IF i = t THEN target ELSE joining[i]
      BY <1>3, <2>4, Nothing DEF api_pthread_join, LifeOK
    <3>2. Threads(target) = {target} /\ target < n
      <4>1. \A i \in Threads(target) : i = target /\ i < n
        BY DEF Threads, LifeOK
      <4> QED  BY <2>4, <4>1 DEF JoinWaits
    <3>3. Find(target) = target
      BY <3>2 DEF Find
    <3>4. target # t /\ ~ exited[target] /\ id[target] = target
      BY <2>4, <3>3 DEF JoinWaits, LifeOK
    <3>5. JoinedThreadsLive'
      BY <2>2, <3>1, <3>2, <3>4 DEF LifeOK, JoinedThreadsLive
    <3>6. \A i \in Indices : (exited[i] => joining'[i] = None) /\ (i >= n => joining'[i] = None)
      BY <1>1, <3>1 DEF LifeOK
    <3> QED  BY <2>1, <2>2, <3>1, <3>5, <3>6 DEF LifeOK
  <2> QED  BY <2>3, <2>4
<1>4. ASSUME thread_exit(t) PROVE LifeOK' /\ SyncNow'
  <2>1. /\ exited' \in [Indices -> BOOLEAN]
        /\ \A i \in Indices : exited'[i] <=> (i = t \/ exited[i])
        /\ joining' \in [Indices -> Ids \cup {None}]
        /\ \A i \in Indices : joining'[i] = IF joining[i] = t THEN None ELSE joining[i]
        /\ id' = id /\ n' = n /\ id[t] = t
    BY <1>4 DEF thread_exit, LifeOK
  <2>2. SyncNow'
    BY <1>1, <1>4, <2>1, StillParked DEF thread_exit, Present
  <2>3. JoinedThreadsLive'
    <3>1. \A i \in Indices : joining'[i] # None =>
             \E j \in Indices : j < n /\ j # i /\ id[j] = joining'[i] /\ ~ exited'[j]
      <4> SUFFICES ASSUME NEW i \in Indices, joining'[i] # None
                   PROVE  \E j \in Indices : j < n /\ j # i /\ id[j] = joining'[i] /\ ~ exited'[j]
        OBVIOUS
      <4>1. joining[i] # None /\ joining[i] # t /\ joining'[i] = joining[i]
        BY <2>1
      <4>2. PICK j \in Indices : j < n /\ j # i /\ id[j] = joining[i] /\ ~ exited[j]
        BY <4>1 DEF LifeOK, JoinedThreadsLive
      <4> QED  BY <2>1, <4>1, <4>2
    <3>2. status' # "stopped" => \E i \in Indices : i < n /\ ~ exited'[i]
      BY <1>4 DEF thread_exit
    <3> QED  BY <2>1, <3>1, <3>2 DEF JoinedThreadsLive
  <2>4. status' \in {"running", "stopped", "blocked"}
    BY <1>4 DEF thread_exit, LifeOK
  <2>5. \A i \in Indices : (exited'[i] => joining'[i] = None) /\ (i >= n => ~ exited'[i] /\ joining'[i] = None)
    <3>1. \A i \in Indices : i >= n => i # t
      BY <1>1
    <3> QED  BY <1>1, <2>1, <3>1 DEF LifeOK
  <2> QED  BY <2>1, <2>2, <2>3, <2>4, <2>5 DEF LifeOK
<1>5. ASSUME end_process(t) PROVE LifeOK' /\ SyncNow'
  <2>1. SyncNow'
    BY <1>5, StillParked DEF end_process, threads, parked, Present
  <2> QED  BY <1>5, <2>1 DEF end_process, threads, parked, LifeOK, JoinedThreadsLive
<1>6. ASSUME OtherInstruction(t) PROVE LifeOK' /\ SyncNow'
  <2>1. SyncNow'
    BY <1>6, StillParked DEF OtherInstruction, threads, parked, Present
  <2> QED  BY <1>6, <2>1 DEF OtherInstruction, threads, parked, LifeOK, JoinedThreadsLive
<1> QED  BY <1>2, <1>3, <1>4, <1>5, <1>6

\* What an instruction of a scheduled thread starts from.
LEMMA ScheduledRuns ==
    ASSUME NEW t \in Indices, Scheduled(t)
    PROVE  is_runnable(t)
BY DEF Scheduled, Picked, Runnable

\* No step of a program breaks ParkedInv.
LEMMA ParkedKept ==
    ASSUME ParkedInv, [Next]_vars PROVE ParkedInv'
<1>1. LifeOK /\ SyncNow /\ current_thread_id \in 0 .. n - 1
  BY ParkedInvParts DEF SyncNow
<1>2. ASSUME LifeOK', SyncNow', (current_thread_id \in 0 .. n - 1)' PROVE ParkedInv'
  BY <1>2, ParkedInvParts, PTL DEF SyncNow
<1>3. CASE Step
  <2>1. PICK t \in Indices : Scheduled(t) /\ Instruction(t) /\ current_thread_id' = t
    BY <1>3 DEF Step
  <2>2. is_runnable(t)
    BY <2>1, ScheduledRuns
  <2>3. LifeOK' /\ SyncNow'
    BY <1>1, <2>1, <2>2, SyncCalls, LifeCalls DEF Instruction, ThreadInstruction
  <2>4. n' = n \/ n' = n + 1
    BY <2>1, Zenon DEF Instruction, ThreadInstruction, api_mutex_init, api_mutex_lock,
      api_mutex_trylock, api_mutex_unlock, api_cond_wait, api_cond_timedwait, api_cond_wake,
      api_unfair_lock, api_unfair_trylock, api_unfair_unlock, api_pthread_create,
      api_pthread_join, thread_exit, end_process, OtherInstruction, threads
  <2>5. n \in Nat /\ t \in Nat /\ t < n
    BY <1>1, <2>2, MacThreadsAssumption DEF is_runnable, LifeOK, Indices
  <2>6. current_thread_id' \in 0 .. n' - 1
    BY <2>1, <2>4, <2>5
  <2> QED  BY <1>2, <2>3, <2>6
<1>4. CASE AllBlocked
  <2>1. LifeOK' /\ n' = n /\ current_thread_id' = current_thread_id
    BY <1>1, <1>4 DEF AllBlocked, threads, parked, LifeOK, JoinedThreadsLive
  <2>2. SyncNow'
    BY <1>1, <1>4, StillParked DEF AllBlocked, threads, parked, Present
  <2> QED  BY <1>1, <1>2, <2>1, <2>2
<1>5. CASE UNCHANGED vars
  <2>1. LifeOK' /\ n' = n /\ current_thread_id' = current_thread_id
    BY <1>1, <1>5 DEF vars, threads, parked, LifeOK, JoinedThreadsLive
  <2>2. SyncNow'
    BY <1>1, <1>5, StillParked DEF vars, threads, parked, Present
  <2> QED  BY <1>1, <1>2, <2>1, <2>2
<1> QED  BY <1>3, <1>4, <1>5 DEF Next, Finished

\* It holds when the program starts.
LEMMA ParkedInit ==
    ASSUME Init PROVE ParkedInv
<1> USE MacThreadsAssumption
<1>1. \A i \in Indices : i \in Nat /\ i \in Ids
  BY DEF Indices, Ids
<1>2. 0 \in Indices /\ n \in 1 .. MaxThreads /\ 0 < n /\ current_thread_id \in 0 .. n - 1
  BY DEF Init, Indices
<1>3. LifeOK
  BY <1>1, <1>2 DEF Init, LifeOK, JoinedThreadsLive
<1>4. SyncTypes(blocked_on_lock, cond_wait, owner, count, kind)
  BY DEF Init, SyncTypes
<1>5. SyncNow
  BY <1>4, Nothing DEF Init, SyncNow, SyncOK, WaitOK, CountOK, NoWait
<1> QED  BY <1>2, <1>3, <1>5, ParkedInvParts DEF SyncNow

\* Every thread that the macOS calls park waits for one thing that a thread still there will
\* give it; in particular no wake-up is ever lost.
THEOREM ParkedSafe == Spec => []ParkedInv
<1>1. Init => ParkedInv
  BY ParkedInit
<1>2. ParkedInv /\ [Next]_vars => ParkedInv'
  BY ParkedKept
<1> QED  BY <1>1, <1>2, PTL DEF Spec

-----------------------------------------------------------------------------
(* What a step does to the locks *)

\* A step of thread t that passes a lock on hands it to the nearest waiter, and unless the
\* lock is an unfair one or a normal mutex, t held it.
Passes(t, l) ==
    /\ owner' = [owner EXCEPT ![l] = Heir(l, t)]
    /\ \A i \in Indices : i # t => blocked_on_lock'[i] = Handed(l, t)[i]
    /\ l \in Mutexes /\ kind[l] # "NORMAL" => owner[l] = t

\* A step that passes no lock on changes the owner only of locks that nobody holds, and
\* leaves the threads parked on a lock where they are.
PassesNone ==
    /\ \A l \in Locks : owner[l] # None => owner'[l] = owner[l]
    /\ \A i \in Indices : blocked_on_lock[i] # None => blocked_on_lock'[i] = blocked_on_lock[i]

\* A condition wait ends with the mutex held or queued for.
CondReturns ==
    \A i \in Indices, m \in Mutexes, c \in Conds :
        cond_wait[i] = <<c, m>> /\ cond_wait'[i] = NoWait => owner'[m] = i \/ blocked_on_lock'[i] = m

\* Every step does one of the two.
LEMMA LockSteps ==
    ASSUME ParkedInv, [Next]_vars
    PROVE  /\ CondReturns
           /\ \/ PassesNone
              \/ \E t \in Indices, l \in Locks : is_runnable(t) /\ Passes(t, l)
<1>1. LifeOK /\ SyncNow
  BY ParkedInvParts DEF SyncNow
<1>2. /\ blocked_on_lock \in [Indices -> Locks \cup {None}]
      /\ cond_wait \in [Indices -> (Conds \X Mutexes) \cup {NoWait}]
      /\ owner \in [Locks -> Ids \cup {None}] /\ \A i \in Indices : id[i] = i
  BY <1>1, SyncNowTypes DEF LifeOK
<1>3. ASSUME cond_wait' = cond_wait PROVE CondReturns
  BY <1>3, Nothing DEF CondReturns
<1>4. ASSUME UNCHANGED <<owner, blocked_on_lock>> PROVE PassesNone
  BY <1>4 DEF PassesNone
<1>5. ASSUME NEW t \in Indices, is_runnable(t), Instruction(t)
      PROVE  CondReturns /\ (PassesNone \/ \E l \in Locks : Passes(t, l))
  <2>1. blocked_on_lock[t] = None /\ cond_wait[t] = NoWait /\ t < n
    BY <1>5 DEF is_runnable
  <2>2. ASSUME NEW l \in Locks, owner' = [owner EXCEPT ![l] = Heir(l, t)],
               blocked_on_lock' = Handed(l, t), l \in Mutexes /\ kind[l] # "NORMAL" => owner[l] = t
        PROVE  Passes(t, l)
    BY <2>2 DEF Passes
  <2>3. ASSUME NEW l \in Locks, owner[l] = None, owner' = [owner EXCEPT ![l] = t],
               UNCHANGED blocked_on_lock
        PROVE  PassesNone
    BY <1>2, <2>3 DEF PassesNone
  <2>4. ASSUME NEW l \in Locks, blocked_on_lock' = [blocked_on_lock EXCEPT ![t] = l], UNCHANGED owner
        PROVE  PassesNone
    BY <1>2, <2>1, <2>4 DEF PassesNone
  <2>5. ASSUME NEW m \in Mutexes, NEW k \in Kinds, api_mutex_init(t, m, k)
        PROVE  CondReturns /\ PassesNone
    <3>1. owner' = owner
      BY <1>2, <2>5, Nothing DEF api_mutex_init
    <3> QED  BY <1>3, <1>4, <2>5, <3>1 DEF api_mutex_init, threads, parked
  <2>6. ASSUME NEW m \in Mutexes, api_mutex_lock(t, m) PROVE CondReturns /\ PassesNone
    <3>1. m \in Locks /\ CondReturns
      BY <1>3, <2>6, Nothing DEF api_mutex_lock
    <3> QED  BY <1>2, <1>4, <2>3, <2>4, <2>6, <3>1 DEF api_mutex_lock, mutex_take
  <2>7. ASSUME NEW m \in Mutexes, api_mutex_trylock(t, m) PROVE CondReturns /\ PassesNone
    <3>1. m \in Locks /\ CondReturns /\ UNCHANGED blocked_on_lock
      BY <1>3, <2>7, Nothing DEF api_mutex_trylock, threads, parked
    <3> QED  BY <1>2, <1>4, <2>3, <2>7, <3>1 DEF api_mutex_trylock, mutex_take
  <2>8. ASSUME NEW m \in Mutexes, api_mutex_unlock(t, m)
        PROVE  CondReturns /\ (PassesNone \/ Passes(t, m))
    <3>1. m \in Locks /\ CondReturns
      BY <1>3, <2>8, Nothing, Zenon DEF api_mutex_unlock
    <3> QED  BY <1>2, <1>4, <2>2, <2>8, <3>1 DEF api_mutex_unlock, mutex_release
  <2>9. ASSUME NEW c \in Conds, NEW m \in Mutexes, api_cond_wait(t, c, m)
        PROVE  CondReturns /\ (PassesNone \/ Passes(t, m))
    <3>1. m \in Locks
      BY Nothing
    <3>2. CondReturns
      <4>1. \A i \in Indices : cond_wait'[i] = NoWait => cond_wait[i] = NoWait
        BY <1>2, <2>1, <2>9, Nothing DEF api_cond_wait
      <4> QED  BY <4>1, Nothing DEF CondReturns
    <3> QED  BY <1>2, <1>4, <2>2, <2>9, <3>1, <3>2 DEF api_cond_wait, mutex_release
  <2>10. ASSUME NEW m \in Mutexes, api_cond_timedwait(t, m)
         PROVE  CondReturns /\ (PassesNone \/ Passes(t, m))
    <3>1. m \in Locks /\ CondReturns
      BY <1>3, <2>10, Nothing DEF api_cond_timedwait
    <3>2. CASE UNCHANGED <<owner, count, blocked_on_lock>>
      BY <1>4, <3>1, <3>2
    <3>3. CASE owner[m] = id[t] /\ Waiting(m) = {} /\ mutex_take(m, t) /\ UNCHANGED blocked_on_lock
      <4>1. owner' = owner
        BY <1>2, <3>1, <3>3 DEF mutex_take
      <4> QED  BY <1>4, <3>1, <3>3, <4>1
    <3>4. CASE /\ owner[m] = id[t] /\ owner' = [owner EXCEPT ![m] = Heir(m, t)]
               /\ blocked_on_lock' = [Handed(m, t) EXCEPT ![t] = m]
      <4>1. \A i \in Indices : i # t => blocked_on_lock'[i] = Handed(m, t)[i]
        BY <3>4 DEF Handed
      <4> QED  BY <1>2, <3>1, <3>4, <4>1 DEF Passes
    <3> QED  BY <2>10, <3>2, <3>3, <3>4 DEF api_cond_timedwait
  <2>11. ASSUME NEW c \in Conds, NEW all \in BOOLEAN, api_cond_wake(t, c, all)
         PROVE  CondReturns /\ PassesNone
    <3>1. PICK W \in SUBSET CondWaiters(c) : resume_cond_waiters(W, t)
      BY <1>1, <1>5, <2>11, WakesWaiters
    <3>2. W \in SUBSET Indices /\ \A i \in W : i < n /\ cond_wait[i] # NoWait
      BY WaitersWait
    <3>3. t \in 0 .. n - 1
      BY <1>1, <2>1, MacThreadsAssumption DEF LifeOK, Indices
    <3> QED  BY <1>1, <3>1, <3>2, <3>3, ResumeSync DEF CondReturns, PassesNone
  <2>12. ASSUME NEW l \in UnfairLocks, api_unfair_lock(t, l) PROVE CondReturns /\ PassesNone
    <3>1. l \in Locks /\ CondReturns
      BY <1>3, <2>12, Nothing DEF api_unfair_lock
    <3> QED  BY <1>2, <2>3, <2>4, <2>12, <3>1, Zenon DEF api_unfair_lock
  <2>13. ASSUME NEW l \in UnfairLocks, api_unfair_trylock(t, l) PROVE CondReturns /\ PassesNone
    <3>1. l \in Locks /\ CondReturns /\ UNCHANGED blocked_on_lock
      BY <1>3, <2>13, Nothing DEF api_unfair_trylock, threads, parked
    <3>2. owner' = IF owner[l] = None THEN [owner EXCEPT ![l] = t] ELSE owner
      BY <1>2, <2>13, <3>1, Zenon DEF api_unfair_trylock
    <3> QED  BY <1>4, <2>3, <3>1, <3>2
  <2>14. ASSUME NEW l \in UnfairLocks, api_unfair_unlock(t, l) PROVE CondReturns /\ Passes(t, l)
    <3>1. l \in Locks /\ CondReturns /\ l \notin Mutexes
      BY <1>3, <2>14, Nothing, MacThreadsAssumption DEF api_unfair_unlock
    <3> QED  BY <2>2, <2>14, <3>1, Zenon DEF api_unfair_unlock
  <2>15. ASSUME api_pthread_create(t) PROVE CondReturns /\ PassesNone
    <3>1. n \in Indices /\ ~ Present(n)
      BY <1>1, <2>15, MacThreadsAssumption DEF api_pthread_create, LifeOK, Indices, Present
    <3>2. blocked_on_lock[n] = None /\ cond_wait[n] = NoWait
      BY <1>1, <3>1, Zenon DEF SyncNow, SyncOK, WaitOK
    <3>3. UNCHANGED <<owner, blocked_on_lock, cond_wait>>
      BY <1>2, <2>15, <3>2 DEF api_pthread_create, locks
    <3> QED  BY <1>3, <1>4, <3>3
  <2>16. ASSUME NEW target \in Indices, api_pthread_join(t, target) PROVE CondReturns /\ PassesNone
    BY <1>3, <1>4, <2>16 DEF api_pthread_join, locks
  <2>17. ASSUME thread_exit(t) PROVE CondReturns /\ PassesNone
    BY <1>3, <1>4, <2>17 DEF thread_exit, locks
  <2>18. ASSUME end_process(t) \/ OtherInstruction(t) PROVE CondReturns /\ PassesNone
    BY <1>3, <1>4, <2>18 DEF end_process, OtherInstruction, threads, parked, locks
  <2>19. Mutexes \subseteq Locks /\ UnfairLocks \subseteq Locks
    BY Nothing
  <2> QED
    BY <1>5, <2>5, <2>6, <2>7, <2>8, <2>9, <2>10, <2>11, <2>12, <2>13, <2>14, <2>15, <2>16,
       <2>17, <2>18, <2>19 DEF Instruction, ThreadInstruction
<1>6. CASE Step
  <2>1. PICK t \in Indices : Scheduled(t) /\ Instruction(t)
    BY <1>6 DEF Step
  <2> QED  BY <1>5, <2>1, ScheduledRuns
<1>7. CASE AllBlocked \/ UNCHANGED vars
  BY <1>3, <1>4, <1>7 DEF AllBlocked, vars, threads, parked, locks
<1> QED  BY <1>6, <1>7 DEF Next, Finished

\* A wait for a lock ends with the lock held, and a condition wait through its mutex.
WaitsEnd ==
    \A i \in Indices :
        /\ \A l \in Locks : blocked_on_lock[i] = l /\ blocked_on_lock'[i] # l => owner'[l] = id[i]
        /\ \A m \in Mutexes, c \in Conds :
             cond_wait[i] = <<c, m>> /\ cond_wait'[i] = NoWait =>
               owner'[m] = id[i] \/ blocked_on_lock'[i] = m

\* Every step does so.
LEMMA WaitsEndHolding ==
    ASSUME ParkedInv, [Next]_vars PROVE WaitsEnd
<1>1. LifeOK /\ SyncNow /\ \A i \in Indices : id[i] = i
  BY ParkedInvParts DEF SyncNow, LifeOK
<1>2. ASSUME NEW i \in Indices, NEW l \in Locks, blocked_on_lock[i] = l, blocked_on_lock'[i] # l
      PROVE  owner'[l] = i
  <2>1. ~ PassesNone
    BY <1>2, Nothing DEF PassesNone
  <2>2. PICK t \in Indices, k \in Locks : is_runnable(t) /\ Passes(t, k)
    BY <2>1, LockSteps
  <2>3. i # t
    BY <1>2, <2>2, Nothing DEF is_runnable
  <2>4. Handed(k, t)[i] # blocked_on_lock[i]
    BY <1>2, <2>2, <2>3 DEF Passes
  <2>5. PICK w \in Indices : /\ blocked_on_lock[w] = k /\ Heir(k, t) = w
                             /\ Handed(k, t) = [blocked_on_lock EXCEPT ![w] = None]
    BY <1>1, <2>2, <2>4, Heirs
  <2>6. w = i /\ k = l
    BY <1>1, <1>2, <2>4, <2>5, SyncNowTypes
  <2> QED  BY <1>1, <2>2, <2>5, <2>6, SyncNowTypes DEF Passes
<1>3. CondReturns
  BY LockSteps
<1> QED  BY <1>1, <1>2, <1>3 DEF CondReturns, WaitsEnd

\* A call that had to wait for a lock returns with the lock held, and a condition wait
\* returns only through its mutex.
THEOREM WaitsReturnHolding == Spec => ReturnsHolding
<1>1. ParkedInv /\ [Next]_vars => [WaitsEnd]_vars
  BY WaitsEndHolding
<1> QED  BY <1>1, ParkedSafe, PTL DEF Spec, ReturnsHolding, WaitsEnd

\* Bounded bypass: every hand-over of an errorcheck or recursive mutex brings it nearer to
\* each thread that still waits for it.
THEOREM HandoversApproach == Spec => HandoverApproaches
<1> DEFINE Act == \A m \in Mutexes, i \in Indices :
         blocked_on_lock[i] = m /\ blocked_on_lock'[i] = m /\ kind[m] # "NORMAL"
           /\ owner'[m] # owner[m] /\ n' = n
         => Offset(i, owner'[m], n) < Offset(i, owner[m], n)
<1>1. ASSUME ParkedInv, [Next]_vars PROVE Act
  <2> SUFFICES ASSUME NEW m \in Mutexes, NEW i \in Indices, blocked_on_lock[i] = m,
                      blocked_on_lock'[i] = m, kind[m] # "NORMAL", owner'[m] # owner[m]
               PROVE  Offset(i, owner'[m], n) < Offset(i, owner[m], n)
    OBVIOUS
  <2>1. LifeOK /\ SyncNow /\ m \in Locks /\ n \in Nat /\ Indices \subseteq Nat
    <3>1. LifeOK /\ SyncNow
      BY <1>1, ParkedInvParts DEF SyncNow
    <3>2. m \in Locks /\ Indices \subseteq Nat
      BY Nothing DEF Indices
    <3> QED  BY <3>1, <3>2 DEF LifeOK
  <2>2. owner[m] # None
    BY <2>1, Zenon DEF SyncNow, SyncOK, HeldFor
  <2>3. PICK t \in Indices, k \in Locks : is_runnable(t) /\ Passes(t, k)
    BY <1>1, <2>1, <2>2, LockSteps DEF PassesNone
  <2>4. k = m /\ owner[m] = t
    BY <2>1, <2>3, SyncNowTypes DEF Passes
  <2>5. owner'[m] = Heir(m, t)
    BY <2>1, <2>3, <2>4, SyncNowTypes DEF Passes
  <2>6. PICK w \in Indices : /\ w < n /\ Heir(m, t) = w
                             /\ Handed(m, t) = [blocked_on_lock EXCEPT ![w] = None]
                             /\ \A j \in Indices : blocked_on_lock[j] = m =>
                                   Offset(w, t, n) <= Offset(j, t, n)
    BY <2>1, <2>3, Heirs, Zenon
  <2>7. i # t /\ i # w
    <3>1. i # t
      BY <2>1, <2>3, Nothing DEF is_runnable
    <3>2. Handed(m, t)[i] = m
      BY <2>3, <2>4, <3>1 DEF Passes
    <3> QED  BY <2>1, <2>6, <3>1, <3>2, SyncNowTypes, Nothing
  <2>8. i < n /\ t < n
    <3>1. Present(i)
      BY <2>1, Nothing, Zenon DEF SyncNow, SyncOK, WaitOK
    <3> QED  BY <2>3, <3>1 DEF Present, is_runnable
  <2>9. Offset(i, w, n) < Offset(i, t, n)
    <3>1. i \in 0 .. n - 1 /\ t \in 0 .. n - 1 /\ w \in 0 .. n - 1
      BY <2>1, <2>6, <2>8
    <3> QED  BY <2>1, <2>6, <2>7, <3>1, OffsetShrinks
  <2> QED  BY <2>4, <2>5, <2>6, <2>9, Zenon
<1>2. ParkedInv /\ [Next]_vars => [Act]_vars
  BY <1>1
<1> QED  BY <1>2, ParkedSafe, PTL DEF Spec, HandoverApproaches

-----------------------------------------------------------------------------
(* The condition variable program *)

Others == {consumer, producer}
Labels ==
    {"create", "join producer", "join consumer", "return", "ended", "lock", "test", "wait",
     "move", "signal", "unlock", "load", "store", "exit"}

Critical == {"move", "signal", "wait", "unlock"}

\* The mutex is with the thread between lock and unlock, or that thread waits to get it back.
MutexHeld ==
    \A u \in Others :
        /\ pc[u] \in Critical => owner[lock] = u
        /\ pc[u] = "test" =>
             \/ owner[lock] = u \/ blocked_on_lock[u] = lock
             \/ \E c \in Conds : cond_wait[u] = <<c, lock>>
        /\ pc[u] = "move" => ~ MustWait(u)

\* The items are in the queue or with the consumer, in order.
QueueOK ==
    /\ sent \in Nat /\ buf \in Seq(Nat) /\ got \in Seq(Nat)
    /\ \A i \in 1 .. Len(got) : got[i] = i
    /\ \A i \in 1 .. Len(buf) : buf[i] = Len(got) + i
    /\ sent = Len(got) + Len(buf)
    /\ Len(buf) <= CAP

\* A reservation is for what the last exclusive load of the thread read.
MonitorOK ==
    /\ word \in [Words -> Int]
    /\ loaded \in [Users -> Int \X Int]
    /\ exclusive \in [Users -> [addr : Int, values : Int \X Int]]
    /\ \A u \in Others : exclusive[u].addr = 1 => exclusive[u].values = loaded[u]

GuestInv ==
    /\ ParkedInv
    /\ pc \in [Indices -> Labels]
    /\ pauses \in [Indices -> Nat]
    /\ MutexHeld
    /\ QueueOK
    /\ MonitorOK
    /\ NoCountLost

\* Every instruction of the program is one that MacThreads describes.
LEMMA GuestIsProgram ==
    ASSUME Fixture, [GuestNext]_<<vars, guest>> PROVE [Next]_vars
<1>1. lock \in Mutexes /\ not_full \in Conds /\ not_empty \in Conds
      /\ producer \in Indices /\ consumer \in Indices
  BY DEF Fixture, Indices, producer, consumer
<1>2. ASSUME NEW t \in Indices, GuestInstruction(t) PROVE Instruction(t)
  <2>1. Main(t) => Instruction(t)
    BY <1>1, Zenon DEF Main, Instruction, ThreadInstruction
  <2>2. Lock(t) \/ Unlock(t) => Instruction(t)
    BY <1>1 DEF Lock, Unlock, Instruction, ThreadInstruction
  <2>3. Wait(t) => Instruction(t)
    BY <1>1 DEF Wait, Awaits, Instruction, ThreadInstruction
  <2>4. Signal(t) => Instruction(t)
    BY <1>1, Zenon DEF Signal, Signals, Instruction, ThreadInstruction
  <2>5. Pause(t) \/ Test(t) \/ Move(t) \/ Load(t) \/ Store(t) \/ Exit(t) => Instruction(t)
    BY Zenon DEF Pause, Test, Move, Load, Store, Exit, Instruction, ThreadInstruction
  <2> QED  BY <1>2, <2>1, <2>2, <2>3, <2>4, <2>5 DEF GuestInstruction
<1>3. GuestStep => Step
  BY <1>2 DEF GuestStep, Step
<1> QED  BY <1>3 DEF GuestNext, Next

\* The numbers of the program.
LEMMA FixtureFacts ==
    ASSUME Fixture
    PROVE  /\ lock \in Mutexes /\ lock \in Locks /\ not_full \in Conds /\ not_empty \in Conds
           /\ Others = Indices \ {0} /\ Others \subseteq Users /\ Others \subseteq Nat
           /\ 1 \in Words /\ 2 \in Words /\ consumer # producer /\ 0 \in Indices
BY Nothing DEF Fixture, Indices, Others, producer, consumer

\* What is known of a thread of the program that runs.
LEMMA Running ==
    ASSUME Fixture, GuestInv, NEW t \in Indices, Scheduled(t)
    PROVE  /\ is_runnable(t) /\ LifeOK /\ SyncNow /\ id[t] = t
           /\ blocked_on_lock[t] = None /\ cond_wait[t] = NoWait
           /\ t # 0 /\ pc[t] \in Critical \cup {"test"} => owner[lock] = t
<1>1. is_runnable(t) /\ LifeOK /\ SyncNow
  BY ScheduledRuns, ParkedInvParts DEF GuestInv, SyncNow
<1>2. blocked_on_lock[t] = None /\ cond_wait[t] = NoWait /\ id[t] = t
  BY <1>1 DEF is_runnable, LifeOK
<1> QED  BY <1>1, <1>2, FixtureFacts, Nothing, Zenon DEF GuestInv, MutexHeld

\* An instruction of thread t takes the mutex from no other thread, and makes no other
\* thread wait for a condition.
LEMMA LeavesOthers ==
    ASSUME Fixture, GuestInv, NEW t \in Indices, Scheduled(t), GuestInstruction(t),
           NEW u \in Others, u # t
    PROVE  /\ owner[lock] = u => owner'[lock] = u
           /\ cond_wait'[u] \in {cond_wait[u], NoWait}
           /\ pc'[u] = pc[u]
<1>1. /\ is_runnable(t) /\ LifeOK /\ SyncNow /\ id[t] = t /\ u \in Indices /\ u \in Nat
      /\ lock \in Locks /\ lock \in Mutexes /\ u # None
  BY Running, FixtureFacts, Nothing, Zenon
<1>2. /\ owner \in [Locks -> Ids \cup {None}] /\ pc \in [Indices -> Labels]
      /\ cond_wait \in [Indices -> (Conds \X Mutexes) \cup {NoWait}]
  BY <1>1, SyncNowTypes DEF GuestInv
<1>3. ASSUME NEW l, Goto(t, l) PROVE pc'[u] = pc[u]
  BY <1>1, <1>2, <1>3 DEF Goto
<1>4. CASE Main(t)
  <2>1. UNCHANGED owner /\ cond_wait'[u] \in {cond_wait[u], NoWait}
    <3>1. CASE api_pthread_create(t)
      BY <1>1, <1>2, <3>1 DEF api_pthread_create, locks
    <3>2. CASE ~ api_pthread_create(t)
      BY <1>4, <3>2, Zenon DEF Main, api_pthread_join, end_process, threads, parked, locks
    <3> QED  BY <3>1, <3>2
  <2> QED  BY <1>3, <1>4, <2>1, Zenon DEF Main
<1>5. CASE Lock(t)
  BY <1>1, <1>2, <1>3, <1>5 DEF Lock, api_mutex_lock, mutex_take
<1>6. CASE Wait(t)
  <2>1. owner[lock] = u => owner' = owner
    BY <1>1, <1>6 DEF Wait, api_cond_wait, api_cond_timedwait
  <2>2. cond_wait'[u] = cond_wait[u]
    BY <1>1, <1>2, <1>6 DEF Wait, api_cond_wait, api_cond_timedwait
  <2> QED  BY <1>3, <1>6, <2>1, <2>2, Zenon DEF Wait
<1>7. CASE Signal(t)
  <2>1. PICK c \in Conds : api_cond_wake(t, c, FALSE)
    BY <1>7, FixtureFacts, Zenon DEF Signal, Signals
  <2>2. PICK W \in SUBSET CondWaiters(c) : resume_cond_waiters(W, t)
    BY <1>1, <2>1, WakesWaiters, Zenon
  <2>3. W \in SUBSET Indices /\ \A i \in W : i < n /\ cond_wait[i] # NoWait
    BY WaitersWait
  <2>4. t \in 0 .. n - 1
    BY <1>1, MacThreadsAssumption DEF LifeOK, Indices, is_runnable
  <2>5. owner[lock] = u => owner'[lock] = u
    BY <1>1, <2>2, <2>3, <2>4, ResumeSync, Zenon
  <2>6. cond_wait'[u] \in {cond_wait[u], NoWait}
    BY <1>1, <2>2, Zenon DEF resume_cond_waiters
  <2> QED  BY <1>3, <1>7, <2>5, <2>6, Zenon DEF Signal
<1>8. CASE t # 0 /\ Unlock(t)
  <2>1. owner[lock] = t
    BY <1>8, Running DEF Unlock, Critical
  <2> QED  BY <1>3, <1>8, <2>1, Zenon DEF Unlock, api_mutex_unlock
<1>9. CASE Pause(t) \/ Test(t) \/ Move(t) \/ Load(t)
  <2>1. UNCHANGED <<owner, cond_wait>>
    BY <1>9 DEF Pause, Test, Move, Load, OtherInstruction, threads, parked, locks
  <2> QED  BY <1>3, <1>9, <2>1, Zenon DEF Pause, Test, Move, Load
<1>10. CASE Store(t)
  BY <1>3, <1>10, Zenon DEF Store, OtherInstruction, threads, parked, locks
<1>11. CASE Exit(t)
  BY <1>3, <1>11, Zenon DEF Exit, thread_exit, locks
<1> QED
  BY <1>4, <1>5, <1>6, <1>7, <1>8, <1>9, <1>10, <1>11, Zenon DEF GuestInstruction

\* Only the thread at "move" changes the queue, and it holds the mutex.
LEMMA QueueSteps ==
    ASSUME Fixture, GuestInv, NEW t \in Indices, Scheduled(t), GuestInstruction(t)
    PROVE  \/ UNCHANGED <<buf, sent, got>>
           \/ t \in Others /\ pc[t] = "move" /\ owner[lock] = t /\ Move(t)
<1>1. Move(t) /\ t # 0 => t \in Others /\ pc[t] = "move" /\ owner[lock] = t
  BY Running, FixtureFacts DEF Move, Critical
<1> QED
  BY <1>1, Zenon DEF GuestInstruction, Main, Lock, Test, Wait, Signal, Unlock, Load, Store, Exit, Pause

\* The mutex stays with whoever is between lock and unlock.
LEMMA MutexKept ==
    ASSUME Fixture, GuestInv, NEW t \in Indices, Scheduled(t), GuestInstruction(t), WaitsEnd
    PROVE  MutexHeld'
<1>1. /\ is_runnable(t) /\ LifeOK /\ SyncNow /\ id[t] = t /\ lock \in Locks /\ lock \in Mutexes
      /\ Others = Indices \ {0} /\ t # None /\ Others \subseteq Nat
      /\ blocked_on_lock[t] = None /\ cond_wait[t] = NoWait
  BY Running, FixtureFacts, Nothing, Zenon
<1>2. /\ owner \in [Locks -> Ids \cup {None}] /\ pc \in [Indices -> Labels]
      /\ cond_wait \in [Indices -> (Conds \X Mutexes) \cup {NoWait}]
      /\ blocked_on_lock \in [Indices -> Locks \cup {None}]
  BY <1>1, SyncNowTypes DEF GuestInv
<1>3. ASSUME NEW u \in Others, u # t
      PROVE  /\ pc'[u] \in Critical => owner'[lock] = u
             /\ pc'[u] = "test" =>
                  \/ owner'[lock] = u \/ blocked_on_lock'[u] = lock
                  \/ \E c \in Conds : cond_wait'[u] = <<c, lock>>
             /\ pc'[u] = "move" => ~ MustWait(u)'
  <2>1. /\ owner[lock] = u => owner'[lock] = u
        /\ cond_wait'[u] \in {cond_wait[u], NoWait} /\ pc'[u] = pc[u]
    BY <1>3, LeavesOthers, Zenon
  <2>2. u \in Indices /\ id[u] = u
    BY <1>1 DEF LifeOK
  <2>3. /\ blocked_on_lock[u] = lock => blocked_on_lock'[u] = lock \/ owner'[lock] = u
        /\ \A c \in Conds : cond_wait[u] = <<c, lock>> =>
              cond_wait'[u] = <<c, lock>> \/ owner'[lock] = u \/ blocked_on_lock'[u] = lock
    BY <1>1, <2>1, <2>2, Zenon DEF WaitsEnd
  <2>4. pc[u] = "move" => UNCHANGED buf
    BY <1>3, QueueSteps, Zenon DEF GuestInv, MutexHeld, Critical
  <2> QED  BY <2>1, <2>3, <2>4, Zenon DEF GuestInv, MutexHeld, MustWait
<1>4. ASSUME t # 0
      PROVE  /\ pc'[t] \in Critical => owner'[lock] = t
             /\ pc'[t] = "test" =>
                  \/ owner'[lock] = t \/ blocked_on_lock'[t] = lock
                  \/ \E c \in Conds : cond_wait'[t] = <<c, lock>>
             /\ pc'[t] = "move" => ~ MustWait(t)'
  <2>1. t \in Others /\ (pc[t] \in Critical \cup {"test"} => owner[lock] = t)
    BY <1>1, <1>4, Running
  <2>2. ASSUME NEW l, Goto(t, l) PROVE pc'[t] = l
    BY <1>2, <2>2 DEF Goto
  <2>3. CASE Lock(t)
    <3>1. pc'[t] = "test"
      BY <2>2, <2>3 DEF Lock
    <3>2. owner'[lock] = t \/ blocked_on_lock'[t] = lock
      BY <1>1, <1>2, <2>3 DEF Lock, api_mutex_lock, mutex_take
    <3> QED  BY <3>1, <3>2, Zenon DEF Critical
  <2>4. CASE Test(t)
    <3>1. pc'[t] = (IF MustWait(t) THEN "wait" ELSE "move") /\ UNCHANGED <<buf, owner>>
      BY <2>2, <2>4, Zenon DEF Test, OtherInstruction, locks
    <3>2. owner[lock] = t
      BY <2>1, <2>4 DEF Test
    <3> QED  BY <3>1, <3>2, Zenon DEF MustWait
  <2>5. CASE Wait(t)
    <3>1. pc'[t] = "test" /\ owner[lock] = t
      BY <2>1, <2>2, <2>5, Zenon DEF Wait, Critical
    <3>2. ASSUME NEW c \in Conds, api_cond_wait(t, c, lock) PROVE cond_wait'[t] = <<c, lock>>
      BY <1>1, <1>2, <3>1, <3>2 DEF api_cond_wait
    <3>3. ASSUME api_cond_timedwait(t, lock) PROVE owner'[lock] = t \/ blocked_on_lock'[t] = lock
      BY <1>1, <1>2, <3>1, <3>3 DEF api_cond_timedwait, mutex_take, Handed
    <3>4. Awaits(t) \in Conds
      BY FixtureFacts DEF Awaits
    <3> QED  BY <2>5, <3>1, <3>2, <3>3, <3>4, Zenon DEF Wait, Critical
  <2>6. CASE Move(t)
    <3>1. pc'[t] = "signal" /\ owner' = owner /\ owner[lock] = t
      BY <2>1, <2>2, <2>6, Zenon DEF Move, OtherInstruction, locks, Critical
    <3> QED  BY <3>1
  <2>7. CASE Signal(t)
    <3>1. pc'[t] = "unlock" /\ owner[lock] = t
      BY <2>1, <2>2, <2>7, Zenon DEF Signal, Critical
    <3>2. PICK c \in Conds : api_cond_wake(t, c, FALSE)
      BY <2>7, FixtureFacts, Zenon DEF Signal, Signals
    <3>3. PICK W \in SUBSET CondWaiters(c) : resume_cond_waiters(W, t)
      BY <1>1, <3>2, WakesWaiters, Zenon
    <3>4. W \in SUBSET Indices /\ \A i \in W : i < n /\ cond_wait[i] # NoWait
      BY WaitersWait
    <3>5. t \in 0 .. n - 1
      BY <1>1, MacThreadsAssumption DEF LifeOK, Indices, is_runnable
    <3>6. owner'[lock] = t
      BY <1>1, <3>1, <3>3, <3>4, <3>5, ResumeSync, Zenon
    <3> QED  BY <3>1, <3>6, Zenon
  <2>8. CASE Unlock(t) \/ Load(t) \/ Exit(t)
    <3>1. pc'[t] \in {"load", "store", "ended"}
      BY <2>2, <2>8, Zenon DEF Unlock, Load, Exit
    <3> QED  BY <3>1, Zenon DEF Critical
  <2>9. CASE Store(t)
    <3>1. pc'[t] \in {"load", "exit", "lock"}
      BY <2>2, <2>9, Zenon DEF Store
    <3> QED  BY <3>1 DEF Critical
  <2>10. CASE Pause(t)
    <3>1. UNCHANGED <<pc, buf, owner, blocked_on_lock, cond_wait>>
      BY <2>10 DEF Pause, OtherInstruction, threads, parked, locks
    <3> QED  BY <2>1, <3>1 DEF GuestInv, MutexHeld, MustWait
  <2> QED
    BY <1>4, <2>3, <2>4, <2>5, <2>6, <2>7, <2>8, <2>9, <2>10, Zenon DEF GuestInstruction, Main
<1> QED  BY <1>1, <1>3, <1>4, Zenon DEF MutexHeld

\* The queue stays in order.
LEMMA QueueKept ==
    ASSUME Fixture, GuestInv, NEW t \in Indices, Scheduled(t), GuestInstruction(t)
    PROVE  QueueOK'
<1>1. CASE UNCHANGED <<buf, sent, got>>
  BY <1>1 DEF GuestInv, QueueOK
<1>2. ASSUME t \in Others, pc[t] = "move", Move(t) PROVE QueueOK'
  <2>1. /\ sent \in Nat /\ buf \in Seq(Nat) /\ got \in Seq(Nat) /\ Len(buf) \in Nat /\ Len(got) \in Nat
        /\ \A i \in 1 .. Len(got) : got[i] = i
        /\ \A i \in 1 .. Len(buf) : buf[i] = Len(got) + i
        /\ sent = Len(got) + Len(buf) /\ Len(buf) <= CAP /\ CAP \in Nat
    BY MacGuestAssumption DEF GuestInv, QueueOK
  <2>2. ~ MustWait(t)
    BY <1>2, Zenon DEF GuestInv, MutexHeld
  <2>3. CASE t = producer
    <3>1. sent' = sent + 1 /\ buf' = Append(buf, sent + 1) /\ got' = got /\ Len(buf) # CAP
      BY <1>2, <2>2, <2>3 DEF Move, MustWait
    <3>2. /\ Len(buf') = Len(buf) + 1 /\ buf' \in Seq(Nat)
          /\ \A i \in 1 .. Len(buf) : buf'[i] = buf[i]
          /\ buf'[Len(buf) + 1] = sent + 1
      BY <2>1, <3>1
    <3>3. \A i \in 1 .. Len(buf') : buf'[i] = Len(got) + i
      <4>1. ASSUME NEW i \in 1 .. Len(buf) + 1 PROVE buf'[i] = Len(got) + i
        <5>1. CASE i = Len(buf) + 1
          BY <2>1, <3>2, <5>1
        <5>2. CASE i \in 1 .. Len(buf)
          BY <2>1, <3>2, <5>2
        <5> QED  BY <2>1, <5>1, <5>2
      <4> QED  BY <3>2, <4>1
    <3>4. sent' = sent + 1 /\ got' = got /\ Len(buf') <= CAP
      BY <2>1, <3>1, <3>2
    <3> QED  BY <2>1, <3>2, <3>3, <3>4 DEF QueueOK
  <2>4. CASE t # producer
    <3>1. sent' = sent /\ buf' = Tail(buf) /\ got' = Append(got, Head(buf)) /\ buf # <<>>
      BY <1>2, <2>2, <2>4 DEF Move, MustWait
    <3>2. /\ Len(buf) > 0 /\ Head(buf) = Len(got) + 1
          /\ Len(buf') = Len(buf) - 1 /\ buf' \in Seq(Nat)
          /\ \A i \in 1 .. Len(buf') : buf'[i] = buf[i + 1]
      BY <2>1, <3>1
    <3>3. /\ Len(got') = Len(got) + 1 /\ got' \in Seq(Nat)
          /\ \A i \in 1 .. Len(got') : got'[i] = IF i <= Len(got) THEN got[i] ELSE Len(got) + 1
      BY <2>1, <3>1, <3>2
    <3> QED  BY <2>1, <3>1, <3>2, <3>3 DEF QueueOK
  <2> QED  BY <2>3, <2>4
<1> QED  BY <1>1, <1>2, QueueSteps, Zenon

\* The exclusive instructions of the program: what a load reserves, and when a store succeeds.
LEMMA MonitorKept ==
    ASSUME Fixture, GuestInv, NEW t \in Indices, Scheduled(t), GuestInstruction(t)
    PROVE  /\ MonitorOK'
           /\ word' # word => /\ t \in Others /\ pc[t] = "store" /\ pc'[t] \in {"exit", "lock"}
                              /\ word'[1] = word[1] + 1
                              /\ word'[2] = IF t = consumer THEN word[2] + 1 ELSE word[2]
           /\ t \in Others /\ pc[t] = "store" /\ pc'[t] \in {"exit", "lock"} => word' # word
<1>1. /\ Others \subseteq Users /\ 1 \in Words /\ 2 \in Words /\ Others = Indices \ {0}
      /\ consumer # producer /\ Others = {consumer, producer}
  BY FixtureFacts DEF Others
<1>2. /\ word \in [Words -> Int] /\ loaded \in [Users -> Int \X Int]
      /\ exclusive \in [Users -> [addr : Int, values : Int \X Int]]
      /\ \A u \in Others : exclusive[u].addr = 1 => exclusive[u].values = loaded[u]
      /\ pc \in [Indices -> Labels] /\ pauses \in [Indices -> Nat]
  BY DEF GuestInv, MonitorOK
<1>3. NoReservation \in [addr : Int, values : Int \X Int] /\ NoReservation.addr # 1
  BY DEF NoReservation
<1>4. ASSUME NEW l, Goto(t, l) PROVE pc'[t] = l
  BY <1>2, <1>4 DEF Goto
<1>5. ASSUME NEW u \in Users, Consume(u), UNCHANGED loaded
      PROVE  /\ exclusive' \in [Users -> [addr : Int, values : Int \X Int]]
             /\ \A v \in Others : exclusive'[v].addr = 1 => exclusive'[v].values = loaded'[v]
  BY <1>1, <1>2, <1>3, <1>5 DEF Consume
<1>6. CASE UNCHANGED monitor /\ ~ (t \in Others /\ pc[t] = "store" /\ pc'[t] \in {"exit", "lock"})
  BY <1>6 DEF GuestInv, MonitorOK, monitor
<1>7. CASE \/ Main(t)
           \/ t # 0 /\ (Lock(t) \/ Test(t) \/ Wait(t) \/ Move(t) \/ Signal(t) \/ Unlock(t) \/ Exit(t))
  <2>1. UNCHANGED monitor /\ (t \in Others => pc[t] # "store")
    BY <1>1, <1>7, Zenon DEF Main, Lock, Test, Wait, Move, Signal, Unlock, Exit
  <2> QED  BY <1>6, <2>1
<1>8. CASE Pause(t)
  <2>1. pc' = pc /\ UNCHANGED <<word, loaded>>
    BY <1>8 DEF Pause, monitor, CLREX
  <2>2. UNCHANGED monitor => MonitorOK'
    BY DEF GuestInv, MonitorOK, monitor
  <2>3. t \in Users /\ CLREX(t) => MonitorOK'
    BY <1>2, <1>5, <2>1 DEF CLREX, MonitorOK
  <2>4. MonitorOK'
    BY <1>8, <2>2, <2>3 DEF Pause
  <2> QED  BY <2>1, <2>4
<1>9. CASE t # 0 /\ Load(t)
  <2>1. t \in Others /\ t \in Users /\ pc'[t] = "store" /\ pc[t] = "load" /\ word' = word
    BY <1>1, <1>4, <1>9 DEF Load, load, load_pair
  <2>2. PICK values \in Int \X Int :
          /\ loaded' = [loaded EXCEPT ![t] = values]
          /\ exclusive' = [exclusive EXCEPT ![t] = [addr |-> 1, values |-> values]]
    <3>1. /\ <<word[1], 0>> \in Int \X Int /\ <<word[1], word[1 + 1]>> \in Int \X Int
      BY <1>1, <1>2
    <3> QED  BY <1>9, <3>1, Zenon DEF Load, load, load_pair, reserve
  <2>3. [addr |-> 1, values |-> values] \in [addr : Int, values : Int \X Int]
    OBVIOUS
  <2>4. MonitorOK'
    <3>1. /\ word' \in [Words -> Int] /\ loaded' \in [Users -> Int \X Int]
          /\ exclusive' \in [Users -> [addr : Int, values : Int \X Int]]
      BY <1>2, <2>1, <2>2, <2>3
    <3>2. ASSUME NEW u \in Others, exclusive'[u].addr = 1 PROVE exclusive'[u].values = loaded'[u]
      BY <1>1, <1>2, <2>1, <2>2, <3>2
    <3> QED  BY <3>1, <3>2 DEF MonitorOK
  <2> QED  BY <2>1, <2>4, Zenon
<1>10. CASE t # 0 /\ Store(t)
  <2>1. t \in Others /\ t \in Users /\ pc[t] = "store"
    BY <1>1, <1>10, Zenon DEF Store
  <2>2. PICK ok \in BOOLEAN :
          /\ IF t = producer THEN store(t, 1, loaded[t][1] + 1, ok)
             ELSE store_pair(t, 1, loaded[t][1] + 1, loaded[t][2] + 1, ok)
          /\ Goto(t, IF ~ ok THEN "load" ELSE IF Done(t) THEN "exit" ELSE "lock")
    BY <1>10, Zenon DEF Store
  <2>3. IF ok THEN pc'[t] \in {"exit", "lock"} ELSE pc'[t] = "load"
    BY <1>4, <2>2, Zenon
  <2>4. Consume(t) /\ UNCHANGED loaded
    BY <2>2, Zenon DEF store, store_pair
  <2>5. CASE ~ ok
    <3>1. word' = word
      BY <2>2, <2>5, Zenon DEF store, store_pair
    <3>2. MonitorOK'
      BY <1>2, <1>5, <2>1, <2>4, <3>1 DEF MonitorOK
    <3> QED  BY <2>3, <2>5, <3>1, <3>2, Zenon
  <2>6. CASE ok
    <3>1. /\ loaded[t] \in Int \X Int /\ exclusive[t].values = loaded[t] /\ word[1] = loaded[t][1]
          /\ t # producer => word[2] = loaded[t][2]
      BY <1>2, <2>1, <2>2, <2>6 DEF store, store_pair, reservation_holds
    <3>2. CASE t = producer
      <4>1. word' = [word EXCEPT ![1] = loaded[t][1] + 1]
        BY <2>2, <2>6, <3>2, Zenon DEF store
      <4>2. /\ word' \in [Words -> Int] /\ word'[1] = word[1] + 1 /\ word'[2] = word[2]
            /\ word[1] \in Int
        BY <1>1, <1>2, <3>1, <4>1
      <4>3. word' # word
        BY <4>2
      <4>4. MonitorOK'
        BY <1>5, <1>2, <2>1, <2>4, <4>2 DEF MonitorOK
      <4> QED  BY <1>1, <2>1, <2>3, <2>6, <3>2, <4>2, <4>3, <4>4
    <3>3. CASE t # producer
      <4>1. word' = [word EXCEPT ![1] = loaded[t][1] + 1, ![2] = loaded[t][2] + 1]
        <5>1. store_pair(t, 1, loaded[t][1] + 1, loaded[t][2] + 1, ok)
          BY <2>2, <3>3
        <5>2. word' = [word EXCEPT ![1] = loaded[t][1] + 1, ![1 + 1] = loaded[t][2] + 1]
          BY <2>6, <5>1, Zenon DEF store_pair
        <5>3. 1 + 1 = 2
          OBVIOUS
        <5> QED  BY <5>2, <5>3, Zenon
      <4>2. /\ word' \in [Words -> Int] /\ word'[1] = word[1] + 1 /\ word'[2] = word[2] + 1
            /\ word[1] \in Int
        BY <1>1, <1>2, <3>1, <3>3, <4>1
      <4>3. word' # word
        BY <4>2
      <4>4. MonitorOK'
        BY <1>5, <1>2, <2>1, <2>4, <4>2 DEF MonitorOK
      <4> QED  BY <1>1, <2>1, <2>3, <2>6, <3>3, <4>2, <4>3, <4>4
    <3> QED  BY <3>2, <3>3, Zenon
  <2> QED  BY <2>5, <2>6, Zenon
<1> QED  BY <1>7, <1>8, <1>9, <1>10 DEF GuestInstruction

Uncounted == {"signal", "unlock", "load", "store"}

\* How far a thread of the program gets in one instruction: it moves an item and has still
\* to count it, or counts it, or neither.
LEMMA CountSteps ==
    ASSUME Fixture, GuestInv, NEW t \in Indices, Scheduled(t), GuestInstruction(t), t \in Others
    PROVE  \/ pc[t] = "move" /\ pc'[t] = "signal" /\ Move(t)
           \/ /\ pc[t] = "store" /\ pc'[t] \in {"exit", "lock"} /\ UNCHANGED <<buf, sent, got>>
           \/ /\ pc[t] \in Uncounted <=> pc'[t] \in Uncounted
              /\ ~ (pc[t] = "store" /\ pc'[t] \in {"exit", "lock"})
              /\ UNCHANGED <<buf, sent, got>>
<1>1. pc \in [Indices -> Labels] /\ t # 0
  BY FixtureFacts DEF GuestInv
<1>2. ASSUME NEW l, Goto(t, l) PROVE pc'[t] = l
  BY <1>1, <1>2 DEF Goto
<1>3. CASE Lock(t)
  BY <1>2, <1>3, Zenon DEF Lock, Uncounted
<1>4. CASE Test(t)
  BY <1>2, <1>4, Zenon DEF Test, Uncounted
<1>5. CASE Wait(t)
  BY <1>2, <1>5, Zenon DEF Wait, Uncounted
<1>6. CASE Move(t)
  BY <1>2, <1>6, Zenon DEF Move
<1>7. CASE Signal(t)
  BY <1>2, <1>7, Zenon DEF Signal, Uncounted
<1>8. CASE Unlock(t)
  BY <1>2, <1>8, Zenon DEF Unlock, Uncounted
<1>9. CASE Load(t)
  BY <1>2, <1>9, Zenon DEF Load, Uncounted
<1>10. CASE Store(t)
  <2>1. pc[t] = "store" /\ pc'[t] \in {"load", "exit", "lock"} /\ UNCHANGED <<buf, sent, got>>
    BY <1>2, <1>10, Zenon DEF Store
  <2> QED  BY <2>1, Zenon DEF Uncounted
<1>11. CASE Exit(t)
  BY <1>2, <1>11, Zenon DEF Exit, Uncounted
<1>12. CASE Pause(t)
  BY <1>12 DEF Pause
<1> QED
  BY <1>1, <1>3, <1>4, <1>5, <1>6, <1>7, <1>8, <1>9, <1>10, <1>11, <1>12, Zenon
  DEF GuestInstruction, Main

\* No count is lost or made twice.
LEMMA CountsKept ==
    ASSUME Fixture, GuestInv, NEW t \in Indices, Scheduled(t), GuestInstruction(t)
    PROVE  NoCountLost'
<1> DEFINE Late(u) == IF pc[u] \in Uncounted THEN 1 ELSE 0
           Later(u) == IF pc'[u] \in Uncounted THEN 1 ELSE 0
<1>1. /\ consumer \in Others /\ producer \in Others /\ consumer # producer
      /\ sent \in Nat /\ buf \in Seq(Nat) /\ got \in Seq(Nat) /\ Len(got) \in Nat
      /\ Others = {consumer, producer} /\ Others = Indices \ {0}
      /\ word \in [Words -> Int] /\ 1 \in Words /\ 2 \in Words
  <2>1. /\ consumer \in Others /\ producer \in Others /\ Others = {consumer, producer}
    BY DEF Others
  <2>2. /\ sent \in Nat /\ buf \in Seq(Nat) /\ got \in Seq(Nat) /\ word \in [Words -> Int]
    BY DEF GuestInv, QueueOK, MonitorOK
  <2> QED  BY <2>1, <2>2, FixtureFacts
<1>2. /\ word[1] = sent - Late(producer) + (Len(got) - Late(consumer))
      /\ word[2] = Len(got) - Late(consumer)
  BY <1>1 DEF GuestInv, NoCountLost, Counted, Uncounted
<1>3. ASSUME /\ word'[1] = sent' - Later(producer) + (Len(got') - Later(consumer))
             /\ word'[2] = Len(got') - Later(consumer)
      PROVE  NoCountLost'
  BY <1>1, <1>3 DEF NoCountLost, Counted, Uncounted
<1>4. \A u \in Others : Late(u) \in Int /\ Later(u) \in Int /\ (u # t => Later(u) = Late(u))
  <2>1. ASSUME NEW u \in Others, u # t PROVE pc'[u] = pc[u]
    BY <2>1, LeavesOthers, Zenon
  <2>2. \A u : Late(u) \in Int /\ Later(u) \in Int
    OBVIOUS
  <2> QED  BY <2>1, <2>2, Zenon
<1>5. /\ word' # word => /\ t \in Others /\ pc[t] = "store" /\ pc'[t] \in {"exit", "lock"}
                         /\ word'[1] = word[1] + 1
                         /\ word'[2] = IF t = consumer THEN word[2] + 1 ELSE word[2]
      /\ t \in Others /\ pc[t] = "store" /\ pc'[t] \in {"exit", "lock"} => word' # word
  BY MonitorKept
<1>6. CASE t \notin Others
  <2>1. word' = word /\ UNCHANGED <<buf, sent, got>>
    BY <1>5, <1>6, QueueSteps
  <2> HIDE DEF Late, Later
  <2> QED  BY <1>1, <1>2, <1>3, <1>4, <1>6, <2>1
<1>7. CASE t \in Others /\ pc[t] = "move" /\ pc'[t] = "signal" /\ Move(t)
  <2>1. Late(t) = 0 /\ Later(t) = 1 /\ word' = word
    BY <1>5, <1>7 DEF Uncounted
  <2> HIDE DEF Late, Later
  <2>2. CASE t = producer
    <3>1. sent' = sent + 1 /\ got' = got
      BY <1>7, <2>2 DEF Move
    <3> QED  BY <1>1, <1>2, <1>3, <1>4, <2>1, <2>2, <3>1
  <2>3. CASE t = consumer
    <3>1. sent' = sent /\ got' = Append(got, Head(buf)) /\ buf # <<>>
      BY <1>1, <1>7, <2>3, Zenon DEF Move, GuestInv, MutexHeld, MustWait
    <3>2. Len(got') = Len(got) + 1
      BY <1>1, <3>1
    <3> QED  BY <1>1, <1>2, <1>3, <1>4, <2>1, <2>3, <3>1, <3>2
  <2> QED  BY <1>1, <1>7, <2>2, <2>3
<1>8. CASE t \in Others /\ pc[t] = "store" /\ pc'[t] \in {"exit", "lock"} /\ UNCHANGED <<buf, sent, got>>
  <2>1. Late(t) = 1 /\ Later(t) = 0
    BY <1>8 DEF Uncounted
  <2>2. /\ word'[1] = word[1] + 1
        /\ word'[2] = IF t = consumer THEN word[2] + 1 ELSE word[2]
    BY <1>5, <1>8, Zenon
  <2> HIDE DEF Late, Later
  <2>3. CASE t = producer
    BY <1>1, <1>2, <1>3, <1>4, <1>8, <2>1, <2>2, <2>3
  <2>4. CASE t = consumer
    BY <1>1, <1>2, <1>3, <1>4, <1>8, <2>1, <2>2, <2>4
  <2> QED  BY <1>1, <1>8, <2>3, <2>4
<1>9. CASE /\ t \in Others /\ (pc[t] \in Uncounted <=> pc'[t] \in Uncounted)
           /\ ~ (pc[t] = "store" /\ pc'[t] \in {"exit", "lock"}) /\ UNCHANGED <<buf, sent, got>>
  <2>1. word' = word /\ Later(t) = Late(t)
    BY <1>5, <1>9, Zenon
  <2> HIDE DEF Late, Later
  <2> QED  BY <1>1, <1>2, <1>3, <1>4, <1>9, <2>1
<1> QED  BY <1>6, <1>7, <1>8, <1>9, CountSteps, Zenon

\* A sequence is a function on the numbers up to its length.
LEMMA AsFunction ==
    ASSUME NEW s \in Seq(Nat), NEW len \in Nat, Len(s) = len
    PROVE  s = [i \in 1 .. len |-> s[i]]
<1>1. DOMAIN s = 1 .. len
  OBVIOUS
<1> QED  BY <1>1

\* The invariant of the program.
LEMMA GuestHolds ==
    ASSUME Fixture PROVE GuestSpec => []GuestInv
<1>1. GuestInit => GuestInv
  <2> SUFFICES ASSUME GuestInit PROVE GuestInv
    OBVIOUS
  <2>1. ParkedInv
    BY ParkedInit DEF GuestInit
  <2>2. pc \in [Indices -> Labels] /\ pauses \in [Indices -> Nat]
    BY MacGuestAssumption DEF GuestInit, Labels
  <2>3. \A u \in Others : pc[u] = "lock"
    BY FixtureFacts DEF GuestInit
  <2>4. MutexHeld
    BY <2>3 DEF MutexHeld, Critical
  <2>5. QueueOK
    BY MacGuestAssumption DEF GuestInit, QueueOK
  <2>6. MonitorOK
    BY FixtureFacts DEF GuestInit, MonitorInit, MonitorOK, NoReservation
  <2>7. NoCountLost
    <3>1. sent = 0 /\ Len(got) = 0 /\ word[1] = 0 /\ word[2] = 0
      BY FixtureFacts DEF GuestInit, MonitorInit
    <3>2. pc[producer] = "lock" /\ pc[consumer] = "lock"
      BY <2>3 DEF Others
    <3>3. producer # consumer
      BY FixtureFacts
    <3>4. Counted(producer) = 0 /\ Counted(consumer) = 0
      <4>1. Counted(producer) = sent - 0
        BY <3>2 DEF Counted
      <4>2. Counted(consumer) = Len(got) - 0
        BY <3>2, <3>3 DEF Counted
      <4> QED  BY <3>1, <4>1, <4>2
    <3> QED  BY <3>1, <3>4 DEF NoCountLost
  <2> QED  BY <2>1, <2>2, <2>4, <2>5, <2>6, <2>7 DEF GuestInv
<1>2. GuestInv /\ [GuestNext]_<<vars, guest>> => GuestInv'
  <2> SUFFICES ASSUME GuestInv, [GuestNext]_<<vars, guest>> PROVE GuestInv'
    OBVIOUS
  <2>1. ParkedInv' /\ WaitsEnd
    BY GuestIsProgram, ParkedKept, WaitsEndHolding DEF GuestInv
  <2>2. CASE GuestStep
    <3>1. PICK t \in Indices : Scheduled(t) /\ GuestInstruction(t)
      BY <2>2 DEF GuestStep
    <3>2. MutexHeld' /\ QueueOK' /\ MonitorOK' /\ NoCountLost'
      BY <2>1, <3>1, MutexKept, QueueKept, MonitorKept, CountsKept, Zenon
    <3>3. pc' \in [Indices -> Labels] /\ pauses' \in [Indices -> Nat]
      <4>1. pc \in [Indices -> Labels] /\ pauses \in [Indices -> Nat]
        BY DEF GuestInv
      <4>2. ASSUME NEW l \in Labels, Goto(t, l) PROVE pc' \in [Indices -> Labels]
        BY <4>1, <4>2 DEF Goto
      <4>3. CASE Pause(t)
        BY <4>1, <4>3 DEF Pause
      <4>4. CASE Main(t)
        BY <4>1, <4>2, <4>4, Zenon DEF Main, Labels
      <4>5. CASE Lock(t) \/ Test(t) \/ Wait(t) \/ Move(t) \/ Signal(t)
        BY <4>1, <4>2, <4>5, Zenon DEF Lock, Test, Wait, Move, Signal, Labels
      <4>6. CASE Unlock(t) \/ Load(t) \/ Store(t) \/ Exit(t)
        BY <4>1, <4>2, <4>6, Zenon DEF Unlock, Load, Store, Exit, Labels
      <4> QED  BY <3>1, <4>3, <4>4, <4>5, <4>6 DEF GuestInstruction
    <3> QED  BY <2>1, <3>2, <3>3 DEF GuestInv
  <2>3. CASE UNCHANGED <<guest, threads, locks>>
    <3>1. UNCHANGED <<pc, buf, sent, got, pauses, word, loaded, exclusive, owner, blocked_on_lock, cond_wait>>
      BY <2>3 DEF guest, monitor, threads, parked, locks
    <3>2. MutexHeld'
      BY <3>1 DEF GuestInv, MutexHeld, MustWait
    <3>3. QueueOK'
      BY <3>1 DEF GuestInv, QueueOK
    <3>4. MonitorOK' /\ NoCountLost'
      BY <3>1 DEF GuestInv, MonitorOK, NoCountLost, Counted
    <3> QED  BY <2>1, <3>1, <3>2, <3>3, <3>4 DEF GuestInv
  <2> QED  BY <2>2, <2>3 DEF GuestNext, AllBlocked, Finished, vars
<1> QED  BY <1>1, <1>2, PTL DEF GuestSpec

\* The program of the condvar fixture gets every item exactly once and in order through its
\* queue, for every capacity and number of items: the calls of sync.rs keep the mutex
\* exclusive, also across condition waits.
THEOREM ItemsArriveInOrder ==
    ASSUME Fixture PROVE GuestSpec => []EveryItemInOrder
<1>1. GuestInv => EveryItemInOrder
  <2> SUFFICES ASSUME GuestInv PROVE EveryItemInOrder
    OBVIOUS
  <2>1. /\ sent \in Nat /\ buf \in Seq(Nat) /\ got \in Seq(Nat) /\ Len(buf) <= CAP
        /\ \A i \in 1 .. Len(got) : got[i] = i
        /\ \A i \in 1 .. Len(buf) : buf[i] = Len(got) + i
        /\ sent = Len(got) + Len(buf)
    BY DEF GuestInv, QueueOK
  <2>2. got \o buf = [i \in 1 .. sent |-> i]
    <3>1. /\ got \o buf \in Seq(Nat) /\ Len(got \o buf) = sent
          /\ \A i \in 1 .. sent : (got \o buf)[i] = IF i <= Len(got) THEN got[i] ELSE buf[i - Len(got)]
      BY <2>1
    <3>2. ASSUME NEW i \in 1 .. sent PROVE (got \o buf)[i] = i
      <4>1. CASE i \in 1 .. Len(got)
        BY <2>1, <3>1, <4>1
      <4>2. CASE i - Len(got) \in 1 .. Len(buf)
        BY <2>1, <3>1, <4>2
      <4> QED  BY <2>1, <4>1, <4>2
    <3>3. got \o buf = [i \in 1 .. sent |-> (got \o buf)[i]]
      BY <2>1, <3>1, AsFunction, Zenon
    <3> QED  BY <3>2, <3>3, Zenon
  <2>3. ASSUME NEW t \in Indices, Inside(t) PROVE owner[lock] = t
    <3>1. t \in Others /\ pc[t] \in Critical \cup {"test"}
      BY <2>3, FixtureFacts DEF Inside, Critical
    <3> QED  BY <2>3, <3>1, FixtureFacts, Nothing, Zenon DEF GuestInv, MutexHeld, Inside, is_runnable
  <2> QED  BY <2>1, <2>2, <2>3 DEF EveryItemInOrder
<1> QED  BY <1>1, GuestHolds, PTL

\* Its loops around exclusive loads and stores count every item once, although threads
\* switch between the load and the store and nothing but the value read is compared.
THEOREM CountsAreExact ==
    ASSUME Fixture PROVE GuestSpec => []NoCountLost
<1>1. GuestInv => NoCountLost
  BY DEF GuestInv
<1> QED  BY <1>1, GuestHolds, PTL
=============================================================================
