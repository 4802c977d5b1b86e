--------------------------- MODULE MacForksProofs ---------------------------
(***************************************************************************)
(* The proof that forks leave no trace in the root process, for every      *)
(* number of threads, locks and processes.                                 *)
(***************************************************************************)
EXTENDS MacForks, TLAPS

-----------------------------------------------------------------------------
(* Processes: what the root process sees *)

\* Vec::pop leaves the first frame where it was, if it was not the last one too.
LEMMA PopKeepsFirst ==
    ASSUME NEW S, NEW fr \in Seq(S), fr # <<>>
    PROVE  /\ Outer(fr) \in Seq(S)
           /\ Outer(fr) # <<>> => Outer(fr)[1] = fr[1]
           /\ Outer(fr) = <<>> => Innermost(fr) = fr[1]
<1> DEFINE len == Len(fr) - 1
<1>1. len \in Nat /\ \A i \in 1 .. len : fr[i] \in S
  OBVIOUS
<1>2. Outer(fr) = [i \in 1 .. len |-> fr[i]]
  BY DEF Outer
<1>3. Outer(fr) \in Seq(S) /\ Len(Outer(fr)) = len
  <2> HIDE DEF len
  <2> QED  BY <1>1, <1>2
<1>4. ASSUME Outer(fr) # <<>> PROVE Outer(fr)[1] = fr[1]
  <2>1. 1 \in 1 .. len
    BY <1>1, <1>3, <1>4
  <2> QED  BY <1>2, <2>1
<1>5. ASSUME Outer(fr) = <<>> PROVE Innermost(fr) = fr[1]
  <2>1. Len(fr) = 1
    BY <1>3, <1>5
  <2> QED  BY <2>1 DEF Innermost
<1> QED  BY <1>3, <1>4, <1>5

\* ProcessTable.frames is a vector.
FrameStack == \E S : frames \in Seq(S)

\* fork_begin pushes a frame and process_exit pops one; nothing else touches the frames.
LEMMA StackStays == FrameStack /\ [ProcessNext]_allvars => FrameStack'
<1> SUFFICES ASSUME FrameStack, [ProcessNext]_allvars PROVE FrameStack'
  OBVIOUS
<1>1. PICK S : frames \in Seq(S)
  BY DEF FrameStack
<1>2. ASSUME UNCHANGED frames PROVE FrameStack'
  BY <1>1, <1>2 DEF FrameStack
<1>3. CASE UNCHANGED allvars
  BY <1>2, <1>3 DEF allvars, processes
<1>4. CASE UNCHANGED <<processes, reaped>>
  BY <1>2, <1>4 DEF processes
<1>5. ASSUME NEW t \in Indices, ProcessInstruction(t) PROVE FrameStack'
  <2>1. CASE UNCHANGED <<processes, reaped>>
    BY <1>4, <2>1
  <2>2. CASE fork_begin(t)
    <3> DEFINE F == ForkFrame(t)
    <3>1. frames' = Append(frames, F)
      BY <2>2 DEF fork_begin
    <3> HIDE DEF F
    <3>2. frames \in Seq(S \cup {F})
      BY <1>1
    <3>3. frames' \in Seq(S \cup {F})
      BY <3>1, <3>2
    <3> QED  BY <3>3 DEF FrameStack
  <2>3. ASSUME NEW w, process_exit(w) PROVE FrameStack'
    <3>1. frames # <<>> /\ frames' = Outer(frames)
      BY <2>3 DEF process_exit, in_child
    <3>2. frames' \in Seq(S)
      BY <1>1, <3>1, PopKeepsFirst
    <3> QED  BY <3>2 DEF FrameStack
  <2>4. ASSUME NEW arg, reap_child(t, arg) PROVE FrameStack'
    BY <1>2, <2>4 DEF reap_child
  <2> QED  BY <1>5, <2>1, <2>2, <2>3, <2>4, Zenon DEF ProcessInstruction
<1> QED  BY <1>3, <1>4, <1>5 DEF ProcessNext, ProcessStep

\* The constants of the root process are those of every process.
LEMMA RootConstants ==
    /\ Root!None = None /\ Root!Locks = Locks /\ Root!Indices = Indices /\ Root!Ids = Ids
    /\ Root!Kinds = Kinds /\ Root!NoWait = NoWait
BY DEF Root!None, None, Root!Locks, Locks, Root!Indices, Indices, Root!Ids, Ids, Root!Kinds, Kinds,
       Root!NoWait, NoWait

\* While it runs, the root process is the process.
LEMMA RootState ==
    ASSUME ~ in_child
    PROVE  /\ \A S, t : Root!FirstAfter(S, t) = FirstAfter(S, t)
           /\ \A l : Root!Waiting(l) = Waiting(l)
           /\ \A l, t : Root!Heir(l, t) = Heir(l, t)
           /\ \A l, t : Root!Handed(l, t) = Handed(l, t)
           /\ \A l, t : Root!CountAfter(l, t) = CountAfter(l, t)
           /\ \A c : Root!CondWaiters(c) = CondWaiters(c)
           /\ \A t, target : Root!JoinWaits(t, target) <=> JoinWaits(t, target)
           /\ Root!Runnable = Runnable
           /\ \A t : Root!Scheduled(t) <=> Scheduled(t)
<1>1. \A S, t : Root!FirstAfter(S, t) = FirstAfter(S, t)
  BY DEF Root!FirstAfter, FirstAfter, Saved, Root!Offset, Offset
<1>2. \A l : Root!Waiting(l) = Waiting(l)
  BY RootConstants DEF Root!Waiting, Waiting, Saved
<1>3. \A l, t : Root!next_waiter(l, t) = next_waiter(l, t)
  BY <1>1, <1>2 DEF Root!next_waiter, next_waiter
<1>4. \A l, t : Root!Heir(l, t) = Heir(l, t)
  BY <1>2, <1>3, RootConstants DEF Root!Heir, Heir, Saved
<1>5. \A l, t : Root!Handed(l, t) = Handed(l, t)
  <2>1. \A l, t : Root!Released(l, t) = Released(l, t)
    BY <1>2, <1>3 DEF Root!Released, Released
  <2> QED  BY <2>1, RootConstants DEF Root!Handed, Handed, Saved
<1>6. \A l, t : Root!CountAfter(l, t) = CountAfter(l, t)
  BY <1>2 DEF Root!CountAfter, CountAfter
<1>7. \A c : Root!CondWaiters(c) = CondWaiters(c)
  BY RootConstants DEF Root!CondWaiters, CondWaiters, Saved
<1>8. \A t, target : Root!JoinWaits(t, target) <=> JoinWaits(t, target)
  <2>1. \A target : Root!Threads(target) = Threads(target)
    BY RootConstants DEF Root!Threads, Threads, Saved
  <2>2. \A target : Root!Find(target) = Find(target)
    BY <2>1 DEF Root!Find, Find
  <2> QED  BY <2>1, <2>2 DEF Root!JoinWaits, JoinWaits, Saved
<1>9. Root!Runnable = Runnable
  <2>1. \A i : Root!is_runnable(i) <=> is_runnable(i)
    BY RootConstants DEF Root!is_runnable, is_runnable, Saved
  <2> QED  BY <2>1, RootConstants DEF Root!Runnable, Runnable
<1>10. \A t : Root!Scheduled(t) <=> Scheduled(t)
  BY <1>9 DEF Root!Scheduled, Scheduled, Root!Picked, Picked, Root!Offset, Offset, Saved
<1> QED  BY <1>1, <1>2, <1>4, <1>5, <1>6, <1>7, <1>8, <1>9, <1>10

\* Every call of the root process is a call of a process that does not fork.
LEMMA RootCalls ==
    ASSUME ~ in_child, ~ in_child', NEW t, ThreadInstruction(t)
    PROVE  Root!ThreadInstruction(t)
<1>1. ASSUME NEW m, NEW k, api_mutex_init(t, m, k) PROVE Root!api_mutex_init(t, m, k)
  BY <1>1, RootConstants, Zenon DEF Root!api_mutex_init, api_mutex_init, Saved, Root!threads, threads, Root!parked, parked
<1>2. ASSUME NEW m, api_mutex_lock(t, m) PROVE Root!api_mutex_lock(t, m)
  BY <1>2, RootConstants, Zenon DEF Root!api_mutex_lock, api_mutex_lock, Saved, Root!mutex_take, mutex_take
<1>3. ASSUME NEW m, api_mutex_trylock(t, m) PROVE Root!api_mutex_trylock(t, m)
  BY <1>3, RootConstants, Zenon DEF Root!api_mutex_trylock, api_mutex_trylock, Saved, Root!mutex_take, mutex_take,
     Root!threads, threads, Root!parked, parked
<1>4. \A m : mutex_release(m, t) => Root!mutex_release(m, t)
  BY RootState, Zenon DEF Root!mutex_release, mutex_release, Saved
<1>5. ASSUME NEW m, api_mutex_unlock(t, m) PROVE Root!api_mutex_unlock(t, m)
  BY <1>4, <1>5, RootConstants, Zenon DEF Root!api_mutex_unlock, api_mutex_unlock, Saved
<1>6. ASSUME NEW c, NEW m, api_cond_wait(t, c, m) PROVE Root!api_cond_wait(t, c, m)
  BY <1>4, <1>6, RootConstants, Zenon DEF Root!api_cond_wait, api_cond_wait, Saved
<1>7. ASSUME NEW m, api_cond_timedwait(t, m) PROVE Root!api_cond_timedwait(t, m)
  BY <1>7, RootConstants, RootState, Zenon
     DEF Root!api_cond_timedwait, api_cond_timedwait, Saved, Root!mutex_take, mutex_take
<1>8. ASSUME NEW c, NEW all, api_cond_wake(t, c, all) PROVE Root!api_cond_wake(t, c, all)
  <2>1. \A W : resume_cond_waiters(W, t) => Root!resume_cond_waiters(W, t)
    <3> SUFFICES ASSUME NEW W, resume_cond_waiters(W, t) PROVE Root!resume_cond_waiters(W, t)
      OBVIOUS
    <3> DEFINE mutex(i) == cond_wait[i][2]
               takes(i) == owner[mutex(i)] = None /\ i = FirstAfter({j \in W : mutex(j) = mutex(i)}, t)
               taker(m) == {i \in W : mutex(i) = m /\ takes(i)}
               rmutex(i) == Saved("cond_wait", cond_wait)[i][2]
               rtakes(i) == Saved("owner", owner)[rmutex(i)] = Root!None
                            /\ i = Root!FirstAfter({j \in W : rmutex(j) = rmutex(i)}, t)
               rtaker(m) == {i \in W : rmutex(i) = m /\ rtakes(i)}
    <3>1. /\ Saved("cond_wait", cond_wait) = cond_wait /\ Saved("owner", owner) = owner
          /\ Saved("id", id) = id /\ Saved("count", count) = count
          /\ Saved("blocked_on_lock", blocked_on_lock) = blocked_on_lock
          /\ Saved("cond_wait", cond_wait)' = cond_wait' /\ Saved("owner", owner)' = owner'
          /\ Saved("count", count)' = count'
          /\ Saved("blocked_on_lock", blocked_on_lock)' = blocked_on_lock'
      BY DEF Saved
    <3>2. \A i : rmutex(i) = mutex(i)
      BY <3>1
    <3>3. \A i : rtakes(i) <=> takes(i)
      <4> SUFFICES ASSUME NEW i PROVE rtakes(i) <=> takes(i)
        BY Zenon
      <4>1. {j \in W : rmutex(j) = rmutex(i)} = {j \in W : mutex(j) = mutex(i)}
        BY <3>2, Zenon
      <4> HIDE DEF mutex, rmutex
      <4> QED  BY <3>1, <3>2, <4>1, RootConstants, RootState
    <3> HIDE DEF mutex, rmutex, takes, rtakes
    <3>4. \A m : rtaker(m) = taker(m)
      BY <3>2, <3>3
    <3> HIDE DEF taker, rtaker
    <3>5. /\ cond_wait' = [i \in Indices |-> IF i \in W THEN NoWait ELSE cond_wait[i]]
          /\ blocked_on_lock' = [i \in Indices |-> IF i \in W /\ ~ takes(i) THEN mutex(i)
                                                   ELSE blocked_on_lock[i]]
          /\ owner' = [l \in Locks |-> IF taker(l) = {} THEN owner[l]
                                       ELSE id[CHOOSE i \in taker(l) : TRUE]]
          /\ count' = [m \in Mutexes |-> IF taker(m) = {} THEN count[m] ELSE 1]
      BY Zenon DEF resume_cond_waiters, mutex, takes, taker
    <3>6. /\ Saved("cond_wait", cond_wait)' =
               [i \in Root!Indices |-> IF i \in W THEN Root!NoWait ELSE Saved("cond_wait", cond_wait)[i]]
          /\ Saved("blocked_on_lock", blocked_on_lock)' =
               [i \in Root!Indices |-> IF i \in W /\ ~ rtakes(i) THEN rmutex(i)
                                       ELSE Saved("blocked_on_lock", blocked_on_lock)[i]]
      <4>1. [i \in Root!Indices |-> IF i \in W THEN Root!NoWait ELSE Saved("cond_wait", cond_wait)[i]]
              = [i \in Indices |-> IF i \in W THEN NoWait ELSE cond_wait[i]]
        BY <3>1, RootConstants
      <4>2. [i \in Root!Indices |-> IF i \in W /\ ~ rtakes(i) THEN rmutex(i)
                                    ELSE Saved("blocked_on_lock", blocked_on_lock)[i]]
              = [i \in Indices |-> IF i \in W /\ ~ takes(i) THEN mutex(i) ELSE blocked_on_lock[i]]
        BY <3>1, <3>2, <3>3, RootConstants
      <4> QED  BY <3>1, <3>5, <4>1, <4>2, Zenon
    <3>7. Saved("owner", owner)' =
             [l \in Root!Locks |-> IF rtaker(l) = {} THEN Saved("owner", owner)[l]
                                   ELSE Saved("id", id)[CHOOSE i \in rtaker(l) : TRUE]]
      <4> DEFINE chosen(l) == CHOOSE i \in taker(l) : TRUE
                 rchosen(l) == CHOOSE i \in rtaker(l) : TRUE
      <4>1. \A l : rchosen(l) = chosen(l)
        BY <3>4
      <4> HIDE DEF chosen, rchosen
      <4>2. [l \in Root!Locks |-> IF rtaker(l) = {} THEN Saved("owner", owner)[l] ELSE Saved("id", id)[rchosen(l)]]
              = [l \in Locks |-> IF taker(l) = {} THEN owner[l] ELSE id[chosen(l)]]
        BY <3>1, <3>4, <4>1, RootConstants
      <4>3. owner' = [l \in Locks |-> IF taker(l) = {} THEN owner[l] ELSE id[chosen(l)]]
        BY <3>5, Zenon DEF chosen
      <4> QED  BY <3>1, <4>2, <4>3, Zenon DEF rchosen
    <3>8. Saved("count", count)' =
             [m \in Mutexes |-> IF rtaker(m) = {} THEN Saved("count", count)[m] ELSE 1]
      BY <3>1, <3>4, <3>5, Zenon
    <3> QED  BY <3>6, <3>7, <3>8, Zenon DEF Root!resume_cond_waiters, rmutex, rtakes, rtaker
  <2> DEFINE W == IF all \/ CondWaiters(c) = {} THEN CondWaiters(c) ELSE {FirstAfter(CondWaiters(c), t)}
  <2>2. resume_cond_waiters(W, t) /\ UNCHANGED <<n, id, exited, joining, kind, status>>
    BY <1>8 DEF api_cond_wake
  <2>3. W = IF all \/ Root!CondWaiters(c) = {} THEN Root!CondWaiters(c)
            ELSE {Root!FirstAfter(Root!CondWaiters(c), t)}
    BY RootState
  <2> HIDE DEF W
  <2>4. Root!resume_cond_waiters(W, t)
    BY <2>1, <2>2
  <2>5. UNCHANGED <<Saved("n", n), Saved("id", id), Saved("exited", exited), Saved("joining", joining),
                    Saved("kind", kind), IF in_child THEN "running" ELSE status>>
    BY <2>2 DEF Saved
  <2> QED  BY <2>3, <2>4, <2>5 DEF Root!api_cond_wake
<1>9. ASSUME NEW l, api_unfair_lock(t, l) PROVE Root!api_unfair_lock(t, l)
  BY <1>9, RootConstants, Zenon DEF Root!api_unfair_lock, api_unfair_lock, Saved
<1>10. ASSUME NEW l, api_unfair_trylock(t, l) PROVE Root!api_unfair_trylock(t, l)
  BY <1>10, RootConstants, Zenon DEF Root!api_unfair_trylock, api_unfair_trylock, Saved, Root!threads, threads,
     Root!parked, parked
<1>11. ASSUME NEW l, api_unfair_unlock(t, l) PROVE Root!api_unfair_unlock(t, l)
  BY <1>11, RootConstants, RootState, Zenon DEF Root!api_unfair_unlock, api_unfair_unlock, Saved
<1>12. ASSUME api_pthread_create(t) PROVE Root!api_pthread_create(t)
  BY <1>12, RootConstants, Zenon DEF Root!api_pthread_create, api_pthread_create, Saved, Root!locks, locks
<1>13. ASSUME NEW target, api_pthread_join(t, target) PROVE Root!api_pthread_join(t, target)
  BY <1>13, RootConstants, RootState, Zenon DEF Root!api_pthread_join, api_pthread_join, Saved, Root!locks, locks
<1>14. ASSUME thread_exit(t) PROVE Root!thread_exit(t)
  BY <1>14, RootConstants, Zenon DEF Root!thread_exit, thread_exit, Saved, Root!locks, locks
<1>15. ASSUME OtherInstruction(t) PROVE Root!OtherInstruction(t)
  BY <1>15 DEF Root!OtherInstruction, OtherInstruction, Saved, Root!locks, locks, Root!threads, threads,
     Root!parked, parked
<1> QED
  BY <1>1, <1>2, <1>3, <1>5, <1>6, <1>7, <1>8, <1>9, <1>10, <1>11, <1>12, <1>13, <1>14, <1>15, RootConstants
     DEF Root!ThreadInstruction, ThreadInstruction

\* What descendants do, the root process does not see.
LEMMA RootAsleep ==
    ASSUME in_child, in_child', frames'[1] = frames[1]
    PROVE  UNCHANGED Root!vars
BY DEF Root!vars, Root!threads, Root!parked, Root!locks, Saved

\* A fork of the root process, and a wait, are instructions like any other.
LEMMA RootOther ==
    ASSUME ~ in_child, NEW t \in Indices, Scheduled(t), Saved("current_thread_id", current_thread_id)' = t,
           UNCHANGED <<Saved("n", n), Saved("id", id), Saved("exited", exited), Saved("joining", joining),
                       Saved("blocked_on_lock", blocked_on_lock), Saved("cond_wait", cond_wait),
                       Saved("owner", owner), Saved("count", count), Saved("kind", kind),
                       IF in_child THEN "running" ELSE status>>
    PROVE  Root!Next
<1>1. Root!Scheduled(t) /\ t \in Root!Indices
  BY RootState, RootConstants
<1>2. Root!OtherInstruction(t)
  BY DEF Root!OtherInstruction, Root!threads, Root!parked, Root!locks
<1> QED  BY <1>1, <1>2 DEF Root!Next, Root!Step, Root!Instruction, Root!ThreadInstruction

\* Every step is one of the root process, or one that it does not see.
LEMMA RootStep == FrameStack /\ [ProcessNext]_allvars => [Root!Next]_(Root!vars)
<1> SUFFICES ASSUME FrameStack, [ProcessNext]_allvars PROVE [Root!Next]_(Root!vars)
  OBVIOUS
<1>1. PICK S : frames \in Seq(S)
  BY DEF FrameStack
<1>2. ASSUME in_child, UNCHANGED frames PROVE UNCHANGED Root!vars
  BY <1>2, RootAsleep DEF in_child
<1>3. CASE UNCHANGED allvars
  BY <1>3 DEF allvars, vars, threads, parked, locks, processes, in_child, Root!vars, Root!threads, Root!parked,
     Root!locks, Saved
<1>4. CASE AllBlocked /\ UNCHANGED <<processes, reaped>>
  <2>1. UNCHANGED frames /\ in_child' = in_child
    BY <1>4 DEF processes, in_child
  <2>2. CASE ~ in_child
    <3>1. Root!AllBlocked
      BY <1>4, <2>1, <2>2, RootState, Zenon DEF Root!AllBlocked, AllBlocked, Root!threads, threads, Root!parked, parked,
         Root!locks, locks, Saved
    <3> QED  BY <3>1 DEF Root!Next
  <2> QED  BY <1>2, <2>1, <2>2
<1>5. CASE Finished /\ UNCHANGED <<processes, reaped>>
  <2>1. UNCHANGED allvars
    BY <1>5 DEF Finished, allvars
  <2> QED  BY <1>3, <2>1
<1>6. ASSUME NEW t \in Indices, Scheduled(t), ProcessInstruction(t) PROVE [Root!Next]_(Root!vars)
  <2>1. status = "running"
    BY <1>6 DEF Scheduled
  <2>2. CASE ThreadInstruction(t) /\ current_thread_id' = t /\ UNCHANGED <<processes, reaped>>
    <3>1. UNCHANGED frames /\ in_child' = in_child
      BY <2>2 DEF processes, in_child
    <3>2. CASE ~ in_child
      <4>1. Root!ThreadInstruction(t)
        BY <2>2, <3>1, <3>2, RootCalls
      <4>2. Root!Scheduled(t) /\ t \in Root!Indices
        BY <1>6, <3>2, RootState, RootConstants
      <4>3. Saved("current_thread_id", current_thread_id)' = t
        BY <2>2, <3>1, <3>2 DEF Saved
      <4> QED  BY <4>1, <4>2, <4>3 DEF Root!Next, Root!Step, Root!Instruction
    <3> QED  BY <1>2, <3>1, <3>2
  <2>3. CASE fork_begin(t)
    <3>1. frames' = Append(frames, ForkFrame(t)) /\ UNCHANGED status
      BY <2>3 DEF fork_begin
    <3>2. CASE in_child
      <4>1. frames'[1] = frames[1] /\ frames' # <<>>
        BY <1>1, <3>1, <3>2 DEF in_child
      <4>2. in_child'
        BY <4>1 DEF in_child
      <4> QED  BY <3>2, <4>1, <4>2, RootAsleep
    <3>3. CASE ~ in_child
      <4>1. frames'[1] = ForkFrame(t) /\ frames' # <<>>
        BY <3>1, <3>3 DEF in_child
      <4>2. in_child'
        BY <4>1 DEF in_child
      <4>3. Saved("current_thread_id", current_thread_id)' = t
        BY <4>1, <4>2 DEF Saved, ForkFrame
      <4>4. UNCHANGED <<Saved("n", n), Saved("id", id), Saved("exited", exited), Saved("joining", joining),
                        Saved("blocked_on_lock", blocked_on_lock), Saved("cond_wait", cond_wait),
                        Saved("owner", owner), Saved("count", count), Saved("kind", kind),
                        IF in_child THEN "running" ELSE status>>
        <5> DEFINE f == frames'[1]
        <5>1. /\ f.n = n /\ f.id = id /\ f.exited = exited /\ f.joining = joining
              /\ f.blocked_on_lock = blocked_on_lock /\ f.cond_wait = cond_wait
              /\ f.owner = owner /\ f.count = count /\ f.kind = kind
          BY <4>1 DEF ForkFrame
        <5>2. UNCHANGED <<Saved("n", n), Saved("id", id), Saved("exited", exited), Saved("joining", joining),
                          Saved("blocked_on_lock", blocked_on_lock), Saved("cond_wait", cond_wait),
                          Saved("owner", owner), Saved("count", count), Saved("kind", kind)>>
          BY <3>3, <4>2, <5>1, Zenon DEF Saved
        <5>3. UNCHANGED (IF in_child THEN "running" ELSE status)
          BY <2>1, <3>1, <3>3, <4>2
        <5> QED  BY <5>2, <5>3
      <4> QED  BY <1>6, <3>3, <4>3, <4>4, RootOther
    <3> QED  BY <3>2, <3>3
  <2>4. ASSUME NEW w \in WaitStatuses, process_exit(w) PROVE UNCHANGED Root!vars
    <3> DEFINE F == Innermost(frames)
    <3>1. /\ frames' = Outer(frames) /\ UNCHANGED status
          /\ n' = F.n /\ id' = F.id /\ exited' = F.exited /\ joining' = F.joining
          /\ blocked_on_lock' = F.blocked_on_lock /\ cond_wait' = F.cond_wait
          /\ current_thread_id' = F.current_thread_id
          /\ owner' = F.owner /\ count' = F.count /\ kind' = F.kind
      BY <2>4 DEF process_exit, RestorePids, RestoreThreads, RestoreMaps
    <3>2. in_child /\ frames # <<>>
      BY <2>4 DEF process_exit, in_child
    <3>3. /\ Outer(frames) # <<>> => Outer(frames)[1] = frames[1]
          /\ Outer(frames) = <<>> => F = frames[1]
      BY <1>1, <3>2, PopKeepsFirst
    <3> HIDE DEF F
    <3>4. CASE frames' # <<>>
      <4>1. in_child' /\ frames'[1] = frames[1]
        BY <3>1, <3>3, <3>4 DEF in_child
      <4> QED  BY <3>2, <4>1, RootAsleep
    <3>5. CASE frames' = <<>>
      <4>1. ~ in_child' /\ F = frames[1]
        BY <3>1, <3>3, <3>5 DEF in_child
      <4> QED  BY <2>1, <3>1, <3>2, <4>1, Zenon DEF Root!vars, Root!threads, Root!parked, Root!locks, Saved
    <3> QED  BY <3>4, <3>5
  <2>5. CASE ~ in_child /\ end_process(t) /\ current_thread_id' = t /\ UNCHANGED <<processes, reaped>>
    <3>1. in_child' = in_child
      BY <2>5 DEF processes, in_child
    <3>2. Root!end_process(t)
      BY <2>5, <3>1, Zenon DEF Root!end_process, end_process, Root!threads, threads, Root!parked, parked, Root!locks,
         locks, Saved
    <3>3. Root!Scheduled(t) /\ t \in Root!Indices
      BY <1>6, <2>5, RootState, RootConstants
    <3>4. Saved("current_thread_id", current_thread_id)' = t
      BY <2>5, <3>1 DEF Saved
    <3> QED  BY <3>2, <3>3, <3>4 DEF Root!Next, Root!Step, Root!Instruction
  <2>6. ASSUME NEW arg \in -1 .. MaxPids, reap_child(t, arg), current_thread_id' = t
        PROVE  [Root!Next]_(Root!vars)
    <3>1. /\ UNCHANGED <<n, id, exited, joining, blocked_on_lock, cond_wait, owner, count, kind, status>>
          /\ UNCHANGED frames /\ in_child' = in_child
      BY <2>6 DEF reap_child, threads, parked, locks, in_child
    <3>2. CASE ~ in_child
      <4>1. Saved("current_thread_id", current_thread_id)' = t
        BY <2>6, <3>1, <3>2 DEF Saved
      <4>2. UNCHANGED <<Saved("n", n), Saved("id", id), Saved("exited", exited), Saved("joining", joining),
                        Saved("blocked_on_lock", blocked_on_lock), Saved("cond_wait", cond_wait),
                        Saved("owner", owner), Saved("count", count), Saved("kind", kind),
                        IF in_child THEN "running" ELSE status>>
        BY <3>1, <3>2, Zenon DEF Saved
      <4> QED  BY <1>6, <3>2, <4>1, <4>2, RootOther
    <3> QED  BY <1>2, <3>1, <3>2
  <2> QED  BY <1>6, <2>2, <2>3, <2>4, <2>5, <2>6 DEF ProcessInstruction
<1> QED  BY <1>3, <1>4, <1>5, <1>6 DEF ProcessNext, ProcessStep

\* fork_begin and process_exit save and restore a process whole: to the root process, a fork
\* with all that its descendants do until process_exit brings it back is one instruction,
\* and it behaves as the process without forks that MacThreads specifies.
THEOREM RootImplementsThreads == ProcessSpec => ChildrenLeaveNoTrace
<1>1. ProcessInit => Root!Init
  BY RootConstants, Zenon DEF ProcessInit, Init, Root!Init, Saved, in_child
<1>2. ProcessInit => FrameStack
  <2>1. <<>> \in Seq({})
    OBVIOUS
  <2> QED  BY <2>1 DEF ProcessInit, FrameStack
<1> QED  BY <1>1, <1>2, StackStays, RootStep, PTL DEF ProcessSpec, ChildrenLeaveNoTrace, Root!Spec
=============================================================================
