----------------------------- MODULE MacThreads -----------------------------
(***************************************************************************)
(* Threads of an emulated macOS process: pthread create, exit and join,    *)
(* mutexes of the three kinds, condition variables and os_unfair_lock, on  *)
(* the scheduler that the other thread models use.  A thread that has to   *)
(* wait is parked, and the call that releases it completes its call.       *)
(*                                                                         *)
(* emu.threads is a vector; every thread also has an id, which locks and   *)
(* joins use.  A lock object is its owner word and recursion count.        *)
(***************************************************************************)
EXTENDS Scheduler

CONSTANTS
    MaxThreads,   \* bound: length emu.threads may reach
    Mutexes,      \* addresses of pthread_mutex_t objects
    UnfairLocks,  \* addresses of os_unfair_lock objects
    Conds,        \* addresses of pthread_cond_t objects
    MaxCount      \* bound: recursion depth of a recursive mutex

None == -1

Locks == Mutexes \cup UnfairLocks

ASSUME MacThreadsAssumption ==
    /\ MaxThreads \in Nat \ {0}
    /\ Locks \subseteq Nat /\ Conds \subseteq Nat
    /\ Mutexes \cap UnfairLocks = {}
    /\ MaxCount \in Nat \ {0}

Indices == 0 .. MaxThreads - 1
Ids == Nat  \* thread ids, less 0x1000
Kinds == {"NORMAL", "ERRORCHECK", "RECURSIVE"}
NoWait == <<None, None>>

VARIABLES
    n,                  \* emu.threads.len()
    id,                 \* ThreadContext.id, by index
    exited,             \* ThreadContext.exit_value.is_some()
    joining,            \* ThreadContext.joining: id of the target, or None
    blocked_on_lock,    \* ThreadContext.blocked_on_lock: a lock, or None
    cond_wait,          \* ThreadContext.cond_wait: <<cond, mutex>>, or NoWait
    owner,              \* owner word of each lock: an id, or None (0 in the code)
    count,              \* recursion count of each mutex
    kind,               \* type of each mutex
    current_thread_id,
    status              \* of the run loop: "running", "stopped", "blocked"

parked == <<joining, blocked_on_lock, cond_wait>>
threads == <<n, id, exited, parked>>
locks == <<owner, count, kind>>
vars == <<threads, locks, current_thread_id, status>>

\* One thread; statically initialised mutexes may be of any kind.
Init ==
    /\ n = 1
    /\ id = [i \in Indices |-> i]
    /\ exited = [i \in Indices |-> FALSE]
    /\ joining = [i \in Indices |-> None]
    /\ blocked_on_lock = [i \in Indices |-> None]
    /\ cond_wait = [i \in Indices |-> NoWait]
    /\ owner = [l \in Locks |-> None]
    /\ count = [m \in Mutexes |-> 0]
    /\ kind \in [Mutexes -> Kinds]
    /\ current_thread_id = 0
    /\ status = "running"

-----------------------------------------------------------------------------
(* Helpers of sync.rs *)

\* Bug: the scan starts at the front of the vector every time.
FirstFromFront(S, t) == CHOOSE i \in S : \A j \in S : i <= j

\* The first thread of S in the scan that starts after thread t.
FirstAfter(S, t) == CHOOSE i \in S : \A j \in S : Offset(i, t, n) <= Offset(j, t, n)

Waiting(l) == {i \in Indices : i < n /\ blocked_on_lock[i] = l}

\* next_waiter
next_waiter(l, t) == FirstAfter(Waiting(l), t)

\* The owner word once thread t has fully released l: the waiter whose turn it
\* is, or nobody.
Heir(l, t) == IF Waiting(l) = {} THEN None ELSE id[next_waiter(l, t)]

\* Which thread that release lets go on.
Released(l, t) == IF Waiting(l) = {} THEN {} ELSE {next_waiter(l, t)}

\* blocked_on_lock after thread t has released l and wake() was called.
Handed(l, t) == [i \in Indices |-> IF i \in Released(l, t) THEN None ELSE blocked_on_lock[i]]

\* count after a hand-over (mutex_take) or a plain release.
CountAfter(l, t) == IF Waiting(l) = {} THEN 0 ELSE 1

\* Bug: the waiter is not handed the mutex, only made runnable.
release_without_handing(m, t) ==
    /\ owner' = [owner EXCEPT ![m] = None]
    /\ count' = [count EXCEPT ![m] = 0]
    /\ blocked_on_lock' = Handed(m, t)

\* Bug: nobody looks for waiters.
release_forgets_waiters(m, t) ==
    /\ owner' = [owner EXCEPT ![m] = None]
    /\ count' = [count EXCEPT ![m] = 0]
    /\ UNCHANGED blocked_on_lock

\* mutex_release
mutex_release(m, t) ==
    /\ owner' = [owner EXCEPT ![m] = Heir(m, t)]
    /\ count' = [count EXCEPT ![m] = CountAfter(m, t)]
    /\ blocked_on_lock' = Handed(m, t)

\* mutex_take on behalf of thread i
mutex_take(m, i) ==
    /\ owner' = [owner EXCEPT ![m] = id[i]]
    /\ count' = [count EXCEPT ![m] = 1]

-----------------------------------------------------------------------------
(* pthread_mutex: the instruction that thread t executes *)

\* A program may initialise a mutex again only while nobody uses it.
api_mutex_init(t, m, k) ==
    /\ owner[m] = None
    /\ kind' = [kind EXCEPT ![m] = k]
    /\ owner' = [owner EXCEPT ![m] = None]
    /\ count' = [count EXCEPT ![m] = 0]
    /\ UNCHANGED <<threads, status>>

\* A normal mutex relocked by its owner deadlocks, as natively.
api_mutex_lock(t, m) ==
    /\ \/ /\ owner[m] = None
          /\ mutex_take(m, t)
          /\ UNCHANGED blocked_on_lock
       \/ /\ owner[m] = id[t] /\ kind[m] = "RECURSIVE" /\ count[m] < MaxCount
          /\ count' = [count EXCEPT ![m] = @ + 1]
          /\ UNCHANGED <<owner, blocked_on_lock>>
       \/ /\ owner[m] = id[t] /\ kind[m] = "ERRORCHECK"          \* EDEADLK
          /\ UNCHANGED <<owner, count, blocked_on_lock>>
       \/ /\ owner[m] # None
          /\ owner[m] = id[t] => kind[m] = "NORMAL"
          /\ blocked_on_lock' = [blocked_on_lock EXCEPT ![t] = m]
          /\ UNCHANGED <<owner, count>>
    /\ UNCHANGED <<n, id, exited, joining, cond_wait, kind, status>>

api_mutex_trylock(t, m) ==
    /\ \/ /\ owner[m] = None
          /\ mutex_take(m, t)
       \/ /\ owner[m] = id[t] /\ kind[m] = "RECURSIVE" /\ count[m] < MaxCount
          /\ count' = [count EXCEPT ![m] = @ + 1]
          /\ UNCHANGED owner
       \/ /\ owner[m] # None
          /\ ~ (owner[m] = id[t] /\ kind[m] = "RECURSIVE")        \* EBUSY
          /\ UNCHANGED <<owner, count>>
    /\ UNCHANGED <<threads, kind, status>>

\* Only a normal mutex lets somebody else than its owner unlock it.
api_mutex_unlock(t, m) ==
    /\ \/ /\ owner[m] # id[t] /\ kind[m] # "NORMAL"               \* EPERM
          /\ UNCHANGED <<owner, count, blocked_on_lock>>
       \/ /\ owner[m] = id[t] \/ kind[m] = "NORMAL"
          /\ count[m] > 1
          /\ count' = [count EXCEPT ![m] = @ - 1]
          /\ UNCHANGED <<owner, blocked_on_lock>>
       \/ /\ owner[m] = id[t] \/ kind[m] = "NORMAL"
          /\ count[m] <= 1
          /\ mutex_release(m, t)
    /\ UNCHANGED <<n, id, exited, joining, cond_wait, kind, status>>

-----------------------------------------------------------------------------
(* pthread_cond *)

\* EPERM when the caller does not hold the mutex.
api_cond_wait(t, c, m) ==
    /\ \/ /\ owner[m] # id[t]
          /\ UNCHANGED <<owner, count, blocked_on_lock, cond_wait>>
       \/ /\ owner[m] = id[t]
          /\ mutex_release(m, t)
          /\ cond_wait' = [cond_wait EXCEPT ![t] = <<c, m>>]
    /\ UNCHANGED <<n, id, exited, joining, kind, status>>

\* Release and take again at once, or queue up for the mutex if the release
\* handed it to a waiter.
api_cond_timedwait(t, m) ==
    /\ \/ /\ owner[m] # id[t]
          /\ UNCHANGED <<owner, count, blocked_on_lock>>
       \/ /\ owner[m] = id[t] /\ Waiting(m) = {}
          /\ mutex_take(m, t)
          /\ UNCHANGED blocked_on_lock
       \/ /\ owner[m] = id[t] /\ Waiting(m) # {}
          /\ owner' = [owner EXCEPT ![m] = Heir(m, t)]
          /\ count' = [count EXCEPT ![m] = 1]
          /\ blocked_on_lock' = [Handed(m, t) EXCEPT ![t] = m]
    /\ UNCHANGED <<n, id, exited, joining, cond_wait, kind, status>>

\* Bug: the waiter returns without its mutex.
resume_without_mutex(woken, t) ==
    /\ cond_wait' = [i \in Indices |-> IF i \in woken THEN NoWait ELSE cond_wait[i]]
    /\ UNCHANGED <<owner, count, blocked_on_lock>>

\* resume_cond_waiter for each thread of "woken", in the order of the scan: the
\* first one that wants a free mutex gets it, the others queue up for it.
resume_cond_waiters(woken, t) ==
    LET mutex(i) == cond_wait[i][2]
        takes(i) == /\ owner[mutex(i)] = None
                    /\ i = FirstAfter({j \in woken : mutex(j) = mutex(i)}, t)
        taker(m) == {i \in woken : mutex(i) = m /\ takes(i)}
    IN  /\ cond_wait' = [i \in Indices |-> IF i \in woken THEN NoWait ELSE cond_wait[i]]
        /\ blocked_on_lock' = [i \in Indices |-> IF i \in woken /\ ~ takes(i) THEN mutex(i)
                                                 ELSE blocked_on_lock[i]]
        /\ owner' = [l \in Locks |-> IF taker(l) = {} THEN owner[l]
                                     ELSE id[CHOOSE i \in taker(l) : TRUE]]
        /\ count' = [m \in Mutexes |-> IF taker(m) = {} THEN count[m] ELSE 1]

CondWaiters(c) == {i \in Indices : i < n /\ cond_wait[i][1] = c}

api_cond_wake(t, c, all) ==
    /\ resume_cond_waiters(IF all \/ CondWaiters(c) = {} THEN CondWaiters(c)
                           ELSE {FirstAfter(CondWaiters(c), t)}, t)
    /\ UNCHANGED <<n, id, exited, joining, kind, status>>

-----------------------------------------------------------------------------
(* os_unfair_lock *)

api_unfair_lock(t, l) ==
    /\ \/ /\ owner[l] = None
          /\ owner' = [owner EXCEPT ![l] = id[t]]
          /\ UNCHANGED blocked_on_lock
       \/ /\ owner[l] # None
          /\ blocked_on_lock' = [blocked_on_lock EXCEPT ![t] = l]
          /\ UNCHANGED owner
    /\ UNCHANGED <<n, id, exited, joining, cond_wait, count, kind, status>>

api_unfair_trylock(t, l) ==
    /\ owner' = [owner EXCEPT ![l] = IF @ = None THEN id[t] ELSE @]
    /\ UNCHANGED <<threads, count, kind, status>>

\* Nobody checks who unlocks.
api_unfair_unlock(t, l) ==
    /\ owner' = [owner EXCEPT ![l] = Heir(l, t)]
    /\ blocked_on_lock' = Handed(l, t)
    /\ UNCHANGED <<n, id, exited, joining, cond_wait, count, kind, status>>

-----------------------------------------------------------------------------
(* pthread lifecycle *)

\* Bug: the id is that of the last thread.
create_reuses_id(t) ==
    /\ n < MaxThreads
    /\ n' = n + 1
    /\ id' = [id EXCEPT ![n] = n - 1]
    /\ UNCHANGED <<exited, parked, locks, status>>

\* The new id is computed from the length of the vector.
api_pthread_create(t) ==
    /\ n < MaxThreads
    /\ n' = n + 1
    /\ id' = [id EXCEPT ![n] = n]
    /\ exited' = [exited EXCEPT ![n] = FALSE]
    /\ joining' = [joining EXCEPT ![n] = None]
    /\ blocked_on_lock' = [blocked_on_lock EXCEPT ![n] = None]
    /\ cond_wait' = [cond_wait EXCEPT ![n] = NoWait]
    /\ UNCHANGED <<locks, status>>

\* The thread that pthread_join finds for an id: the first one that has it.
Threads(target) == {i \in Indices : i < n /\ id[i] = target}
Find(target) == CHOOSE i \in Threads(target) : \A j \in Threads(target) : i <= j

\* pthread_join has to wait: not for ESRCH, EDEADLK or a target that finished.
JoinWaits(t, target) ==
    Threads(target) # {} /\ LET i == Find(target) IN i # t /\ ~ exited[i]

api_pthread_join(t, target) ==
    /\ joining' = [joining EXCEPT ![t] = IF JoinWaits(t, target) THEN target ELSE None]
    /\ UNCHANGED <<n, id, exited, blocked_on_lock, cond_wait, locks, status>>

\* thread_exit completes the joins on the thread, and stops the emulator when
\* every thread has exited.
thread_exit(t) ==
    /\ exited' = [exited EXCEPT ![t] = TRUE]
    /\ joining' = [i \in Indices |-> IF joining[i] = id[t] THEN None ELSE joining[i]]
    /\ status' = IF \A i \in Indices : i < n => exited'[i] THEN "stopped" ELSE status
    /\ UNCHANGED <<n, id, blocked_on_lock, cond_wait, locks>>

\* end_process of a process that is not a forked child (exit, _exit, abort):
\* the emulator stops, whatever the other threads do.
end_process(t) ==
    /\ status' = "stopped"
    /\ UNCHANGED <<threads, locks>>

\* Ordinary instructions and calls that change none of this: pthread_self,
\* pthread_equal, pthread_detach, mutex_destroy, the attribute calls.
OtherInstruction(t) == UNCHANGED <<threads, locks, status>>

-----------------------------------------------------------------------------
(* The run loop *)

\* ThreadContext::is_runnable; suspended, wake_tick and blocked_on_cs are
\* never set on macOS.
is_runnable(i) ==
    /\ i < n /\ ~ exited[i]
    /\ joining[i] = None /\ blocked_on_lock[i] = None /\ cond_wait[i] = NoWait

Runnable == {i \in Indices : is_runnable(i)}

\* Thread t is the one to run next.
Scheduled(t) ==
    /\ status = "running"
    /\ Picked(t, Runnable, current_thread_id, n)

ThreadInstruction(t) ==
    \/ \E m \in Mutexes, k \in Kinds : api_mutex_init(t, m, k)
    \/ \E m \in Mutexes : api_mutex_lock(t, m)
    \/ \E m \in Mutexes : api_mutex_trylock(t, m)
    \/ \E m \in Mutexes : api_mutex_unlock(t, m)
    \/ \E c \in Conds, m \in Mutexes : api_cond_wait(t, c, m)
    \/ \E m \in Mutexes : api_cond_timedwait(t, m)
    \/ \E c \in Conds, all \in BOOLEAN : api_cond_wake(t, c, all)
    \/ \E l \in UnfairLocks : api_unfair_lock(t, l)
    \/ \E l \in UnfairLocks : api_unfair_trylock(t, l)
    \/ \E l \in UnfairLocks : api_unfair_unlock(t, l)
    \/ api_pthread_create(t)
    \/ \E target \in Indices : api_pthread_join(t, target)
    \/ thread_exit(t)
    \/ OtherInstruction(t)

Instruction(t) == ThreadInstruction(t) \/ end_process(t)

Step == \E t \in Indices : Scheduled(t) /\ Instruction(t) /\ current_thread_id' = t

\* "all emulated threads blocked or suspended"
AllBlocked ==
    /\ status = "running"
    /\ Runnable = {}
    /\ status' = "blocked"
    /\ UNCHANGED <<threads, locks, current_thread_id>>

Finished == status # "running" /\ UNCHANGED vars

Next == Step \/ AllBlocked \/ Finished

Spec == Init /\ [][Next]_vars

-----------------------------------------------------------------------------
(* Properties *)

\* Every variable has the type of the Rust field or guest word it stands for.
TypeOK ==
    /\ n \in 1 .. MaxThreads
    /\ id \in [Indices -> Ids]
    /\ exited \in [Indices -> BOOLEAN]
    /\ joining \in [Indices -> Ids \cup {None}]
    /\ blocked_on_lock \in [Indices -> Locks \cup {None}]
    /\ cond_wait \in [Indices -> (Conds \X Mutexes) \cup {NoWait}]
    /\ owner \in [Locks -> Ids \cup {None}]
    /\ count \in [Mutexes -> Nat]
    /\ kind \in [Mutexes -> Kinds]
    /\ current_thread_id \in 0 .. n - 1
    /\ status \in {"running", "stopped", "blocked"}

\* No lost wake-up: a lock that somebody is parked on has an owner, whose
\* release will hand it over; only a normal mutex or an unfair lock can have
\* its own owner among the parked.
ParkedLocksAreHeld ==
    \A i \in Indices, l \in Locks : blocked_on_lock[i] = l =>
        /\ owner[l] # None
        /\ l \in Mutexes /\ kind[l] # "NORMAL" => owner[l] # id[i]

\* A thread waits for one thing at a time, and a thread that waits for a
\* condition does not hold the mutex that the signaller needs.
OneWait ==
    \A i \in Indices :
        /\ blocked_on_lock[i] # None => joining[i] = None /\ cond_wait[i] = NoWait /\ ~ exited[i]
        /\ cond_wait[i] # NoWait =>
             joining[i] = None /\ ~ exited[i] /\ owner[cond_wait[i][2]] # id[i]
        /\ exited[i] => joining[i] = None

\* The recursion count goes with the owner word, and only a recursive mutex
\* counts beyond 1.
CountMatchesOwner ==
    \A m \in Mutexes :
        /\ owner[m] = None <=> count[m] = 0
        /\ count[m] > 1 => kind[m] = "RECURSIVE"

\* pthread_join parks a thread only on another one that has still to finish,
\* so thread_exit will complete the call; and the run loop never looks for a
\* thread among threads that have all exited.
JoinedThreadsLive ==
    /\ \A i \in Indices : joining[i] # None =>
         \E j \in Indices : j < n /\ j # i /\ id[j] = joining[i] /\ ~ exited[j]
    /\ status # "stopped" => \E i \in Indices : i < n /\ ~ exited[i]

\* Ids tell the threads apart, and entries of the vector not in use wait for nothing.
UnusedIdle ==
    \A i \in Indices :
        /\ id[i] = i
        /\ i >= n => /\ ~ exited[i] /\ joining[i] = None
                     /\ blocked_on_lock[i] = None /\ cond_wait[i] = NoWait

\* Every parked thread waits for one thing, which a call of a thread that is still there
\* will give it: a lock that somebody holds as often as its count says, or a thread's end.
\* The conjunction is inductive.
ParkedInv ==
    /\ TypeOK
    /\ OneWait
    /\ ParkedLocksAreHeld
    /\ CountMatchesOwner
    /\ JoinedThreadsLive
    /\ UnusedIdle

\* A call that had to wait for a lock returns with the lock held, and a
\* condition wait returns only through that.
ReturnsHolding ==
    [][\A i \in Indices :
         /\ \A l \in Locks : blocked_on_lock[i] = l /\ blocked_on_lock'[i] # l => owner'[l] = id[i]
         /\ \A m \in Mutexes, c \in Conds :
              cond_wait[i] = <<c, m>> /\ cond_wait'[i] = NoWait =>
                owner'[m] = id[i] \/ blocked_on_lock'[i] = m]_vars

\* Bounded bypass: a mutex that only its owner can release (errorcheck or
\* recursive) comes closer to each waiter, in the order of the vector, with
\* every hand-over.
HandoverApproaches ==
    [][\A m \in Mutexes, i \in Indices :
         blocked_on_lock[i] = m /\ blocked_on_lock'[i] = m /\ kind[m] # "NORMAL"
           /\ owner'[m] # owner[m] /\ n' = n
         => Offset(i, owner'[m], n) < Offset(i, owner[m], n)]_vars
=============================================================================
