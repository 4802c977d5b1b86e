---------------------------- MODULE LinuxThreads ----------------------------
(***************************************************************************)
(* Threads of an emulated 64-bit Linux process: the clone, futex, exit,    *)
(* execve, sched_yield and set_tid_address system calls on the scheduler   *)
(* that CritSections also uses.  The guest is arbitrary: the picked thread *)
(* makes any of these calls, or stores a value in a word of memory.        *)
(*                                                                         *)
(* Only what futex and the tid words touch of memory is kept: a few words  *)
(* with a few values.  A tid is written to memory as index + 1.            *)
(***************************************************************************)
EXTENDS Scheduler, FiniteSets

CONSTANTS
    MaxThreads,  \* bound: length emu.threads may reach
    Words,       \* addresses of 32-bit words used as futexes and tid words
    Values       \* values that the guest stores

None == -1

ASSUME LinuxThreadsAssumption ==
    /\ MaxThreads \in Nat \ {0}
    /\ Words \subseteq Nat \ {0}
    /\ Values \subseteq Nat

Tids == 0 .. MaxThreads - 1

\* VFORK_WAIT_KEY | tid: no user mapping lives there.
VforkKey(t) == -2 - t

VARIABLES
    n,                  \* emu.threads.len()
    suspended,          \* ThreadContext.suspended: the thread has ended
    sleep,              \* delay to ThreadContext.wake_tick
    blocked_on,         \* ThreadContext.blocked_on_cs: a word or a vfork key
    clear_child_tid,    \* ThreadContext.clear_child_tid, 0 when unset
    mem,                \* [Words -> value]
    current_thread_id,
    status              \* of the run loop: "running", "stopped", "blocked"

threads == <<n, suspended, sleep, blocked_on, clear_child_tid>>
vars == <<threads, mem, current_thread_id, status>>

Init ==
    /\ n = 1
    /\ suspended = [t \in Tids |-> FALSE]
    /\ sleep = [t \in Tids |-> 0]
    /\ blocked_on = [t \in Tids |-> None]
    /\ clear_child_tid = [t \in Tids |-> 0]
    /\ mem = [w \in Words |-> 0]
    /\ current_thread_id = 0
    /\ status = "running"

-----------------------------------------------------------------------------
(* Helpers of thread.rs *)

Elapsed(delay) == [t \in Tids |-> Remaining(sleep[t], delay)]

\* Bug: only the threads that can run at once are counted.
LiveSkipsWaiting ==
    {t \in Tids : t < n /\ ~ suspended[t] /\ blocked_on[t] = None /\ sleep[t] = 0}

\* live_threads: an ended thread stays in the vector, suspended.
Live == {t \in Tids : t < n /\ ~ suspended[t]}
OthersLive == Cardinality(Live) > 1

Waiters(key) == {u \in Tids : u < n /\ blocked_on[u] = key}

\* wake_waiters goes through the vector from the front and stops after max.
Woken(key, max) ==
    {u \in Waiters(key) : Cardinality({v \in Waiters(key) : v < u}) < max}

\* A woken thread has blocked_on_cs = None and wake_tick = 0.
Wake(woken, delay) ==
    /\ blocked_on' = [u \in Tids |-> IF u \in woken THEN None ELSE blocked_on[u]]
    /\ sleep' = [u \in Tids |-> IF u \in woken THEN 0 ELSE Remaining(sleep[u], delay)]

\* yield_current: parked until every other thread is blocked or parked too.
yield_current(t, delay) ==
    \/ OthersLive /\ sleep' = [Elapsed(delay) EXCEPT ![t] = 1]
    \/ ~ OthersLive /\ sleep' = Elapsed(delay)

\* Bug: the vfork parent is forgotten.
retire_without_vfork(t, delay) ==
    /\ suspended' = [suspended EXCEPT ![t] = TRUE]
    /\ mem' = [w \in Words |-> IF w = clear_child_tid[t] THEN 0 ELSE mem[w]]
    /\ Wake(Waiters(clear_child_tid[t]), delay)
    /\ UNCHANGED <<n, clear_child_tid, status>>

\* retire_current_thread: clear and wake the tid word, release the vfork
\* parent, and suspend for good.
retire_current_thread(t, delay) ==
    /\ suspended' = [suspended EXCEPT ![t] = TRUE]
    /\ mem' = [w \in Words |-> IF w = clear_child_tid[t] THEN 0 ELSE mem[w]]
    /\ Wake(Waiters(VforkKey(t)) \cup
              {u \in Waiters(clear_child_tid[t]) : clear_child_tid[t] # 0}, delay)
    /\ UNCHANGED <<n, clear_child_tid, status>>

-----------------------------------------------------------------------------
(* System calls: the instruction that thread t executes, "delay" ticks     *)
(* after the previous one.                                                 *)

\* clone with CLONE_VM.  parent_tid, child_tid: word or 0; the flags say which
\* of CLONE_CHILD_SETTID and CLONE_CHILD_CLEARTID go with child_tid.
clone(t, vfork, parent_tid, child_tid, settid, cleartid, delay) ==
    /\ n < MaxThreads
    /\ n' = n + 1
    /\ suspended' = [suspended EXCEPT ![n] = FALSE]
    /\ sleep' = [Elapsed(delay) EXCEPT ![n] = 0]
    /\ blocked_on' = [u \in Tids |-> IF u = n THEN None
                                    ELSE IF u = t /\ vfork THEN VforkKey(n)
                                    ELSE blocked_on[u]]
    /\ clear_child_tid' = [clear_child_tid EXCEPT ![n] = IF cleartid THEN child_tid ELSE 0]
    /\ mem' = [w \in Words |->
                 IF w = parent_tid \/ (settid /\ w = child_tid) THEN n + 1 ELSE mem[w]]
    /\ UNCHANGED status

\* Bug: the caller is blocked without a look at the word.
futex_wait_unchecked(t, uaddr, val, timeout, delay) ==
    /\ blocked_on' = [blocked_on EXCEPT ![t] = uaddr]
    /\ sleep' = Elapsed(delay)
    /\ UNCHANGED <<n, suspended, clear_child_tid, mem, status>>

\* FUTEX_WAIT.  A lone thread that would wait for ever drops the lock instead.
futex_wait(t, uaddr, val, timeout, delay) ==
    /\ \/ /\ mem[uaddr] # val                                 \* EAGAIN
          /\ sleep' = Elapsed(delay)
          /\ UNCHANGED <<blocked_on, mem>>
       \/ /\ mem[uaddr] = val /\ ~ OthersLive
          /\ mem' = [mem EXCEPT ![uaddr] = 0]
          /\ sleep' = Elapsed(delay)
          /\ UNCHANGED blocked_on
       \/ /\ mem[uaddr] = val /\ OthersLive /\ timeout
          /\ yield_current(t, delay)
          /\ UNCHANGED <<blocked_on, mem>>
       \/ /\ mem[uaddr] = val /\ OthersLive /\ ~ timeout
          /\ blocked_on' = [blocked_on EXCEPT ![t] = uaddr]
          /\ sleep' = Elapsed(delay)
          /\ UNCHANGED mem
    /\ UNCHANGED <<n, suspended, clear_child_tid, status>>

\* Bug: FUTEX_WAKE takes whoever is blocked.
futex_wake_any(t, uaddr, val, delay) ==
    /\ Wake({u \in Tids : blocked_on[u] # None}, delay)
    /\ UNCHANGED <<n, suspended, clear_child_tid, mem, status>>

futex_wake(t, uaddr, val, delay) ==
    /\ Wake(Woken(uaddr, val), delay)
    /\ UNCHANGED <<n, suspended, clear_child_tid, mem, status>>

\* exit_group, and exit of the last live thread: emu.stop().
handle_syscall64_exit(t, delay) ==
    /\ sleep' = Elapsed(delay)
    /\ status' = "stopped"
    /\ UNCHANGED <<n, suspended, blocked_on, clear_child_tid, mem>>

exit_thread(t, delay) ==
    \/ OthersLive /\ retire_current_thread(t, delay)
    \/ ~ OthersLive /\ handle_syscall64_exit(t, delay)

\* Bug: an instruction takes a tick, as kernel32 calls do.
OtherInstructionTicks(t, delay) ==
    /\ sleep' = Elapsed(delay + 1)
    /\ UNCHANGED <<n, suspended, blocked_on, clear_child_tid, mem, status>>

\* Ordinary instructions and the calls that leave the threads alone (clone
\* without CLONE_VM, gettid, dup3, other futex operations).
OtherInstruction(t, delay) ==
    /\ sleep' = Elapsed(delay)
    /\ UNCHANGED <<n, suspended, blocked_on, clear_child_tid, mem, status>>

\* In a vfork child execve ends the thread; elsewhere it only returns 0.
execve(t, delay) ==
    \/ Waiters(VforkKey(t)) # {} /\ retire_current_thread(t, delay)
    \/ Waiters(VforkKey(t)) = {} /\ OtherInstruction(t, delay)

set_tid_address(t, ptr, delay) ==
    /\ clear_child_tid' = [clear_child_tid EXCEPT ![t] = ptr]
    /\ sleep' = Elapsed(delay)
    /\ UNCHANGED <<n, suspended, blocked_on, mem, status>>

\* sched_yield, epoll_wait, nanosleep.
sched_yield(t, delay) ==
    /\ yield_current(t, delay)
    /\ UNCHANGED <<n, suspended, blocked_on, clear_child_tid, mem, status>>

\* A store by the guest, or by a call such as wait4 on the guest's behalf.
Store(t, w, v, delay) ==
    /\ mem' = [mem EXCEPT ![w] = v]
    /\ sleep' = Elapsed(delay)
    /\ UNCHANGED <<n, suspended, blocked_on, clear_child_tid, status>>

-----------------------------------------------------------------------------
(* The run loop *)

\* ThreadContext::is_runnable, "delay" ticks from now.
is_runnable(t, delay) ==
    t < n /\ ~ suspended[t] /\ sleep[t] <= delay /\ blocked_on[t] = None

Runnable(delay) == {t \in Tids : is_runnable(t, delay)}

WakeDelays == {0} \cup {sleep[t] : t \in Live}
Ready == {d \in WakeDelays : Runnable(d) # {}}

Instruction(t, delay) ==
    \/ \E vfork, settid, cleartid \in BOOLEAN, parent_tid \in Words \cup {0}, child_tid \in Words :
         clone(t, vfork, parent_tid, child_tid, settid, cleartid, delay)
    \/ \E uaddr \in Words, val \in Values, timeout \in BOOLEAN :
         futex_wait(t, uaddr, val, timeout, delay)
    \/ \E uaddr \in Words, val \in Values : futex_wake(t, uaddr, val, delay)
    \/ handle_syscall64_exit(t, delay)
    \/ exit_thread(t, delay)
    \/ execve(t, delay)
    \/ \E ptr \in Words \cup {0} : set_tid_address(t, ptr, delay)
    \/ sched_yield(t, delay)
    \/ \E w \in Words, v \in Values : Store(t, w, v, delay)
    \/ OtherInstruction(t, delay)

\* Thread t is the one to run next, after "delay" ticks.
Scheduled(t, delay) ==
    /\ status = "running"
    /\ Waited(delay, Ready)
    /\ Picked(t, Runnable(delay), current_thread_id, n)
    /\ current_thread_id' = t

Step == \E t \in Tids, delay \in WakeDelays : Scheduled(t, delay) /\ Instruction(t, delay)

\* "all emulated threads blocked or suspended"
AllBlocked ==
    /\ status = "running"
    /\ Ready = {}
    /\ status' = "blocked"
    /\ UNCHANGED <<threads, mem, current_thread_id>>

Finished == status # "running" /\ UNCHANGED vars

Next == Step \/ AllBlocked \/ Finished

Spec == Init /\ [][Next]_vars

-----------------------------------------------------------------------------
(* Properties *)

\* Every variable has the type of the Rust field it stands for.
TypeOK ==
    /\ n \in 1 .. MaxThreads
    /\ suspended \in [Tids -> BOOLEAN]
    /\ sleep \in [Tids -> Nat]
    /\ blocked_on \in [Tids -> Words \cup {None} \cup {VforkKey(t) : t \in Tids}]
    /\ clear_child_tid \in [Tids -> Words \cup {0}]
    /\ mem \in [Words -> Nat]
    /\ current_thread_id \in 0 .. n - 1
    /\ status \in {"running", "stopped", "blocked"}

\* A vfork parent waits for a younger thread that has not ended, and no two
\* wait for the same one: its release is still to come, and chains of vforks
\* have no cycle.
VforkChildAlive ==
    \A p, c \in Tids : blocked_on[p] = VforkKey(c) =>
        /\ p < c /\ c < n
        /\ ~ suspended[c]
        /\ \A q \in Tids : blocked_on[q] = VforkKey(c) => q = p

\* Parent and vfork child share a stack: the parent does not run again before
\* the child has ended.
VforkParentWaits ==
    [][\A p, c \in Tids :
         blocked_on[p] = VforkKey(c) /\ blocked_on'[p] # VforkKey(c) => suspended'[c]]_vars

\* yield_current parks "until all others are blocked or sleeping": a parked
\* thread becomes ready only in a step that found nothing runnable.
YieldIsLowestPriority ==
    [][\A t \in Tids : sleep[t] > 0 /\ sleep'[t] < sleep[t] => Runnable(0) = {}]_vars

\* Threads that have ended, and entries not in use, wait for nothing; a blocked
\* thread has no wake tick that a wake-up could bring forward.
IdleUnblocked ==
    \A t \in Tids :
        /\ suspended[t] => blocked_on[t] = None
        /\ t >= n => ~ suspended[t] /\ blocked_on[t] = None /\ sleep[t] = 0
        /\ blocked_on[t] # None => sleep[t] = 0

\* Whoever sleeps on a key will be released: retire_current_thread releases the parent
\* of a vfork, and what it and futex wake has no other wait left.  This is inductive.
WaitInv == TypeOK /\ VforkChildAlive /\ IdleUnblocked
=============================================================================
