---------------------------- MODULE CritSections ----------------------------
(***************************************************************************)
(* Windows threads of one emulated process and their critical sections:    *)
(* ThreadContext, GlobalLocks, the kernel32 handlers that touch them, and  *)
(* the multi-threaded run loop.  A handler runs inside one instruction of  *)
(* the calling thread, so one step of the model is one call of             *)
(* step_multi_threaded: pick a thread, execute its instruction.            *)
(*                                                                         *)
(* The guest program is arbitrary: the picked thread may call any handler  *)
(* with any argument.  Thread ids are 0x1000 + index and no Windows thread *)
(* is ever removed, so the index stands for the id.                        *)
(***************************************************************************)
EXTENDS Scheduler, Sequences, FiniteSets

CONSTANTS
    MaxThreads,          \* bound: length emu.threads may reach
    CS,                  \* addresses of CRITICAL_SECTION objects
    MaxRecursion,        \* bound: recursive enters of one section
    MaxMillis,           \* bound: argument of Sleep and WaitForSingleObject
    short_circuit_sleep  \* cfg.short_circuit_sleep

None == -1

ASSUME CritSectionsAssumption ==
    /\ MaxThreads \in Nat \ {0}
    /\ CS \subseteq Nat
    /\ MaxRecursion \in Nat \ {0}
    /\ MaxMillis \in Nat
    /\ short_circuit_sleep \in BOOLEAN

Tids == 0 .. MaxThreads - 1

VARIABLES
    n,                  \* emu.threads.len()
    suspended,          \* ThreadContext.suspended, by thread
    sleep,              \* delay to ThreadContext.wake_tick, by thread
    blocked_on_cs,      \* ThreadContext.blocked_on_cs, by thread
    current_thread_id,  \* index of the thread that ran last
    crit_map,           \* GlobalLocks: [CS -> CritState]
    status              \* of the run loop: "running", "stopped", "blocked"

vars == <<n, suspended, sleep, blocked_on_cs, current_thread_id, crit_map, status>>

\* A section that was never entered has no entry in the code's map; an entry
\* that is free behaves the same.
CritState == [owner_tid : Tids \cup {None}, recursion_count : Nat, wait_queue : Seq(Tids)]

NewCritState == [owner_tid |-> None, recursion_count |-> 0, wait_queue |-> << >>]

\* ThreadContext::new; the entries from n on stand for threads to come.
Init ==
    /\ n = 1
    /\ suspended = [t \in Tids |-> FALSE]
    /\ sleep = [t \in Tids |-> 0]
    /\ blocked_on_cs = [t \in Tids |-> None]
    /\ current_thread_id = 0
    /\ crit_map = [cs \in CS |-> NewCritState]
    /\ status = "running"

-----------------------------------------------------------------------------
(* GlobalLocks *)

Member(q, t) == \E k \in DOMAIN q : q[k] = t
Distinct(q) == \A j, k \in DOMAIN q : q[j] = q[k] => j = k

Queued(s, tid) == Member(s.wait_queue, tid)

\* enter's Boolean result.
acquired(s, tid) == s.owner_tid \in {None, tid}

\* enter's effect: take a free section, recurse, or queue up once.
enter(s, tid) ==
    IF s.owner_tid = None THEN [s EXCEPT !.owner_tid = tid, !.recursion_count = 1]
    ELSE IF s.owner_tid = tid THEN [s EXCEPT !.recursion_count = @ + 1]
    ELSE IF Queued(s, tid) THEN s
    ELSE [s EXCEPT !.wait_queue = Append(@, tid)]

\* Bug: the thread that came last is served first (pop_back).
leave_serves_last(s, tid) ==
    IF s.owner_tid # tid THEN [state |-> s, wake |-> None]
    ELSE IF s.recursion_count > 1
    THEN [state |-> [s EXCEPT !.recursion_count = @ - 1], wake |-> None]
    ELSE IF s.wait_queue = << >> THEN [state |-> NewCritState, wake |-> None]
    ELSE LET last == s.wait_queue[Len(s.wait_queue)]
         IN  [state |-> [owner_tid |-> last, recursion_count |-> 1,
                         wait_queue |-> SubSeq(s.wait_queue, 1, Len(s.wait_queue) - 1)],
              wake  |-> last]

\* Bug: any thread may leave, as TryEnterCriticalSection's answer suggests.
leave_unowned(s, tid) ==
    IF s.wait_queue = << >> THEN [state |-> NewCritState, wake |-> None]
    ELSE [state |-> [owner_tid |-> Head(s.wait_queue), recursion_count |-> 1,
                     wait_queue |-> Tail(s.wait_queue)],
          wake  |-> Head(s.wait_queue)]

\* leave's effect and the thread it returns: undo one recursion, free the
\* section, or hand it over to the front of the queue.
leave(s, tid) ==
    IF s.owner_tid # tid THEN [state |-> s, wake |-> None]
    ELSE IF s.recursion_count > 1
    THEN [state |-> [s EXCEPT !.recursion_count = @ - 1], wake |-> None]
    ELSE IF s.wait_queue = << >>
    THEN [state |-> [s EXCEPT !.owner_tid = None, !.recursion_count = 0], wake |-> None]
    ELSE [state |-> [owner_tid |-> Head(s.wait_queue), recursion_count |-> 1,
                     wait_queue |-> Tail(s.wait_queue)],
          wake  |-> Head(s.wait_queue)]

-----------------------------------------------------------------------------
(* The handlers.  Each describes the instruction that thread t executes,   *)
(* "delay" ticks after the previous one.                                   *)

\* Every thread's sleep once "ticks" more have passed.
Elapsed(ticks) == [t \in Tids |-> Remaining(sleep[t], ticks)]

\* Bug: the caller queues up on every attempt and is not taken off the
\* processor, so it tries again.
EnterRetries(t, cs, delay) ==
    /\ Len(crit_map[cs].wait_queue) < MaxThreads
    /\ crit_map[cs].recursion_count < MaxRecursion
    /\ crit_map' = [crit_map EXCEPT ![cs] =
                       IF acquired(@, t) THEN enter(@, t)
                       ELSE [@ EXCEPT !.wait_queue = Append(@, t)]]
    /\ sleep' = Elapsed(delay + 1)
    /\ UNCHANGED <<n, suspended, blocked_on_cs, status>>

EnterCriticalSection(t, cs, delay) ==
    /\ crit_map[cs].owner_tid = t => crit_map[cs].recursion_count < MaxRecursion
    /\ crit_map' = [crit_map EXCEPT ![cs] = enter(@, t)]
    /\ \/ /\ acquired(crit_map[cs], t)
          /\ sleep' = Elapsed(delay + 1)
          /\ UNCHANGED blocked_on_cs
       \/ /\ ~ acquired(crit_map[cs], t)
          /\ sleep' = Elapsed(delay + 2)
          /\ blocked_on_cs' = [blocked_on_cs EXCEPT ![t] = cs]
    /\ UNCHANGED <<n, suspended, status>>

LeaveCriticalSection(t, cs, delay) ==
    LET left == leave(crit_map[cs], t)
    IN  /\ crit_map' = [crit_map EXCEPT ![cs] = left.state]
        /\ blocked_on_cs' = [u \in Tids |-> IF u = left.wake THEN None ELSE blocked_on_cs[u]]
        /\ sleep' = [u \in Tids |-> IF u = left.wake THEN 0 ELSE Remaining(sleep[u], delay + 1)]
        /\ UNCHANGED <<n, suspended, status>>

\* Bug: Sleep without the trailing advance_tick.
SleepKeepsClock(t, millis, delay) ==
    /\ sleep' = [Elapsed(delay) EXCEPT ![t] = millis]
    /\ UNCHANGED <<n, suspended, blocked_on_cs, crit_map, status>>

\* Sleep sets the caller's wake_tick and then moves the clock by the same
\* amount.  Sleep(0) moves it by 1 to 3 ticks (advance_tick).
Sleep(t, millis, delay) ==
    /\ \/ /\ short_circuit_sleep
          /\ sleep' = Elapsed(delay + 1)
       \/ /\ ~ short_circuit_sleep /\ millis = 0
          /\ \E variance \in 1 .. 3 : sleep' = Elapsed(delay + variance)
       \/ /\ ~ short_circuit_sleep /\ millis > 0
          /\ sleep' = [u \in Tids |-> IF u = t THEN Remaining(millis, millis)
                                     ELSE Remaining(sleep[u], delay + millis)]
    /\ UNCHANGED <<n, suspended, blocked_on_cs, crit_map, status>>

\* The new thread gets the next index; its entry point, stack and handle are
\* left out.
CreateThread(t, create_suspended, delay) ==
    /\ n < MaxThreads
    /\ n' = n + 1
    /\ suspended' = [suspended EXCEPT ![n] = create_suspended]
    /\ sleep' = [Elapsed(delay) EXCEPT ![n] = 0]
    /\ blocked_on_cs' = [blocked_on_cs EXCEPT ![n] = None]
    /\ UNCHANGED <<crit_map, status>>

\* The handle names a thread that CreateThread made.
ResumeThread(t, target, delay) ==
    /\ target \in 1 .. n - 1
    /\ suspended' = [suspended EXCEPT ![target] = FALSE]
    /\ sleep' = Elapsed(delay)
    /\ UNCHANGED <<n, blocked_on_cs, crit_map, status>>

\* emu.stop(): the run loop returns after this instruction.
ExitThread(t, delay) ==
    /\ sleep' = Elapsed(delay)
    /\ status' = "stopped"
    /\ UNCHANGED <<n, suspended, blocked_on_cs, crit_map>>

\* Instructions that at most move the clock: ordinary ones, SwitchToThread,
\* WaitForSingleObject, and TryEnterCriticalSection, which answers TRUE
\* without looking at the section.
OtherInstruction(t, delay) ==
    /\ \E millis \in 0 .. MaxMillis : sleep' = Elapsed(delay + millis)
    /\ UNCHANGED <<n, suspended, blocked_on_cs, crit_map, status>>

-----------------------------------------------------------------------------
(* The run loop *)

\* ThreadContext::is_runnable, "delay" ticks from now.
is_runnable(t, delay) ==
    /\ t < n
    /\ ~ suspended[t]
    /\ sleep[t] <= delay
    /\ blocked_on_cs[t] = None

Runnable(delay) == {t \in Tids : is_runnable(t, delay)}

\* The delays to the wake ticks that step_multi_threaded would try.
WakeDelays == {0} \cup {sleep[t] : t \in {u \in Tids : u < n /\ ~ suspended[u]}}
Ready == {d \in WakeDelays : Runnable(d) # {}}

Instruction(t, delay) ==
    \/ \E cs \in CS : EnterCriticalSection(t, cs, delay)
    \/ \E cs \in CS : LeaveCriticalSection(t, cs, delay)
    \/ \E millis \in 0 .. MaxMillis : Sleep(t, millis, delay)
    \/ \E create_suspended \in BOOLEAN : CreateThread(t, create_suspended, delay)
    \/ \E target \in Tids : ResumeThread(t, target, delay)
    \/ ExitThread(t, delay)
    \/ OtherInstruction(t, delay)

Step ==
    /\ status = "running"
    /\ \E t \in Tids, delay \in WakeDelays :
         /\ Waited(delay, Ready)
         /\ Picked(t, Runnable(delay), current_thread_id, n)
         /\ current_thread_id' = t
         /\ Instruction(t, delay)

\* No thread can run now or at any wake tick: the run loop returns the error
\* "all emulated threads blocked or suspended".
AllBlocked ==
    /\ status = "running"
    /\ Ready = {}
    /\ status' = "blocked"
    /\ UNCHANGED <<n, suspended, sleep, blocked_on_cs, current_thread_id, crit_map>>

\* The run loop has returned.
Finished == status # "running" /\ UNCHANGED vars

Next == Step \/ AllBlocked \/ Finished

Spec == Init /\ [][Next]_vars

\* The run loop does not pause between instructions: a thread whose turn has
\* come gets it.  Nothing is assumed of what the guest then executes.
FairSpec == Spec /\ WF_current_thread_id(Step)

-----------------------------------------------------------------------------
(* Properties *)

\* Every variable has the type of the Rust field it stands for.
TypeOK ==
    /\ n \in 1 .. MaxThreads
    /\ suspended \in [Tids -> BOOLEAN]
    /\ sleep \in [Tids -> Nat]
    /\ blocked_on_cs \in [Tids -> CS \cup {None}]
    /\ current_thread_id \in 0 .. n - 1
    /\ crit_map \in [CS -> CritState]
    /\ status \in {"running", "stopped", "blocked"}

\* The two records of who waits for whom agree: ThreadContext.blocked_on_cs,
\* which keeps a thread off the processor, names a section exactly when the
\* thread stands in that section's wait_queue, from which alone it is woken.
BlockedIffQueued ==
    \A cs \in CS, t \in Tids : blocked_on_cs[t] = cs <=> Queued(crit_map[cs], t)

\* No thread stands in a wait_queue twice: a second hand-over would make it
\* owner of a section it has already left.
QueuedOnce == \A cs \in CS : Distinct(crit_map[cs].wait_queue)

\* No lost wake-up: while somebody waits, somebody else owns the section and
\* can still hand it over; a section without an owner has no recursion left.
WaitersHaveOwner ==
    \A cs \in CS :
        /\ crit_map[cs].owner_tid = None <=> crit_map[cs].recursion_count = 0
        /\ crit_map[cs].wait_queue # << >> => crit_map[cs].owner_tid # None
        /\ ~ Queued(crit_map[cs], crit_map[cs].owner_tid)

\* Sleep moves the clock past the wake tick it has just set, so no Windows
\* thread is ever asleep when the scheduler looks.
NeverAsleep == \A t \in Tids : sleep[t] = 0

\* Entries of the thread table that are not in use wait for nothing.
UnusedUnblocked == \A t \in Tids : t >= n => blocked_on_cs[t] = None

\* The fields of the threads and the tables of the sections agree, so that leave wakes
\* every waiter.  The conjunction is inductive: each handler needs the others' part.
LockInv ==
    /\ TypeOK
    /\ BlockedIffQueued
    /\ QueuedOnce
    /\ WaitersHaveOwner
    /\ UnusedUnblocked

\* Bounded bypass: every instruction that another thread executes brings a
\* runnable thread closer to its turn (unless it adds a thread to the scan).
TurnApproaches ==
    [][\A t \in Runnable(0) :
         n' = n /\ current_thread_id' # t =>
         Offset(t, current_thread_id', n) < Offset(t, current_thread_id, n)]_vars

\* The run loop is fair: a thread that stays runnable executes again and again.
RunnableThreadsRun ==
    \A t \in Tids :
        <>[](status = "running" /\ t \in Runnable(0)) => []<>(current_thread_id = t)

\* Hand-over is first come, first served: as long as a section keeps changing
\* hands, every thread that waits for it comes to own it.
ChangesHands(cs) == crit_map'[cs].owner_tid # crit_map[cs].owner_tid
NoStarvation ==
    \A cs \in CS, t \in Tids :
        []<><<ChangesHands(cs)>>_vars =>
            (blocked_on_cs[t] = cs ~> crit_map[cs].owner_tid = t)

\* Nobody is left behind, neither by the scan of step_multi_threaded nor by the hand-over
\* of leave.
EveryThreadGetsOn == RunnableThreadsRun /\ NoStarvation

\* The promise to the guest, in terms of its calls alone.
depth == [t \in Tids |-> [cs \in CS |->
            IF crit_map[cs].owner_tid = t THEN crit_map[cs].recursion_count
            ELSE IF blocked_on_cs[t] = cs THEN 1 ELSE 0]]
waiting == blocked_on_cs
Promise == INSTANCE CritSectionsPromise

\* GlobalLocks and the handlers implement re-entrant mutual exclusion.
KeepsPromise == Promise!Spec
=============================================================================
