----------------------------- MODULE LinuxGuest -----------------------------
(***************************************************************************)
(* A threaded C program on top of LinuxThreads: the main thread starts the *)
(* others with clone, every thread takes a lock a few times, and the main  *)
(* thread joins the others before it exits.  The lock is glibc's low-level *)
(* lock, the "while(xchg(lock,2)) futex_wait" loop that futex's comment    *)
(* refers to; join waits for the tid word that exit clears.                *)
(*                                                                         *)
(* What the program does is fixed, when it does it is not: before any of   *)
(* its instructions a thread may execute others, or yield.                 *)
(***************************************************************************)
EXTENDS LinuxThreads

CONSTANTS
    Rounds,  \* times each thread takes the lock
    Pauses   \* bound: other instructions and yields of each thread

ASSUME LinuxGuestAssumption == Rounds \in Nat \ {0} /\ Pauses \in Nat

lock == 1               \* the lock word
TidWord(t) == t + 1     \* the word that clone sets and exit clears, t > 0

VARIABLES
    pc,      \* next instruction of each thread
    left,    \* rounds that a thread still has to do
    pauses,  \* pauses that a thread may still make
    target,  \* the thread that the main thread joins
    seen     \* what the main thread last read from target's tid word

guest == <<pc, left, pauses, target, seen>>

GuestInit ==
    /\ Init
    /\ pc = [t \in Tids |-> IF t = 0 THEN "spawn" ELSE "cas"]
    /\ left = [t \in Tids |-> Rounds]
    /\ pauses = [t \in Tids |-> Pauses]
    /\ target = 1
    /\ seen = 0

Goto(t, label) == pc' = [pc EXCEPT ![t] = label]

Spawn(t, delay) ==
    /\ pc[t] = "spawn"
    /\ clone(t, FALSE, TidWord(n), TidWord(n), TRUE, TRUE, delay)
    /\ Goto(t, IF n' = MaxThreads THEN "cas" ELSE "spawn")
    /\ UNCHANGED <<left, pauses, target, seen>>

\* cmpxchg(lock, 0, 1), then xchg(lock, 2) until the lock was free.
Cas(t, delay) ==
    /\ pc[t] = "cas"
    /\ \/ mem[lock] = 0 /\ Store(t, lock, 1, delay) /\ Goto(t, "unlock")
       \/ mem[lock] # 0 /\ OtherInstruction(t, delay) /\ Goto(t, "xchg")
    /\ UNCHANGED <<left, pauses, target, seen>>

Xchg(t, delay) ==
    /\ pc[t] = "xchg"
    /\ Store(t, lock, 2, delay)
    /\ Goto(t, IF mem[lock] = 0 THEN "unlock" ELSE "wait")
    /\ UNCHANGED <<left, pauses, target, seen>>

\* The wait may have a timeout, as in pthread_mutex_timedlock.
Wait(t, delay) ==
    /\ pc[t] = "wait"
    /\ \E timeout \in BOOLEAN : futex_wait(t, lock, 2, timeout, delay)
    /\ Goto(t, "xchg")
    /\ UNCHANGED <<left, pauses, target, seen>>

NextRound(t) ==
    IF left[t] > 1 THEN "cas" ELSE IF t = 0 /\ MaxThreads > 1 THEN "load" ELSE "exit"

\* xchg(lock, 0); a 2 there means that somebody may be waiting.
Unlock(t, delay) ==
    /\ pc[t] = "unlock"
    /\ Store(t, lock, 0, delay)
    /\ left' = [left EXCEPT ![t] = @ - 1]
    /\ Goto(t, IF mem[lock] = 2 THEN "wake" ELSE NextRound(t))
    /\ UNCHANGED <<pauses, target, seen>>

Wakeup(t, delay) ==
    /\ pc[t] = "wake"
    /\ futex_wake(t, lock, 1, delay)
    /\ Goto(t, IF left[t] > 0 THEN "cas" ELSE IF t = 0 THEN "load" ELSE "exit")
    /\ UNCHANGED <<left, pauses, target, seen>>

\* pthread_join: read the tid word, and wait for it to change unless it is 0.
Load(t, delay) ==
    /\ pc[t] = "load"
    /\ OtherInstruction(t, delay)
    /\ seen' = mem[TidWord(target)]
    /\ \/ seen' # 0 /\ Goto(t, "join") /\ UNCHANGED target
       \/ seen' = 0 /\ target < MaxThreads - 1 /\ target' = target + 1 /\ UNCHANGED pc
       \/ seen' = 0 /\ target = MaxThreads - 1 /\ Goto(t, "exit") /\ UNCHANGED target
    /\ UNCHANGED <<left, pauses>>

Join(t, delay) ==
    /\ pc[t] = "join"
    /\ futex_wait(t, TidWord(target), seen, FALSE, delay)
    /\ Goto(t, "load")
    /\ UNCHANGED <<left, pauses, target, seen>>

Exit(t, delay) ==
    /\ pc[t] = "exit"
    /\ exit_thread(t, delay)
    /\ Goto(t, "ended")
    /\ UNCHANGED <<left, pauses, target, seen>>

Pause(t, delay) ==
    /\ pauses[t] > 0
    /\ pauses' = [pauses EXCEPT ![t] = @ - 1]
    /\ OtherInstruction(t, delay) \/ sched_yield(t, delay)
    /\ UNCHANGED <<pc, left, target, seen>>

GuestInstruction(t, delay) ==
    \/ Spawn(t, delay) \/ Cas(t, delay) \/ Xchg(t, delay) \/ Wait(t, delay)
    \/ Unlock(t, delay) \/ Wakeup(t, delay) \/ Load(t, delay) \/ Join(t, delay)
    \/ Exit(t, delay) \/ Pause(t, delay)

GuestStep ==
    \E t \in Tids, delay \in WakeDelays : Scheduled(t, delay) /\ GuestInstruction(t, delay)

GuestNext == GuestStep \/ ((AllBlocked \/ Finished) /\ UNCHANGED guest)

\* The run loop keeps executing instructions; the program does not loop in
\* its pauses.
GuestSpec == GuestInit /\ [][GuestNext]_<<vars, guest>> /\ WF_<<vars, guest>>(GuestStep)

\* The lock excludes: at most one thread is between taking and releasing it,
\* although futex itself frees the word of a thread it believes to be alone.
LockExcludes == \A t, u \in Tids : pc[t] = "unlock" /\ pc[u] = "unlock" => t = u

\* No wake-up is lost: every thread gets the lock as often as it wants, the
\* joins return, and the program ends instead of blocking in the run loop.
ProgramEnds == <>(status = "stopped" /\ \A t \in Tids : t > 0 => suspended[t])
=============================================================================
