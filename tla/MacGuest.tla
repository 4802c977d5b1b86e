------------------------------ MODULE MacGuest ------------------------------
(***************************************************************************)
(* The condition variable fixture of the test suite on top of MacThreads:  *)
(* a producer and a consumer share a bounded queue, the main thread starts *)
(* and joins them.  What the program does is fixed, when it does it is     *)
(* not: before any of its calls a thread may execute other instructions.   *)
(* A thread may also wait with a timed wait, which returns spuriously.     *)
(*                                                                         *)
(* After every item each of the two counts it without the mutex, with the  *)
(* retry loop around exclusive instructions that compilers emit for atomic *)
(* counters: word 1 counts all items moved; the consumer counts its own in *)
(* word 2 as well, with one store of the pair.                             *)
(***************************************************************************)
EXTENDS MacThreads, Exclusive, Sequences

CONSTANTS
    CAP,    \* capacity of the queue
    ITEMS,  \* items to produce
    Pauses  \* bound: other instructions of each thread

ASSUME MacGuestAssumption == CAP \in Nat \ {0} /\ ITEMS \in Nat \ {0} /\ Pauses \in Nat

lock == 1
not_full == 1
not_empty == 2
consumer == 1
producer == 2

\* What the program needs: the three threads, the objects and the words named here.
Fixture ==
    /\ MaxThreads = 3
    /\ lock \in Mutexes /\ {not_full, not_empty} \subseteq Conds
    /\ {consumer, producer} \subseteq Users /\ {1, 2} \subseteq Words

VARIABLES
    pc,      \* next call of each thread
    buf,     \* the queue
    sent,    \* items that the producer has put in
    got,     \* items that the consumer has taken out
    pauses   \* pauses that each thread may still make

guest == <<pc, buf, sent, got, pauses, monitor>>

GuestInit ==
    /\ Init
    /\ MonitorInit
    /\ pc = [t \in Indices |-> IF t = 0 THEN "create" ELSE "lock"]
    /\ buf = <<>>
    /\ sent = 0
    /\ got = <<>>
    /\ pauses = [t \in Indices |-> Pauses]

Goto(t, label) == pc' = [pc EXCEPT ![t] = label]

Main(t) ==
    /\ t = 0
    /\ \/ /\ pc[t] = "create" /\ api_pthread_create(t)
          /\ Goto(t, IF n' = MaxThreads THEN "join producer" ELSE "create")
       \/ pc[t] = "join producer" /\ api_pthread_join(t, producer) /\ Goto(t, "join consumer")
       \/ pc[t] = "join consumer" /\ api_pthread_join(t, consumer) /\ Goto(t, "return")
       \/ pc[t] = "return" /\ end_process(t) /\ Goto(t, "ended")
    /\ UNCHANGED <<buf, sent, got, pauses, monitor>>

\* Whether the while loop around the wait has to go on.
MustWait(t) == IF t = producer THEN Len(buf) = CAP ELSE buf = <<>>
Awaits(t) == IF t = producer THEN not_full ELSE not_empty
Signals(t) == IF t = producer THEN not_empty ELSE not_full
Done(t) == IF t = producer THEN sent = ITEMS ELSE Len(got) = ITEMS

Lock(t) ==
    /\ pc[t] = "lock" /\ api_mutex_lock(t, lock) /\ Goto(t, "test")
    /\ UNCHANGED <<buf, sent, got, pauses, monitor>>

Test(t) ==
    /\ pc[t] = "test" /\ OtherInstruction(t)
    /\ Goto(t, IF MustWait(t) THEN "wait" ELSE "move")
    /\ UNCHANGED <<buf, sent, got, pauses, monitor>>

Wait(t) ==
    /\ pc[t] = "wait"
    /\ api_cond_wait(t, Awaits(t), lock) \/ api_cond_timedwait(t, lock)
    /\ Goto(t, "test")
    /\ UNCHANGED <<buf, sent, got, pauses, monitor>>

Move(t) ==
    /\ pc[t] = "move" /\ OtherInstruction(t) /\ Goto(t, "signal")
    /\ IF t = producer
       THEN /\ sent' = sent + 1
            /\ buf' = Append(buf, sent')
            /\ UNCHANGED got
       ELSE /\ got' = Append(got, Head(buf))
            /\ buf' = Tail(buf)
            /\ UNCHANGED sent
    /\ UNCHANGED <<pauses, monitor>>

Signal(t) ==
    /\ pc[t] = "signal" /\ api_cond_wake(t, Signals(t), FALSE) /\ Goto(t, "unlock")
    /\ UNCHANGED <<buf, sent, got, pauses, monitor>>

Unlock(t) ==
    /\ pc[t] = "unlock" /\ api_mutex_unlock(t, lock)
    /\ Goto(t, "load")
    /\ UNCHANGED <<buf, sent, got, pauses, monitor>>

Load(t) ==
    /\ pc[t] = "load" /\ OtherInstruction(t) /\ Goto(t, "store")
    /\ IF t = producer THEN load(t, 1) ELSE load_pair(t, 1)
    /\ UNCHANGED <<buf, sent, got, pauses>>

Store(t) ==
    \E ok \in BOOLEAN :
       /\ pc[t] = "store" /\ OtherInstruction(t)
       /\ IF t = producer THEN store(t, 1, loaded[t][1] + 1, ok)
          ELSE store_pair(t, 1, loaded[t][1] + 1, loaded[t][2] + 1, ok)
       /\ Goto(t, IF ~ ok THEN "load" ELSE IF Done(t) THEN "exit" ELSE "lock")
       /\ UNCHANGED <<buf, sent, got, pauses>>

Exit(t) ==
    /\ pc[t] = "exit" /\ thread_exit(t) /\ Goto(t, "ended")
    /\ UNCHANGED <<buf, sent, got, pauses, monitor>>

Pause(t) ==
    /\ pauses[t] > 0 /\ OtherInstruction(t)
    /\ pauses' = [pauses EXCEPT ![t] = @ - 1]
    /\ (t \in Users /\ CLREX(t)) \/ UNCHANGED monitor
    /\ UNCHANGED <<pc, buf, sent, got>>

GuestInstruction(t) ==
    \/ Main(t) \/ Pause(t)
    \/ t # 0 /\ (Lock(t) \/ Test(t) \/ Wait(t) \/ Move(t) \/ Signal(t) \/ Unlock(t)
               \/ Load(t) \/ Store(t) \/ Exit(t))

GuestStep ==
    \E t \in Indices : Scheduled(t) /\ GuestInstruction(t) /\ current_thread_id' = t

GuestNext == GuestStep \/ ((AllBlocked \/ Finished) /\ UNCHANGED guest)

\* The run loop keeps executing instructions.
GuestSpec == GuestInit /\ [][GuestNext]_<<vars, guest>> /\ WF_<<vars, guest>>(GuestStep)

Inside(t) == t # 0 /\ pc[t] \in {"test", "move", "signal", "wait", "unlock"} /\ is_runnable(t)

\* The mutex protects the queue: the consumer sees every item exactly once and
\* in order (the comment at the head of the condvar fixture), and only one
\* thread runs between lock and unlock.
EveryItemInOrder ==
    /\ got \o buf = [i \in 1 .. sent |-> i]
    /\ Len(buf) <= CAP
    /\ \A t, u \in Indices : Inside(t) /\ Inside(u) => t = u

\* Items a thread has moved and counted.
Counted(t) ==
    (IF t = producer THEN sent ELSE Len(got))
        - (IF pc[t] \in {"signal", "unlock", "load", "store"} THEN 1 ELSE 0)

\* A loop of an exclusive load and a store exclusive that repeats until the store reports
\* success is one atomic update, although threads switch after every instruction: no
\* count is lost or made twice, also where one word of a pair is written on its own.
NoCountLost ==
    word[1] = Counted(producer) + Counted(consumer) /\ word[2] = Counted(consumer)

\* No wake-up is lost: all items arrive, the joins return and the program ends
\* instead of blocking, also if a waiter wakes up spuriously again and again.
AllItemsArrive == <>(status = "stopped" /\ Len(got) = ITEMS)
=============================================================================
