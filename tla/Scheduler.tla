------------------------------ MODULE Scheduler ------------------------------
(***************************************************************************)
(* The choice Emu::step_multi_threaded makes before every instruction, as  *)
(* operators that the Windows, Linux and macOS thread models share.        *)
(*                                                                         *)
(* A thread is an index 0 .. n-1 into emu.threads.  Time is relative: for  *)
(* a thread the models keep the number of ticks still to go until its      *)
(* wake_tick (0 when wake_tick <= tick), never the clock itself, so a      *)
(* model that runs for ever still has finitely many states.                *)
(***************************************************************************)
EXTENDS Integers

\* How many threads come before i in the scan (current + 1) % n, (current + 2)
\* % n, ... that ends with the current thread itself.
Offset(i, current, n) == IF i > current THEN i - current - 1 ELSE i - current - 1 + n

\* Bug: the policy of the unused ThreadScheduler::step_with_scheduling, which
\* stays with the current thread for as long as that one is runnable.
PickedKeepsCurrent(i, runnable, current, n) ==
    /\ i \in runnable
    /\ IF current \in runnable THEN i = current
       ELSE \A j \in runnable : Offset(i, current, n) <= Offset(j, current, n)

\* step_multi_threaded executes the first runnable thread of that scan.
Picked(i, runnable, current, n) ==
    /\ i \in runnable
    /\ \A j \in runnable : Offset(i, current, n) <= Offset(j, current, n)

\* How long a step waits before it executes an instruction.  "ready" holds
\* the delays after which a thread is runnable, out of 0 and the delays to
\* the wake ticks of threads that are not suspended: when nothing is
\* runnable the step moves the tick to the nearest wake tick and starts over.
Waited(delay, ready) == delay \in ready /\ \A d \in ready : delay <= d

\* What is left of a delay d once e ticks have passed.
Remaining(d, e) == IF d > e THEN d - e ELSE 0
=============================================================================
