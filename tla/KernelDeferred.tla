--------------------------- MODULE KernelDeferred ---------------------------
(***************************************************************************)
(* Callbacks of a kernel driver: work items, timers and RCU callbacks that *)
(* a driver function queues, and the calls with which the emulator enters  *)
(* driver code, from outside (module init, an ioctl) or from within the    *)
(* handler of a kernel function that a driver function called: flush_work, *)
(* del_timer_sync and the like run what is queued, and kref_put calls the  *)
(* release function.  Such a call is a nested run of the emulator that     *)
(* ends on the return pad, the return address of every such call.          *)
(*                                                                         *)
(* A driver function is any sequence of at most MaxOps of these kernel     *)
(* calls, then ret; which function it is makes no difference.  Everything  *)
(* else that a driver does, and its stack, are left out.                   *)
(***************************************************************************)
EXTENDS Integers, Sequences, FiniteSets, SequencesExt

CONSTANTS
    MAX_ROUNDS,      \* callbacks that one drain runs at most
    MAX_CALL_DEPTH,  \* nested host calls
    MaxOps,          \* bound: kernel calls in one run of a driver function
    MaxDeferred      \* bound: callbacks in the queue

ASSUME KernelDeferredAssumption ==
    /\ MAX_ROUNDS \in Nat /\ MAX_CALL_DEPTH \in Nat \ {0}
    /\ MaxOps \in Nat /\ MaxDeferred \in Nat

VARIABLES
    host,      \* the host's stack, innermost last
    rip,       \* where the guest is
    deferred   \* number of queued callbacks

vars == <<host, rip, deferred>>

\* The guest is on the return pad, or in a driver function that has made ops kernel
\* calls; callee says whether that is the function of the innermost host call.
retpad == [at |-> "retpad"]
Code(ops, callee) == [at |-> "driver", ops |-> ops, callee |-> callee]

\* run_host_call and kernel_run_deferred on the host's stack.  Of a host call, returned
\* says whether its function came to its ret, and nested whether a kernel function that
\* it called made a host call in its turn.
Call == [is |-> "call", returned |-> FALSE, nested |-> FALSE]
Drain == [is |-> "drain", rounds |-> MAX_ROUNDS]

Idle == host = <<>>
InGuest == ~ Idle /\ Last(host).is = "call"
Draining == ~ Idle /\ Last(host).is = "drain"
Calls(h) == {i \in DOMAIN h : h[i].is = "call"}
call_depth == Cardinality(Calls(host))

Init ==
    /\ host = <<>>
    /\ rip = retpad
    /\ deferred = 0

\* The host call that a handler is in, if any, has made one itself.
Nesting(h) ==
    [i \in DOMAIN h |->
        IF i \in Calls(h) /\ \A j \in Calls(h) : j <= i THEN [h[i] EXCEPT !.nested = TRUE] ELSE h[i]]

\* Bug: the outermost entry is counted twice.
BugEarlyLimit(h) ==
    IF call_depth + 1 < MAX_CALL_DEPTH
    THEN rip' = Code(0, TRUE) /\ host' = Append(Nesting(h), Call)
    ELSE rip' = Code(0, FALSE) /\ host' = Nesting(h)

\* At the depth limit the call fails, after rip was set to the function.
kernel_call(h) ==
    \/ /\ call_depth < MAX_CALL_DEPTH
       /\ rip' = Code(0, TRUE)
       /\ host' = Append(Nesting(h), Call)
    \/ /\ call_depth >= MAX_CALL_DEPTH
       /\ rip' = Code(0, FALSE)
       /\ host' = Nesting(h)

-----------------------------------------------------------------------------
(* The driver calls a kernel function; kernel_set_pc returns behind the    *)
(* call before the handler does its work.                                  *)

KernelFunction ==
    /\ InGuest
    /\ rip.at = "driver"
    /\ rip.ops < MaxOps

\* Bug: the return address is not consumed; the run goes on at the return pad.
BugBehind == retpad

Behind == Code(rip.ops + 1, rip.callee)

\* queue_work, mod_timer, call_rcu
kernel_defer ==
    /\ KernelFunction
    /\ deferred < MaxDeferred
    /\ deferred' = deferred + 1
    /\ rip' = Behind
    /\ UNCHANGED host

\* flush_work, del_timer and the like
Flush ==
    /\ KernelFunction
    /\ host' = Append(host, Drain)
    /\ rip' = Behind
    /\ UNCHANGED deferred

\* The last reference is dropped; otherwise kref_put only counts.
kref_put ==
    /\ KernelFunction
    /\ kernel_call(host)
    /\ UNCHANGED deferred

\* The function's ret pops the return pad.
Ret ==
    /\ InGuest
    /\ rip.at = "driver"
    /\ rip' = retpad
    /\ host' = [host EXCEPT ![Len(host)].returned = rip.callee]
    /\ UNCHANGED deferred

-----------------------------------------------------------------------------
(* The host *)

\* The innermost run is on its return address.
EndOfRun ==
    /\ InGuest
    /\ rip = retpad
    /\ host' = Front(host)
    /\ UNCHANGED <<rip, deferred>>

\* Bug: a callback does not count as a round.
BugSpent(h) == h

Spent(h) == [h EXCEPT ![Len(h)].rounds = @ - 1]

RunCallback ==
    /\ Draining
    /\ Last(host).rounds > 0
    /\ deferred > 0
    /\ deferred' = deferred - 1
    /\ kernel_call(Spent(host))

EndOfDrain ==
    /\ Draining
    /\ Last(host).rounds = 0 \/ deferred = 0
    /\ host' = Front(host)
    /\ UNCHANGED <<rip, deferred>>

\* run_module_init, run_module_exit, call_module_symbol
CallModule ==
    /\ Idle
    /\ kernel_call(host)
    /\ UNCHANGED deferred

kernel_run_deferred ==
    /\ Idle
    /\ host' = <<Drain>>
    /\ UNCHANGED <<rip, deferred>>

Step == kernel_defer \/ Flush \/ kref_put \/ Ret \/ EndOfRun \/ RunCallback \/ EndOfDrain
Next == Step \/ CallModule \/ kernel_run_deferred

\* The emulator runs on until the outermost call or drain is done.
Spec == Init /\ [][Next]_vars /\ WF_vars(Step)

-----------------------------------------------------------------------------

TypeOK ==
    /\ \A i \in DOMAIN host :
          host[i] \in [is : {"call"}, returned : BOOLEAN, nested : BOOLEAN]
                       \union [is : {"drain"}, rounds : 0 .. MAX_ROUNDS]
    /\ rip \in {retpad} \union {Code(ops, callee) : ops \in 0 .. MaxOps, callee \in BOOLEAN}
    /\ deferred \in 0 .. MaxDeferred
    /\ call_depth <= MAX_CALL_DEPTH

\* A run ends before its function came to its ret exactly if a kernel function that it
\* called made a host call: the nested call leaves rip on the pad that ends both runs.
CutShortIffNested ==
    InGuest /\ rip = retpad => (Last(host).returned <=> ~ Last(host).nested)

\* Only at the depth limit does a drain go past a callback without running it: there
\* rip is on the callback that failed last, which runs when the drain ends, and the
\* next failing call overwrites it.
SkipsOnlyAtLimit ==
    Draining /\ rip = Code(0, FALSE) => call_depth = MAX_CALL_DEPTH

\* Host calls never nest deeper than run_host_call allows, and short of that no callback
\* is lost.
LimitsHold == TypeOK /\ SkipsOnlyAtLimit

\* No driver function entered by a drain or by a handler makes host calls itself.
SimpleCallbacks == \A i \in Calls(host) : host[i].nested => i = 1

\* MAX_ROUNDS does what it is for: even if every callback queues itself again, a call
\* into the driver, or a drain, comes to its end, as long as callbacks do not drain.
\* (A callback that queues itself and drains at the depth limit goes on for ever.)
EntriesEnd == []SimpleCallbacks => (~ Idle ~> Idle)

\* The code says that kernel_call returns to the pad "so the callee's `ret` lands on a
\* mapped address that ends the run cleanly": a run ends when its function returns.
RunsToItsRet == InGuest /\ rip = retpad => Last(host).returned
=============================================================================
