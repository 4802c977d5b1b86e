------------------------- MODULE CritSectionsPromise -------------------------
(***************************************************************************)
(* What the guest is promised of EnterCriticalSection and                  *)
(* LeaveCriticalSection: re-entrant mutual exclusion.  The state is what a *)
(* guest can tell from its own calls: how often each thread has entered    *)
(* each section without leaving it, and which call has not returned yet.   *)
(* Which waiter is served next is left open.                               *)
(***************************************************************************)
EXTENDS Integers

CONSTANTS Tids, CS, None

VARIABLES
    depth,   \* [Tids -> [CS -> Nat]]: enters minus leaves
    waiting  \* [Tids -> CS \cup {None}]: the section whose enter has not returned

vars == <<depth, waiting>>

Init ==
    /\ depth = [t \in Tids |-> [cs \in CS |-> 0]]
    /\ waiting = [t \in Tids |-> None]

\* t is inside cs: some enter of it has returned and is not undone.
Inside(t, cs) == depth[t][cs] > 0 /\ waiting[t] # cs

Enter(t, cs) ==
    /\ waiting[t] = None
    /\ depth' = [depth EXCEPT ![t][cs] = @ + 1]
    /\ waiting' = [waiting EXCEPT ![t] =
                     IF \E u \in Tids \ {t} : Inside(u, cs) THEN cs ELSE None]

\* The last leave lets exactly one waiter in, if there is any.
Leave(t, cs) ==
    /\ waiting[t] = None
    /\ depth[t][cs] > 0
    /\ depth' = [depth EXCEPT ![t][cs] = @ - 1]
    /\ IF depth[t][cs] = 1 /\ \E u \in Tids : waiting[u] = cs
       THEN \E u \in Tids : waiting[u] = cs /\ waiting' = [waiting EXCEPT ![u] = None]
       ELSE UNCHANGED waiting

Next == \E t \in Tids, cs \in CS : Enter(t, cs) \/ Leave(t, cs)

Spec == Init /\ [][Next]_vars

\* At most one thread is inside a section.
MutualExclusion ==
    \A cs \in CS : \A t, u \in Tids : Inside(t, cs) /\ Inside(u, cs) => t = u
=============================================================================
