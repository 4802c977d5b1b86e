------------------------------ MODULE LinuxWait ------------------------------
(***************************************************************************)
(* LinuxThreads with the wait4 system call.  "reported" is the tid that    *)
(* the last instruction returned from wait4, or None, and "named" whether  *)
(* the caller had asked for that child.                                    *)
(***************************************************************************)
EXTENDS LinuxThreads

VARIABLES reported, named

WaitInit == Init /\ reported = None /\ named = FALSE

\* Bug: the last thread of the vector, ended or not.
BugEnded == {u \in Tids : u < n}

Ended == {u \in Tids : u < n /\ suspended[u]}

\* pid > 0 names a child of the caller, which clone made after the caller, and
\* is returned as it is; any other pid stands for the last thread of the vector
\* that has ended, if there is one (the made-up pid 1001 is None here).  The
\* status word is set to 0.
wait4(t, pid, status_ptr, delay) ==
    /\ \/ pid \in t + 1 .. n - 1 /\ reported' = pid /\ named' = TRUE
       \/ /\ pid = None
          /\ reported' = IF Ended = {} THEN None
                         ELSE CHOOSE u \in Ended : \A v \in Ended : v <= u
          /\ named' = FALSE
    /\ \/ status_ptr # 0 /\ Store(t, status_ptr, 0, delay)
       \/ status_ptr = 0 /\ OtherInstruction(t, delay)

WaitStep ==
    \E t \in Tids, delay \in WakeDelays, pid \in Tids \cup {None}, status_ptr \in Words \cup {0} :
        Scheduled(t, delay) /\ wait4(t, pid, status_ptr, delay)

OtherNext == Next /\ reported' = None /\ named' = FALSE

WaitSpec == WaitInit /\ [][WaitStep \/ OtherNext]_<<vars, reported, named>>

\* A wait for any child reports only threads that have ended.  (One that names a child
\* reports it at once, ended or not.)
AnyChildHasFinished == reported # None /\ ~ named => suspended[reported]

\* "every child we ever report has already finished": also one that the caller names.
ReportedHaveFinished == reported # None => suspended[reported]
=============================================================================
