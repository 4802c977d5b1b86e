------------------------------ MODULE MacForks ------------------------------
(***************************************************************************)
(* What forks and their children leave behind in the process that forks:   *)
(* nothing.  The root process of MacProcesses, seen through the frame that *)
(* fork_begin saved of it, is a process of MacThreads, which knows no fork.*)
(***************************************************************************)
EXTENDS MacProcesses

\* What the root process sees of itself while it or a descendant runs.
Saved(field, now) == IF in_child THEN frames[1][field] ELSE now

Root == INSTANCE MacThreads WITH
    n <- Saved("n", n), id <- Saved("id", id), exited <- Saved("exited", exited),
    joining <- Saved("joining", joining),
    blocked_on_lock <- Saved("blocked_on_lock", blocked_on_lock),
    cond_wait <- Saved("cond_wait", cond_wait),
    owner <- Saved("owner", owner), count <- Saved("count", count), kind <- Saved("kind", kind),
    current_thread_id <- Saved("current_thread_id", current_thread_id),
    status <- IF in_child THEN "running" ELSE status

\* Children leave no trace: to the threads of the root process, a fork with all
\* that the child does until it ends is one instruction, and the root process
\* still is a process as MacThreads specifies it.
ChildrenLeaveNoTrace == Root!Spec
=============================================================================
