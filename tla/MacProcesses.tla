---------------------------- MODULE MacProcesses ----------------------------
(***************************************************************************)
(* fork, exit and wait of emulated macOS processes.  There is one address  *)
(* space: fork_begin saves the parent in a frame and goes on as the child, *)
(* process_exit restores the parent.  A frame holds the parent's threads   *)
(* and its memory, of which the lock objects are modelled.                 *)
(***************************************************************************)
EXTENDS MacThreads, Sequences, FiniteSets

CONSTANTS
    MaxPids,  \* bound: processes that ever exist
    Codes     \* arguments of exit

ASSUME MacProcessesAssumption == MaxPids \in Nat \ {0} /\ Codes \subseteq Nat

INITIAL_PID == 1  \* 1234 in the code; its parent is 0 here
SIGABRT == 6

VARIABLES
    pid, ppid, next_pid,  \* ProcessTable
    frames,               \* ProcessTable.frames, the innermost parent last
    zombies,              \* ProcessTable.zombies
    reaped                \* history: what wait calls returned

processes == <<pid, ppid, next_pid, frames, zombies>>
allvars == <<vars, processes, reaped>>

ProcessInit ==
    /\ Init
    /\ pid = INITIAL_PID
    /\ ppid = INITIAL_PID - 1
    /\ next_pid = INITIAL_PID + 1
    /\ frames = <<>>
    /\ zombies = <<>>
    /\ reaped = <<>>

in_child == frames # <<>>

\* What Vec::pop returns and leaves, and Vec::remove.
Innermost(fr) == fr[Len(fr)]
Outer(fr) == [i \in 1 .. Len(fr) - 1 |-> fr[i]]
remove(q, k) == [i \in 1 .. Len(q) - 1 |-> IF i < k THEN q[i] ELSE q[i + 1]]

exit_status(code) == (code % 256) * 256
signal_status(sig) == sig % 128

\* The frame that a fork by thread t saves.
ForkFrame(t) ==
    [pid |-> pid, ppid |-> ppid, n |-> n, id |-> id, exited |-> exited,
     joining |-> joining, blocked_on_lock |-> blocked_on_lock, cond_wait |-> cond_wait,
     owner |-> owner, count |-> count, kind |-> kind, current_thread_id |-> t]

\* The child has thread t alone, at index 0; t is running, so it waits for
\* nothing.  Indices beyond the vector keep the values of Init.
OnlyCaller(t) ==
    /\ n' = 1
    /\ id' = [i \in Indices |-> IF i = 0 THEN id[t] ELSE i]
    /\ exited' = [i \in Indices |-> FALSE]
    /\ joining' = [i \in Indices |-> None]
    /\ blocked_on_lock' = [i \in Indices |-> None]
    /\ cond_wait' = [i \in Indices |-> NoWait]
    /\ current_thread_id' = 0

\* fork_begin: thread t forks, and the emulator goes on as the child.
fork_begin(t) ==
    /\ next_pid <= MaxPids
    /\ next_pid' = next_pid + 1
    /\ frames' = Append(frames, ForkFrame(t))
    /\ OnlyCaller(t)
    /\ ppid' = pid
    /\ pid' = next_pid
    /\ UNCHANGED <<locks, status, zombies, reaped>>

RestoreThreads(frame) ==
    /\ n' = frame.n /\ id' = frame.id /\ exited' = frame.exited
    /\ joining' = frame.joining /\ blocked_on_lock' = frame.blocked_on_lock
    /\ cond_wait' = frame.cond_wait /\ current_thread_id' = frame.current_thread_id

\* Bug: the child's memory stays.
RestoreNoMaps(frame) == UNCHANGED locks

RestoreMaps(frame) == owner' = frame.owner /\ count' = frame.count /\ kind' = frame.kind

RestorePids(frame) == pid' = frame.pid /\ ppid' = frame.ppid

\* Bug: a child that exits stops the emulator.
ProcessExitStops(wait_status) ==
    /\ in_child
    /\ status' = "stopped"
    /\ UNCHANGED <<threads, locks, current_thread_id, processes, reaped>>

\* process_exit in a forked child: it becomes a zombie, and the parent goes on
\* where it was.
process_exit(wait_status) ==
    /\ in_child
    /\ LET frame == Innermost(frames)
       IN  /\ frames' = Outer(frames)
           /\ zombies' = Append(zombies, [pid |-> pid, ppid |-> frame.pid, status |-> wait_status])
           /\ RestorePids(frame) /\ RestoreThreads(frame) /\ RestoreMaps(frame)
    /\ UNCHANGED <<status, next_pid, reaped>>

\* Zombies that a wait call matches; an argument that is not positive matches
\* any child.  (Bug: of any process.)
AnyZombie(arg) == {i \in DOMAIN zombies : arg <= 0 \/ zombies[i].pid = arg}

Matching(arg) ==
    {i \in DOMAIN zombies : zombies[i].ppid = pid /\ (arg <= 0 \/ zombies[i].pid = arg)}

\* reap_child, for the wait family: the first match goes.  Without one the call
\* fails, it does not wait.
reap_child(t, arg) ==
    /\ \/ Matching(arg) = {} /\ UNCHANGED <<zombies, reaped>>
       \/ \E i \in Matching(arg) :
             /\ \A j \in Matching(arg) : i <= j
             /\ zombies' = remove(zombies, i)
             /\ reaped' = Append(reaped, [child |-> zombies[i], by |-> pid])
    /\ UNCHANGED <<threads, locks, status, pid, ppid, next_pid, frames>>

WaitStatuses == {exit_status(code) : code \in Codes} \cup {signal_status(SIGABRT)}

ProcessInstruction(t) ==
    \/ ThreadInstruction(t) /\ current_thread_id' = t /\ UNCHANGED <<processes, reaped>>
    \/ fork_begin(t)
    \/ \E wait_status \in WaitStatuses : process_exit(wait_status)
    \/ ~ in_child /\ end_process(t) /\ current_thread_id' = t /\ UNCHANGED <<processes, reaped>>
    \/ \E arg \in -1 .. MaxPids : reap_child(t, arg) /\ current_thread_id' = t

ProcessStep == \E t \in Indices : Scheduled(t) /\ ProcessInstruction(t)

ProcessNext ==
    \/ ProcessStep
    \/ (AllBlocked \/ Finished) /\ UNCHANGED <<processes, reaped>>

ProcessSpec == ProcessInit /\ [][ProcessNext]_allvars

-----------------------------------------------------------------------------
(* Properties *)

\* The process table has the types of its Rust fields.
ProcessTypeOK ==
    /\ TypeOK
    /\ next_pid \in pid + 1 .. MaxPids + 1
    /\ \A i \in DOMAIN frames : frames[i].n \in 1 .. MaxThreads /\ frames[i].current_thread_id < frames[i].n
    /\ \A i \in DOMAIN zombies : zombies[i].status \in WaitStatuses

\* The processes that have not ended, from the root to the running one.
Lineage == Append([i \in DOMAIN frames |-> frames[i].pid], pid)
ParentPids == Append([i \in DOMAIN frames |-> frames[i].ppid], ppid)

\* The stack of frames is a line of descent: each process is the child of the
\* one below it, and was created after it.
LineOfDescent ==
    \A i \in 1 .. Len(Lineage) - 1 :
        Lineage[i] < Lineage[i + 1] /\ ParentPids[i + 1] = Lineage[i]

\* wait tells of each child once: every pid ever handed out belongs to one
\* process that is still there, or to one zombie, or to one wait call, and
\* that call was made by the parent.
EveryPidOnce ==
    /\ \A p \in INITIAL_PID .. next_pid - 1 :
         Cardinality({i \in DOMAIN Lineage : Lineage[i] = p})
           + Cardinality({i \in DOMAIN zombies : zombies[i].pid = p})
           + Cardinality({i \in DOMAIN reaped : reaped[i].child.pid = p}) = 1
    /\ \A i \in DOMAIN reaped : reaped[i].by = reaped[i].child.ppid

\* The process table accounts for every process: those in the line of descent of the one
\* that runs, and those that ended, each reported to its parent once.
ProcessInv == ProcessTypeOK /\ LineOfDescent /\ EveryPidOnce

\* A child stops the emulator in no other way than by pthread_exit of its last thread:
\* however else it ends, its parent resumes.
ChildrenStopByThreadExit == status = "stopped" /\ in_child => \A i \in 0 .. n - 1 : exited[i]

\* Locks and joins go by thread ids.  They tell the threads of a process apart, except
\* that a thread created in a child may have the id of the thread that forked it, since
\* ids are computed from the length of the vector, which begins anew.
IdsClashWithForkerOnly ==
    \A i, j \in 0 .. n - 1 : i < j /\ id[i] = id[j] => in_child /\ i = 0

\* The emulator stops only with the root process; the end of a child resumes
\* its parent (the header of process.rs).
StopsWithRootProcess == status = "stopped" => ~ in_child
=============================================================================
