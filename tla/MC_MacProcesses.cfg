SPECIFICATION ProcessSpec
CONSTANTS
    MaxThreads = 2
    Mutexes = {}
    UnfairLocks = {3}
    Conds = {}
    MaxCount = 2
    MaxPids = 3
    Codes = {257}
INVARIANTS ProcessInv ChildrenStopByThreadExit IdsClashWithForkerOnly
PROPERTIES ChildrenLeaveNoTrace
