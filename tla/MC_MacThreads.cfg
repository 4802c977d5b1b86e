SPECIFICATION Spec
CONSTANTS
    MaxThreads = 3
    Mutexes = {1, 2}
    UnfairLocks = {3}
    Conds = {5}
    MaxCount = 2
 
PROPERTIES ReturnsHolding HandoverApproaches
