SPECIFICATION FairSpec
CONSTANTS
    MaxThreads = 3
    CS = {1, 2}
    MaxRecursion = 2
    MaxMillis = 2
    short_circuit_sleep = FALSE
INVARIANTS LockInv 
PROPERTIES TurnApproaches KeepsPromise EveryThreadGetsOn
