SPECIFICATION WaitSpec
CONSTANTS
    MaxThreads = 3
    Words = {1, 2}
    Values = {0, 1}
INVARIANTS WaitInv 
PROPERTIES VforkParentWaits YieldIsLowestPriority
