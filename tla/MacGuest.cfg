SPECIFICATION GuestSpec
CONSTANTS
    MaxThreads = 3
    Mutexes = {1}
    UnfairLocks = {}
    Conds = {1, 2}
    MaxCount = 1
    Users = {1, 2}
    Words = {1, 2}
    CAP = 1
    ITEMS = 3
    Pauses = 4
INVARIANTS
    EveryItemInOrder
    NoCountLost
PROPERTY AllItemsArrive
