SPECIFICATION GuestSpec
CONSTANTS
    MaxThreads = 3
    Words = {1, 2, 3}
    Values = {0, 1, 2}
    Rounds = 2
    Pauses = 2
INVARIANT LockExcludes
PROPERTY ProgramEnds
