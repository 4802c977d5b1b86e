SPECIFICATION Spec
CONSTANTS
    PageSize = 2
    NumPages = 3
    NUM_LINES = 2
    MAX_CACHE_PER_LINE = 1
    BLOCK_LEN = 4
    MAX_INS = 2
    INSTRUCTION_ARRAY_SIZE = 8
    CODE_WRITES_CAP = 1
    Perms = {{"r", "w"}, {"r", "w", "x"}}
    Stored = {"wide"}
    InitMem <- MCInitMem
    InitMaps <- MCInitMaps
    MaxFills = 2
    MaxChanges = 2
CHECK_DEADLOCK FALSE
INVARIANTS ExecutesMemory 
