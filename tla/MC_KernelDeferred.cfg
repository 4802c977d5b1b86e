CONSTANTS
    MAX_ROUNDS = 2
    MAX_CALL_DEPTH = 3
    MaxOps = 2
    MaxDeferred = 2
SPECIFICATION Spec

    
    
PROPERTY EntriesEnd
