CONSTANTS
    TLB_SIZE = 2
    LIBS64_MIN = 1
    LIBS64_MAX = 4
    Pages = 4
    Sizes = {1, 3, 4}
    Keys = {k1, k2, k3, k4}
    Nil = Nil
SPECIFICATION Spec
SYMMETRY Symmetry
INVARIANTS
    MapsSound
    CacheTransparent
    AccessesSeeMemory
    
    MmapPlaces
