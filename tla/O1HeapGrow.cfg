CONSTANTS
    FRAGMENT_SIZE_MIN = 2
    Capacity = 12
    Bits = 4
    maximum_size = 8
    Amounts = {0, 1, 3, 8, 9}
    Blocks = {b1, b2, b3, b4}
    Nil = Nil
SPECIFICATION Spec
SYMMETRY Symmetry
INVARIANT GrowsIntoFreeSpace
