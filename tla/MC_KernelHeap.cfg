SPECIFICATION Spec
CONSTANTS
    heap_base = 65544
    heap_size = 16384
    vmalloc_base = 131072
    vmalloc_size = 20480
    stack_base = 262144
    stack_size = 8192
    ReqSizes = {0, 97, 4097}
    MaxAllocs = 3
INVARIANTS LedgerSound RedzonesApart FindingsAreTrue
PROPERTY Quarantine
