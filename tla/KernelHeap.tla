----------------------------- MODULE KernelHeap -----------------------------
(***************************************************************************)
(* The allocation ledger of the emulated kernel and the memory guard that  *)
(* consults it.  A driver allocates from the slab or the vmalloc region,   *)
(* frees, reallocates and accesses memory, rightly or wrongly; the ledger  *)
(* remembers every chunk for ever, and misuse becomes a finding.  Requests *)
(* are below 2^64 - vmalloc_end - 2 pages, so that no u64 sum wraps, and   *)
(* poison patterns are not addresses here.                                 *)
(***************************************************************************)
EXTENDS Integers, Sequences, FiniteSets

CONSTANTS
    heap_base, heap_size,        \* the slab region
    vmalloc_base, vmalloc_size,  \* the vmalloc region
    stack_base, stack_size,      \* the map kernel.stack
    ReqSizes,                    \* sizes that the driver asks for
    MaxAllocs                    \* bound: allocations attempted

ASSUME KernelHeapAssumption ==
    /\ heap_base \in Nat \ {0} /\ heap_size \in Nat
    /\ vmalloc_base \in Nat \ {0} /\ vmalloc_size \in Nat
    /\ heap_base + heap_size <= vmalloc_base
    /\ stack_base \in Nat /\ stack_size \in Nat
    /\ ReqSizes \subseteq Nat
    /\ MaxAllocs \in Nat

HEAP_REDZONE == 4096
PAGE == 4096
KMALLOC_MAX_SIZE == 4194304
BUCKETS == {8, 16, 32, 64, 96, 128, 192, 256, 512, 1024, 2048, 4096}
Regions == {"Slab", "Vmalloc", "Pages"}

VARIABLES
    cursor,            \* slab_cursor and vmalloc_cursor, by pool
    chunks,            \* KernelHeap.chunks: a sequence of KernelChunk
    alloc_count,       \* KernelEnv.alloc_count
    fail_alloc_index,  \* KernelEnv.fail_alloc_index, or -1
    report,            \* what the last call added to KernelEnv.findings: kinds and chunks
    held               \* history: chunk addresses that the driver was given

vars == <<cursor, chunks, alloc_count, fail_alloc_index, report, held>>

Init ==
    /\ cursor = [slab |-> heap_base, vmalloc |-> vmalloc_base]
    /\ chunks = <<>>
    /\ alloc_count = 0
    /\ fail_alloc_index \in -1 .. MaxAllocs - 1
    /\ report = {}
    /\ held = {}

-----------------------------------------------------------------------------
(* KernelHeap *)

Pool(region) == IF region = "Slab" THEN "slab" ELSE "vmalloc"
End(region) == IF region = "Slab" THEN heap_base + heap_size ELSE vmalloc_base + vmalloc_size

AtLeastOne(size) == IF size = 0 THEN 1 ELSE size
next_multiple_of(x, k) == ((x + k - 1) \div k) * k

\* KernelHeap::bucket
bucket(size) ==
    IF \E b \in BUCKETS : size <= b
    THEN CHOOSE b \in BUCKETS : size <= b /\ \A c \in BUCKETS : size <= c => b <= c
    ELSE next_multiple_of(size, PAGE)

ChunkSize(region, req_size) ==
    IF region = "Slab" THEN bucket(AtLeastOne(req_size))
    ELSE next_multiple_of(AtLeastOne(req_size), PAGE)

\* Where the next chunk of the region goes.
NextAddr(region) == next_multiple_of(cursor[Pool(region)], 16)

\* Bug: the redzone is not reserved.
NoRedzone(region, size) == NextAddr(region) + size

\* The cursor after a chunk of that size, and its redzone.
CursorAfter(region, size) == NextAddr(region) + size + HEAP_REDZONE

Exhausted(region, size) == NextAddr(region) + size + HEAP_REDZONE > End(region)

contains(c, a) == a >= c.addr /\ a < c.addr + c.size
is_freed(c) == c.state = "Freed"

\* The stretches of a slice of that length: where one starts, and its size.
Windows(len) == {w \in (0 .. len) \X (1 .. len) : w[1] + w[2] <= len}

\* slice::partition_point of the Rust library with the predicate addr <= a, as
\* a binary search: the stretch that is left starts with the last element known
\* to satisfy it, if any does.
partition_point(cs, a) ==
    LET below(i) == cs[i + 1].addr <= a
        search[w \in Windows(Len(cs))] ==
          LET base == w[1]
              size == w[2]
              half == size \div 2
          IN  IF size = 1 THEN IF below(base) THEN base + 1 ELSE base
              ELSE search[<<IF below(base + half) THEN base + half ELSE base, size - half>>]
    IN  IF cs = <<>> THEN 0 ELSE search[<<0, Len(cs)>>]

\* KernelHeap::index_of, or 0 for None; indices start at 1 here.
index_of(cs, a) ==
    LET idx == partition_point(cs, a)
    IN  IF idx # 0 /\ contains(cs[idx], a) THEN idx ELSE 0

\* KernelHeap::index_of_base
Bases(cs, a) == {i \in DOMAIN cs : cs[i].addr = a}
index_of_base(cs, a) ==
    IF Bases(cs, a) = {} THEN 0 ELSE CHOOSE i \in Bases(cs, a) : \A j \in Bases(cs, a) : i <= j

-----------------------------------------------------------------------------
(* The guard: the findings of one access *)

Finding(kind, a) == {<<kind, a>>}

StaleUse(is_write, c) == Finding(IF is_write THEN "WriteAfterFree" ELSE "UseAfterFree", c.addr)

\* Bug: the state of the chunk is not looked at.
guard_access_stateless(cs, a, is_write) ==
    LET idx == index_of(cs, a)
    IN  IF idx # 0 /\ a - cs[idx].addr >= cs[idx].req_size THEN StaleUse(is_write, cs[idx]) ELSE {}

kernel_guard_access(cs, a, is_write) ==
    LET idx == index_of(cs, a)
    IN  CASE idx = 0 -> {}
          [] idx # 0 /\ is_freed(cs[idx]) -> StaleUse(is_write, cs[idx])
          [] idx # 0 /\ ~ is_freed(cs[idx]) /\ a - cs[idx].addr >= cs[idx].req_size ->
               Finding("HeapOverflow", cs[idx].addr)
          [] OTHER -> {}

kernel_guard_range(cs, a, len, is_write) ==
    LET idx == index_of(cs, a)
    IN  CASE len = 0 \/ idx = 0 -> {}
          [] len # 0 /\ idx # 0 /\ is_freed(cs[idx]) -> StaleUse(is_write, cs[idx])
          [] len # 0 /\ idx # 0 /\ ~ is_freed(cs[idx]) /\ a - cs[idx].addr + len > cs[idx].req_size ->
               Finding("HeapOverflow", cs[idx].addr)
          [] OTHER -> {}

guarded_copy(cs, dst, src, len) ==
    UNION {kernel_guard_range(cs, src, len, FALSE), kernel_guard_range(cs, dst, len, TRUE),
           kernel_guard_access(cs, src, FALSE), kernel_guard_access(cs, dst, TRUE)}

-----------------------------------------------------------------------------
(* kernel_alloc and kernel_free *)

NewChunk(region, req_size) ==
    [addr |-> NextAddr(region), size |-> ChunkSize(region, req_size), req_size |-> req_size,
     region |-> region, state |-> "Live"]

\* create_map refuses a base that is mapped; chunks never are, by RedzonesApart.
Mappable(a) == ~ (a >= stack_base /\ a < stack_base + stack_size)

\* kernel_alloc returns NULL without touching the ledger.
Refused(region, req_size) ==
    alloc_count = fail_alloc_index \/ Exhausted(region, ChunkSize(region, req_size))

\* The ledger, and what the driver holds, after kernel_alloc.
kernel_alloc(region, req_size) ==
    /\ alloc_count < MaxAllocs
    /\ alloc_count' = alloc_count + 1
    /\ IF Refused(region, req_size)
       THEN UNCHANGED <<cursor, chunks, held>>
       ELSE /\ cursor' = [cursor EXCEPT ![Pool(region)] =
                            CursorAfter(region, ChunkSize(region, req_size))]
            /\ chunks' = Append(chunks, NewChunk(region, req_size))
            /\ held' = IF Mappable(NextAddr(region)) THEN held \cup {NextAddr(region)} ELSE held

\* Bug: the chunk is taken off the ledger.
FreeRecycles(cs, ptr) ==
    LET idx == index_of_base(cs, ptr)
    IN  SelectSeq(cs, LAMBDA c : idx = 0 \/ c.addr # ptr)

\* The ledger after kernel_free(ptr): only a live chunk's base changes it.
AfterFree(cs, ptr) ==
    LET idx == index_of_base(cs, ptr)
    IN  IF ptr = 0 \/ idx = 0 THEN cs ELSE [cs EXCEPT ![idx].state = "Freed"]

\* What kernel_free(ptr) reports.  An invalid free names the chunk it points
\* into, if it finds one.
FreeFindings(cs, ptr) ==
    LET idx == index_of_base(cs, ptr)
        inside == index_of(cs, ptr)
    IN  CASE ptr = 0 -> {}
          [] ptr # 0 /\ idx = 0 ->
               Finding("InvalidFree", IF inside = 0 THEN 0 ELSE cs[inside].addr)
          [] ptr # 0 /\ idx # 0 /\ is_freed(cs[idx]) -> Finding("DoubleFree", ptr)
          [] OTHER -> {}

-----------------------------------------------------------------------------
(* What a driver may call *)

\* slab_alloc refuses sizes before it counts the attempt.
slab_alloc(size) ==
    /\ size # 0 /\ size <= KMALLOC_MAX_SIZE
    /\ kernel_alloc("Slab", size)
    /\ report' = {} /\ UNCHANGED fail_alloc_index

large_alloc(region, size) ==
    /\ kernel_alloc(region, size)
    /\ report' = {} /\ UNCHANGED fail_alloc_index

kernel_free(ptr) ==
    /\ chunks' = AfterFree(chunks, ptr)
    /\ report' = FreeFindings(chunks, ptr)
    /\ held' = held \ {ptr}
    /\ UNCHANGED <<cursor, alloc_count, fail_alloc_index>>

Access(a, is_write) ==
    /\ report' = kernel_guard_access(chunks, a, is_write)
    /\ UNCHANGED <<cursor, chunks, alloc_count, fail_alloc_index, held>>

Copy(dst, src, len) ==
    /\ report' = guarded_copy(chunks, dst, src, len)
    /\ UNCHANGED <<cursor, chunks, alloc_count, fail_alloc_index, held>>

\* krealloc that gets its new chunk: copy, then free the old one.
krealloc_moves(old, new_size) ==
    LET new_ptr == NextAddr("Slab")
        cs == Append(chunks, NewChunk("Slab", new_size))
        at == index_of(chunks, old)
        fit(req_size) == IF req_size <= new_size THEN req_size ELSE new_size
        copy_len == IF at = 0 THEN 0 ELSE fit(chunks[at].req_size)
    IN  /\ alloc_count' = alloc_count + 1
        /\ cursor' = [cursor EXCEPT !.slab = CursorAfter("Slab", ChunkSize("Slab", new_size))]
        /\ chunks' = IF old = 0 THEN cs ELSE AfterFree(cs, old)
        /\ report' =
             (IF old = 0 THEN {} ELSE guarded_copy(cs, new_ptr, old, copy_len) \cup FreeFindings(cs, old))
        /\ held' = (held \ {old}) \cup {new_ptr}

\* Bug: the old chunk is freed before the new one is there.
krealloc_frees_first(old, new_size) ==
    /\ new_size # 0 /\ new_size <= KMALLOC_MAX_SIZE /\ alloc_count < MaxAllocs
    /\ IF Refused("Slab", new_size)
       THEN /\ alloc_count' = alloc_count + 1
            /\ report' = {}
            /\ chunks' = AfterFree(chunks, old)
            /\ UNCHANGED <<cursor, held>>
       ELSE krealloc_moves(old, new_size)
    /\ UNCHANGED fail_alloc_index

\* krealloc: a size of 0 frees, a failed allocation leaves the old chunk alone.
krealloc(old, new_size) ==
    \/ new_size = 0 /\ kernel_free(old)
    \/ /\ new_size # 0 /\ new_size <= KMALLOC_MAX_SIZE /\ alloc_count < MaxAllocs
       /\ IF Refused("Slab", new_size) \/ ~ Mappable(NextAddr("Slab"))
          THEN kernel_alloc("Slab", new_size) /\ report' = {}
          ELSE krealloc_moves(old, new_size)
       /\ UNCHANGED fail_alloc_index

\* kernel_check_leaks, once the exit path of the module has run
kernel_check_leaks ==
    /\ report' = UNION {Finding("Leak", chunks[i].addr) : i \in
                                          {j \in DOMAIN chunks : ~ is_freed(chunks[j])}}
    /\ UNCHANGED <<cursor, chunks, alloc_count, fail_alloc_index, held>>

\* Addresses that tell the cases apart: bases, the last byte asked for, the
\* first one beyond it, the last byte and the first one beyond, and a stranger.
ChunkAddrs(c) == {c.addr, c.addr + c.req_size, c.addr + c.size - 1, c.addr + c.size}
Addrs == {1} \cup UNION {ChunkAddrs(chunks[i]) : i \in DOMAIN chunks}
Pointers == {0, 1} \cup UNION {{chunks[i].addr, chunks[i].addr + 1} : i \in DOMAIN chunks}
Buffers == {1} \cup {chunks[i].addr : i \in DOMAIN chunks}

Next ==
    \/ \E size \in ReqSizes : slab_alloc(size)
    \/ \E size \in ReqSizes, region \in {"Vmalloc", "Pages"} : large_alloc(region, size)
    \/ \E ptr \in Pointers : kernel_free(ptr)
    \/ \E ptr \in Pointers, size \in ReqSizes : krealloc(ptr, size)
    \/ \E a \in Addrs, is_write \in BOOLEAN : Access(a, is_write)
    \/ \E dst \in Buffers, src \in Pointers, len \in ReqSizes : Copy(dst, src, len)
    \/ kernel_check_leaks

Spec == Init /\ [][Next]_vars

-----------------------------------------------------------------------------
(* Properties *)

Kinds == {"UseAfterFree", "WriteAfterFree", "HeapOverflow", "InvalidFree", "DoubleFree", "Leak"}

\* Every variable has the type of the Rust field it stands for.
TypeOK ==
    /\ cursor \in [{"slab", "vmalloc"} -> Nat]
    /\ chunks \in Seq([addr : Nat, size : Nat \ {0}, req_size : Nat, region : Regions,
                       state : {"Live", "Freed"}])
    /\ alloc_count \in 0 .. MaxAllocs
    /\ fail_alloc_index \in -1 .. MaxAllocs - 1
    /\ report \subseteq (Kinds \X Nat)
    /\ held \subseteq Nat

\* Any two chunks, live or freed, are a redzone apart, so the ledger attributes
\* an address to one chunk and an overrun hits unmapped memory; a chunk and
\* its redzone end within their own region.
RedzonesApart ==
    \A i, j \in DOMAIN chunks :
        /\ chunks[i].addr % 16 = 0
        /\ chunks[i].addr + chunks[i].size + HEAP_REDZONE <= End(chunks[i].region)
        /\ i < j => \/ chunks[i].addr + chunks[i].size + HEAP_REDZONE <= chunks[j].addr
                    \/ chunks[j].addr + chunks[j].size + HEAP_REDZONE <= chunks[i].addr

\* Freed chunks are never unmapped and never recycled (the head of heap.rs): the
\* ledger only grows, a chunk keeps its address and a freed one stays freed.
Quarantine ==
    [][/\ Len(chunks') >= Len(chunks)
       /\ \A i \in DOMAIN chunks :
            /\ chunks'[i].addr = chunks[i].addr /\ chunks'[i].size = chunks[i].size
            /\ is_freed(chunks[i]) => is_freed(chunks'[i])]_vars

\* Every chunk is found from each of its bytes.
LookupFinds ==
    \A i \in DOMAIN chunks : \A a \in ChunkAddrs(chunks[i]) :
        contains(chunks[i], a) => index_of(chunks, a) = i

\* As long as a driver uses one region only, every chunk is found from each of
\* its bytes: the search of index_of is right whenever the ledger is sorted.
OneRegionLookup ==
    (\A i, j \in DOMAIN chunks : Pool(chunks[i].region) = Pool(chunks[j].region)) => LookupFinds

\* The driver is never left without memory that it still holds: what it was
\* given and did not free is live in the ledger, also after a krealloc that
\* failed half-way.
HeldIsLive ==
    \A a \in held : \E i \in DOMAIN chunks : chunks[i].addr = a /\ ~ is_freed(chunks[i])

\* Legitimate use stays silent: a finding of a stale use or a double free is
\* about a chunk that was freed.
FindingsAreTrue ==
    \A f \in report : f[1] \in {"UseAfterFree", "WriteAfterFree", "DoubleFree"} =>
        \E i \in DOMAIN chunks : chunks[i].addr = f[2] /\ is_freed(chunks[i])

\* The ledger knows what is live (the head of heap.rs): a live chunk is one that
\* the driver was given and has not freed, so no leak is reported that is not
\* the driver's.  It needs a stack outside the regions, which the Linux layout
\* does not have.
LiveIsHeld ==
    (\/ stack_base + stack_size <= heap_base
     \/ stack_base >= vmalloc_base + vmalloc_size)
    => \A i \in DOMAIN chunks : is_freed(chunks[i]) \/ chunks[i].addr \in held

\* The chunks of one pool are in the order of their addresses.
PoolsSorted ==
    \A i, j \in DOMAIN chunks : i < j /\ Pool(chunks[i].region) = Pool(chunks[j].region) =>
        chunks[i].addr + chunks[i].size + HEAP_REDZONE <= chunks[j].addr

\* The ledger is right about what the driver holds: that is live, nothing else is, and
\* within one region it is found from each of its bytes, since the ledger is then sorted.
LedgerSound == TypeOK /\ HeldIsLive /\ LiveIsHeld /\ PoolsSorted /\ OneRegionLookup
=============================================================================
