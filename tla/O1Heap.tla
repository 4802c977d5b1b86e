------------------------------- MODULE O1Heap -------------------------------
(***************************************************************************)
(* The allocator behind HeapAlloc, HeapReAlloc, HeapFree, malloc and the   *)
(* like: an arena cut into fragments that are linked in address order,     *)
(* the free ones also in the bin of their size, and found by their offset  *)
(* through hashes.  Allocation splits fragments, freeing joins them,       *)
(* reallocation does both, and fork rebuilds the heap from its list.       *)
(*                                                                         *)
(* A fragment of the list is named by its offset.  One that was merged     *)
(* into its neighbour is gone, unless hashes still has it: then all that   *)
(* matters of it is the fragment that its prev leads to, as long as that   *)
(* is there.                                                               *)
(*                                                                         *)
(* The client is arbitrary, except that it writes only to blocks it holds. *)
(* Statistics (oom_count and the peaks) are left out, and addresses are    *)
(* relative to the base of the arena.                                      *)
(***************************************************************************)
EXTENDS Integers, Sequences, FiniteSets, FiniteSetsExt, SequencesExt

CONSTANTS
    FRAGMENT_SIZE_MIN,
    Capacity,      \* size of the arena
    Bits,          \* width of usize
    maximum_size,  \* of a fixed-size heap; 0 if the heap is growable
    Amounts,       \* sizes that the client asks for
    Blocks,        \* names that the client has for its blocks
    Nil

ASSUME O1HeapAssumption ==
    /\ Bits \in Nat \ {0}
    /\ FRAGMENT_SIZE_MIN \in {2 ^ k : k \in 0 .. Bits - 1}
    /\ Capacity \in FRAGMENT_SIZE_MIN .. 2 ^ Bits
    /\ maximum_size \in Nat
    /\ Amounts \subseteq Nat
    /\ Nil \notin Blocks

VARIABLES
    heap,  \* the O1Heap
    ptr,   \* address of each block that the client holds
    len,   \* how much the client asked for
    mem    \* the block whose data a byte of the arena holds

vars == <<heap, ptr, len, mem>>

Offsets == 0 .. Capacity - 1
Bins == 0 .. Bits

-----------------------------------------------------------------------------
(* Sizes *)

log2_floor(x) == IF x = 0 THEN 0 ELSE CHOOSE k \in 0 .. Bits : 2 ^ k <= x /\ x < 2 ^ (k + 1)

\* Bug: one class too high for a power of two.
BugLog2Ceil(x) == log2_floor(x) + 1

log2_ceil(x) == IF x <= 1 THEN 0 ELSE log2_floor(x - 1) + 1

\* 0 if the result does not fit a usize
round_up_to_power_of_2(x) ==
    IF x > 2 ^ (Bits - 1) THEN 0 ELSE Min({p \in {2 ^ k : k \in 0 .. Bits - 1} : p >= x})

FragmentSize(amount) ==
    LET raw == round_up_to_power_of_2(amount)
    IN  IF raw = 0 THEN 0 ELSE Max({raw, FRAGMENT_SIZE_MIN})

Bin(size) == log2_floor(size \div FRAGMENT_SIZE_MIN)

ValidSize(size) == size \in FRAGMENT_SIZE_MIN .. Capacity /\ size % FRAGMENT_SIZE_MIN = 0

-----------------------------------------------------------------------------
(* Fragments *)

Fragment(size, next, prev) ==
    [size |-> size, used |-> FALSE, next |-> next, prev |-> prev,
     next_free |-> Nil, prev_free |-> Nil]

IsFree(h, x) == x # Nil /\ ~ h.node[x].used
SizeOf(h, x) == IF x = Nil THEN 0 ELSE h.node[x].size

\* x is followed by y in the list.
Link(h, x, y) ==
    LET h1 == [h EXCEPT !.node[x].next = y]
    IN  IF y = Nil THEN h1 ELSE [h1 EXCEPT !.node[y].prev = x]

Index(h, x) == [h EXCEPT !.hashes = @ \union {x}, !.merged = Restrict(@, DOMAIN @ \ {x})]
Unindex(h, x) == [h EXCEPT !.hashes = @ \ {x}, !.merged = Restrict(@, DOMAIN @ \ {x})]
Resize(h, x, size) == [h EXCEPT !.node[x].size = size]

Allocated(h, delta) == [h EXCEPT !.allocated = @ + delta]

\* The fragments X leave the list.  What hashes has of them keeps its prev while that
\* is in the list; after that it may be dropped, as prev does not own it.
Drop(h, X) ==
    LET stale == DOMAIN h.merged \union (X \intersect h.hashes)
        prev(x) == IF x \in X THEN h.node[x].prev ELSE h.merged[x]
    IN  [h EXCEPT !.node = Restrict(@, DOMAIN @ \ X),
                  !.merged = [x \in stale |-> IF prev(x) \in X THEN Nil ELSE prev(x)]]

rebin(h, x) ==
    LET size == h.node[x].size
        first == h.bins[Bin(size)]
        h1 == [h EXCEPT !.node[x].next_free = first,
                        !.node[x].prev_free = Nil,
                        !.bins[Bin(size)] = x,
                        !.nonempty_bin_mask = @ \union {Bin(size)}]
    IN  IF size < FRAGMENT_SIZE_MIN THEN h
        ELSE IF first = Nil THEN h1 ELSE [h1 EXCEPT !.node[first].prev_free = x]

\* Bug: the mask keeps a bin that is now empty.
BugUnbin(h, x) ==
    LET f == h.node[x]
        h0 == [h EXCEPT !.node[x].next_free = Nil, !.node[x].prev_free = Nil]
        h1 == IF f.next_free = Nil THEN h0 ELSE [h0 EXCEPT !.node[f.next_free].prev_free = f.prev_free]
    IN  IF f.size < FRAGMENT_SIZE_MIN THEN h
        ELSE IF f.prev_free # Nil THEN [h1 EXCEPT !.node[f.prev_free].next_free = f.next_free]
        ELSE [h1 EXCEPT !.bins[Bin(f.size)] = f.next_free]

\* The code leaves x its links; rebin sets them before they are read again.
unbin(h, x) ==
    LET f == h.node[x]
        h0 == [h EXCEPT !.node[x].next_free = Nil, !.node[x].prev_free = Nil]
        h1 == IF f.next_free = Nil THEN h0 ELSE [h0 EXCEPT !.node[f.next_free].prev_free = f.prev_free]
    IN  IF f.size < FRAGMENT_SIZE_MIN THEN h
        ELSE IF f.prev_free # Nil THEN [h1 EXCEPT !.node[f.prev_free].next_free = f.next_free]
        ELSE [h1 EXCEPT !.bins[Bin(f.size)] = f.next_free,
                        !.nonempty_bin_mask = IF f.next_free = Nil THEN @ \ {Bin(f.size)} ELSE @]

\* A new free fragment of this size behind x, whose size is set, and before after.
Remainder(h, x, size, after) ==
    LET y == x + h.node[x].size
        h1 == [h EXCEPT !.node = [z \in DOMAIN @ \union {y} |->
                                    IF z = y THEN Fragment(size, Nil, Nil) ELSE @[z]]]
    IN  rebin(Index(Link(Link(h1, y, after), x, y), y), y)

-----------------------------------------------------------------------------
(* Operations.  Each yields the heap and the address or Nil; reallocate    *)
(* also how many bytes the caller has to copy there.                       *)

new ==
    rebin([node |-> [x \in {0} |-> Fragment(Capacity, Nil, Nil)],
           bins |-> [k \in Bins |-> Nil],
           nonempty_bin_mask |-> {},
           hashes |-> {0},
           merged |-> [x \in {} |-> Nil],
           allocated |-> 0], 0)

Failed(h) == [heap |-> h, addr |-> Nil, copy_size |-> 0]

allocate(h, amount) ==
    LET size == FragmentSize(amount)
        suitable == {k \in h.nonempty_bin_mask : k >= log2_ceil(size \div FRAGMENT_SIZE_MIN)}
        x == h.bins[Min(suitable)]
        leftover == h.node[x].size - size
        h1 == Resize(unbin(h, x), x, size)
        h2 == IF leftover >= FRAGMENT_SIZE_MIN THEN Remainder(h1, x, leftover, h1.node[x].next) ELSE h1
        h3 == Allocated(Index([h2 EXCEPT !.node[x].used = TRUE], x), size)
    IN  IF amount = 0 \/ size = 0 \/ size > Capacity \/ suitable = {} THEN Failed(h)
        ELSE [heap |-> h3, addr |-> x, copy_size |-> 0]

\* A fragment that was merged has used = false.
check_fragment_exists(h, offset) ==
    offset \in h.hashes \ DOMAIN h.merged /\ h.node[offset].used

free(h, x) ==
    LET f == h.node[x]
        join_left == IsFree(h, f.prev)
        join_right == IsFree(h, f.next)
        h1 == Unindex(Allocated([h EXCEPT !.node[x].used = FALSE], - f.size), x)
        h2 == IF join_left THEN unbin(h1, f.prev) ELSE h1
        h3 == IF join_right THEN unbin(h2, f.next) ELSE h2
        base == IF join_left THEN f.prev ELSE x
        others == (IF join_left THEN {x} ELSE {}) \union (IF join_right THEN {f.next} ELSE {})
        size == MapThenSumSet(LAMBDA y : h.node[y].size, {base} \union others)
        after == IF join_right THEN h.node[f.next].next ELSE f.next
    IN  IF ~ check_fragment_exists(h, x) \/ ~ ValidSize(f.size) \/ h.allocated < f.size THEN h
        ELSE rebin(Link(Resize(Drop(h3, others), base, size), base, after), base)

Shrink(h, x, size) ==
    LET f == h.node[x]
        leftover == f.size - size
        next_free == IsFree(h, f.next)
        h1 == Allocated(h, - leftover)
        h2 == IF next_free THEN Drop(Unindex(unbin(h1, f.next), f.next), {f.next}) ELSE h1
        tail == leftover + (IF next_free THEN SizeOf(h, f.next) ELSE 0)
        after == IF next_free THEN h.node[f.next].next ELSE f.next
    IN  IF leftover < FRAGMENT_SIZE_MIN THEN [heap |-> h, addr |-> x, copy_size |-> 0]
        ELSE IF h.allocated < leftover THEN Failed(h)
        ELSE [heap |-> Remainder(Resize(h2, x, size), x, tail, after), addr |-> x, copy_size |-> 0]

FitsForward(h, x, size) ==
    LET f == h.node[x] IN IsFree(h, f.next) /\ f.size + SizeOf(h, f.next) >= size

GrowForward(h, x, size) ==
    LET f == h.node[x]
        total == f.size + SizeOf(h, f.next)
        after == h.node[f.next].next
        h1 == Drop(Unindex(unbin(h, f.next), f.next), {f.next})
        h2 == IF total - size >= FRAGMENT_SIZE_MIN
              THEN Allocated(Remainder(Resize(h1, x, size), x, total - size, after), size - f.size)
              ELSE Allocated(Link(Resize(h1, x, total), x, after), total - f.size)
    IN  [heap |-> h2, addr |-> x, copy_size |-> 0]

\* The sizes of the neighbours are added up whether or not next is free.
AroundSize(h, x) ==
    LET f == h.node[x] IN SizeOf(h, f.prev) + f.size + SizeOf(h, f.next)

\* Bug: an exact fit does not count.
BugFitsBackward(h, x, size) == IsFree(h, h.node[x].prev) /\ AroundSize(h, x) > size

FitsBackward(h, x, size) == IsFree(h, h.node[x].prev) /\ AroundSize(h, x) >= size

GrowBackward(h, x, size) ==
    LET f == h.node[x]
        next_free == IsFree(h, f.next)
        total == AroundSize(h, x)
        after == IF next_free THEN h.node[f.next].next ELSE f.next
        h1 == unbin(h, f.prev)
        h2 == IF next_free THEN unbin(h1, f.next) ELSE h1
        h3 == Drop([h2 EXCEPT !.node[f.prev].used = TRUE], {x} \union (IF next_free THEN {f.next} ELSE {}))
        h4 == IF total - size >= FRAGMENT_SIZE_MIN
              THEN Allocated(Remainder(Resize(h3, f.prev, size), f.prev, total - size, after), size - f.size)
              ELSE Allocated(Link(Resize(h3, f.prev, total), f.prev, after), total - f.size)
        h5 == Unindex(h4, x)
        h6 == IF next_free THEN Unindex(h5, f.next) ELSE h5
    IN  [heap |-> Index(h6, f.prev), addr |-> f.prev, copy_size |-> f.size]

Move(h, x, amount) ==
    LET r == allocate(h, amount)
    IN  IF r.addr = Nil THEN Failed(h)
        ELSE [heap |-> free(r.heap, x), addr |-> r.addr, copy_size |-> h.node[x].size]

reallocate(h, x, amount) ==
    LET size == FragmentSize(amount)
    IN  IF amount = 0 THEN Failed(free(h, x))
        ELSE IF ~ check_fragment_exists(h, x) \/ ~ ValidSize(h.node[x].size) THEN Failed(h)
        ELSE IF size = 0 \/ amount > Capacity \/ size > Capacity THEN Failed(h)
        ELSE IF size <= h.node[x].size THEN Shrink(h, x, size)
        ELSE IF FitsForward(h, x, size) THEN GrowForward(h, x, size)
        ELSE IF FitsBackward(h, x, size) THEN GrowBackward(h, x, size)
        ELSE Move(h, x, amount)

-----------------------------------------------------------------------------
(* Copies *)

\* Which fragment hashes gives is a matter of hashing.
any_fragment(h) ==
    LET nonempty == {k \in Bins : h.bins[k] # Nil}
    IN  IF h.hashes # {} THEN h.hashes ELSE {h.bins[k] : k \in {j \in nonempty : j = Min(nonempty)}}

\* x itself if it was merged and its prev is not in the list either.
first_fragment(h, x) ==
    LET back[y \in Offsets] == IF h.node[y].prev = Nil THEN y ELSE back[h.node[y].prev]
    IN  IF x \notin DOMAIN h.merged THEN back[x]
        ELSE IF h.merged[x] # Nil THEN back[h.merged[x]] ELSE x

\* The fragments from x on, along next.
List(h, x) ==
    LET list[y \in Offsets] == <<y>> \o (IF h.node[y].next = Nil THEN <<>> ELSE list[h.node[y].next])
    IN  list[x]

\* Bug: only the free fragments stay indexed.
BugSnapshot(h, x) ==
    LET s == List(h, first_fragment(h, x))
    IN  [fragments |-> [i \in DOMAIN s |-> [offset |-> s[i], size |-> h.node[s[i]].size,
                                            used |-> h.node[s[i]].used]],
         hash_keys |-> {y \in Range(s) : IsFree(h, y)},
         allocated |-> h.allocated]

snapshot(h, x) ==
    LET s == List(h, first_fragment(h, x))
    IN  [fragments |-> [i \in DOMAIN s |-> [offset |-> s[i], size |-> h.node[s[i]].size,
                                            used |-> h.node[s[i]].used]],
         hash_keys |-> h.hashes,
         allocated |-> h.allocated]

from_snapshot(snap) ==
    LET F == snap.fragments
        offset(i) == IF i \in DOMAIN F THEN F[i].offset ELSE Nil
        nodes == {F[i].offset : i \in DOMAIN F}
        h == [node |-> [x \in nodes |->
                          LET i == CHOOSE i \in DOMAIN F : F[i].offset = x
                          IN  [Fragment(F[i].size, offset(i + 1), offset(i - 1)) EXCEPT !.used = F[i].used]],
              bins |-> [k \in Bins |-> Nil],
              nonempty_bin_mask |-> {},
              hashes |-> snap.hash_keys \intersect nodes,
              merged |-> [x \in {} |-> Nil],
              allocated |-> snap.allocated]
    IN  FoldLeft(LAMBDA g, f : IF f.used THEN g ELSE rebin(g, f.offset), h, F)

clone(h, x) == from_snapshot(snapshot(h, x))

-----------------------------------------------------------------------------
(* The client *)

Held == {b \in Blocks : ptr[b] # Nil}

\* Bytes from .. to - 1 of block b, which is at address at, get their data.
Write(m, b, at, from, to) ==
    [a \in Offsets |-> IF a - at \in from .. to - 1 THEN <<b, a - at>> ELSE m[a]]

\* Bug: copies byte by byte from the end, over bytes still to be copied.
BugMemcpy(m, to, from, size) ==
    LET src[i \in 0 .. size - 1] ==
            IF from > to /\ i + (from - to) < size THEN src[i + (from - to)] ELSE from + i
    IN  [a \in Offsets |-> IF a - to \in 0 .. size - 1 THEN m[src[a - to]] ELSE m[a]]

memcpy(m, to, from, size) ==
    [a \in Offsets |-> IF a - to \in 0 .. size - 1 THEN m[from + (a - to)] ELSE m[a]]

\* What bytes outside all blocks hold is of no interest.
Forget(m, p, l) ==
    [a \in Offsets |->
        IF \E b \in Blocks : p[b] # Nil /\ a - p[b] \in 0 .. l[b] - 1 THEN m[a] ELSE Nil]

Init ==
    /\ heap = new
    /\ ptr = [b \in Blocks |-> Nil]
    /\ len = [b \in Blocks |-> 0]
    /\ mem = [a \in Offsets |-> Nil]

heap_allocate(h, size) ==
    IF size = 0 \/ (maximum_size # 0 /\ size > maximum_size) THEN Failed(h) ELSE allocate(h, size)

heap_free(h, addr) == IF check_fragment_exists(h, addr) THEN free(h, addr) ELSE h

heap_reallocate(h, addr, new_size) ==
    IF \/ new_size = 0
       \/ maximum_size # 0 /\ new_size > maximum_size
       \/ ~ check_fragment_exists(h, addr)
    THEN Failed(h) ELSE reallocate(h, addr, new_size)

\* The handlers under the default configuration (no minimum size, no memory
\* guard). A call that fails leaves all state as it is and is not a step; so is
\* HeapReAlloc with HEAP_REALLOC_IN_PLACE_ONLY, which never touches the heap.
\* HEAP_ZERO_MEMORY writes where the client writes in this model. Left out: the
\* handle that HeapReAlloc finally stores at the address in r9, which is the
\* size it was asked for, and outside of the arena.
HeapAlloc(b, size) ==
    LET r == heap_allocate(heap, size)
    IN  /\ b \notin Held
        /\ r.addr # Nil
        /\ heap' = r.heap
        /\ ptr' = [ptr EXCEPT ![b] = r.addr]
        /\ len' = [len EXCEPT ![b] = size]
        /\ mem' = Write(mem, b, r.addr, 0, size)

HeapFree(b) ==
    /\ b \in Held
    /\ heap' = heap_free(heap, ptr[b])
    /\ ptr' = [ptr EXCEPT ![b] = Nil]
    /\ len' = [len EXCEPT ![b] = 0]
    /\ mem' = Forget(mem, ptr', len')

HeapReAlloc(b, size) ==
    /\ b \in Held
    /\ LET r == heap_reallocate(heap, ptr[b], size)
       IN  /\ r.addr # Nil
           /\ heap' = r.heap
           /\ ptr' = [ptr EXCEPT ![b] = r.addr]
           /\ len' = [len EXCEPT ![b] = size]
           /\ mem' = Forget(Write(memcpy(mem, r.addr, ptr[b], r.copy_size), b, r.addr, len[b], size),
                            ptr', len')

\* A process forks; it gets the copy of its heap back when the child ends.
Fork(x) ==
    /\ x \in any_fragment(heap)
    /\ heap' = clone(heap, x)
    /\ UNCHANGED <<ptr, len, mem>>

-----------------------------------------------------------------------------
(* Two calls do not do what they should, and the model stops short of them *)
(* (CopiesStartFirst and GrowsIntoFreeSpace are about them): a backward    *)
(* growth beside a next fragment in use, whose size it counts, and a copy  *)
(* that starts from a fragment that was merged.                            *)

CountsUsedNext(h, x, size) ==
    /\ size > h.node[x].size
    /\ ~ FitsForward(h, x, size)
    /\ FitsBackward(h, x, size)
    /\ h.node[x].next # Nil /\ ~ IsFree(h, h.node[x].next)

Next ==
    \/ \E b \in Blocks, size \in Amounts : HeapAlloc(b, size)
    \/ \E b \in Blocks : HeapFree(b)
    \/ \E b \in Held, size \in Amounts :
          ~ CountsUsedNext(heap, ptr[b], FragmentSize(size)) /\ HeapReAlloc(b, size)
    \/ \E x \in any_fragment(heap) : first_fragment(heap, x) \in DOMAIN heap.node /\ Fork(x)

Spec == Init /\ [][Next]_vars

-----------------------------------------------------------------------------
(* Correctness *)

Used == {x \in DOMAIN heap.node : heap.node[x].used}
Free == DOMAIN heap.node \ Used

TypeOK ==
    LET node == DOMAIN heap.node
    IN  /\ heap.node \in [node -> [size : 0 .. Capacity, used : BOOLEAN,
                                   next : node \union {Nil}, prev : node \union {Nil},
                                   next_free : node \union {Nil}, prev_free : node \union {Nil}]]
        /\ heap.bins \in [Bins -> node \union {Nil}]
        /\ heap.hashes \subseteq node \union DOMAIN heap.merged
        /\ heap.merged \in [heap.hashes \ node -> node \union {Nil}]
        /\ heap.allocated \in 0 .. Capacity
        /\ ptr \in [Blocks -> Offsets \union {Nil}]
        /\ len \in [Blocks -> 0 .. Capacity]
        /\ mem \in [Offsets -> (Blocks \X Offsets) \union {Nil}]

\* Splitting and joining keep the list whole: its fragments cover the arena without
\* a gap, each knows the one before it, and no two free ones are next to each other.
ListSound ==
    LET s == List(heap, 0)
        f == [i \in DOMAIN s |-> heap.node[s[i]]]
    IN  /\ Range(s) = DOMAIN heap.node
        /\ Last(s) + Last(f).size = Capacity
        /\ f[1].prev = Nil
        /\ \A i \in 1 .. Len(s) - 1 :
              /\ s[i + 1] = s[i] + f[i].size
              /\ f[i + 1].prev = s[i]
              /\ f[i].used \/ f[i + 1].used

\* The fragments of a bin, along next_free.
BinList(k) ==
    LET list[y \in Offsets] ==
            <<y>> \o (IF heap.node[y].next_free = Nil THEN <<>> ELSE list[heap.node[y].next_free])
    IN  IF heap.bins[k] = Nil THEN <<>> ELSE list[heap.bins[k]]

\* unbin finds a fragment in the bin of its size: the bins hold the free fragments and
\* no other, each once, linked both ways, and the mask tells which bins have any.
BinsSound ==
    /\ heap.nonempty_bin_mask = {k \in Bins : heap.bins[k] # Nil}
    /\ \A k \in Bins :
          LET s == BinList(k)
          IN  /\ Range(s) = {x \in Free : Bin(heap.node[x].size) = k}
              /\ Len(s) = Cardinality(Range(s))
              /\ \A i \in DOMAIN s :
                    heap.node[s[i]].prev_free = IF i = 1 THEN Nil ELSE s[i - 1]

\* The blocks that the client holds are the fragments in use: hashes leads from an
\* address to its fragment, the block fits, and allocated is what they add up to.
BlocksIndexed ==
    /\ {ptr[b] : b \in Held} = Used
    /\ \A b, c \in Held : b # c => ptr[b] # ptr[c]
    /\ \A x \in Used : check_fragment_exists(heap, x)
    /\ \A b \in Held : heap.node[ptr[b]].size >= len[b]
    /\ heap.allocated = MapThenSumSet(LAMBDA x : heap.node[x].size, Used)

\* No operation on a block, and no move of it, damages the data of any block.
DataIntact == \A b \in Held : \A i \in 0 .. len[b] - 1 : mem[ptr[b] + i] = <<b, i>>

\* A double free, or the free of an address within a block or never handed out, finds
\* nothing to free, whatever hashes still has of fragments that were merged.
StrayFreeHarmless ==
    \A a \in Offsets \ {ptr[b] : b \in Held} : heap_free(heap, a) = heap

\* The list, the bins, their mask and the index describe one and the same heap after any
\* splits and merges, and it is the client's.
HeapSound == TypeOK /\ ListSound /\ BinsSound /\ BlocksIndexed /\ StrayFreeHarmless

\* An allocation fails only if no free fragment is large enough: the bins never hide one.
FailsOnlyWhenFull ==
    \A size \in Amounts \ {0} :
        (allocate(heap, size).addr = Nil) <=>
            \/ FragmentSize(size) = 0
            \/ \A x \in Free : heap.node[x].size < FragmentSize(size)

\* A reallocation fails only if the block could not be had again after freeing it.
ReallocatesIfPossible ==
    \A b \in Held, size \in Amounts \ {0} :
        ~ CountsUsedNext(heap, ptr[b], FragmentSize(size)) =>
            ((heap_reallocate(heap, ptr[b], size).addr = Nil) <=>
                (heap_allocate(heap_free(heap, ptr[b]), size).addr = Nil))

\* No request is refused while there is room for it.
HidesNoMemory == FailsOnlyWhenFull /\ ReallocatesIfPossible

\* A copy that starts from the first fragment has the fragments of the heap; the same
\* addresses can be freed in it and the same sizes allocated.
ClonesAgree ==
    \A x \in any_fragment(heap) :
        first_fragment(heap, x) = 0 =>
            LET c == clone(heap, x)
            IN  /\ DOMAIN c.node = DOMAIN heap.node
                /\ \A a \in Offsets : check_fragment_exists(c, a) <=> check_fragment_exists(heap, a)
                /\ \A size \in Amounts :
                      (allocate(c, size).addr = Nil) <=> (allocate(heap, size).addr = Nil)

\* Where blocks are put, resized and moved is what HeapPromise allows.
Promise ==
    INSTANCE HeapPromise WITH
        Unit <- FRAGMENT_SIZE_MIN,
        Sizes <- {FragmentSize(n) : n \in Amounts} \ {0},
        used <- [x \in Used |-> heap.node[x].size]
KeepsPromise == Promise!Spec

\* The code says that first_fragment is the "Lowest-address fragment, found by walking
\* `prev` links": a copy begins there, whichever fragment hashes gives first.
CopiesStartFirst == \A x \in any_fragment(heap) : first_fragment(heap, x) = 0

\* The code says that a block that grows backward takes the free predecessor,
\* "optionally consuming the free successor too": it takes no byte of another block.
GrowsIntoFreeSpace ==
    \A b, c \in Held, size \in Amounts :
        LET r == heap_reallocate(heap, ptr[b], size)
        IN  b # c /\ r.addr # Nil => r.addr + size <= ptr[c] \/ ptr[c] + len[c] <= r.addr
=============================================================================
