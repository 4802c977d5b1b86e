---------------------------- MODULE HeapPromise -----------------------------
(***************************************************************************)
(* What the allocator of O1Heap promises about where blocks are, without   *)
(* fragments, bins or an index: there are blocks and, between them, holes. *)
(* A hole is always as large as the blocks around it leave it.             *)
(***************************************************************************)
EXTENDS Integers

CONSTANTS
    Unit,       \* smallest size of a block
    Capacity,   \* size of the arena
    Sizes       \* sizes of blocks

VARIABLE used   \* where blocks start, and how large each is

Offsets == 0 .. Capacity - 1
Bytes(a, size) == a .. a + size - 1

Unused(u) == {o \in Offsets : \A a \in DOMAIN u : o \notin Bytes(a, u[a])}

\* A hole begins at h[1] and ends before h[2].
Holes(u) ==
    LET free == Unused(u)
    IN  {h \in Offsets \X (1 .. Capacity) :
            /\ h[1] < h[2]
            /\ h[1] .. h[2] - 1 \subseteq free
            /\ h[1] - 1 \notin free /\ h[2] \notin free}

\* Sizes with the same number of binary digits are of one class.
SmallerClass(s, t) == \E k \in 0 .. Capacity : s < 2 ^ k * Unit /\ 2 ^ k * Unit <= t

\* The holes that a block of this size may be put into.
BestHoles(u, size) ==
    {h \in Holes(u) :
        /\ h[2] - h[1] >= size
        /\ \A g \in Holes(u) :
              g[2] - g[1] >= size => ~ SmallerClass(g[2] - g[1], h[2] - h[1])}

\* The block at a would fit at s, or at the lowest address that it could be moved down to.
Fits(u, a, s, size) == Bytes(s, size) \subseteq Unused(u) \union Bytes(a, u[a])
Lowest(u, a, s) == s .. a - 1 \subseteq Unused(u) /\ s - 1 \notin Unused(u)

With(u, a, size) == [b \in DOMAIN u \union {a} |-> IF b = a THEN size ELSE u[b]]
Without(u, a) == [b \in DOMAIN u \ {a} |-> u[b]]

Init == used = [a \in {} |-> 0]

Allocate(size) == \E h \in BestHoles(used, size) : used' = With(used, h[1], size)

Free(a) == used' = Without(used, a)

ResizeInPlace(a, size) ==
    /\ Fits(used, a, a, size)
    /\ used' = With(used, a, size)

\* Only if there is not enough room behind the block.
SlideDown(a, s, size) ==
    /\ Lowest(used, a, s)
    /\ ~ Fits(used, a, a, size)
    /\ Fits(used, a, s, size)
    /\ used' = With(Without(used, a), s, size)

\* Only if there is not enough room around the block.
Move(a, s, size) ==
    /\ Lowest(used, a, s)
    /\ ~ Fits(used, a, s, size)
    /\ \E h \in BestHoles(used, size) : used' = Without(With(used, h[1], size), a)

Next ==
    \/ \E size \in Sizes : Allocate(size)
    \/ \E a \in DOMAIN used :
        \/ Free(a)
        \/ \E size \in Sizes :
              \/ ResizeInPlace(a, size)
              \/ \E s \in 0 .. a : SlideDown(a, s, size) \/ Move(a, s, size)

Spec == Init /\ [][Next]_used

\* Blocks lie within the arena, and no two of them share a byte.
Apart ==
    /\ DOMAIN used \subseteq Offsets
    /\ \A a \in DOMAIN used : used[a] \in Nat \ {0} /\ Bytes(a, used[a]) \subseteq Offsets
    /\ \A a, b \in DOMAIN used : a # b => Bytes(a, used[a]) \intersect Bytes(b, used[b]) = {}
=============================================================================
