-------------------------- MODULE KernelHeapProofs --------------------------
(***************************************************************************)
(* Proofs about the two heaps: KernelHeap, for regions of any size and any *)
(* requests, and the promise of the user-space one (HeapPromise).          *)
(***************************************************************************)
EXTENDS KernelHeap, WellFoundedInduction, TLAPS

Chunk == [addr : Nat, size : Nat \ {0}, req_size : Nat, region : Regions, state : {"Live", "Freed"}]

Base(pool) == IF pool = "slab" THEN heap_base ELSE vmalloc_base

\* The inductive invariant, of cursors cur and a ledger cs.  The types that the
\* argument needs:
LedgerOK(cur, cs) ==
    /\ cur \in [{"slab", "vmalloc"} -> Nat]
    /\ cs \in Seq(Chunk)

\* a chunk lies between the base of its region and the cursor, and its redzone
\* is within the region;
ChunkOK(c, cur) ==
    /\ c.addr % 16 = 0
    /\ Base(Pool(c.region)) <= c.addr
    /\ c.addr + c.size + HEAP_REDZONE <= End(c.region)
    /\ c.addr + c.size + HEAP_REDZONE <= cur[Pool(c.region)]

CursorsAhead(cur, cs) ==
    /\ \A pool \in {"slab", "vmalloc"} : Base(pool) <= cur[pool]
    /\ \A i \in DOMAIN cs : ChunkOK(cs[i], cur)

\* and chunks are a redzone apart, those of one pool in the order of the ledger.
Apart(c, d) ==
    \/ c.addr + c.size + HEAP_REDZONE <= d.addr
    \/ d.addr + d.size + HEAP_REDZONE <= c.addr

Ordered(c, d) == Pool(c.region) = Pool(d.region) => c.addr + c.size + HEAP_REDZONE <= d.addr

PairsApart(cs) == \A i, j \in DOMAIN cs : i < j => Apart(cs[i], cs[j]) /\ Ordered(cs[i], cs[j])

LedgerInv(cur, cs) == LedgerOK(cur, cs) /\ CursorsAhead(cur, cs) /\ PairsApart(cs)

-----------------------------------------------------------------------------
(* Arithmetic of the operators *)

\* next_multiple_of rounds up, to a multiple.
LEMMA RoundUp16 ==
    ASSUME NEW x \in Nat
    PROVE  /\ next_multiple_of(x, 16) \in Nat
           /\ next_multiple_of(x, 16) >= x
           /\ next_multiple_of(x, 16) % 16 = 0
BY DEF next_multiple_of

LEMMA RoundUpPage ==
    ASSUME NEW x \in Nat
    PROVE  /\ next_multiple_of(x, PAGE) \in Nat
           /\ next_multiple_of(x, PAGE) >= x
BY DEF next_multiple_of, PAGE

\* A bucket is a positive size that holds the request.
LEMMA BucketHolds ==
    ASSUME NEW x \in Nat, x > 0
    PROVE  bucket(x) \in Nat \ {0} /\ bucket(x) >= x
<1> BUCKETS \subseteq Nat \ {0}
  BY DEF BUCKETS
<1>1. CASE \E b \in BUCKETS : x <= b
  <2>1. \E b \in BUCKETS : x <= b /\ \A c \in BUCKETS : x <= c => b <= c
    BY <1>1 DEF BUCKETS
  <2> DEFINE least == CHOOSE b \in BUCKETS : x <= b /\ \A c \in BUCKETS : x <= c => b <= c
  <2>2. least \in BUCKETS /\ x <= least
    BY <2>1, Zenon
  <2>3. bucket(x) = least
    BY <1>1 DEF bucket
  <2> QED BY <2>2, <2>3, Zenon
<1>2. CASE ~ \E b \in BUCKETS : x <= b
  BY <1>2, RoundUpPage DEF bucket
<1> QED BY <1>1, <1>2

\* Every chunk has a positive size.
LEMMA ChunkSizeType ==
    ASSUME NEW region \in Regions, NEW req_size \in Nat
    PROVE  ChunkSize(region, req_size) \in Nat \ {0}
<1>1. AtLeastOne(req_size) \in Nat /\ AtLeastOne(req_size) > 0
  BY DEF AtLeastOne
<1>2. bucket(AtLeastOne(req_size)) \in Nat \ {0}
  BY <1>1, BucketHolds
<1>3. next_multiple_of(AtLeastOne(req_size), PAGE) \in Nat \ {0}
  BY <1>1, RoundUpPage
<1> QED BY <1>2, <1>3 DEF ChunkSize

-----------------------------------------------------------------------------
(* The two ways in which the ledger changes *)

\* A chunk and its redzone lie within the region.
InRegion(c) ==
    /\ Base(Pool(c.region)) <= c.addr
    /\ c.addr + c.size + HEAP_REDZONE <= End(c.region)

\* Chunks of the two pools are apart since the regions are, so record_alloc has
\* to see to the chunks of its own pool only.
LEMMA PoolsApart ==
    ASSUME NEW b \in Chunk, NEW c \in Chunk, InRegion(b), InRegion(c), Ordered(b, c)
    PROVE  Apart(b, c)
<1>1. b.addr \in Nat /\ b.size \in Nat /\ c.addr \in Nat /\ c.size \in Nat
  BY DEF Chunk
<1>2. CASE Pool(b.region) = "slab" /\ Pool(c.region) = "vmalloc"
  <2>1. b.addr + b.size + HEAP_REDZONE <= heap_base + heap_size /\ vmalloc_base <= c.addr
    BY <1>2 DEF InRegion, Base, End, Pool
  <2> QED BY <2>1, <1>1, KernelHeapAssumption DEF Apart, HEAP_REDZONE
<1>3. CASE Pool(b.region) = "vmalloc" /\ Pool(c.region) = "slab"
  <2>1. c.addr + c.size + HEAP_REDZONE <= heap_base + heap_size /\ vmalloc_base <= b.addr
    BY <1>3 DEF InRegion, Base, End, Pool
  <2> QED BY <2>1, <1>1, KernelHeapAssumption DEF Apart, HEAP_REDZONE
<1>4. CASE Pool(b.region) = Pool(c.region)
  BY <1>4 DEF Apart, Ordered
<1> QED BY <1>2, <1>3, <1>4 DEF Pool

\* What ends below a cursor ends below anything at or above the cursor.
LEMMA EndsBelow ==
    ASSUME NEW a \in Nat, NEW size \in Nat, NEW cur \in Nat, NEW b \in Nat,
           a + size + HEAP_REDZONE <= cur, cur <= b
    PROVE  a + size + HEAP_REDZONE <= b
BY DEF HEAP_REDZONE

\* Cursors and ledger once record_alloc has appended a chunk.
Recorded(region, req_size, cur, cs) ==
    /\ cur = [cursor EXCEPT ![Pool(region)] = CursorAfter(region, ChunkSize(region, req_size))]
    /\ cs = Append(chunks, NewChunk(region, req_size))

\* A new chunk, in a region that is not exhausted.
LEMMA RecordAlloc ==
    ASSUME LedgerInv(cursor, chunks), NEW region \in Regions, NEW req_size \in Nat,
           ~ Exhausted(region, ChunkSize(region, req_size)),
           NEW cur, NEW cs, Recorded(region, req_size, cur, cs)
    PROVE  LedgerInv(cur, cs)
<1> DEFINE c == NewChunk(region, req_size)
           size == ChunkSize(region, req_size)
           p == Pool(region)
<1>0. p \in {"slab", "vmalloc"}
  BY DEF Pool
<1>1. size \in Nat \ {0}
  BY ChunkSizeType
<1>2. cursor[p] \in Nat /\ Base(p) <= cursor[p]
  BY <1>0 DEF LedgerInv, LedgerOK, CursorsAhead
<1>3. NextAddr(region) \in Nat /\ cursor[p] <= NextAddr(region)
  BY <1>2, RoundUp16 DEF NextAddr
<1>aligned. NextAddr(region) % 16 = 0
  BY <1>2, RoundUp16 DEF NextAddr
<1>4. c \in Chunk /\ c.addr = NextAddr(region) /\ c.size = size /\ c.region = region
  BY <1>1, <1>3 DEF NewChunk, Chunk
<1>place. c.addr \in Nat /\ c.size \in Nat /\ Base(p) \in Nat /\ Base(p) <= c.addr
  <2>1. Base(p) \in Nat
    BY KernelHeapAssumption DEF Base
  <2> HIDE DEF c, size, p
  <2> QED BY <2>1, <1>1, <1>2, <1>3, <1>4
<1> HIDE DEF c, size
<1>5. /\ cur[p] = c.addr + c.size + HEAP_REDZONE
      /\ \A q \in {"slab", "vmalloc"} : q # p => cur[q] = cursor[q]
      /\ cur \in [{"slab", "vmalloc"} -> Nat]
  BY <1>0, <1>1, <1>3, <1>4 DEF LedgerInv, LedgerOK, CursorAfter, HEAP_REDZONE, Recorded, size
<1>6. c.addr + c.size + HEAP_REDZONE <= End(region)
  <2>1. End(region) \in Nat
    BY KernelHeapAssumption DEF End
  <2> QED BY <2>1, <1>1, <1>3, <1>4 DEF Exhausted, HEAP_REDZONE, size
<1>7. /\ Len(chunks) \in Nat
      /\ cs \in Seq(Chunk)
      /\ DOMAIN cs = 1 .. Len(chunks) + 1
      /\ DOMAIN chunks = 1 .. Len(chunks)
      /\ \A i \in 1 .. Len(chunks) : cs[i] = chunks[i] /\ chunks[i] \in Chunk
      /\ cs[Len(chunks) + 1] = c
  BY <1>4 DEF LedgerInv, LedgerOK, Recorded, c
<1>8. \A q \in {"slab", "vmalloc"} : cursor[q] \in Nat /\ cur[q] \in Nat /\ cursor[q] <= cur[q]
  <2>1. cursor[p] <= cur[p]
    BY <1>1, <1>2, <1>3, <1>4, <1>5 DEF HEAP_REDZONE
  <2> QED BY <2>1, <1>0, <1>5 DEF LedgerInv, LedgerOK
<1>9. CursorsAhead(cur, cs)
  <2>1. \A q \in {"slab", "vmalloc"} : Base(q) \in Nat /\ Base(q) <= cur[q]
    BY <1>8, KernelHeapAssumption DEF Base, LedgerInv, CursorsAhead
  <2>2. ChunkOK(c, cur)
    <3>1. c.addr + c.size + HEAP_REDZONE <= cur[p]
      BY <1>0, <1>5, <1>8
    <3> QED BY <3>1, <1>aligned, <1>4, <1>6, <1>place DEF ChunkOK
  <2>3. ASSUME NEW i \in 1 .. Len(chunks) PROVE ChunkOK(chunks[i], cur)
    <3>1. ChunkOK(chunks[i], cursor) /\ chunks[i] \in Chunk
      BY <1>7 DEF LedgerInv, CursorsAhead
    <3>2. Pool(chunks[i].region) \in {"slab", "vmalloc"}
      BY DEF Pool
    <3>3. chunks[i].addr \in Nat /\ chunks[i].size \in Nat
      BY <3>1 DEF Chunk
    <3>4. cursor[Pool(chunks[i].region)] <= cur[Pool(chunks[i].region)]
      BY <3>2, <1>8
    <3>5. cursor[Pool(chunks[i].region)] \in Nat /\ cur[Pool(chunks[i].region)] \in Nat
      BY <3>2, <1>8
    <3>6. chunks[i].addr + chunks[i].size + HEAP_REDZONE <= cursor[Pool(chunks[i].region)]
      BY <3>1 DEF ChunkOK
    <3>7. chunks[i].addr + chunks[i].size + HEAP_REDZONE <= cur[Pool(chunks[i].region)]
      BY <3>3, <3>4, <3>5, <3>6, EndsBelow
    <3> QED BY <3>1, <3>7 DEF ChunkOK
  <2>4. \A i \in DOMAIN cs : ChunkOK(cs[i], cur)
    <3> SUFFICES ASSUME NEW i \in 1 .. Len(chunks) + 1 PROVE ChunkOK(cs[i], cur)
      BY <1>7
    <3>1. CASE i = Len(chunks) + 1
      <4>1. cs[i] = c
        BY <3>1, <1>7
      <4> QED BY <4>1, <2>2
    <3>2. CASE i # Len(chunks) + 1
      <4>1. i \in 1 .. Len(chunks)
        BY <3>2, <1>7
      <4>2. cs[i] = chunks[i]
        BY <4>1, <1>7
      <4> QED BY <4>1, <4>2, <2>3
    <3> QED BY <3>1, <3>2
  <2> QED BY <2>1, <2>4 DEF CursorsAhead
<1>10. ASSUME NEW i \in 1 .. Len(chunks) PROVE Apart(chunks[i], c) /\ Ordered(chunks[i], c)
  <2>1. ChunkOK(chunks[i], cursor) /\ chunks[i] \in Chunk
    BY <1>7 DEF LedgerInv, CursorsAhead
  <2>2. InRegion(chunks[i]) /\ chunks[i].addr \in Nat /\ chunks[i].size \in Nat
    BY <2>1 DEF ChunkOK, InRegion, Chunk
  <2>3. InRegion(c)
    BY <1>4, <1>6, <1>place DEF InRegion
  <2>4. ASSUME Pool(chunks[i].region) = Pool(c.region)
        PROVE  chunks[i].addr + chunks[i].size + HEAP_REDZONE <= c.addr
    <3>1. cursor[p] <= c.addr
      BY <1>3, <1>4
    <3>2. chunks[i].addr + chunks[i].size + HEAP_REDZONE <= cursor[p]
      BY <2>1, <2>4, <1>4 DEF ChunkOK
    <3> QED BY <3>1, <3>2, <2>2, <1>2, <1>place, EndsBelow
  <2>5. Ordered(chunks[i], c)
    BY <2>4 DEF Ordered
  <2> QED BY <2>1, <2>2, <2>3, <2>5, <1>4, PoolsApart
<1>11. PairsApart(cs)
  <2> SUFFICES ASSUME NEW i \in DOMAIN cs, NEW j \in DOMAIN cs, i < j
               PROVE  Apart(cs[i], cs[j]) /\ Ordered(cs[i], cs[j])
    BY DEF PairsApart
  <2>1. CASE j = Len(chunks) + 1
    BY <2>1, <1>7, <1>10
  <2>2. CASE j # Len(chunks) + 1
    <3>1. i \in 1 .. Len(chunks) /\ j \in 1 .. Len(chunks)
      BY <2>2, <1>7
    <3> QED BY <3>1, <1>7 DEF LedgerInv, PairsApart
  <2> QED BY <2>1, <2>2
<1> QED BY <1>5, <1>7, <1>9, <1>11 DEF LedgerInv, LedgerOK

\* A nonempty set of natural numbers has a least element.
LEMMA HasLeast ==
    ASSUME NEW S \in SUBSET Nat, S # {}
    PROVE  \E i \in S : \A j \in S : i <= j
<1>1. PICK i \in S : \A j \in S : ~ (<<j, i>> \in OpToRel(<, Nat))
  BY NatLessThanWellFounded, WFMin, Zenon
<1>2. ASSUME NEW j \in S PROVE i <= j
  <2>1. i \in Nat /\ j \in Nat
    OBVIOUS
  <2>2. j < i => <<j, i>> \in OpToRel(<, Nat)
    BY <2>1 DEF OpToRel
  <2>3. ~ (j < i)
    BY <2>2, <1>1, Zenon
  <2> QED BY <2>1, <2>3
<1> QED BY <1>2

\* A free keeps every chunk where it is.
LEMMA FreeKeepsPlaces ==
    ASSUME NEW cs \in Seq(Chunk), NEW ptr
    PROVE  /\ AfterFree(cs, ptr) \in Seq(Chunk)
           /\ Len(AfterFree(cs, ptr)) = Len(cs)
           /\ \A i \in 1 .. Len(cs) :
                /\ AfterFree(cs, ptr)[i].addr = cs[i].addr
                /\ AfterFree(cs, ptr)[i].size = cs[i].size
                /\ AfterFree(cs, ptr)[i].region = cs[i].region
                /\ is_freed(cs[i]) => is_freed(AfterFree(cs, ptr)[i])
<1> DEFINE idx == index_of_base(cs, ptr)
<1>1. idx # 0 => idx \in 1 .. Len(cs)
  <2>1. Bases(cs, ptr) \subseteq 1 .. Len(cs)
    BY DEF Bases
  <2>2. CASE Bases(cs, ptr) = {}
    BY <2>2 DEF index_of_base
  <2>3. CASE Bases(cs, ptr) # {}
    <3>1. \E i \in Bases(cs, ptr) : \A j \in Bases(cs, ptr) : i <= j
      <4>1. Bases(cs, ptr) \in SUBSET Nat
        BY <2>1
      <4> QED BY <4>1, <2>3, HasLeast
    <3> QED BY <2>1, <3>1, <2>3 DEF index_of_base
  <2> QED BY <2>2, <2>3
<1> HIDE DEF idx
<1>2. CASE ptr = 0 \/ idx = 0
  BY <1>2 DEF AfterFree, idx
<1>3. CASE ptr # 0 /\ idx # 0
  <2>1. idx \in 1 .. Len(cs)
    BY <1>1, <1>3
  <2>2. AfterFree(cs, ptr) = [cs EXCEPT ![idx].state = "Freed"]
    BY <1>3 DEF AfterFree, idx
  <2>3. \A i \in 1 .. Len(cs) : cs[i] \in Chunk
    OBVIOUS
  <2>4. [cs[idx] EXCEPT !.state = "Freed"] \in Chunk
    BY <2>1, <2>3, Zenon DEF Chunk
  <2>5. AfterFree(cs, ptr) = [cs EXCEPT ![idx] = [cs[idx] EXCEPT !.state = "Freed"]]
    BY <2>2
  <2>6. AfterFree(cs, ptr) \in Seq(Chunk) /\ Len(AfterFree(cs, ptr)) = Len(cs)
    BY <2>1, <2>4, <2>5
  <2>7. ASSUME NEW i \in 1 .. Len(cs)
        PROVE  /\ AfterFree(cs, ptr)[i].addr = cs[i].addr
               /\ AfterFree(cs, ptr)[i].size = cs[i].size
               /\ AfterFree(cs, ptr)[i].region = cs[i].region
               /\ is_freed(cs[i]) => is_freed(AfterFree(cs, ptr)[i])
    <3>1. CASE i = idx
      <4>1. AfterFree(cs, ptr)[i] = [cs[i] EXCEPT !.state = "Freed"]
        BY <2>1, <2>5, <3>1
      <4> QED BY <4>1, <2>3 DEF Chunk, is_freed
    <3>2. CASE i # idx
      <4>1. AfterFree(cs, ptr)[i] = cs[i]
        BY <2>1, <2>5, <3>2
      <4> QED BY <4>1
    <3> QED BY <3>1, <3>2
  <2> QED BY <2>6, <2>7
<1> QED BY <1>2, <1>3

\* A free of any pointer preserves the invariant.
LEMMA FreePreserves ==
    ASSUME NEW cur, NEW cs, LedgerInv(cur, cs), NEW ptr
    PROVE  LedgerInv(cur, AfterFree(cs, ptr))
<1> DEFINE after == AfterFree(cs, ptr)
<1>1. cs \in Seq(Chunk) /\ Len(cs) \in Nat /\ DOMAIN cs = 1 .. Len(cs)
  BY DEF LedgerInv, LedgerOK
<1>2. /\ after \in Seq(Chunk)
      /\ DOMAIN after = DOMAIN cs
      /\ \A i \in DOMAIN cs : /\ after[i].addr = cs[i].addr
                              /\ after[i].size = cs[i].size
                              /\ after[i].region = cs[i].region
  BY <1>1, FreeKeepsPlaces
<1> HIDE DEF after
<1>3. \A i \in DOMAIN after : ChunkOK(after[i], cur)
  BY <1>2 DEF LedgerInv, CursorsAhead, ChunkOK
<1>4. PairsApart(after)
  BY <1>2 DEF LedgerInv, PairsApart, Apart, Ordered
<1>5. LedgerOK(cur, after) /\ \A pool \in {"slab", "vmalloc"} : Base(pool) <= cur[pool]
  BY <1>2 DEF LedgerInv, LedgerOK, CursorsAhead
<1>6. LedgerInv(cur, after)
  BY <1>3, <1>4, <1>5 DEF LedgerInv, CursorsAhead
<1> QED BY <1>6 DEF after

-----------------------------------------------------------------------------
(* The steps of the driver *)

\* kernel_alloc, also when it refuses.
LEMMA AllocPreserves ==
    ASSUME LedgerInv(cursor, chunks), NEW region \in Regions, NEW size \in Nat,
           kernel_alloc(region, size)
    PROVE  LedgerInv(cursor', chunks')
<1>1. CASE Refused(region, size)
  <2>1. cursor' = cursor /\ chunks' = chunks
    BY <1>1 DEF kernel_alloc
  <2> QED BY <2>1
<1>2. CASE ~ Refused(region, size)
  <2>1. Recorded(region, size, cursor', chunks')
    BY <1>2 DEF kernel_alloc, Recorded
  <2>2. ~ Exhausted(region, ChunkSize(region, size))
    BY <1>2 DEF Refused
  <2> QED BY <2>1, <2>2, RecordAlloc
<1> QED BY <1>1, <1>2

\* krealloc, in each of its cases.
LEMMA ReallocPreserves ==
    ASSUME LedgerInv(cursor, chunks), NEW old, NEW size \in Nat, krealloc(old, size)
    PROVE  LedgerInv(cursor', chunks')
<1>1. CASE kernel_free(old)
  BY <1>1, FreePreserves DEF kernel_free
<1>2. CASE kernel_alloc("Slab", size)
  BY <1>2, AllocPreserves DEF Regions
<1>3. CASE krealloc_moves(old, size) /\ ~ Refused("Slab", size)
  <2> DEFINE cur == [cursor EXCEPT !["slab"] = CursorAfter("Slab", ChunkSize("Slab", size))]
             cs == Append(chunks, NewChunk("Slab", size))
  <2>1. Pool("Slab") = "slab" /\ "Slab" \in Regions
    BY DEF Pool, Regions
  <2>2. ~ Exhausted("Slab", ChunkSize("Slab", size))
    BY <1>3 DEF Refused
  <2>3. Recorded("Slab", size, cur, cs)
    BY <2>1, Zenon DEF Recorded
  <2>inv. LedgerInv(cur, cs)
    BY <2>1, <2>2, <2>3, RecordAlloc
  <2>4. cursor' = cur /\ (chunks' = cs \/ chunks' = AfterFree(cs, old))
    BY <1>3 DEF krealloc_moves
  <2> HIDE DEF cur, cs
  <2> QED BY <2>inv, <2>4, FreePreserves
<1> QED BY <1>1, <1>2, <1>3 DEF krealloc

\* The invariant is inductive.
LEMMA LedgerInvariant == Spec => []LedgerInv(cursor, chunks)
<1>1. Init => LedgerInv(cursor, chunks)
  BY KernelHeapAssumption DEF Init, LedgerInv, LedgerOK, CursorsAhead, PairsApart, Base
<1>2. LedgerInv(cursor, chunks) /\ [Next]_vars => LedgerInv(cursor, chunks)'
  <2> SUFFICES ASSUME LedgerInv(cursor, chunks), [Next]_vars
               PROVE  LedgerInv(cursor', chunks')
    OBVIOUS
  <2>0. ReqSizes \subseteq Nat
    BY KernelHeapAssumption
  <2>1. ASSUME NEW size \in ReqSizes, slab_alloc(size) PROVE LedgerInv(cursor', chunks')
    BY <2>0, <2>1, AllocPreserves DEF slab_alloc, Regions
  <2>2. ASSUME NEW size \in ReqSizes, NEW region \in {"Vmalloc", "Pages"}, large_alloc(region, size)
        PROVE  LedgerInv(cursor', chunks')
    BY <2>0, <2>2, AllocPreserves DEF large_alloc, Regions
  <2>3. ASSUME NEW ptr \in Pointers, kernel_free(ptr) PROVE LedgerInv(cursor', chunks')
    BY <2>3, FreePreserves DEF kernel_free
  <2>4. ASSUME NEW ptr \in Pointers, NEW size \in ReqSizes, krealloc(ptr, size)
        PROVE  LedgerInv(cursor', chunks')
    BY <2>0, <2>4, ReallocPreserves
  <2>5. ASSUME UNCHANGED <<cursor, chunks>> PROVE LedgerInv(cursor', chunks')
    BY <2>5
  <2> QED BY <2>1, <2>2, <2>3, <2>4, <2>5 DEF Next, Access, Copy, kernel_check_leaks, vars
<1> QED BY <1>1, <1>2, PTL DEF Spec

\* Chunks of the ledger, live or quarantined, are aligned, end within their
\* region and are a redzone apart, whatever the driver allocates, frees or
\* reallocates and wherever the regions lie (record_alloc).
THEOREM RedzonesHold == Spec => []RedzonesApart
<1>1. LedgerInv(cursor, chunks) => RedzonesApart
  BY DEF LedgerInv, CursorsAhead, ChunkOK, PairsApart, Apart, RedzonesApart
<1> QED BY <1>1, LedgerInvariant, PTL

-----------------------------------------------------------------------------
(* Quarantine *)

\* What a step keeps of the ledger.
Keeps(cs, cs2) ==
    /\ Len(cs2) >= Len(cs)
    /\ \A i \in DOMAIN cs :
         /\ cs2[i].addr = cs[i].addr /\ cs2[i].size = cs[i].size
         /\ is_freed(cs[i]) => is_freed(cs2[i])

\* A free keeps every chunk, and so does an allocation, with or without a free
\* after it.
LEMMA KeepsLedger ==
    ASSUME NEW cs \in Seq(Chunk), NEW c \in Chunk, NEW ptr
    PROVE  /\ Keeps(cs, cs)
           /\ Keeps(cs, AfterFree(cs, ptr))
           /\ Keeps(cs, Append(cs, c))
           /\ Keeps(cs, AfterFree(Append(cs, c), ptr))
<1> DEFINE longer == Append(cs, c)
<1>1. /\ longer \in Seq(Chunk) /\ Len(longer) = Len(cs) + 1 /\ Len(cs) \in Nat
      /\ DOMAIN cs = 1 .. Len(cs)
      /\ \A i \in 1 .. Len(cs) : longer[i] = cs[i] /\ i \in 1 .. Len(longer)
  OBVIOUS
<1> HIDE DEF longer
<1>2. /\ Len(AfterFree(longer, ptr)) = Len(longer)
      /\ \A i \in 1 .. Len(longer) :
           /\ AfterFree(longer, ptr)[i].addr = longer[i].addr
           /\ AfterFree(longer, ptr)[i].size = longer[i].size
           /\ is_freed(longer[i]) => is_freed(AfterFree(longer, ptr)[i])
  BY <1>1, FreeKeepsPlaces
<1>3. Keeps(cs, cs) /\ Keeps(cs, longer)
  BY <1>1 DEF Keeps
<1>4. Keeps(cs, AfterFree(cs, ptr))
  BY <1>1, FreeKeepsPlaces DEF Keeps
<1>5. Keeps(cs, AfterFree(longer, ptr))
  BY <1>1, <1>2 DEF Keeps
<1> QED BY <1>3, <1>4, <1>5 DEF longer

\* The chunk that kernel_alloc records is a chunk.
LEMMA NewChunkType ==
    ASSUME LedgerInv(cursor, chunks), NEW region \in Regions, NEW size \in Nat
    PROVE  NewChunk(region, size) \in Chunk
<1>1. cursor[Pool(region)] \in Nat
  BY DEF Pool, LedgerInv, LedgerOK
<1>2. NextAddr(region) \in Nat
  BY <1>1, RoundUp16 DEF NextAddr
<1> QED BY <1>2, ChunkSizeType DEF NewChunk, Chunk

\* The ledger never forgets: it only grows, and a freed chunk keeps its place
\* and stays freed, whatever the driver does (record_free, kernel_free).
THEOREM QuarantineHolds == Spec => Quarantine
<1>1. LedgerInv(cursor, chunks) /\ [Next]_vars => [Keeps(chunks, chunks')]_vars
  <2> SUFFICES ASSUME LedgerInv(cursor, chunks), Next PROVE Keeps(chunks, chunks')
    OBVIOUS
  <2>0. ReqSizes \subseteq Nat /\ chunks \in Seq(Chunk)
    BY KernelHeapAssumption DEF LedgerInv, LedgerOK
  <2>1. ASSUME NEW region \in Regions, NEW size \in ReqSizes, NEW ptr,
               \/ chunks' = chunks
               \/ chunks' = AfterFree(chunks, ptr)
               \/ chunks' = Append(chunks, NewChunk(region, size))
               \/ chunks' = AfterFree(Append(chunks, NewChunk(region, size)), ptr)
        PROVE  Keeps(chunks, chunks')
    <3>1. NewChunk(region, size) \in Chunk
      BY <2>0, NewChunkType
    <3> QED BY <2>0, <2>1, <3>1, KeepsLedger, Zenon
  <2>2. ASSUME NEW size \in ReqSizes, slab_alloc(size) PROVE Keeps(chunks, chunks')
    BY <2>1, <2>2 DEF slab_alloc, kernel_alloc, Regions
  <2>3. ASSUME NEW size \in ReqSizes, NEW region \in {"Vmalloc", "Pages"}, large_alloc(region, size)
        PROVE  Keeps(chunks, chunks')
    BY <2>1, <2>3 DEF large_alloc, kernel_alloc, Regions
  <2>4. ASSUME NEW ptr \in Pointers, kernel_free(ptr) PROVE Keeps(chunks, chunks')
    <3>1. chunks' = AfterFree(chunks, ptr)
      BY <2>4 DEF kernel_free
    <3>2. [addr |-> 0, size |-> 1, req_size |-> 0, region |-> "Slab", state |-> "Live"] \in Chunk
      BY DEF Chunk, Regions
    <3> QED BY <2>0, <3>1, <3>2, KeepsLedger
  <2>5. ASSUME NEW ptr \in Pointers, NEW size \in ReqSizes, krealloc(ptr, size)
        PROVE  Keeps(chunks, chunks')
    BY <2>1, <2>5 DEF krealloc, krealloc_moves, kernel_alloc, kernel_free, Regions
  <2>6. ASSUME UNCHANGED chunks PROVE Keeps(chunks, chunks')
    BY <2>0, <2>6 DEF Keeps
  <2> QED BY <2>2, <2>3, <2>4, <2>5, <2>6 DEF Next, Access, Copy, kernel_check_leaks
<1>2. Spec => [][Keeps(chunks, chunks')]_vars
  BY <1>1, LedgerInvariant, PTL DEF Spec
<1> QED BY <1>2, PTL DEF Quarantine, Keeps

-----------------------------------------------------------------------------
(* The binary search of index_of *)

\* An element of the ledger that the search keeps to the left; indices start at 0 here.
Below(cs, a, i) == cs[i + 1].addr <= a

\* The stretch that a step of the search goes on with, out of one of at least 2 elements.
Rest(cs, a, w) ==
    <<IF Below(cs, a, w[1] + w[2] \div 2) THEN w[1] + w[2] \div 2 ELSE w[1], w[2] - w[2] \div 2>>

\* One step, where f searches the rest.
Halve(cs, a, f, w) ==
    IF w[2] = 1 THEN IF Below(cs, a, w[1]) THEN w[1] + 1 ELSE w[1]
    ELSE f[Rest(cs, a, w)]

\* The rest is a shorter stretch of the ledger.
LEMMA RestShorter ==
    ASSUME NEW cs, NEW a, NEW len \in Nat, NEW w \in Windows(len), w[2] # 1
    PROVE  Rest(cs, a, w) \in Windows(len) /\ Rest(cs, a, w)[2] < w[2]
<1>1. PICK b \in 0 .. len, s \in 1 .. len : w = <<b, s>> /\ b + s <= len
  BY DEF Windows
<1>2. s \in Nat /\ s > 1 /\ b \in Nat
  BY <1>1
<1>3. s \div 2 \in 1 .. s - 1
  BY <1>2
<1> DEFINE h == s \div 2
<1> HIDE DEF h
<1>4. h \in Nat /\ 1 <= h /\ h < s
  BY <1>3 DEF h
<1>5. Rest(cs, a, w) = <<IF Below(cs, a, b + h) THEN b + h ELSE b, s - h>>
  BY <1>1 DEF Rest, h
<1>6. \A c \in {b, b + h} : <<c, s - h>> \in Windows(len)
  BY <1>1, <1>2, <1>4 DEF Windows
<1> QED  BY <1>1, <1>2, <1>4, <1>5, <1>6

\* The stretches of at most k elements.
Short(len, k) == {w \in Windows(len) : w[2] <= k}

\* The search is well defined: every stretch has a result, since the rest is always shorter.
LEMMA SearchExists ==
    ASSUME NEW cs, NEW a, NEW len \in Nat
    PROVE  \E f : f = [w \in Windows(len) |-> Halve(cs, a, f, w)]
<1> DEFINE P(k) == \E f : f = [w \in Short(len, k) |-> Halve(cs, a, f, w)]
           S == {k \in Nat : ~ P(k)}
<1>1. P(0)
  <2>1. Short(len, 0) = {}
    BY DEF Short, Windows
  <2>2. [w \in Short(len, 0) |-> w] = [w \in Short(len, 0) |-> Halve(cs, a, [v \in Short(len, 0) |-> v], w)]
    BY <2>1
  <2> QED  BY <2>2, Zenon
<1>2. ASSUME NEW k \in Nat, P(k) PROVE P(k + 1)
  <2>1. PICK f : f = [w \in Short(len, k) |-> Halve(cs, a, f, w)]
    BY <1>2
  <2> DEFINE g == [w \in Short(len, k + 1) |-> Halve(cs, a, f, w)]
  <2>2. \A w \in Short(len, k) : w \in Short(len, k + 1) /\ f[w] = Halve(cs, a, f, w)
    <3>1. \A w \in Short(len, k) : f[w] = Halve(cs, a, f, w)
      BY <2>1
    <3>2. \A w \in Windows(len) : w[2] \in Nat
      BY DEF Windows
    <3>3. \A w \in Short(len, k) : w \in Short(len, k + 1)
      BY <3>2 DEF Short
    <3> QED  BY <3>1, <3>3
  <2>3. \A w \in Short(len, k) : g[w] = f[w]
    BY <2>2
  <2>4. ASSUME NEW w \in Short(len, k + 1) PROVE Halve(cs, a, f, w) = Halve(cs, a, g, w)
    <3>1. CASE w[2] = 1
      BY <3>1 DEF Halve
    <3>2. CASE w[2] # 1
      <4>1. w \in Windows(len) /\ w[2] \in Nat /\ w[2] <= k + 1
        BY DEF Short, Windows
      <4>2. Rest(cs, a, w) \in Windows(len) /\ Rest(cs, a, w)[2] < w[2]
        BY <3>2, <4>1, RestShorter
      <4>3. Rest(cs, a, w)[2] \in Nat
        BY <4>2 DEF Windows
      <4>4. Rest(cs, a, w) \in Short(len, k)
        BY <4>1, <4>2, <4>3 DEF Short
      <4> HIDE DEF g
      <4> QED  BY <2>3, <3>2, <4>4 DEF Halve
    <3> QED  BY <3>1, <3>2
  <2>5. g = [w \in Short(len, k + 1) |-> Halve(cs, a, g, w)]
    <3>1. g = [w \in Short(len, k + 1) |-> Halve(cs, a, f, w)]
      OBVIOUS
    <3> HIDE DEF g
    <3> QED  BY <2>4, <3>1
  <2> HIDE DEF g
  <2> QED  BY <2>5
<1>3. S = {}
  <2> SUFFICES ASSUME S # {} PROVE FALSE
    OBVIOUS
  <2>1. S \in SUBSET Nat
    OBVIOUS
  <2>2. PICK k \in S : \A j \in S : k <= j
    <3> HIDE DEF S
    <3> QED  BY <2>1, HasLeast
  <2> HIDE DEF P
  <2>3. k \in Nat /\ ~ P(k) /\ k # 0
    BY <1>1
  <2>4. k - 1 \in Nat /\ P(k - 1) /\ (k - 1) + 1 = k
    BY <2>2, <2>3
  <2>5. P(k)
    <3>1. P((k - 1) + 1)
      BY <1>2, <2>4
    <3> QED  BY <2>4, <3>1
  <2> QED  BY <2>3, <2>5
<1>4. P(len)
  <2> HIDE DEF P
  <2> QED  BY <1>3
<1>5. Short(len, len) = Windows(len)
  BY DEF Short, Windows
<1> QED  BY <1>4, <1>5

\* partition_point is the search, from the whole ledger.
LEMMA SearchWhole ==
    ASSUME NEW cs \in Seq(Chunk), NEW a
    PROVE  \/ cs = <<>> /\ partition_point(cs, a) = 0
           \/ /\ cs # <<>> /\ Len(cs) \in Nat \ {0}
              /\ \E f : /\ f = [w \in Windows(Len(cs)) |-> Halve(cs, a, f, w)]
                        /\ partition_point(cs, a) = f[<<0, Len(cs)>>]
<1>1. CASE cs = <<>>
  BY <1>1 DEF partition_point
<1>2. CASE cs # <<>>
  <2> DEFINE f == CHOOSE f : f = [w \in Windows(Len(cs)) |-> Halve(cs, a, f, w)]
  <2>1. f = [w \in Windows(Len(cs)) |-> Halve(cs, a, f, w)]
    <3>1. Len(cs) \in Nat
      OBVIOUS
    <3> QED  BY <3>1, SearchExists
  <2>2. partition_point(cs, a) = f[<<0, Len(cs)>>]
    BY <1>2 DEF partition_point, Halve, Rest, Below
  <2>3. Len(cs) \in Nat \ {0}
    BY <1>2
  <2> HIDE DEF f
  <2> QED  BY <1>2, <2>1, <2>2, <2>3
<1> QED  BY <1>1, <1>2

\* What the search returns for a stretch: a place within it or just beyond, and in a sorted
\* ledger the number of elements to the left.
Splits(cs, a, w, p) ==
    /\ p \in w[1] .. w[1] + w[2]
    /\ p > w[1] => Below(cs, a, p - 1)
    /\ p < w[1] + w[2] => ~ Below(cs, a, p)

Sorted(cs, a) == \A i, j \in 0 .. Len(cs) - 1 : i <= j /\ Below(cs, a, j) => Below(cs, a, i)

\* One step of the search, when the search of the rest is right.
LEMMA HalveSplits ==
    ASSUME NEW cs \in Seq(Chunk), NEW a, NEW f, NEW w \in Windows(Len(cs)),
           w[2] # 1 => /\ f[Rest(cs, a, w)] \in Rest(cs, a, w)[1] .. Rest(cs, a, w)[1] + Rest(cs, a, w)[2]
                       /\ Sorted(cs, a) => Splits(cs, a, Rest(cs, a, w), f[Rest(cs, a, w)])
    PROVE  /\ Halve(cs, a, f, w) \in w[1] .. w[1] + w[2]
           /\ Sorted(cs, a) => Splits(cs, a, w, Halve(cs, a, f, w))
<1>1. PICK b \in 0 .. Len(cs), s \in 1 .. Len(cs) : w = <<b, s>> /\ b + s <= Len(cs)
  BY DEF Windows
<1>2. b \in Nat /\ s \in Nat /\ s >= 1 /\ w[1] = b /\ w[2] = s /\ Len(cs) \in Nat
  BY <1>1
<1>3. CASE s = 1
  <2>1. Halve(cs, a, f, w) = IF Below(cs, a, b) THEN b + 1 ELSE b
    BY <1>2, <1>3 DEF Halve
  <2>2. (b + 1) - 1 = b
    BY <1>2
  <2>3. CASE Below(cs, a, b)
    BY <1>2, <1>3, <2>1, <2>2, <2>3 DEF Splits
  <2>4. CASE ~ Below(cs, a, b)
    BY <1>2, <1>3, <2>1, <2>4 DEF Splits
  <2> QED  BY <2>3, <2>4
<1>4. CASE s # 1
  <2> DEFINE h == s \div 2
             p == f[Rest(cs, a, w)]
  <2>1. h \in Nat /\ 1 <= h /\ h < s /\ h <= s - h
    BY <1>2, <1>4
  <2>2. Halve(cs, a, f, w) = p
    BY <1>2, <1>4 DEF Halve
  <2>3. Rest(cs, a, w) = <<IF Below(cs, a, b + h) THEN b + h ELSE b, s - h>>
    BY <1>2 DEF Rest
  <2> HIDE DEF h
  <2>4. CASE Below(cs, a, b + h)
    <3>1. Rest(cs, a, w)[1] = b + h /\ Rest(cs, a, w)[2] = s - h
      BY <2>3, <2>4
    <3>2. p \in b + h .. (b + h) + (s - h)
      BY <1>2, <1>4, <3>1
    <3> HIDE DEF p
    <3>3. p \in Int /\ b + h <= p /\ p <= b + s
      BY <1>2, <2>1, <3>2
    <3>4. ASSUME Sorted(cs, a) PROVE Splits(cs, a, w, p)
      <4>1. Splits(cs, a, Rest(cs, a, w), p)
        BY <1>2, <1>4, <3>4 DEF p
      <4>2. p > b + h => Below(cs, a, p - 1)
        BY <3>1, <4>1 DEF Splits
      <4>3. p = b + h => Below(cs, a, p - 1)
        <5>1. (b + h) - 1 \in 0 .. Len(cs) - 1 /\ b + h \in 0 .. Len(cs) - 1 /\ (b + h) - 1 <= b + h
          BY <1>1, <1>2, <2>1
        <5> QED  BY <2>4, <3>4, <5>1 DEF Sorted
      <4>4. (b + h) + (s - h) = b + s
        BY <1>2, <2>1
      <4>5. p < b + s => ~ Below(cs, a, p)
        BY <3>1, <4>1, <4>4 DEF Splits
      <4>6. p > b + h \/ p = b + h
        BY <1>2, <2>1, <3>3
      <4>7. p \in b .. b + s
        BY <1>2, <2>1, <3>3
      <4> QED  BY <1>2, <4>2, <4>3, <4>5, <4>6, <4>7 DEF Splits
    <3> QED  BY <1>2, <2>1, <2>2, <3>3, <3>4
  <2>5. CASE ~ Below(cs, a, b + h)
    <3>1. Rest(cs, a, w)[1] = b /\ Rest(cs, a, w)[2] = s - h
      BY <2>3, <2>5
    <3>2. p \in b .. b + (s - h)
      BY <1>2, <1>4, <3>1
    <3> HIDE DEF p
    <3>3. p \in Int /\ b <= p /\ p <= b + (s - h) /\ p < b + s
      BY <1>2, <2>1, <3>2
    <3>4. ASSUME Sorted(cs, a) PROVE Splits(cs, a, w, p)
      <4>1. Splits(cs, a, Rest(cs, a, w), p)
        BY <1>2, <1>4, <3>4 DEF p
      <4>2. p > b => Below(cs, a, p - 1)
        BY <3>1, <4>1 DEF Splits
      <4>3. p < b + (s - h) => ~ Below(cs, a, p)
        BY <3>1, <4>1 DEF Splits
      <4>4. p = b + (s - h) => ~ Below(cs, a, p)
        <5>1. b + h \in 0 .. Len(cs) - 1 /\ b + (s - h) \in 0 .. Len(cs) - 1 /\ b + h <= b + (s - h)
          BY <1>1, <1>2, <2>1
        <5> QED  BY <2>5, <3>4, <5>1 DEF Sorted
      <4>5. p < b + (s - h) \/ p = b + (s - h)
        BY <1>2, <2>1, <3>3
      <4>6. p \in b .. b + s
        BY <1>2, <2>1, <3>3
      <4> QED  BY <1>2, <4>2, <4>3, <4>4, <4>5, <4>6 DEF Splits
    <3> QED  BY <1>2, <2>1, <2>2, <3>3, <3>4
  <2> QED  BY <2>4, <2>5
<1> QED  BY <1>3, <1>4

\* The search is right for every stretch: there is no shortest one for which it is wrong.
LEMMA SearchSplits ==
    ASSUME NEW cs \in Seq(Chunk), NEW a, NEW f,
           f = [w \in Windows(Len(cs)) |-> Halve(cs, a, f, w)]
    PROVE  \A w \in Windows(Len(cs)) : /\ f[w] \in w[1] .. w[1] + w[2]
                                       /\ Sorted(cs, a) => Splits(cs, a, w, f[w])
<1> DEFINE Good(w) == f[w] \in w[1] .. w[1] + w[2] /\ (Sorted(cs, a) => Splits(cs, a, w, f[w]))
           Bad == {w \in Windows(Len(cs)) : ~ Good(w)}
           Sizes == {w[2] : w \in Bad}
<1> SUFFICES ASSUME Bad # {} PROVE FALSE
  OBVIOUS
<1> HIDE DEF Good
<1>1. Sizes \in SUBSET Nat /\ Sizes # {}
  <2>1. \A w \in Bad : w[2] \in Nat
    BY DEF Windows
  <2> HIDE DEF Bad
  <2> QED  BY <2>1
<1>2. PICK s \in Sizes : \A r \in Sizes : s <= r
  <2> HIDE DEF Sizes
  <2> QED  BY <1>1, HasLeast
<1>3. PICK w \in Bad : w[2] = s /\ \A v \in Bad : s <= v[2]
  <2> HIDE DEF Bad
  <2> QED  BY <1>2
<1>4. w \in Windows(Len(cs)) /\ ~ Good(w) /\ Len(cs) \in Nat
  BY <1>3
<1>5. ASSUME w[2] # 1 PROVE Good(Rest(cs, a, w))
  <2>1. Rest(cs, a, w) \in Windows(Len(cs)) /\ Rest(cs, a, w)[2] < w[2]
    BY <1>4, <1>5, RestShorter
  <2> DEFINE v == Rest(cs, a, w)
  <2>2. v[2] \in Nat /\ w[2] \in Nat
    BY <1>4, <2>1 DEF Windows
  <2> HIDE DEF v
  <2>3. v \notin Bad
    <3>1. v[2] < w[2]
      BY <2>1 DEF v
    <3> HIDE DEF Bad
    <3> QED  BY <1>3, <2>2, <3>1
  <2>4. Good(v)
    BY <2>1, <2>3 DEF v
  <2> QED  BY <2>4 DEF v
<1>6. f[w] = Halve(cs, a, f, w)
  BY <1>4
<1>7. Good(w)
  BY <1>4, <1>5, <1>6, HalveSplits DEF Good
<1> QED  BY <1>4, <1>7

\* What index_of returns is a chunk that contains the address, or 0.
LEMMA IndexOfType ==
    ASSUME NEW cs \in Seq(Chunk), NEW a
    PROVE  index_of(cs, a) = 0 \/ index_of(cs, a) \in DOMAIN cs
<1> DEFINE p == partition_point(cs, a)
<1>1. p \in 0 .. Len(cs) /\ Len(cs) \in Nat
  <2>1. CASE cs = <<>>
    <3>1. partition_point(cs, a) = 0
      BY <2>1, SearchWhole, Zenon
    <3> QED  BY <3>1
  <2>2. CASE cs # <<>>
    <3>1. PICK f : /\ f = [w \in Windows(Len(cs)) |-> Halve(cs, a, f, w)]
                   /\ p = f[<<0, Len(cs)>>] /\ Len(cs) \in Nat \ {0}
      BY <2>2, SearchWhole
    <3> HIDE DEF p
    <3> DEFINE w == <<0, Len(cs)>>
    <3>2. w \in Windows(Len(cs)) /\ w[1] = 0 /\ w[2] = Len(cs)
      BY <3>1 DEF Windows
    <3> HIDE DEF w
    <3>3. f[w] \in w[1] .. w[1] + w[2]
      BY <3>1, <3>2, SearchSplits, Zenon
    <3> QED  BY <3>1, <3>2, <3>3 DEF w
  <2> QED  BY <2>1, <2>2
<1> HIDE DEF p
<1>2. index_of(cs, a) = IF p # 0 /\ contains(cs[p], a) THEN p ELSE 0
  BY DEF index_of, p
<1> QED  BY <1>1, <1>2

\* A ledger in the order of the addresses, without overlaps.
InOrder(cs) == \A i, j \in DOMAIN cs : i < j => cs[i].addr + cs[i].size <= cs[j].addr

\* In such a ledger index_of finds each chunk from each of its bytes.
LEMMA FindsInOrder ==
    ASSUME NEW cs \in Seq(Chunk), InOrder(cs), NEW a \in Nat, NEW i \in DOMAIN cs,
           contains(cs[i], a)
    PROVE  index_of(cs, a) = i
<1> DEFINE p == partition_point(cs, a)
<1>1. /\ Len(cs) \in Nat \ {0} /\ DOMAIN cs = 1 .. Len(cs)
      /\ \A k \in 1 .. Len(cs) : cs[k].addr \in Nat /\ cs[k].size \in Nat \ {0}
  <2>1. \A k \in 1 .. Len(cs) : cs[k] \in Chunk
    OBVIOUS
  <2>2. \A c \in Chunk : c.addr \in Nat /\ c.size \in Nat \ {0}
    BY DEF Chunk
  <2>3. Len(cs) \in Nat \ {0} /\ DOMAIN cs = 1 .. Len(cs)
    OBVIOUS
  <2> QED  BY <2>1, <2>2, <2>3
<1>2. ASSUME NEW k \in 0 .. Len(cs) - 1, NEW l \in 0 .. Len(cs) - 1, k <= l, Below(cs, a, l)
      PROVE  Below(cs, a, k)
  <2>1. k + 1 \in 1 .. Len(cs) /\ l + 1 \in 1 .. Len(cs)
    BY <1>1
  <2>2. CASE k = l
    BY <1>2, <2>2
  <2>3. CASE k # l
    <3>1. k + 1 < l + 1
      BY <1>1, <1>2, <2>3
    <3>2. cs[k + 1].addr + cs[k + 1].size <= cs[l + 1].addr /\ cs[l + 1].addr <= a
      BY <1>1, <1>2, <2>1, <3>1, Zenon DEF InOrder, Below
    <3>3. cs[k + 1].addr \in Nat /\ cs[k + 1].size \in Nat /\ cs[l + 1].addr \in Nat
      BY <1>1, <2>1
    <3>4. \A x, y, s \in Nat : x + s <= y /\ y <= a => x <= a
      OBVIOUS
    <3>5. cs[k + 1].addr <= a
      BY <3>2, <3>3, <3>4, Zenon
    <3> QED  BY <3>5 DEF Below
  <2> QED  BY <2>2, <2>3
<1>3. Sorted(cs, a)
  BY <1>2 DEF Sorted
<1>4. PICK f : /\ f = [w \in Windows(Len(cs)) |-> Halve(cs, a, f, w)]
               /\ p = f[<<0, Len(cs)>>]
  <2>1. cs # <<>>
    BY <1>1
  <2> QED  BY <2>1, SearchWhole, Zenon
<1> HIDE DEF p
<1>5. <<0, Len(cs)>> \in Windows(Len(cs))
  BY <1>1 DEF Windows
<1>6. Splits(cs, a, <<0, Len(cs)>>, p)
  BY <1>3, <1>4, <1>5, SearchSplits
<1>7. /\ p \in 0 .. Len(cs)
      /\ p > 0 => cs[(p - 1) + 1].addr <= a
      /\ p < Len(cs) => ~ (cs[p + 1].addr <= a)
  BY <1>1, <1>6 DEF Splits, Below
<1>8. i \in 1 .. Len(cs) /\ cs[i].addr <= a /\ a < cs[i].addr + cs[i].size
  BY <1>1 DEF contains
<1>9. ~ (p < i)
  <2> SUFFICES ASSUME p < i PROVE FALSE
    OBVIOUS
  <2>1. p \in 0 .. Len(cs) - 1 /\ i - 1 \in 0 .. Len(cs) - 1 /\ p <= i - 1 /\ (i - 1) + 1 = i /\ p < Len(cs)
    BY <1>1, <1>7, <1>8
  <2>2. Below(cs, a, i - 1)
    BY <1>8, <2>1 DEF Below
  <2>3. Below(cs, a, p)
    BY <1>2, <2>1, <2>2
  <2> QED  BY <1>7, <2>1, <2>3 DEF Below
<1>10. ~ (i < p)
  <2> SUFFICES ASSUME i < p PROVE FALSE
    OBVIOUS
  <2>1. p > 0 /\ (p - 1) + 1 = p /\ p \in 1 .. Len(cs)
    BY <1>1, <1>7, <1>8
  <2>2. cs[i].addr + cs[i].size <= cs[p].addr /\ cs[p].addr <= a
    BY <1>1, <1>7, <1>8, <2>1 DEF InOrder
  <2>3. cs[i].addr \in Nat /\ cs[i].size \in Nat /\ cs[p].addr \in Nat
    BY <1>1, <1>8, <2>1
  <2> QED  BY <1>8, <2>2, <2>3
<1>11. p = i
  BY <1>1, <1>7, <1>8, <1>9, <1>10
<1>12. index_of(cs, a) = IF p # 0 /\ contains(cs[p], a) THEN p ELSE 0
  BY DEF index_of, p
<1> QED  BY <1>8, <1>11, <1>12

-----------------------------------------------------------------------------
(* What the driver holds *)

StackOutside == stack_base + stack_size <= heap_base \/ stack_base >= vmalloc_base + vmalloc_size

\* A ledger cs against the addresses h that the driver holds.
HeldOK(cs, h) ==
    /\ h \subseteq Nat
    /\ \A a \in h : \E i \in DOMAIN cs : cs[i].addr = a /\ ~ is_freed(cs[i])
    /\ StackOutside => \A i \in DOMAIN cs : is_freed(cs[i]) \/ cs[i].addr \in h

\* Only the chunk at the base that is freed changes, and it is freed afterwards.
LEMMA FreeHits ==
    ASSUME NEW cur, NEW cs, LedgerInv(cur, cs), NEW ptr, NEW i \in DOMAIN cs
    PROVE  /\ cs[i].addr # ptr => AfterFree(cs, ptr)[i] = cs[i]
           /\ cs[i].addr = ptr => is_freed(AfterFree(cs, ptr)[i])
<1> DEFINE idx == index_of_base(cs, ptr)
<1>1. /\ cs \in Seq(Chunk) /\ Len(cs) \in Nat /\ DOMAIN cs = 1 .. Len(cs)
      /\ cs[i] \in Chunk /\ cs[i].addr \in Nat /\ cs[i].addr # 0
  <2>1. cs \in Seq(Chunk) /\ DOMAIN cs = 1 .. Len(cs) /\ cs[i] \in Chunk /\ Len(cs) \in Nat
    BY DEF LedgerInv, LedgerOK
  <2>2. cs[i].addr \in Nat
    BY <2>1 DEF Chunk
  <2>3. Base(Pool(cs[i].region)) <= cs[i].addr
    BY DEF LedgerInv, CursorsAhead, ChunkOK
  <2>4. Base(Pool(cs[i].region)) \in Nat \ {0}
    BY KernelHeapAssumption DEF Base
  <2>5. cs[i].addr # 0
    BY <2>2, <2>3, <2>4
  <2> QED  BY <2>1, <2>2, <2>5
<1>2. CASE ptr = 0
  BY <1>1, <1>2 DEF AfterFree
<1>3. CASE ptr # 0 /\ Bases(cs, ptr) = {}
  BY <1>3 DEF AfterFree, Bases, index_of_base
<1>4. CASE ptr # 0 /\ Bases(cs, ptr) # {}
  <2>1. Bases(cs, ptr) \in SUBSET Nat
    BY <1>1 DEF Bases
  <2>2. \E k \in Bases(cs, ptr) : \A j \in Bases(cs, ptr) : k <= j
    BY <1>4, <2>1, HasLeast
  <2>3. idx \in DOMAIN cs /\ cs[idx].addr = ptr
    <3>1. idx \in Bases(cs, ptr)
      BY <1>4, <2>2 DEF index_of_base
    <3> QED  BY <3>1 DEF Bases
  <2>4. AfterFree(cs, ptr) = [cs EXCEPT ![idx] = [cs[idx] EXCEPT !.state = "Freed"]]
    <3>1. idx # 0
      BY <1>1, <2>3
    <3> QED  BY <1>4, <3>1 DEF AfterFree
  <2> HIDE DEF idx
  <2>5. cs[i].addr # ptr => AfterFree(cs, ptr)[i] = cs[i]
    BY <1>1, <2>3, <2>4
  <2>6. ASSUME cs[i].addr = ptr PROVE i = idx
    <3>1. cs[idx] \in Chunk /\ cs[idx].addr = cs[i].addr
      BY <1>1, <2>3, <2>6
    <3>2. cs[i].size \in Nat /\ cs[idx].size \in Nat /\ cs[idx].addr \in Nat
      BY <1>1, <3>1 DEF Chunk
    <3>3. \A x, y, s \in Nat : x = y => ~ (x + s + HEAP_REDZONE <= y)
      BY DEF HEAP_REDZONE
    <3>4. ~ Apart(cs[i], cs[idx]) /\ ~ Apart(cs[idx], cs[i])
      BY <1>1, <3>1, <3>2, <3>3, Zenon DEF Apart
    <3>5. ~ (i < idx) /\ ~ (idx < i)
      BY <2>3, <3>4 DEF LedgerInv, PairsApart
    <3> QED  BY <1>1, <2>3, <3>5
  <2>7. cs[i].addr = ptr => is_freed(AfterFree(cs, ptr)[i])
    <3> SUFFICES ASSUME cs[i].addr = ptr PROVE is_freed(AfterFree(cs, ptr)[i])
      OBVIOUS
    <3>1. AfterFree(cs, ptr)[i] = [cs[i] EXCEPT !.state = "Freed"]
      BY <1>1, <2>4, <2>6
    <3>2. [cs[i] EXCEPT !.state = "Freed"].state = "Freed"
      BY <1>1 DEF Chunk
    <3> QED  BY <3>1, <3>2 DEF is_freed
  <2> QED  BY <2>5, <2>7
<1> QED  BY <1>2, <1>3, <1>4

\* kernel_free: the driver no longer holds the pointer, and everything else stays as it was.
LEMMA FreeHeld ==
    ASSUME NEW cur, NEW cs, LedgerInv(cur, cs), NEW h, HeldOK(cs, h), NEW ptr
    PROVE  HeldOK(AfterFree(cs, ptr), h \ {ptr})
<1> DEFINE after == AfterFree(cs, ptr)
<1>1. /\ DOMAIN after = DOMAIN cs
      /\ \A i \in DOMAIN cs : /\ after[i].addr = cs[i].addr
                              /\ is_freed(cs[i]) => is_freed(after[i])
  <2>1. cs \in Seq(Chunk)
    BY DEF LedgerInv, LedgerOK
  <2>2. /\ after \in Seq(Chunk) /\ Len(after) = Len(cs)
        /\ \A i \in 1 .. Len(cs) : /\ after[i].addr = cs[i].addr
                                   /\ is_freed(cs[i]) => is_freed(after[i])
    BY <2>1, FreeKeepsPlaces
  <2> HIDE DEF after
  <2> QED  BY <2>1, <2>2
<1>2. \A i \in DOMAIN cs : /\ cs[i].addr # ptr => after[i] = cs[i]
                           /\ cs[i].addr = ptr => is_freed(after[i])
  BY FreeHits
<1> HIDE DEF after
<1>3. \A a \in h \ {ptr} : \E i \in DOMAIN after : after[i].addr = a /\ ~ is_freed(after[i])
  BY <1>1, <1>2 DEF HeldOK
<1>4. StackOutside => \A i \in DOMAIN after : is_freed(after[i]) \/ after[i].addr \in h \ {ptr}
  BY <1>1, <1>2 DEF HeldOK
<1> QED  BY <1>3, <1>4, Zenon DEF HeldOK, after

\* Where the next chunk goes: above the base of its region, and within it unless exhausted.
LEMMA NextAddrPlace ==
    ASSUME LedgerInv(cursor, chunks), NEW region \in Regions, NEW size \in Nat,
           ~ Exhausted(region, size)
    PROVE  /\ NextAddr(region) \in Nat /\ NextAddr(region) % 16 = 0
           /\ Base(Pool(region)) <= NextAddr(region) /\ cursor[Pool(region)] <= NextAddr(region)
           /\ NextAddr(region) + size + HEAP_REDZONE <= End(region)
           /\ Base(Pool(region)) \in Nat \ {0} /\ End(region) \in Nat
<1>1. Base(Pool(region)) \in Nat \ {0} /\ End(region) \in Nat
  BY KernelHeapAssumption DEF Base, End
<1>2. cursor[Pool(region)] \in Nat /\ Base(Pool(region)) <= cursor[Pool(region)]
  BY DEF Pool, LedgerInv, LedgerOK, CursorsAhead
<1>3. /\ NextAddr(region) \in Nat /\ NextAddr(region) % 16 = 0
      /\ cursor[Pool(region)] <= NextAddr(region)
  BY <1>2, RoundUp16 DEF NextAddr
<1>4. NextAddr(region) + size + HEAP_REDZONE <= End(region)
  BY <1>1, <1>3 DEF Exhausted, HEAP_REDZONE
<1>5. Base(Pool(region)) <= NextAddr(region)
  BY <1>1, <1>2, <1>3
<1> QED  BY <1>1, <1>3, <1>4, <1>5

\* A stack outside the regions is no reason to refuse the mapping of a chunk.
LEMMA OutsideMappable ==
    ASSUME LedgerInv(cursor, chunks), NEW region \in Regions, NEW size \in Nat,
           ~ Exhausted(region, size), StackOutside
    PROVE  Mappable(NextAddr(region))
<1>1. /\ heap_base \in Nat /\ heap_size \in Nat /\ vmalloc_base \in Nat /\ vmalloc_size \in Nat
      /\ heap_base + heap_size <= vmalloc_base /\ stack_base \in Nat /\ stack_size \in Nat
  BY KernelHeapAssumption
<1> DEFINE at == NextAddr(region)
<1>2. at \in Nat /\ Base(Pool(region)) <= at /\ at + size + HEAP_REDZONE <= End(region)
  BY NextAddrPlace
<1> HIDE DEF at
<1>3. heap_base <= at /\ at < vmalloc_base + vmalloc_size
  <2>1. CASE region = "Slab"
    <3>1. heap_base <= at /\ at + size + HEAP_REDZONE <= heap_base + heap_size
      BY <1>2, <2>1 DEF Base, Pool, End
    <3> QED  BY <1>1, <1>2, <3>1 DEF HEAP_REDZONE
  <2>2. CASE region # "Slab"
    <3>1. vmalloc_base <= at /\ at + size + HEAP_REDZONE <= vmalloc_base + vmalloc_size
      BY <1>2, <2>2 DEF Base, Pool, End
    <3> QED  BY <1>1, <1>2, <3>1 DEF HEAP_REDZONE
  <2> QED  BY <2>1, <2>2
<1>4. ~ (at >= stack_base /\ at < stack_base + stack_size)
  BY <1>1, <1>2, <1>3 DEF StackOutside
<1> QED  BY <1>4 DEF Mappable, at

\* The driver gets a new chunk, or the chunk cannot be mapped and the driver gets nothing.
LEMMA AllocHeld ==
    ASSUME LedgerInv(cursor, chunks), NEW region \in Regions, NEW size \in Nat,
           ~ Exhausted(region, ChunkSize(region, size)), HeldOK(chunks, held)
    PROVE  /\ HeldOK(Append(chunks, NewChunk(region, size)), held \cup {NextAddr(region)})
           /\ ~ Mappable(NextAddr(region)) => HeldOK(Append(chunks, NewChunk(region, size)), held)
<1> DEFINE c == NewChunk(region, size)
           cs == Append(chunks, c)
<1>1. c \in Chunk /\ ~ is_freed(c) /\ c.addr = NextAddr(region)
  BY NewChunkType DEF NewChunk, is_freed
<1>2. NextAddr(region) \in Nat
  BY <1>1 DEF Chunk
<1> HIDE DEF c
<1>3. /\ chunks \in Seq(Chunk) /\ Len(chunks) \in Nat /\ DOMAIN chunks = 1 .. Len(chunks)
      /\ DOMAIN cs = 1 .. Len(chunks) + 1
      /\ \A i \in 1 .. Len(chunks) : cs[i] = chunks[i]
      /\ cs[Len(chunks) + 1] = c
  BY <1>1 DEF LedgerInv, LedgerOK
<1> HIDE DEF cs
<1>4. \A i \in DOMAIN cs : i = Len(chunks) + 1 \/ i \in DOMAIN chunks
  BY <1>3
<1>5. \A i \in DOMAIN chunks : i \in DOMAIN cs /\ cs[i] = chunks[i]
  BY <1>3
<1>6. Len(chunks) + 1 \in DOMAIN cs
  BY <1>3
<1>7. HeldOK(cs, held \cup {NextAddr(region)})
  BY <1>1, <1>2, <1>3, <1>4, <1>5, <1>6, Zenon DEF HeldOK
<1>8. ASSUME ~ Mappable(NextAddr(region)) PROVE HeldOK(cs, held)
  <2>1. ~ StackOutside
    BY <1>8, ChunkSizeType, OutsideMappable
  <2> QED  BY <1>5, <2>1 DEF HeldOK
<1> QED  BY <1>7, <1>8 DEF cs, c

-----------------------------------------------------------------------------
(* What the guard reports *)

Stale == {"UseAfterFree", "WriteAfterFree", "DoubleFree"}

\* Findings R against a ledger cs.
ReportOK(cs, R) ==
    /\ R \subseteq (Kinds \X Nat)
    /\ \A f \in R : f[1] \in Stale => \E i \in DOMAIN cs : cs[i].addr = f[2] /\ is_freed(cs[i])

\* One finding.
LEMMA OneFinding ==
    ASSUME NEW cs, NEW kind \in Kinds, NEW a \in Nat,
           kind \in Stale => \E i \in DOMAIN cs : cs[i].addr = a /\ is_freed(cs[i])
    PROVE  ReportOK(cs, Finding(kind, a))
<1>1. <<kind, a>>[1] = kind /\ <<kind, a>>[2] = a
  OBVIOUS
<1> QED  BY <1>1 DEF ReportOK, Finding

\* No finding, and the findings of several checks.
LEMMA SeveralFindings ==
    ASSUME NEW cs
    PROVE  /\ ReportOK(cs, {})
           /\ \A Q, R : ReportOK(cs, Q) /\ ReportOK(cs, R) => ReportOK(cs, Q \cup R)
BY DEF ReportOK

\* The guard of an access, and of a range.
LEMMA GuardReports ==
    ASSUME NEW cs \in Seq(Chunk), NEW a \in Nat, NEW len \in Nat, NEW is_write \in BOOLEAN
    PROVE  /\ ReportOK(cs, kernel_guard_access(cs, a, is_write))
           /\ ReportOK(cs, kernel_guard_range(cs, a, len, is_write))
<1> DEFINE idx == index_of(cs, a)
<1>1. idx = 0 \/ idx \in DOMAIN cs
  BY IndexOfType
<1>2. idx # 0 => cs[idx].addr \in Nat
  <2>1. idx \in DOMAIN cs => cs[idx] \in Chunk
    OBVIOUS
  <2> QED  BY <1>1, <2>1 DEF Chunk
<1>3. idx # 0 /\ is_freed(cs[idx]) => ReportOK(cs, StaleUse(is_write, cs[idx]))
  <2> SUFFICES ASSUME idx # 0, is_freed(cs[idx]) PROVE ReportOK(cs, StaleUse(is_write, cs[idx]))
    OBVIOUS
  <2>1. "UseAfterFree" \in Kinds /\ "WriteAfterFree" \in Kinds
    BY DEF Kinds
  <2>2. \E i \in DOMAIN cs : cs[i].addr = cs[idx].addr /\ is_freed(cs[i])
    BY <1>1
  <2> HIDE DEF idx
  <2> QED  BY <1>2, <2>1, <2>2, OneFinding DEF StaleUse
<1>4. idx # 0 => ReportOK(cs, Finding("HeapOverflow", cs[idx].addr))
  <2>1. "HeapOverflow" \in Kinds /\ "HeapOverflow" \notin Stale
    BY DEF Kinds, Stale
  <2> HIDE DEF idx
  <2> QED  BY <1>2, <2>1, OneFinding
<1>5. ReportOK(cs, {})
  BY SeveralFindings
<1>6. kernel_guard_access(cs, a, is_write) \in
        {{}} \cup (IF idx # 0 /\ is_freed(cs[idx]) THEN {StaleUse(is_write, cs[idx])} ELSE {})
             \cup (IF idx # 0 THEN {Finding("HeapOverflow", cs[idx].addr)} ELSE {})
  BY DEF kernel_guard_access
<1>7. kernel_guard_range(cs, a, len, is_write) \in
        {{}} \cup (IF idx # 0 /\ is_freed(cs[idx]) THEN {StaleUse(is_write, cs[idx])} ELSE {})
             \cup (IF idx # 0 THEN {Finding("HeapOverflow", cs[idx].addr)} ELSE {})
  BY DEF kernel_guard_range
<1> HIDE DEF idx
<1> QED  BY <1>3, <1>4, <1>5, <1>6, <1>7, Zenon

\* The copy of a buffer.
LEMMA CopyReports ==
    ASSUME NEW cs \in Seq(Chunk), NEW dst \in Nat, NEW src \in Nat, NEW len \in Nat
    PROVE  ReportOK(cs, guarded_copy(cs, dst, src, len))
<1> DEFINE A == kernel_guard_range(cs, src, len, FALSE)
           B == kernel_guard_range(cs, dst, len, TRUE)
           C == kernel_guard_access(cs, src, FALSE)
           D == kernel_guard_access(cs, dst, TRUE)
<1>1. guarded_copy(cs, dst, src, len) = (A \cup B) \cup (C \cup D)
  BY DEF guarded_copy
<1>2. ReportOK(cs, A) /\ ReportOK(cs, B) /\ ReportOK(cs, C) /\ ReportOK(cs, D)
  BY GuardReports, Zenon
<1> HIDE DEF A, B, C, D
<1>3. ReportOK(cs, A \cup B) /\ ReportOK(cs, C \cup D)
  BY <1>2, SeveralFindings, Zenon
<1>4. ReportOK(cs, (A \cup B) \cup (C \cup D))
  BY <1>3, SeveralFindings, Zenon
<1> QED  BY <1>1, <1>4

\* A free.
LEMMA FreeReports ==
    ASSUME NEW cs \in Seq(Chunk), NEW ptr \in Nat
    PROVE  ReportOK(cs, FreeFindings(cs, ptr))
<1> DEFINE idx == index_of_base(cs, ptr)
           inside == index_of(cs, ptr)
           place == IF inside = 0 THEN 0 ELSE cs[inside].addr
<1>1. idx = 0 \/ (idx \in DOMAIN cs /\ cs[idx].addr = ptr)
  <2>1. CASE Bases(cs, ptr) = {}
    BY <2>1 DEF index_of_base
  <2>2. CASE Bases(cs, ptr) # {}
    <3>1. Bases(cs, ptr) \in SUBSET Nat
      BY DEF Bases
    <3>2. \E i \in Bases(cs, ptr) : \A j \in Bases(cs, ptr) : i <= j
      BY <2>2, <3>1, HasLeast
    <3>3. idx \in Bases(cs, ptr)
      BY <2>2, <3>2 DEF index_of_base
    <3> QED  BY <3>3 DEF Bases
  <2> QED  BY <2>1, <2>2
<1>2. place \in Nat
  <2>1. inside = 0 \/ inside \in DOMAIN cs
    BY IndexOfType
  <2>2. inside \in DOMAIN cs => cs[inside] \in Chunk
    OBVIOUS
  <2> HIDE DEF inside
  <2> QED  BY <2>1, <2>2 DEF Chunk
<1>3. ReportOK(cs, Finding("InvalidFree", place))
  <2>1. "InvalidFree" \in Kinds /\ "InvalidFree" \notin Stale
    BY Zenon DEF Kinds, Stale
  <2> HIDE DEF place
  <2> QED  BY <1>2, <2>1, OneFinding, Zenon
<1>4. idx # 0 /\ is_freed(cs[idx]) => ReportOK(cs, Finding("DoubleFree", ptr))
  <2>1. "DoubleFree" \in Kinds
    BY DEF Kinds
  <2> HIDE DEF idx
  <2> QED  BY <1>1, <2>1, OneFinding
<1>5. ReportOK(cs, {})
  BY SeveralFindings
<1>6. FreeFindings(cs, ptr) \in
        {{}, Finding("InvalidFree", place)}
        \cup (IF idx # 0 /\ is_freed(cs[idx]) THEN {Finding("DoubleFree", ptr)} ELSE {})
  BY DEF FreeFindings
<1> HIDE DEF idx, place
<1> QED  BY <1>3, <1>4, <1>5, <1>6, Zenon

\* A finding stays true of a ledger that keeps its chunks.
LEMMA ReportsStay ==
    ASSUME NEW cs \in Seq(Chunk), NEW cs2 \in Seq(Chunk), Keeps(cs, cs2), NEW R, ReportOK(cs, R)
    PROVE  ReportOK(cs2, R)
<1>1. \A i \in DOMAIN cs : i \in DOMAIN cs2
  <2>1. Len(cs) \in Nat /\ Len(cs2) \in Nat /\ Len(cs2) >= Len(cs)
    BY DEF Keeps
  <2>2. DOMAIN cs = 1 .. Len(cs) /\ DOMAIN cs2 = 1 .. Len(cs2)
    OBVIOUS
  <2> QED  BY <2>1, <2>2
<1> QED  BY <1>1 DEF ReportOK, Keeps

-----------------------------------------------------------------------------
(* The ledger is sound *)

\* The inductive invariant.
SoundInv ==
    /\ LedgerInv(cursor, chunks)
    /\ HeldOK(chunks, held)
    /\ ReportOK(chunks, report)
    /\ alloc_count \in 0 .. MaxAllocs
    /\ fail_alloc_index \in -1 .. MaxAllocs - 1

\* Pointers that the driver passes are numbers, and none is that of the next slab chunk.
LEMMA PointerTypes ==
    ASSUME LedgerInv(cursor, chunks)
    PROVE  /\ Addrs \subseteq Nat /\ Pointers \subseteq Nat /\ Buffers \subseteq Nat
           /\ \A size \in Nat : ~ Exhausted("Slab", size) => NextAddr("Slab") \notin Pointers
<1>1. ASSUME NEW i \in DOMAIN chunks
      PROVE  /\ chunks[i] \in Chunk
             /\ chunks[i].addr \in Nat /\ chunks[i].size \in Nat \ {0} /\ chunks[i].req_size \in Nat
  <2>1. chunks[i] \in Chunk
    BY DEF LedgerInv, LedgerOK
  <2> QED  BY <2>1 DEF Chunk
<1>2. Pointers \subseteq Nat /\ Buffers \subseteq Nat
  BY <1>1 DEF Pointers, Buffers
<1>3. Addrs \subseteq Nat
  <2>1. \A i \in DOMAIN chunks : ChunkAddrs(chunks[i]) \subseteq Nat
    BY <1>1 DEF ChunkAddrs
  <2> QED  BY <2>1 DEF Addrs
<1>4. ASSUME NEW size \in Nat, ~ Exhausted("Slab", size) PROVE NextAddr("Slab") \notin Pointers
  <2> DEFINE at == NextAddr("Slab")
  <2>1. /\ at \in Nat /\ at % 16 = 0 /\ heap_base <= at /\ cursor["slab"] <= at
        /\ at + size + HEAP_REDZONE <= heap_base + heap_size
    <3>1. "Slab" \in Regions /\ Pool("Slab") = "slab" /\ Base("slab") = heap_base
          /\ End("Slab") = heap_base + heap_size
      BY DEF Regions, Pool, Base, End
    <3> QED  BY <1>4, <3>1, NextAddrPlace
  <2> HIDE DEF at
  <2>2. /\ heap_base \in Nat \ {0} /\ heap_size \in Nat /\ vmalloc_base \in Nat
        /\ heap_base + heap_size <= vmalloc_base /\ cursor["slab"] \in Nat
    BY KernelHeapAssumption DEF LedgerInv, LedgerOK
  <2>3. at # 0 /\ at # 1
    BY <2>1, <2>2
  <2>4. ASSUME NEW i \in DOMAIN chunks PROVE at # chunks[i].addr /\ at # chunks[i].addr + 1
    <3> DEFINE x == chunks[i].addr
               s == chunks[i].size
    <3>1. x \in Nat /\ s \in Nat \ {0}
      BY <1>1
    <3>2. ChunkOK(chunks[i], cursor)
      BY DEF LedgerInv, CursorsAhead
    <3>3. CASE Pool(chunks[i].region) = "slab"
      <4>1. x + s + HEAP_REDZONE <= cursor["slab"]
        BY <3>2, <3>3 DEF ChunkOK
      <4> HIDE DEF x, s
      <4>2. at # x /\ at # x + 1
        BY <2>1, <2>2, <3>1, <4>1 DEF HEAP_REDZONE
      <4> QED  BY <4>2 DEF x
    <3>4. CASE Pool(chunks[i].region) = "vmalloc"
      <4>1. vmalloc_base <= x
        BY <3>2, <3>4 DEF ChunkOK, Base
      <4> HIDE DEF x, s
      <4>2. at # x /\ at # x + 1
        BY <2>1, <2>2, <3>1, <4>1 DEF HEAP_REDZONE
      <4> QED  BY <4>2 DEF x
    <3> QED  BY <3>3, <3>4 DEF Pool
  <2>5. at \notin Pointers
    BY <2>3, <2>4 DEF Pointers
  <2> QED  BY <2>5 DEF at
<1> QED  BY <1>2, <1>3, <1>4

\* kernel_alloc, with or without a chunk.
LEMMA AllocSound ==
    ASSUME SoundInv, NEW region \in Regions, NEW size \in Nat, kernel_alloc(region, size),
           report' = {}, UNCHANGED fail_alloc_index
    PROVE  SoundInv'
<1>1. LedgerInv(cursor', chunks') /\ ReportOK(chunks', report')
  BY AllocPreserves, SeveralFindings DEF SoundInv
<1>2. alloc_count' \in 0 .. MaxAllocs /\ fail_alloc_index' \in -1 .. MaxAllocs - 1
  BY KernelHeapAssumption DEF SoundInv, kernel_alloc
<1>3. HeldOK(chunks', held')
  <2>1. CASE Refused(region, size)
    BY <2>1 DEF kernel_alloc, SoundInv
  <2>2. CASE ~ Refused(region, size)
    <3>1. ~ Exhausted(region, ChunkSize(region, size))
      BY <2>2 DEF Refused
    <3> QED  BY <2>2, <3>1, AllocHeld, Zenon DEF kernel_alloc, SoundInv
  <2> QED  BY <2>1, <2>2
<1> QED  BY <1>1, <1>2, <1>3 DEF SoundInv

\* kernel_free of any pointer.
LEMMA FreeSound ==
    ASSUME SoundInv, NEW ptr \in Nat, kernel_free(ptr)
    PROVE  SoundInv'
<1>1. chunks \in Seq(Chunk) /\ AfterFree(chunks, ptr) \in Seq(Chunk)
  BY FreeKeepsPlaces, Zenon DEF SoundInv, LedgerInv, LedgerOK
<1>2. Keeps(chunks, AfterFree(chunks, ptr))
  <2>1. [addr |-> 0, size |-> 1, req_size |-> 0, region |-> "Slab", state |-> "Live"] \in Chunk
    BY DEF Chunk, Regions
  <2> QED  BY <1>1, <2>1, KeepsLedger
<1>3. ReportOK(AfterFree(chunks, ptr), FreeFindings(chunks, ptr))
  BY <1>1, <1>2, FreeReports, ReportsStay
<1>4. LedgerInv(cursor, AfterFree(chunks, ptr)) /\ HeldOK(AfterFree(chunks, ptr), held \ {ptr})
  BY FreePreserves, FreeHeld DEF SoundInv
<1> QED  BY <1>3, <1>4 DEF SoundInv, kernel_free

\* krealloc that gets a new chunk.
LEMMA MovesSound ==
    ASSUME SoundInv, NEW old \in Pointers, NEW size \in Nat, alloc_count < MaxAllocs,
           ~ Refused("Slab", size), krealloc_moves(old, size), UNCHANGED fail_alloc_index
    PROVE  SoundInv'
<1> DEFINE c == NewChunk("Slab", size)
           cs == Append(chunks, c)
           new == NextAddr("Slab")
           cur == [cursor EXCEPT !["slab"] = CursorAfter("Slab", ChunkSize("Slab", size))]
           at == index_of(chunks, old)
           len == IF at = 0 THEN 0 ELSE IF chunks[at].req_size <= size THEN chunks[at].req_size ELSE size
<1>1. "Slab" \in Regions /\ Pool("Slab") = "slab" /\ ~ Exhausted("Slab", ChunkSize("Slab", size))
  BY DEF Regions, Pool, Refused
<1>2. LedgerInv(cur, cs)
  <2>1. Recorded("Slab", size, cur, cs)
    BY <1>1, Zenon DEF Recorded
  <2> HIDE DEF cur, cs
  <2> QED  BY <1>1, <2>1, RecordAlloc DEF SoundInv
<1>3. HeldOK(cs, held \cup {new})
  BY <1>1, AllocHeld DEF SoundInv
<1>4. c \in Chunk /\ new \in Nat /\ chunks \in Seq(Chunk) /\ cs \in Seq(Chunk)
  <2>1. c \in Chunk
    BY <1>1, NewChunkType DEF SoundInv
  <2>2. new = c.addr
    BY DEF NewChunk
  <2>3. chunks \in Seq(Chunk)
    BY DEF SoundInv, LedgerInv, LedgerOK
  <2> HIDE DEF c, new
  <2> QED  BY <2>1, <2>2, <2>3 DEF Chunk
<1>5. old \in Nat /\ old # new
  <2>1. ChunkSize("Slab", size) \in Nat
    BY <1>1, ChunkSizeType
  <2> QED  BY <1>1, <2>1, PointerTypes DEF SoundInv
<1>6. len \in Nat
  <2>1. at = 0 \/ at \in DOMAIN chunks
    BY <1>4, IndexOfType
  <2>2. at \in DOMAIN chunks => chunks[at] \in Chunk
    BY <1>4
  <2> HIDE DEF at
  <2> QED  BY <2>1, <2>2 DEF Chunk
<1>7. /\ cursor' = cur /\ alloc_count' = alloc_count + 1
      /\ chunks' = IF old = 0 THEN cs ELSE AfterFree(cs, old)
      /\ report' = IF old = 0 THEN {} ELSE guarded_copy(cs, new, old, len) \cup FreeFindings(cs, old)
      /\ held' = (held \ {old}) \cup {new}
  BY DEF krealloc_moves
<1> HIDE DEF cs, new, cur, len, c, at
<1>8. AfterFree(cs, 0) = cs
  BY DEF AfterFree
<1>9. chunks' = AfterFree(cs, old)
  BY <1>7, <1>8
<1>10. LedgerInv(cursor', chunks') /\ HeldOK(chunks', held')
  <2>1. LedgerInv(cur, AfterFree(cs, old)) /\ HeldOK(AfterFree(cs, old), (held \cup {new}) \ {old})
    BY <1>2, <1>3, FreePreserves, FreeHeld
  <2>2. held' = (held \cup {new}) \ {old}
    BY <1>5, <1>7
  <2> QED  BY <1>7, <1>9, <2>1, <2>2, Zenon
<1>11. ReportOK(chunks', report')
  <2>1. ReportOK(cs, report')
    <3>1. ReportOK(cs, guarded_copy(cs, new, old, len)) /\ ReportOK(cs, FreeFindings(cs, old))
      BY <1>4, <1>5, <1>6, CopyReports, FreeReports
    <3> QED  BY <1>7, <3>1, SeveralFindings
  <2>2. Keeps(cs, AfterFree(cs, old)) /\ AfterFree(cs, old) \in Seq(Chunk)
    BY <1>4, KeepsLedger, FreeKeepsPlaces
  <2> QED  BY <1>4, <1>9, <2>1, <2>2, ReportsStay
<1>12. alloc_count' \in 0 .. MaxAllocs
  BY <1>7, KernelHeapAssumption DEF SoundInv
<1> QED  BY <1>10, <1>11, <1>12 DEF SoundInv

\* The invariant is inductive.
LEMMA SoundInvariant == Spec => []SoundInv
<1>1. Init => SoundInv
  <2> SUFFICES ASSUME Init PROVE SoundInv
    OBVIOUS
  <2>1. LedgerInv(cursor, chunks)
    BY KernelHeapAssumption DEF Init, LedgerInv, LedgerOK, CursorsAhead, PairsApart, Base
  <2>2. HeldOK(chunks, held)
    BY DEF Init, HeldOK
  <2> QED  BY <2>1, <2>2, SeveralFindings, KernelHeapAssumption DEF Init, SoundInv
<1>2. SoundInv /\ [Next]_vars => SoundInv'
  <2> SUFFICES ASSUME SoundInv, [Next]_vars PROVE SoundInv'
    OBVIOUS
  <2>0. /\ ReqSizes \subseteq Nat /\ Addrs \subseteq Nat /\ Pointers \subseteq Nat /\ Buffers \subseteq Nat
        /\ chunks \in Seq(Chunk)
    BY KernelHeapAssumption, PointerTypes DEF SoundInv, LedgerInv, LedgerOK
  <2>1. ASSUME NEW size \in ReqSizes, slab_alloc(size) PROVE SoundInv'
    BY <2>0, <2>1, AllocSound DEF slab_alloc, Regions
  <2>2. ASSUME NEW size \in ReqSizes, NEW region \in {"Vmalloc", "Pages"}, large_alloc(region, size)
        PROVE  SoundInv'
    BY <2>0, <2>2, AllocSound DEF large_alloc, Regions
  <2>3. ASSUME NEW ptr \in Pointers, kernel_free(ptr) PROVE SoundInv'
    BY <2>0, <2>3, FreeSound
  <2>4. ASSUME NEW ptr \in Pointers, NEW size \in ReqSizes, krealloc(ptr, size) PROVE SoundInv'
    <3>1. CASE kernel_free(ptr)
      BY <2>0, <3>1, FreeSound
    <3>2. CASE kernel_alloc("Slab", size) /\ report' = {} /\ UNCHANGED fail_alloc_index
      BY <2>0, <3>2, AllocSound DEF Regions
    <3>3. CASE /\ alloc_count < MaxAllocs /\ ~ Refused("Slab", size)
               /\ krealloc_moves(ptr, size) /\ UNCHANGED fail_alloc_index
      BY <2>0, <3>3, MovesSound
    <3> QED  BY <2>4, <3>1, <3>2, <3>3 DEF krealloc
  <2>5. ASSUME UNCHANGED <<cursor, chunks, alloc_count, fail_alloc_index, held>>,
               ReportOK(chunks, report')
        PROVE  SoundInv'
    BY <2>5, Zenon DEF SoundInv
  <2>6. ASSUME NEW a \in Addrs, NEW is_write \in BOOLEAN, Access(a, is_write) PROVE SoundInv'
    <3>1. 0 \in Nat
      OBVIOUS
    <3>2. ReportOK(chunks, kernel_guard_access(chunks, a, is_write))
      BY <2>0, <3>1, GuardReports
    <3> QED  BY <2>5, <2>6, <3>2 DEF Access
  <2>7. ASSUME NEW dst \in Buffers, NEW src \in Pointers, NEW len \in ReqSizes, Copy(dst, src, len)
        PROVE  SoundInv'
    <3>1. ReportOK(chunks, guarded_copy(chunks, dst, src, len))
      BY <2>0, CopyReports
    <3> QED  BY <2>5, <2>7, <3>1 DEF Copy
  <2>8. ASSUME kernel_check_leaks PROVE SoundInv'
    <3>1. \A i \in DOMAIN chunks : chunks[i].addr \in Nat
      <4>1. \A i \in DOMAIN chunks : chunks[i] \in Chunk
        BY <2>0
      <4> QED  BY <4>1 DEF Chunk
    <3>2. \A f \in report' : \E i \in DOMAIN chunks : f = <<"Leak", chunks[i].addr>>
      BY <2>8 DEF kernel_check_leaks, Finding
    <3>3. "Leak" \in Kinds /\ "Leak" \notin Stale
      BY DEF Kinds, Stale
    <3>4. ReportOK(chunks, report')
      BY <3>1, <3>2, <3>3 DEF ReportOK
    <3> QED  BY <2>5, <2>8, <3>4 DEF kernel_check_leaks
  <2>9. ASSUME UNCHANGED vars PROVE SoundInv'
    BY <2>9 DEF vars, SoundInv
  <2> QED  BY <2>1, <2>2, <2>3, <2>4, <2>6, <2>7, <2>8, <2>9 DEF Next
<1> QED  BY <1>1, <1>2, PTL DEF Spec

\* What the driver was given and has not freed is what is live in the ledger, and a driver
\* that uses one region only can rely on index_of to find each chunk from each of its bytes.
THEOREM LedgerIsSound == Spec => []LedgerSound
<1>1. SoundInv => LedgerSound
  <2> SUFFICES ASSUME SoundInv PROVE LedgerSound
    OBVIOUS
  <2>1. TypeOK
    BY DEF SoundInv, LedgerInv, LedgerOK, Chunk, HeldOK, ReportOK, TypeOK
  <2>2. HeldIsLive /\ LiveIsHeld
    BY DEF SoundInv, HeldOK, StackOutside, HeldIsLive, LiveIsHeld
  <2>3. PoolsSorted
    BY Zenon DEF SoundInv, LedgerInv, PairsApart, Ordered, PoolsSorted
  <2>4. chunks \in Seq(Chunk) /\ DOMAIN chunks \subseteq Nat
    BY DEF SoundInv, LedgerInv, LedgerOK
  <2>5. \A i \in DOMAIN chunks : /\ chunks[i].addr \in Nat /\ chunks[i].size \in Nat \ {0}
                                 /\ chunks[i].req_size \in Nat
    <3>1. \A i \in DOMAIN chunks : chunks[i] \in Chunk
      BY <2>4
    <3> QED  BY <3>1 DEF Chunk
  <2>6. ASSUME \A i, j \in DOMAIN chunks : Pool(chunks[i].region) = Pool(chunks[j].region)
        PROVE  LookupFinds
    <3>1. InOrder(chunks)
      <4>1. \A x, y, s \in Nat : x + s + HEAP_REDZONE <= y => x + s <= y
        BY DEF HEAP_REDZONE
      <4> QED  BY <2>3, <2>5, <2>6, <4>1, Zenon DEF InOrder, PoolsSorted
    <3>2. \A i \in DOMAIN chunks : ChunkAddrs(chunks[i]) \subseteq Nat
      BY <2>5 DEF ChunkAddrs
    <3> QED  BY <2>4, <3>1, <3>2, FindsInOrder DEF LookupFinds
  <2> QED  BY <2>1, <2>2, <2>3, <2>6 DEF LedgerSound, OneRegionLookup
<1> QED  BY <1>1, SoundInvariant, PTL

\* The guard accuses nobody wrongly: a finding of a stale use or of a double free names a
\* chunk that was freed, also when the search of index_of meets an unsorted ledger.
THEOREM FindingsHold == Spec => []FindingsAreTrue
<1>1. SoundInv => FindingsAreTrue
  BY DEF SoundInv, ReportOK, Stale, FindingsAreTrue
<1> QED  BY <1>1, SoundInvariant, PTL

-----------------------------------------------------------------------------
(* The promise of the user-space allocator, O1Heap, is enough for its clients: *)
(* whatever it does within HeapPromise, no two blocks share a byte.            *)

CONSTANTS Unit, Capacity, Sizes
VARIABLE used

Promise == INSTANCE HeapPromise

ApartIn(u) ==
    /\ DOMAIN u \subseteq Promise!Offsets
    /\ u = [a \in DOMAIN u |-> u[a]]
    /\ \A a \in DOMAIN u : u[a] \in Nat \ {0} /\ Promise!Bytes(a, u[a]) \subseteq Promise!Offsets
    /\ \A a, b \in DOMAIN u : a # b => Promise!Bytes(a, u[a]) \intersect Promise!Bytes(b, u[b]) = {}

\* A block that is put where no other block is stays clear of them.
LEMMA PutApart ==
    ASSUME NEW u, ApartIn(u), NEW s \in Promise!Offsets \ DOMAIN u, NEW size \in Nat \ {0},
           Promise!Bytes(s, size) \subseteq Promise!Unused(u)
    PROVE  ApartIn(Promise!With(u, s, size))
<1> DEFINE v == Promise!With(u, s, size)
<1>1. DOMAIN v = DOMAIN u \union {s} /\ v = [a \in DOMAIN v |-> v[a]]
    BY DEF Promise!With
<1>2. v[s] = size /\ \A a \in DOMAIN u : v[a] = u[a]
    BY DEF Promise!With
<1>3. \A a \in DOMAIN v : v[a] \in Nat \ {0} /\ Promise!Bytes(a, v[a]) \subseteq Promise!Offsets
    BY <1>1, <1>2 DEF ApartIn, Promise!Unused
<1>4. \A a \in DOMAIN u : Promise!Bytes(a, u[a]) \intersect Promise!Bytes(s, size) = {}
    BY DEF Promise!Unused
<1>5. \A a, b \in DOMAIN v : a # b => Promise!Bytes(a, v[a]) \intersect Promise!Bytes(b, v[b]) = {}
    BY <1>1, <1>2, <1>4 DEF ApartIn
<1> QED
    BY <1>1, <1>3, <1>5 DEF ApartIn

\* A block that is freed leaves the others as they were.
LEMMA FreeApart ==
    ASSUME NEW u, ApartIn(u), NEW a
    PROVE  /\ ApartIn(Promise!Without(u, a))
           /\ DOMAIN Promise!Without(u, a) = DOMAIN u \ {a}
<1>1. DOMAIN Promise!Without(u, a) = DOMAIN u \ {a}
    BY DEF Promise!Without
<1>2. \A b \in DOMAIN u \ {a} : Promise!Without(u, a)[b] = u[b]
    BY DEF Promise!Without
<1> QED
    BY <1>1, <1>2 DEF ApartIn, Promise!Without

\* What was a block's own is unused once it is freed.
LEMMA FreeUnused ==
    ASSUME NEW u, ApartIn(u), NEW a \in DOMAIN u
    PROVE  Promise!Unused(u) \union Promise!Bytes(a, u[a]) = Promise!Unused(Promise!Without(u, a))
<1>1. DOMAIN Promise!Without(u, a) = DOMAIN u \ {a}
    BY DEF Promise!Without
<1>2. \A b \in DOMAIN u \ {a} : Promise!Without(u, a)[b] = u[b]
    BY DEF Promise!Without
<1>3. \A o \in Promise!Bytes(a, u[a]) : o \in Promise!Offsets /\ \A b \in DOMAIN u \ {a} : o \notin Promise!Bytes(b, u[b])
    BY DEF ApartIn
<1> QED
    BY <1>1, <1>2, <1>3 DEF Promise!Unused

\* A block has its first byte.
LEMMA FirstByte ==
    ASSUME NEW u, ApartIn(u), NEW a \in DOMAIN u
    PROVE  a \in Promise!Bytes(a, u[a])
    BY DEF ApartIn, Promise!Bytes, Promise!Offsets

\* The bytes of a hole are unused, and no block starts there.
LEMMA HoleUnused ==
    ASSUME NEW u, ApartIn(u), Capacity \in Nat, NEW size \in Nat \ {0}, NEW h \in Promise!BestHoles(u, size)
    PROVE  /\ h[1] \in Promise!Offsets \ DOMAIN u
           /\ Promise!Bytes(h[1], size) \subseteq Promise!Unused(u)
<1>1. /\ h \in Promise!Offsets \X (1 .. Capacity) /\ h[1] .. h[2] - 1 \subseteq Promise!Unused(u)
      /\ h[2] - h[1] >= size
    BY DEF Promise!BestHoles, Promise!Holes
<1>2. h[1] \in Int /\ h[2] \in Int
    BY <1>1 DEF Promise!Offsets
<1>3. Promise!Bytes(h[1], size) \subseteq Promise!Unused(u)
    BY <1>1, <1>2 DEF Promise!Bytes
<1>4. h[1] \in Promise!Bytes(h[1], size)
    BY <1>2 DEF Promise!Bytes
<1>5. \A a \in DOMAIN u : a \in Promise!Bytes(a, u[a])
    BY FirstByte
<1> QED
    BY <1>1, <1>3, <1>4, <1>5 DEF Promise!Unused

\* Every step keeps the blocks apart: one that moves does not overlap what it leaves.
LEMMA NextApart ==
    ASSUME Capacity \in Nat, Sizes \subseteq Nat \ {0}, ApartIn(used), [Promise!Next]_used
    PROVE  ApartIn(used')
<1>1. ASSUME NEW size \in Sizes, Promise!Allocate(size)
      PROVE  ApartIn(used')
    BY <1>1, HoleUnused, PutApart DEF Promise!Allocate
<1>2. ASSUME NEW a \in DOMAIN used, Promise!Free(a)
      PROVE  ApartIn(used')
    BY <1>2, FreeApart, Zenon DEF Promise!Free
<1>3. ASSUME NEW a \in DOMAIN used, NEW s \in Int, NEW size \in Sizes, Promise!Fits(used, a, s, size)
      PROVE  ApartIn(Promise!With(Promise!Without(used, a), s, size))
    <2>1. Promise!Bytes(s, size) \subseteq Promise!Unused(Promise!Without(used, a))
        BY <1>3, FreeUnused DEF Promise!Fits
    <2>2. s \in Promise!Bytes(s, size)
        BY DEF Promise!Bytes
    <2>3. \A b \in DOMAIN Promise!Without(used, a) : b \in Promise!Bytes(b, Promise!Without(used, a)[b])
        BY FreeApart, FirstByte, Zenon
    <2>4. s \in Promise!Offsets \ DOMAIN Promise!Without(used, a)
        BY <2>1, <2>2, <2>3 DEF Promise!Unused
    <2> QED
        BY <2>1, <2>4, FreeApart, PutApart, Zenon
<1>4. ASSUME NEW a \in DOMAIN used, NEW size \in Sizes, Promise!ResizeInPlace(a, size)
      PROVE  ApartIn(used')
    <2>1. Promise!With(used, a, size) = Promise!With(Promise!Without(used, a), a, size)
        BY DEF Promise!With, Promise!Without
    <2>2. a \in Int
        BY DEF ApartIn, Promise!Offsets
    <2> QED
        BY <1>3, <1>4, <2>1, <2>2 DEF Promise!ResizeInPlace
<1>5. ASSUME NEW a \in DOMAIN used, NEW s \in 0 .. a, NEW size \in Sizes, Promise!SlideDown(a, s, size)
      PROVE  ApartIn(used')
    BY <1>3, <1>5 DEF Promise!SlideDown
<1>6. ASSUME NEW a \in DOMAIN used, NEW s \in 0 .. a, NEW size \in Sizes, Promise!Move(a, s, size)
      PROVE  ApartIn(used')
    <2>1. PICK h \in Promise!BestHoles(used, size) : used' = Promise!Without(Promise!With(used, h[1], size), a)
        BY <1>6 DEF Promise!Move
    <2>2. ApartIn(Promise!With(used, h[1], size))
        BY HoleUnused, PutApart
    <2> QED
        BY <2>1, <2>2, FreeApart, Zenon
<1>7. CASE UNCHANGED used
    BY <1>7 DEF ApartIn
<1> QED
    BY <1>1, <1>2, <1>4, <1>5, <1>6, <1>7 DEF Promise!Next

\* Allocation, reallocation and freeing as HeapPromise allows them never let two
\* blocks share a byte or leave the arena, for every capacity and all block sizes.
THEOREM BlocksStayApart ==
    ASSUME Capacity \in Nat, Sizes \subseteq Nat \ {0}
    PROVE  Promise!Spec => []Promise!Apart
<1>1. Promise!Init => ApartIn(used)
    BY DEF Promise!Init, ApartIn
<1>2. ApartIn(used) /\ [Promise!Next]_used => ApartIn(used)'
    <2>1. ASSUME ApartIn(used), [Promise!Next]_used
          PROVE  ApartIn(used')
        BY <2>1, NextApart
    <2> QED
        BY <2>1 DEF ApartIn, Promise!Offsets, Promise!Bytes
<1>3. ApartIn(used) => Promise!Apart
    BY DEF ApartIn, Promise!Apart
<1> QED
    BY <1>1, <1>2, <1>3, PTL DEF Promise!Spec
=============================================================================
