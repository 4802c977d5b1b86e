-------------------------------- MODULE Maps --------------------------------
(***************************************************************************)
(* The guest's address space, struct Maps: regions in a slab, found by     *)
(* base, by name and through a translation cache, and the mmap and munmap  *)
(* system calls of an emulated Linux process, which map, trim and split    *)
(* regions, and the stores that may cross from a region into the next.     *)
(*                                                                         *)
(* Addresses and sizes are in pages: both system calls deal in whole pages *)
(* and all that is kept of a page is one value.  A store of two units is   *)
(* one that crosses a page boundary.  Regions that mmap creates are always *)
(* writable; the other permissions, files and the log of code writes (see  *)
(* CodeCache) are left out.                                                *)
(***************************************************************************)
EXTENDS Integers, Sequences, FiniteSets, TLC, SequencesExt, FiniteSetsExt

CONSTANTS
    TLB_SIZE,
    LIBS64_MIN, LIBS64_MAX,  \* where mmap places regions by itself
    Pages,                   \* bound: pages of the address space
    Sizes,                   \* lengths of mappings
    Keys,                    \* keys of the slab
    Nil                      \* Option::None

ASSUME MapsAssumption ==
    /\ TLB_SIZE \in Nat \ {0} /\ Pages \in Nat \ {0} /\ Sizes \subseteq Nat \ {0}
    /\ LIBS64_MIN \in Nat \ {0} /\ LIBS64_MAX \in LIBS64_MIN .. Pages
    /\ Cardinality(Keys) >= Pages
    /\ Nil \notin Keys

VARIABLE self  \* [mem_slab, vacant, maps, name_map, tlb]

Space == 0 .. Pages - 1
Values == {0, 1}

-----------------------------------------------------------------------------
(* Lookup *)

inside(mem, addr) == mem.base <= addr /\ addr < mem.bottom

\* An entry is the key; flush and invalidate only reset the page number beside it, which
\* no lookup reads.
get_index_of(addr) == addr % TLB_SIZE
Cached(s, addr) == s.tlb[get_index_of(addr)]

\* Bug: an entry that is still in the slab is used as it is.
BugHit(s, addr) == Cached(s, addr) \in DOMAIN s.mem_slab

Hit(s, addr) ==
    /\ Cached(s, addr) \in DOMAIN s.mem_slab
    /\ inside(s.mem_slab[Cached(s, addr)], addr)

\* The region with the highest base that is not above addr.
IsLast(bases, addr, b) == b \in bases /\ b <= addr /\ \A c \in bases : c <= addr => c <= b
Search(s, addr) ==
    IF \E b \in DOMAIN s.maps : IsLast(DOMAIN s.maps, addr, b)
    THEN LET key == s.maps[CHOOSE b \in DOMAIN s.maps : IsLast(DOMAIN s.maps, addr, b)]
         IN  IF key \in DOMAIN s.mem_slab /\ inside(s.mem_slab[key], addr) THEN key ELSE Nil
    ELSE Nil

\* get_mem_by_addr and get_mem_by_addr_mut: what they return, and what they leave behind.
get_mem_by_addr(s, addr) == IF Hit(s, addr) THEN Cached(s, addr) ELSE Search(s, addr)
Looked(s, addr) ==
    IF Hit(s, addr) \/ Search(s, addr) = Nil THEN s
    ELSE [s EXCEPT !.tlb[get_index_of(addr)] = Search(s, addr)]

is_mapped(s, addr) == get_mem_by_addr(s, addr) # Nil

-----------------------------------------------------------------------------
(* Regions *)

Put(f, x, y) == [z \in DOMAIN f \union {x} |-> IF z = x THEN y ELSE f[z]]
Drop(f, x) == [z \in DOMAIN f \ {x} |-> f[z]]
Zeros(sz) == [i \in 1 .. sz |-> 0]

\* A name is the page of the mmap call and what was appended to it: the end of the hole
\* that split the region off, or the number that made the name unique, negated.
exists_mapname(s, name) == name \in DOMAIN s.name_map
unique_map_name(s, prefix) ==
    IF ~ exists_mapname(s, prefix) THEN prefix
    ELSE LET free == {k \in 1 .. Cardinality(DOMAIN s.name_map) + 1 :
                        ~ exists_mapname(s, Append(prefix, -k))}
         IN  Append(prefix, -Min(free))

\* Fails for an address or a name in use.  The slab hands out the key vacated last.
create_map(s, name, base, bytes) ==
    LET key == Head(s.vacant)
    IN  IF is_mapped(s, base) \/ exists_mapname(s, name) THEN Looked(s, base)
        ELSE [s EXCEPT
            !.vacant = Tail(@),
            !.mem_slab = Put(@, key, [name |-> name, base |-> base,
                                      bottom |-> base + Len(bytes), mem |-> bytes]),
            !.name_map = Put(@, name, key),
            !.maps = Put(@, base, key)]

\* Bug: the name stays in use.
BugDealloc(s, addr) ==
    [s EXCEPT !.mem_slab = Drop(@, s.maps[addr]),
              !.vacant = <<s.maps[addr]>> \o @,
              !.maps = Drop(@, addr)]

dealloc(s, addr) ==
    LET key == s.maps[addr]
    IN  [s EXCEPT !.name_map = Drop(@, s.mem_slab[key].name),
                  !.mem_slab = Drop(@, key),
                  !.vacant = <<key>> \o @,
                  !.maps = Drop(@, addr)]

drop_front(mem, n) == [mem EXCEPT !.mem = SubSeq(@, n + 1, Len(@)), !.base = @ + n]
truncate(mem, n) == [mem EXCEPT !.mem = SubSeq(@, 1, n), !.bottom = mem.base + n]
split_off(mem, at) == SubSeq(mem.mem, at - mem.base + 1, Len(mem.mem))

TailName(mem, end) == Append(mem.name, end)

\* Bug: a region that contains the hole is only truncated.
BugCut(s, base, addr, end) ==
    LET key == s.maps[base]
        mem == s.mem_slab[key]
    IN  IF addr <= base /\ end >= mem.bottom THEN dealloc(s, base)
        ELSE IF addr <= base
        THEN [s EXCEPT !.mem_slab[key] = drop_front(mem, end - base),
                       !.maps = Put(Drop(@, base), end, key)]
        ELSE [s EXCEPT !.mem_slab[key] = truncate(mem, addr - base)]

\* What unmap_range does to the region at base, which overlaps [addr, end).
Cut(s, base, addr, end) ==
    LET key == s.maps[base]
        mem == s.mem_slab[key]
        head == [s EXCEPT !.mem_slab[key] = truncate(mem, addr - base)]
    IN  IF addr <= base /\ end >= mem.bottom THEN dealloc(s, base)
        ELSE IF addr <= base
        THEN [s EXCEPT !.mem_slab[key] = drop_front(mem, end - base),
                       !.maps = Put(Drop(@, base), end, key)]
        ELSE IF end >= mem.bottom THEN head
        ELSE create_map(head, TailName(mem, end), end, split_off(mem, end))

Overlapping(s, addr, end) ==
    {b \in DOMAIN s.maps : b < end /\ s.mem_slab[s.maps[b]].bottom > addr}

unmap_range(s, addr, len) ==
    FoldLeft(LAMBDA t, base : Cut(t, base, addr, addr + len), s,
             SetToSortSeq(Overlapping(s, addr, addr + len), <))

\* Bug: only the first page is looked at.
BugIsRangeFree(s, addr, len) == ~ is_mapped(s, addr)

is_range_free(s, addr, len) ==
    /\ ~ is_mapped(s, addr)
    /\ \A b \in DOMAIN s.maps : b \notin addr .. addr + len - 1

\* Regions with a base in [from, LIBS64_MAX), and the gap in front of each of them.
SizeAt(s, base) == Len(s.mem_slab[s.maps[base]].mem)
Bases(s, from) == SetToSortSeq({b \in DOMAIN s.maps : from <= b /\ b < LIBS64_MAX}, <)
Gap(s, bases, i) ==
    IF i = 1 THEN LIBS64_MIN ELSE bases[i - 1] + SizeAt(s, bases[i - 1])

\* The end of the last region, if there is room behind it, or else the lowest gap; either
\* has to be larger than sz.
Reserve(s, sz, end, bases) ==
    LET large == {i \in DOMAIN bases : bases[i] - Gap(s, bases, i) > sz}
    IN  IF LIBS64_MAX - end > sz THEN end
        ELSE IF large = {} THEN Nil
        ELSE Gap(s, bases, Min(large))
LastEnd(s) ==
    LET all == Bases(s, 0)
    IN  IF all = <<>> THEN LIBS64_MIN ELSE Max({LIBS64_MIN, Last(all) + SizeAt(s, Last(all))})

lib64_reserve(s, sz) == Reserve(s, sz, LastEnd(s), Bases(s, LIBS64_MIN))

-----------------------------------------------------------------------------
(* Access *)

Poke(s, key, addr, v) == [s EXCEPT !.mem_slab[key].mem[addr - s.mem_slab[key].base + 1] = v]
Peek(s, key, addr) == s.mem_slab[key].mem[addr - s.mem_slab[key].base + 1]

\* The region that the second unit of an access at addr falls into: the same one, or the
\* one that begins right where that one ends.
Second(s, addr) ==
    LET key == get_mem_by_addr(s, addr)
    IN  IF inside(s.mem_slab[key], addr + 1) THEN key
        ELSE IF addr + 1 \in DOMAIN s.maps THEN s.maps[addr + 1] ELSE Nil

\* One or two units; Nil if they are not all mapped.
read_scalar(s, addr, n) ==
    LET key == get_mem_by_addr(s, addr)
    IN  IF key = Nil THEN Nil
        ELSE IF n = 1 THEN <<Peek(s, key, addr)>>
        ELSE IF Second(s, addr) = Nil THEN Nil
        ELSE <<Peek(s, key, addr), Peek(s, Second(s, addr), addr + 1)>>

\* Bug: the part in the first region is written before the second is known to exist.
BugWriteScalar(s, addr, n, v) ==
    LET key == get_mem_by_addr(s, addr)
        first == Poke(Looked(s, addr), key, addr, v)
    IN  IF key = Nil THEN s
        ELSE IF n = 1 \/ Second(s, addr) = Nil THEN first
        ELSE Poke(first, Second(s, addr), addr + 1, v)

write_scalar(s, addr, n, v) ==
    LET key == get_mem_by_addr(s, addr)
        first == Poke(Looked(s, addr), key, addr, v)
    IN  IF key = Nil \/ (n = 2 /\ Second(s, addr) = Nil) THEN Looked(s, addr)
        ELSE IF n = 1 THEN first
        ELSE Poke(first, Second(s, addr), addr + 1, v)

\* In one go if a single region holds it all, otherwise one by one until a store fails.
write_bytes(s, addr, n, v) ==
    LET key == get_mem_by_addr(s, addr)
        mapped == {k \in 0 .. n : \A i \in 0 .. k - 1 : is_mapped(s, addr + i)}
    IN  IF key = Nil THEN s
        ELSE IF inside(s.mem_slab[key], addr + n - 1)
        THEN FoldLeft(LAMBDA t, i : Poke(t, key, addr + i - 1, v), Looked(s, addr),
                      [i \in 1 .. n |-> i])
        ELSE FoldLeft(LAMBDA t, i : write_scalar(t, addr + i - 1, 1, v), s,
                      [i \in 1 .. Max(mapped) |-> i])

-----------------------------------------------------------------------------

\* Keys are handed out in order, and every entry of the cache holds the first one.
Init ==
    \E order \in SetToSeqs(Keys) :
       self = [mem_slab |-> <<>>, vacant |-> order, maps |-> <<>>, name_map |-> <<>>,
               tlb |-> [i \in 0 .. TLB_SIZE - 1 |-> Head(order)]]

munmap(addr, sz) == self' = unmap_range(self, addr, sz)

\* The name is made unique and the region is created, at addr in s.
Place(s, addr, sz) == create_map(s, unique_map_name(s, <<addr>>), addr, Zeros(sz))

\* MAP_FIXED replaces what is there.
mmap_fixed(addr, sz) == self' = Place(unmap_range(self, addr, sz), addr, sz)

\* Otherwise addr is a hint, 0 for none.
Placement(s, addr, sz) ==
    IF addr # 0 /\ is_range_free(s, addr, sz) THEN addr ELSE lib64_reserve(s, sz)
mmap(addr, sz) ==
    LET s == IF addr = 0 THEN self ELSE Looked(self, addr)
        at == Placement(self, addr, sz)
    IN  self' = IF at = Nil THEN s ELSE Place(s, at, sz)

Load(addr) == self' = Looked(self, addr)
Store(addr, n) == self' = write_scalar(self, addr, n, 1)
StoreBytes(addr, n) == self' = write_bytes(self, addr, n, 1)

Next ==
    \/ \E addr \in Space, sz \in Sizes :
          addr + sz <= Pages /\ (munmap(addr, sz) \/ mmap_fixed(addr, sz) \/ mmap(addr, sz))
    \/ \E addr \in Space : Load(addr) \/ \E n \in 1 .. 2 : Store(addr, n)
    \/ \E addr \in Space, n \in Sizes : StoreBytes(addr, n)

Spec == Init /\ [][Next]_self

-----------------------------------------------------------------------------

\* The regions, by key.
TypeOK ==
    /\ DOMAIN self.mem_slab = Keys \ Range(self.vacant)
    /\ \A key \in DOMAIN self.mem_slab :
          LET mem == self.mem_slab[key]
          IN  /\ mem.base \in Space /\ mem.bottom \in 1 .. Pages
              /\ mem.mem \in Seq(Values)
              /\ mem.name \in Seq(Int)
    /\ self.tlb \in [0 .. TLB_SIZE - 1 -> Keys]

Regions(s) == {s.mem_slab[key] : key \in DOMAIN s.mem_slab}

\* mem_test of the code: regions do not overlap, and each ends at its base plus its
\* size.  Both indices have every region, and nothing else.
Sound(s) ==
    /\ \A key \in DOMAIN s.mem_slab :
          LET mem == s.mem_slab[key]
          IN  /\ mem.base < mem.bottom /\ mem.bottom = mem.base + Len(mem.mem)
              /\ mem.base \in DOMAIN s.maps /\ s.maps[mem.base] = key
              /\ mem.name \in DOMAIN s.name_map /\ s.name_map[mem.name] = key
    /\ \A k, l \in DOMAIN s.mem_slab : k # l =>
          \/ s.mem_slab[k].bottom <= s.mem_slab[l].base
          \/ s.mem_slab[l].bottom <= s.mem_slab[k].base
    /\ \A b \in DOMAIN s.maps : s.maps[b] \in DOMAIN s.mem_slab /\ s.mem_slab[s.maps[b]].base = b
    /\ \A name \in DOMAIN s.name_map :
          s.name_map[name] \in DOMAIN s.mem_slab /\ s.mem_slab[s.name_map[name]].name = name

\* Trimmed, split, replaced and reused: the tables stay as mem_test wants them.
MapsSound == TypeOK /\ Sound(self)

\* What is at each address, from the regions alone.
Ram(s) ==
    [a \in Space |->
        LET here == {key \in DOMAIN s.mem_slab : inside(s.mem_slab[key], a)}
        IN  IF here = {} THEN Nil ELSE Peek(s, CHOOSE key \in here : TRUE, a)]
Mapped(s, pages) == pages \subseteq Space /\ \A a \in pages : Ram(s)[a] # Nil
Unmapped(s, pages) == pages \subseteq Space /\ \A a \in pages : Ram(s)[a] = Nil
Span(addr, n) == addr .. addr + n - 1
Replace(ram, pages, v) == [a \in Space |-> IF a \in pages THEN v ELSE ram[a]]

\* The cache is not to be noticed: a lookup finds the region that holds the address, or
\* nothing, whatever keys earlier lookups left in the cache and the slab has given to
\* other regions since, although flushing the cache changes no lookup.
CacheTransparent ==
    \A a \in Space :
       LET key == get_mem_by_addr(self, a)
       IN  /\ key = Search(self, a)
           /\ key # Nil => inside(self.mem_slab[key], a)
           /\ key = Nil <=> Ram(self)[a] = Nil

\* Reads see memory and not regions, also if they cross from one into the next.
ReadsSeeMemory ==
    \A a \in Space, n \in 1 .. 2 :
       read_scalar(self, a, n) =
          IF Mapped(self, Span(a, n)) THEN [i \in 1 .. n |-> Ram(self)[a + i - 1]] ELSE Nil

\* A store of a scalar is done as a whole or not at all; write_bytes stores what comes
\* before the first unmapped page.
StoresWhole ==
    \A a \in Space :
       /\ \A n \in 1 .. 2 :
             Ram(write_scalar(self, a, n, 1)) =
                IF Mapped(self, Span(a, n)) THEN Replace(Ram(self), Span(a, n), 1) ELSE Ram(self)
       /\ \A n \in Sizes :
             Ram(write_bytes(self, a, n, 1)) =
                Replace(Ram(self), {b \in Span(a, n) : Mapped(self, a .. b)}, 1)

\* Guest code cannot tell where a region ends and the next begins.
AccessesSeeMemory == ReadsSeeMemory /\ StoresWhole

\* The pages behind a hole whose region cannot be split: the name for its tail is in use,
\* by the tail that an earlier hole at the same place had split off.
LostTail(s, addr, end) ==
    UNION {end .. mem.bottom - 1 : mem \in
             {m \in Regions(s) : /\ m.base < addr /\ end < m.bottom
                                 /\ exists_mapname(s, TailName(m, end))}}

\* munmap: the range is unmapped and everything around it keeps its contents, except
\* for a tail that is lost to a name in use.
UnmapsRange ==
    \A a \in Space, sz \in Sizes : a + sz <= Pages =>
       Ram(unmap_range(self, a, sz)) =
          Replace(Ram(self), Span(a, sz) \union LostTail(self, a, a + sz), Nil)

\* mmap without MAP_FIXED replaces nothing: create_map refuses the place, or all of the
\* range is free, although create_map itself only looks at its first page.
ReplacesNothing ==
    \A a \in Space, sz \in Sizes : a + sz <= Pages =>
       LET at == Placement(self, a, sz)
       IN  at = Nil \/ is_mapped(self, at) \/ Unmapped(self, Span(at, sz))

\* The search finds a place exactly if there is a gap with a page to spare, and it hands
\* out no address in use, unless a region reaches across LIBS64_MIN.
ReserveFinds ==
    (~ \E mem \in Regions(self) : mem.base < LIBS64_MIN /\ LIBS64_MIN < mem.bottom) =>
       \A sz \in Sizes :
          LET at == lib64_reserve(self, sz)
          IN  /\ at # Nil => Unmapped(self, Span(at, sz))
              /\ at # Nil <=> \E a \in LIBS64_MIN .. LIBS64_MAX - sz - 1 :
                                  Unmapped(self, Span(a, sz + 1))

\* mmap finds a place if there is one, and takes nobody else's.
MmapPlaces == ReplacesNothing /\ ReserveFinds

\* The tests say of unmap_range that "a map that contains the range is split in two with
\* its bytes intact".
SplitKeepsTail ==
    \A a \in Space, sz \in Sizes : a + sz <= Pages => LostTail(self, a, a + sz) = {}
=============================================================================
