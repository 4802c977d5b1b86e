----------------------------- MODULE MapsProofs -----------------------------
(***************************************************************************)
(* The translation cache of Maps is not to be noticed, whatever it holds,  *)
(* in every table of regions that is sound; and creating and freeing       *)
(* regions keeps the table sound.                                          *)
(***************************************************************************)
EXTENDS Maps, SequenceTheorems, TLAPS

\* The types that the tables have in the code.
Tables(s) ==
    /\ s = [mem_slab |-> s.mem_slab, vacant |-> s.vacant, maps |-> s.maps,
            name_map |-> s.name_map, tlb |-> s.tlb]
    /\ DOMAIN s.maps \subseteq Int
    /\ \A key \in DOMAIN s.mem_slab :
          s.mem_slab[key].base \in Int /\ s.mem_slab[key].bottom \in Int

Mem64 == [name : Seq(Int), base : Int, bottom : Int, mem : Seq(Values)]

\* The length of a part of a sequence.
LEMMA SubSeqLen ==
    ASSUME NEW S, NEW q \in Seq(S), NEW m \in 1 .. Len(q), NEW n \in m .. Len(q)
    PROVE  SubSeq(q, m, n) \in Seq(S) /\ Len(SubSeq(q, m, n)) = n - m + 1
<1>1. n \in m - 1 .. Len(q)
  OBVIOUS
<1> QED
  BY <1>1, SubSeqProperties

\* In a sound table, the search by base finds the one region that an address is in.
LEMMA SearchFinds ==
    ASSUME NEW s, Tables(s), Sound(s),
           NEW addr \in Int, NEW key \in DOMAIN s.mem_slab, inside(s.mem_slab[key], addr)
    PROVE  Search(s, addr) = key
<1> DEFINE mem == s.mem_slab[key]
           last == CHOOSE b \in DOMAIN s.maps : IsLast(DOMAIN s.maps, addr, b)
<1>1. mem.base \in DOMAIN s.maps /\ s.maps[mem.base] = key
      /\ mem.base \in Int /\ mem.bottom \in Int /\ mem.base <= addr /\ addr < mem.bottom
  BY DEF Sound, Tables, inside
<1>2. ASSUME NEW c \in DOMAIN s.maps, c <= addr
      PROVE  c <= mem.base
  <2> DEFINE l == s.maps[c]
  <2>1. c \in Int /\ l \in DOMAIN s.mem_slab /\ s.mem_slab[l].base = c
        /\ s.mem_slab[l].bottom \in Int /\ c < s.mem_slab[l].bottom
    BY Zenon DEF Sound, Tables
  <2>2. CASE l = key
    BY <1>1, <2>1, <2>2
  <2>3. CASE l # key
    <3>1. s.mem_slab[l].bottom <= mem.base \/ mem.bottom <= s.mem_slab[l].base
      BY <2>1, <2>3 DEF Sound
    <3> QED
      BY <1>1, <1>2, <2>1, <3>1
  <2> QED
    BY <2>2, <2>3
<1>3. IsLast(DOMAIN s.maps, addr, mem.base)
  BY <1>1, <1>2 DEF IsLast
<1>4. last \in DOMAIN s.maps /\ IsLast(DOMAIN s.maps, addr, last)
  BY <1>1, <1>3
<1>5. last = mem.base
  <2>1. last \in Int /\ last <= mem.base /\ mem.base <= last
    BY <1>1, <1>3, <1>4 DEF IsLast, Tables
  <2> QED
    BY <1>1, <2>1
<1> QED
  BY <1>1, <1>3, <1>5, Zenon DEF Search

\* get_mem_by_addr: in a sound table the cache makes no difference to any lookup, whatever
\* its size and whatever keys it holds, vacated and reused ones included.
THEOREM CacheUnnoticed ==
    ASSUME NEW s, Tables(s), Sound(s), NEW addr \in Int
    PROVE  /\ get_mem_by_addr(s, addr) = Search(s, addr)
           /\ \A key \in DOMAIN s.mem_slab :
                 inside(s.mem_slab[key], addr) => get_mem_by_addr(s, addr) = key
<1>1. CASE Hit(s, addr)
  BY <1>1, SearchFinds DEF Hit, get_mem_by_addr
<1>2. CASE ~ Hit(s, addr)
  BY <1>2, SearchFinds DEF get_mem_by_addr
<1> QED
  BY <1>1, <1>2

\* Sound does not look at the cache, so a lookup keeps it.
LEMMA LookedSound ==
    ASSUME NEW s, Tables(s), Sound(s), NEW addr
    PROVE  Sound(Looked(s, addr)) /\ Tables(Looked(s, addr))
<1> DEFINE r == Looked(s, addr)
<1>1. /\ r.mem_slab = s.mem_slab /\ r.maps = s.maps /\ r.name_map = s.name_map
      /\ r = [mem_slab |-> r.mem_slab, vacant |-> r.vacant, maps |-> r.maps,
              name_map |-> r.name_map, tlb |-> r.tlb]
  BY DEF Looked, Tables
<1> HIDE DEF r
<1>2. Sound(r)
  BY <1>1 DEF Sound
<1>3. Tables(r)
  BY <1>1 DEF Tables
<1> QED
  BY <1>2, <1>3 DEF r

\* create_map: a region over pages that are free, under any name, keeps the table sound;
\* a name in use is refused and changes nothing but the cache.
THEOREM CreateSound ==
    ASSUME NEW s, Tables(s), Sound(s), Head(s.vacant) \notin DOMAIN s.mem_slab,
           NEW name, NEW base \in Int, NEW bytes \in Seq(Values), Len(bytes) > 0,
           \A key \in DOMAIN s.mem_slab : \/ s.mem_slab[key].bottom <= base
                                         \/ base + Len(bytes) <= s.mem_slab[key].base
    PROVE  Sound(create_map(s, name, base, bytes))
<1> DEFINE key == Head(s.vacant)
           mem == [name |-> name, base |-> base, bottom |-> base + Len(bytes), mem |-> bytes]
           r == create_map(s, name, base, bytes)
<1>1. CASE is_mapped(s, base) \/ exists_mapname(s, name)
  BY <1>1, LookedSound DEF create_map
<1>2. CASE ~ (is_mapped(s, base) \/ exists_mapname(s, name))
  <2>1. /\ r.mem_slab = Put(s.mem_slab, key, mem)
        /\ r.maps = Put(s.maps, base, key)
        /\ r.name_map = Put(s.name_map, name, key)
    BY <1>2 DEF create_map, Tables
  <2> HIDE DEF r, key, mem
  <2>2. /\ DOMAIN r.mem_slab = DOMAIN s.mem_slab \union {key} /\ r.mem_slab[key] = mem
        /\ \A k \in DOMAIN s.mem_slab : k # key /\ r.mem_slab[k] = s.mem_slab[k]
    BY <2>1 DEF Put, key
  <2>3. base \notin DOMAIN s.maps
    <3> SUFFICES ASSUME base \in DOMAIN s.maps PROVE FALSE
      OBVIOUS
    <3>1. PICK k \in DOMAIN s.mem_slab : s.mem_slab[k].base = base
      BY DEF Sound
    <3>2. s.mem_slab[k].bottom \in Int /\ base < s.mem_slab[k].bottom
      BY <3>1 DEF Sound, Tables
    <3>3. Len(bytes) \in Nat
      OBVIOUS
    <3> QED
      BY <3>1, <3>2, <3>3
  <2>4. /\ DOMAIN r.maps = DOMAIN s.maps \union {base} /\ r.maps[base] = key
        /\ \A b \in DOMAIN s.maps : b # base /\ r.maps[b] = s.maps[b]
    BY <2>1, <2>3 DEF Put
  <2>5. /\ DOMAIN r.name_map = DOMAIN s.name_map \union {name} /\ r.name_map[name] = key
        /\ \A n \in DOMAIN s.name_map : n # name /\ r.name_map[n] = s.name_map[n]
    BY <1>2, <2>1 DEF Put, exists_mapname
  <2>6. /\ mem.name = name /\ mem.base = base /\ mem.mem = bytes
        /\ mem.bottom = base + Len(bytes) /\ mem.base < mem.bottom
    BY DEF mem
  <2>7. \A k \in DOMAIN r.mem_slab :
          LET m == r.mem_slab[k]
          IN  /\ m.base < m.bottom /\ m.bottom = m.base + Len(m.mem)
              /\ m.base \in DOMAIN r.maps /\ r.maps[m.base] = k
              /\ m.name \in DOMAIN r.name_map /\ r.name_map[m.name] = k
    <3> TAKE k \in DOMAIN r.mem_slab
    <3>1. CASE k = key
      BY <2>2, <2>4, <2>5, <2>6, <3>1
    <3>2. CASE k # key
      <4>1. k \in DOMAIN s.mem_slab /\ r.mem_slab[k] = s.mem_slab[k]
        BY <2>2, <3>2
      <4>2. /\ s.mem_slab[k].base \in DOMAIN s.maps /\ s.maps[s.mem_slab[k].base] = k
            /\ s.mem_slab[k].name \in DOMAIN s.name_map
            /\ s.name_map[s.mem_slab[k].name] = k
            /\ s.mem_slab[k].base < s.mem_slab[k].bottom
            /\ s.mem_slab[k].bottom = s.mem_slab[k].base + Len(s.mem_slab[k].mem)
        BY <4>1 DEF Sound
      <4> QED
        BY <2>4, <2>5, <4>1, <4>2
    <3> QED
      BY <3>1, <3>2
  <2>8. \A k, l \in DOMAIN r.mem_slab : k # l =>
          \/ r.mem_slab[k].bottom <= r.mem_slab[l].base
          \/ r.mem_slab[l].bottom <= r.mem_slab[k].base
    BY <2>2, <2>6 DEF Sound, key
  <2>9. \A b \in DOMAIN r.maps : r.maps[b] \in DOMAIN r.mem_slab /\ r.mem_slab[r.maps[b]].base = b
    BY <2>2, <2>4, <2>6 DEF Sound
  <2>10. \A n \in DOMAIN r.name_map :
           r.name_map[n] \in DOMAIN r.mem_slab /\ r.mem_slab[r.name_map[n]].name = n
    BY <2>2, <2>5, <2>6 DEF Sound
  <2> QED
    BY <2>7, <2>8, <2>9, <2>10, Zenon DEF Sound, r
<1> QED
  BY <1>1, <1>2

\* dealloc: freeing the region at an address keeps the table sound, although the cache
\* may still hold its key.
THEOREM DeallocSound ==
    ASSUME NEW s, Tables(s), Sound(s), NEW addr \in DOMAIN s.maps
    PROVE  Sound(dealloc(s, addr))
<1> DEFINE key == s.maps[addr]
           r == dealloc(s, addr)
<1>1. /\ r.mem_slab = Drop(s.mem_slab, key)
      /\ r.maps = Drop(s.maps, addr)
      /\ r.name_map = Drop(s.name_map, s.mem_slab[key].name)
  BY DEF dealloc, Tables
<1>2. key \in DOMAIN s.mem_slab /\ s.mem_slab[key].base = addr
  BY DEF Sound
<1> HIDE DEF r
<1>3. /\ DOMAIN r.mem_slab = DOMAIN s.mem_slab \ {key}
      /\ \A k \in DOMAIN r.mem_slab : r.mem_slab[k] = s.mem_slab[k]
      /\ DOMAIN r.maps = DOMAIN s.maps \ {addr}
      /\ \A b \in DOMAIN r.maps : r.maps[b] = s.maps[b]
      /\ DOMAIN r.name_map = DOMAIN s.name_map \ {s.mem_slab[key].name}
      /\ \A n \in DOMAIN r.name_map : r.name_map[n] = s.name_map[n]
  BY <1>1 DEF Drop
<1>4. \A k \in DOMAIN r.mem_slab :
        r.mem_slab[k].base # addr /\ r.mem_slab[k].name # s.mem_slab[key].name
  <2> TAKE k \in DOMAIN r.mem_slab
  <2>1. k \in DOMAIN s.mem_slab /\ k # key /\ r.mem_slab[k] = s.mem_slab[k]
    BY <1>3
  <2>2. /\ s.maps[s.mem_slab[k].base] = k /\ s.name_map[s.mem_slab[k].name] = k
        /\ s.name_map[s.mem_slab[key].name] = key
    BY <1>2, <2>1 DEF Sound
  <2> HIDE DEF key
  <2> QED
    BY <2>1, <2>2 DEF key
<1>5. \A n \in DOMAIN r.name_map :
        r.name_map[n] \in DOMAIN r.mem_slab /\ r.mem_slab[r.name_map[n]].name = n
  <2> TAKE n \in DOMAIN r.name_map
  <2>1. n \in DOMAIN s.name_map /\ n # s.mem_slab[key].name /\ r.name_map[n] = s.name_map[n]
    BY <1>3
  <2>2. s.name_map[n] \in DOMAIN s.mem_slab /\ s.mem_slab[s.name_map[n]].name = n
    BY <2>1 DEF Sound
  <2> QED
    BY <1>3, <2>1, <2>2
<1>6. \A b \in DOMAIN r.maps : r.maps[b] \in DOMAIN r.mem_slab /\ r.mem_slab[r.maps[b]].base = b
  <2> TAKE b \in DOMAIN r.maps
  <2>1. b \in DOMAIN s.maps /\ b # addr /\ r.maps[b] = s.maps[b]
    BY <1>3
  <2>2. s.maps[b] \in DOMAIN s.mem_slab /\ s.mem_slab[s.maps[b]].base = b
    BY <2>1 DEF Sound
  <2> QED
    BY <1>2, <1>3, <2>1, <2>2
<1>7. \A k \in DOMAIN r.mem_slab :
        LET m == r.mem_slab[k]
        IN  /\ m.base < m.bottom /\ m.bottom = m.base + Len(m.mem)
            /\ m.base \in DOMAIN r.maps /\ r.maps[m.base] = k
            /\ m.name \in DOMAIN r.name_map /\ r.name_map[m.name] = k
  <2> TAKE k \in DOMAIN r.mem_slab
  <2>1. k \in DOMAIN s.mem_slab /\ r.mem_slab[k] = s.mem_slab[k]
    BY <1>3
  <2>2. /\ s.mem_slab[k].base \in DOMAIN s.maps /\ s.maps[s.mem_slab[k].base] = k
        /\ s.mem_slab[k].name \in DOMAIN s.name_map
        /\ s.name_map[s.mem_slab[k].name] = k
        /\ s.mem_slab[k].base < s.mem_slab[k].bottom
        /\ s.mem_slab[k].bottom = s.mem_slab[k].base + Len(s.mem_slab[k].mem)
    BY <2>1 DEF Sound
  <2> QED
    BY <1>3, <1>4, <2>1, <2>2
<1>8. \A k, l \in DOMAIN r.mem_slab : k # l =>
        \/ r.mem_slab[k].bottom <= r.mem_slab[l].base
        \/ r.mem_slab[l].bottom <= r.mem_slab[k].base
  BY <1>3 DEF Sound
<1> QED
  BY <1>5, <1>6, <1>7, <1>8 DEF Sound, r

\* Trimming a region at either end, with the index by base following, keeps the table
\* sound.
LEMMA TrimSound ==
    ASSUME NEW s, Tables(s), Sound(s), NEW t, NEW key \in DOMAIN s.mem_slab, NEW mem,
           mem.name = s.mem_slab[key].name, mem.base \in Int, mem.bottom \in Int,
           s.mem_slab[key].base <= mem.base, mem.base < mem.bottom,
           mem.bottom <= s.mem_slab[key].bottom, mem.bottom = mem.base + Len(mem.mem),
           t.mem_slab = [s.mem_slab EXCEPT ![key] = mem],
           t.name_map = s.name_map,
           DOMAIN t.maps = (DOMAIN s.maps \ {s.mem_slab[key].base}) \union {mem.base},
           t.maps[mem.base] = key,
           \A b \in DOMAIN s.maps \ {s.mem_slab[key].base} :
              b # mem.base => t.maps[b] = s.maps[b]
    PROVE  Sound(t)
<1> DEFINE old == s.mem_slab[key]
<1>1. /\ DOMAIN t.mem_slab = DOMAIN s.mem_slab /\ t.mem_slab[key] = mem
      /\ \A k \in DOMAIN s.mem_slab \ {key} : t.mem_slab[k] = s.mem_slab[k]
  OBVIOUS
<1>2. ASSUME NEW k \in DOMAIN s.mem_slab
      PROVE  /\ s.mem_slab[k].base \in Int /\ s.mem_slab[k].bottom \in Int
             /\ s.mem_slab[k].base < s.mem_slab[k].bottom
             /\ s.mem_slab[k].bottom = s.mem_slab[k].base + Len(s.mem_slab[k].mem)
             /\ s.mem_slab[k].base \in DOMAIN s.maps /\ s.maps[s.mem_slab[k].base] = k
             /\ s.mem_slab[k].name \in DOMAIN s.name_map
             /\ s.name_map[s.mem_slab[k].name] = k
  BY DEF Sound, Tables
<1>3. ASSUME NEW k \in DOMAIN s.mem_slab, NEW l \in DOMAIN s.mem_slab, k # l
      PROVE  \/ s.mem_slab[k].bottom <= s.mem_slab[l].base
             \/ s.mem_slab[l].bottom <= s.mem_slab[k].base
  BY <1>3 DEF Sound
<1>4. ASSUME NEW k \in DOMAIN s.mem_slab \ {key}
      PROVE  /\ s.mem_slab[k].bottom <= mem.base \/ mem.bottom <= s.mem_slab[k].base
             /\ s.mem_slab[k].base # mem.base /\ s.mem_slab[k].base # old.base
  <2>1. s.mem_slab[k].bottom <= old.base \/ old.bottom <= s.mem_slab[k].base
    BY <1>3
  <2> HIDE DEF old
  <2>2. /\ s.mem_slab[k].base \in Int /\ s.mem_slab[k].bottom \in Int
        /\ s.mem_slab[k].base < s.mem_slab[k].bottom
        /\ old.base \in Int /\ old.bottom \in Int /\ old.base < old.bottom
        /\ old.base <= mem.base /\ mem.bottom <= old.bottom
    BY <1>2 DEF old
  <2> QED
    BY <2>1, <2>2
<1>5. \A k \in DOMAIN t.mem_slab :
        LET m == t.mem_slab[k]
        IN  /\ m.base < m.bottom /\ m.bottom = m.base + Len(m.mem)
            /\ m.base \in DOMAIN t.maps /\ t.maps[m.base] = k
            /\ m.name \in DOMAIN t.name_map /\ t.name_map[m.name] = k
  <2> TAKE k \in DOMAIN t.mem_slab
  <2>1. CASE k = key
    BY <1>1, <1>2, <2>1
  <2>2. CASE k # key
    <3>1. k \in DOMAIN s.mem_slab \ {key} /\ t.mem_slab[k] = s.mem_slab[k]
      BY <1>1, <2>2
    <3>2. t.maps[s.mem_slab[k].base] = s.maps[s.mem_slab[k].base]
      BY <1>2, <1>4, <3>1
    <3> QED
      BY <1>2, <1>4, <3>1, <3>2
  <2> QED
    BY <2>1, <2>2
<1>6. \A k, l \in DOMAIN t.mem_slab : k # l =>
        \/ t.mem_slab[k].bottom <= t.mem_slab[l].base
        \/ t.mem_slab[l].bottom <= t.mem_slab[k].base
  BY <1>1, <1>3, <1>4
<1>7. \A b \in DOMAIN t.maps : t.maps[b] \in DOMAIN t.mem_slab /\ t.mem_slab[t.maps[b]].base = b
  <2> TAKE b \in DOMAIN t.maps
  <2>1. CASE b = mem.base
    BY <1>1, <2>1
  <2>2. CASE b # mem.base
    <3>1. b \in DOMAIN s.maps \ {old.base} /\ t.maps[b] = s.maps[b]
      BY <2>2
    <3>2. s.maps[b] \in DOMAIN s.mem_slab /\ s.mem_slab[s.maps[b]].base = b
      BY <3>1 DEF Sound
    <3>3. s.maps[b] # key
      BY <3>1, <3>2
    <3> QED
      BY <1>1, <3>1, <3>2, <3>3
  <2> QED
    BY <2>1, <2>2
<1>8. \A n \in DOMAIN t.name_map :
        t.name_map[n] \in DOMAIN t.mem_slab /\ t.mem_slab[t.name_map[n]].name = n
  <2> TAKE n \in DOMAIN t.name_map
  <2>1. s.name_map[n] \in DOMAIN s.mem_slab /\ s.mem_slab[s.name_map[n]].name = n
    BY DEF Sound
  <2> QED
    BY <1>1, <2>1
<1> QED
  BY <1>5, <1>6, <1>7, <1>8, Zenon DEF Sound

\* unmap_range, region by region: whether the region at base is freed, trimmed at the
\* front, trimmed at the end or split in two, the table stays sound, also if the tail
\* that is split off cannot be named and is lost.
THEOREM CutSound ==
    ASSUME NEW s, Tables(s), Sound(s), Head(s.vacant) \notin DOMAIN s.mem_slab,
           \A key \in DOMAIN s.mem_slab : s.mem_slab[key] \in Mem64,
           NEW addr \in Int, NEW end \in Int, addr < end,
           NEW base \in Overlapping(s, addr, end)
    PROVE  Sound(Cut(s, base, addr, end))
<1> DEFINE key == s.maps[base]
           mem == s.mem_slab[key]
           front == drop_front(mem, end - base)
           short == truncate(mem, addr - base)
           head == [s EXCEPT !.mem_slab[key] = short]
           rest == [s EXCEPT !.mem_slab[key] = front,
                             !.maps = Put(Drop(@, base), end, key)]
           tail == split_off(mem, end)
<1>1. /\ base \in DOMAIN s.maps /\ base \in Int /\ key \in DOMAIN s.mem_slab
      /\ mem.base = base /\ mem \in Mem64 /\ base < end /\ addr < mem.bottom
      /\ mem.bottom = base + Len(mem.mem)
  BY DEF Sound, Tables, Overlapping
<1> HIDE DEF key, mem
<1>2. mem.mem \in Seq(Values) /\ Len(mem.mem) \in Nat /\ mem.bottom \in Int
  BY <1>1 DEF Mem64
<1>3. CASE addr <= base /\ end >= mem.bottom
  BY <1>1, <1>3, DeallocSound DEF Cut, mem, key
<1>4. CASE addr <= base /\ end < mem.bottom
  <2>1. Len(front.mem) = Len(mem.mem) - (end - base)
    <3>1. front.mem = SubSeq(mem.mem, end - base + 1, Len(mem.mem))
      BY <1>1, Zenon DEF drop_front, Mem64
    <3>2. /\ mem.mem \in Seq(Values)
          /\ end - base + 1 \in 1 .. Len(mem.mem) /\ Len(mem.mem) \in end - base + 1 .. Len(mem.mem)
      BY <1>1, <1>2, <1>4
    <3> HIDE DEF front
    <3> QED
      BY <1>1, <1>2, <3>1, <3>2, SubSeqLen
  <2>2. front.name = mem.name /\ front.base = end /\ front.bottom = mem.bottom
    BY <1>1 DEF drop_front, Mem64
  <2>3. /\ rest.mem_slab = [s.mem_slab EXCEPT ![key] = front]
        /\ rest.name_map = s.name_map
        /\ rest.maps = Put(Drop(s.maps, base), end, key)
    BY DEF Tables
  <2>4. Cut(s, base, addr, end) = rest
    BY <1>1, <1>2, <1>4 DEF Cut, mem, key
  <2> HIDE DEF front, rest
  <2>5. /\ DOMAIN rest.maps = (DOMAIN s.maps \ {mem.base}) \union {front.base}
        /\ rest.maps[front.base] = key
        /\ \A b \in DOMAIN s.maps \ {mem.base} : b # front.base => rest.maps[b] = s.maps[b]
    BY <1>1, <2>2, <2>3 DEF Put, Drop
  <2>6. /\ front.base \in Int /\ front.bottom \in Int /\ mem.base <= front.base
        /\ front.base < front.bottom /\ front.bottom <= mem.bottom
        /\ front.bottom = front.base + Len(front.mem)
    BY <1>1, <1>2, <1>4, <2>1, <2>2
  <2>7. Sound(rest)
    BY <1>1, <2>2, <2>3, <2>5, <2>6, TrimSound, Zenon DEF mem
  <2> QED
    BY <2>4, <2>7
<1>5. ASSUME addr > base
      PROVE  /\ Sound(head) /\ Tables(head) /\ Head(head.vacant) \notin DOMAIN head.mem_slab
             /\ DOMAIN head.mem_slab = DOMAIN s.mem_slab
             /\ head.mem_slab[key].base = base /\ head.mem_slab[key].bottom = addr
             /\ \A k \in DOMAIN s.mem_slab \ {key} : head.mem_slab[k] = s.mem_slab[k]
  <2>1. Len(short.mem) = addr - base
    <3>1. short.mem = SubSeq(mem.mem, 1, addr - base)
      BY <1>1 DEF truncate, Mem64
    <3>2. mem.mem \in Seq(Values) /\ addr - base \in 0 .. Len(mem.mem)
      BY <1>1, <1>2, <1>5
    <3> HIDE DEF short, mem
    <3> QED
      BY <3>1, <3>2, SubSeqLen
  <2>2. short.name = mem.name /\ short.base = base /\ short.bottom = addr
    BY <1>1 DEF truncate, Mem64
  <2>3. /\ head.mem_slab = [s.mem_slab EXCEPT ![key] = short]
        /\ head.name_map = s.name_map /\ head.maps = s.maps /\ head.vacant = s.vacant
        /\ head = [mem_slab |-> head.mem_slab, vacant |-> head.vacant, maps |-> head.maps,
                   name_map |-> head.name_map, tlb |-> head.tlb]
    BY DEF Tables
  <2> HIDE DEF short, head
  <2>4. /\ DOMAIN head.mem_slab = DOMAIN s.mem_slab /\ head.mem_slab[key] = short
        /\ \A k \in DOMAIN s.mem_slab \ {key} : head.mem_slab[k] = s.mem_slab[k]
    BY <1>1, <2>3
  <2>5. /\ short.base \in Int /\ short.bottom \in Int /\ mem.base <= short.base
        /\ short.base < short.bottom /\ short.bottom <= mem.bottom
        /\ short.bottom = short.base + Len(short.mem)
    BY <1>1, <1>2, <1>5, <2>1, <2>2
  <2>6. /\ DOMAIN head.maps = (DOMAIN s.maps \ {mem.base}) \union {short.base}
        /\ head.maps[short.base] = key
        /\ \A b \in DOMAIN s.maps \ {mem.base} : b # short.base => head.maps[b] = s.maps[b]
    BY <1>1, <2>2, <2>3 DEF key
  <2>7. Sound(head)
    BY <1>1, <2>2, <2>3, <2>5, <2>6, TrimSound, Zenon DEF mem
  <2>8. Tables(head)
    BY <2>3, <2>4, <2>5 DEF Tables
  <2> QED
    BY <2>2, <2>3, <2>4, <2>7, <2>8
<1>6. CASE addr > base /\ end >= mem.bottom
  <2>1. Cut(s, base, addr, end) = head
    BY <1>1, <1>2, <1>6 DEF Cut, mem, key
  <2> QED
    BY <1>5, <1>6, <2>1
<1>7. CASE addr > base /\ end < mem.bottom
  <2>1. Cut(s, base, addr, end) = create_map(head, TailName(mem, end), end, tail)
    BY <1>1, <1>2, <1>7 DEF Cut, mem, key
  <2>2. tail \in Seq(Values) /\ Len(tail) = mem.bottom - end
    <3>1. tail = SubSeq(mem.mem, end - base + 1, Len(mem.mem))
      BY <1>1 DEF split_off
    <3> QED
      BY <1>1, <1>2, <1>7, <3>1, SubSeqLen
  <2> HIDE DEF tail, head
  <2>3. \A k \in DOMAIN head.mem_slab : \/ head.mem_slab[k].bottom <= end
                                       \/ end + Len(tail) <= head.mem_slab[k].base
    <3> TAKE k \in DOMAIN head.mem_slab
    <3>1. CASE k = key
      BY <1>5, <1>7, <3>1
    <3>2. CASE k # key
      <4>1. k \in DOMAIN s.mem_slab /\ head.mem_slab[k] = s.mem_slab[k]
        BY <1>5, <1>7, <3>2
      <4>2. s.mem_slab[k].base \in Int /\ s.mem_slab[k].bottom \in Int
        BY <4>1 DEF Tables
      <4>3. s.mem_slab[k].bottom <= base \/ mem.bottom <= s.mem_slab[k].base
        BY <1>1, <3>2, <4>1 DEF Sound, mem
      <4> QED
        BY <1>1, <1>2, <2>2, <4>1, <4>2, <4>3
    <3> QED
      BY <3>1, <3>2
  <2>4. Len(tail) > 0
    BY <1>2, <1>7, <2>2
  <2> QED
    BY <1>5, <1>7, <2>1, <2>2, <2>3, <2>4, CreateSound
<1> QED
  BY <1>1, <1>2, <1>3, <1>4, <1>6, <1>7
=============================================================================
