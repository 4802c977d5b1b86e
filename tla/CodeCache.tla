----------------------------- MODULE CodeCache -----------------------------
(***************************************************************************)
(* The x86 run loop executes decoded instructions out of a cache, while    *)
(* the program, the API handlers and the host change the memory that they  *)
(* were decoded from.  maps/mod.rs logs the changes of executable memory   *)
(* in code_writes; the run loop drains the log into the cache before every *)
(* instruction and before every block (emu/execution/x86).                 *)
(*                                                                         *)
(* A byte is "op" (an instruction of one byte), "jmp" (one that ends a     *)
(* block) or "wide" (an instruction that includes the byte behind it).     *)
(* Permissions are sets of "r", "w", "x"; every map is readable.  The      *)
(* translation buffer of maps/tlb.rs is left out: a lookup through it is   *)
(* verified against the bounds of the map it finds.  So are the results    *)
(* that handlers store through pointers, which are stores like any other.  *)
(***************************************************************************)
EXTENDS Integers, FiniteSets, SequencesExt

CONSTANTS
    PageSize,                \* 0x1000
    NumPages,                \* bound: pages of the address space
    NUM_LINES,               \* 2048
    MAX_CACHE_PER_LINE,      \* 32
    BLOCK_LEN,               \* 0x300
    MAX_INS,                 \* 16, no instruction is longer
    INSTRUCTION_ARRAY_SIZE,  \* 8192 * 64
    CODE_WRITES_CAP,         \* 64
    Perms,                   \* permissions that the program asks for
    Stored,                  \* bytes that it writes
    InitMem, InitMaps,       \* a loaded program
    MaxFills,                \* bound: blocks decoded in a behaviour
    MaxChanges               \* bound: changes of memory in a behaviour

ASSUME CacheAssumption ==
    /\ {PageSize, NumPages, NUM_LINES, MAX_CACHE_PER_LINE, BLOCK_LEN, MAX_INS,
        INSTRUCTION_ARRAY_SIZE, CODE_WRITES_CAP} \subseteq Nat \ {0}
    /\ 2 <= MAX_INS /\ MAX_INS <= BLOCK_LEN /\ BLOCK_LEN <= PageSize * NumPages
    /\ {MaxFills, MaxChanges} \subseteq Nat

VARIABLES
    mem,           \* the bytes
    maps,          \* the mapped regions: base, bottom (exclusive), perm
    code_writes,   \* the changes that the cache has not been told of
    lines,         \* cache_entries: per line, its valid entries in probe order
    instructions,  \* the decoded slots
    next_slot,     \* next_instruction_slot
    current,       \* current_instruction_slot, current_decode_len and _idx
    pc,
    loop,          \* "idle" between runs, "outer" and "inner" in the run loop
    untold,        \* history: bytes that changed and the log was not told
    fills, changes

memory == <<mem, maps, code_writes, untold, changes>>
cache == <<lines, instructions, next_slot, current, fills>>
vars == <<memory, cache, pc, loop>>

Addr == 0 .. PageSize * NumPages - 1
Byte == {"op", "jmp", "wide"}
U64_MAX == 2 * PageSize * NumPages
Range_(base, len) == base .. base + len - 1

-----------------------------------------------------------------------------
(* Decoding: iced-x86 on the bytes of one map.                              *)

MapsAt(a) == {m \in maps : m.base <= a /\ a < m.bottom}

get_mem_by_addr(a) == CHOOSE m \in MapsAt(a) : TRUE

Decode(a, bottom) ==
    [addr |-> a,
     bytes |-> IF mem[a] = "wide" /\ a + 1 < bottom
                 THEN <<mem[a], mem[a + 1]>> ELSE <<mem[a]>>]

\* The instruction that memory holds at a.
InMemory(a) == Decode(a, get_mem_by_addr(a).bottom)

BytesOf(ins) == Range_(ins.addr, Len(ins.bytes))

\* The block at a, of block_len bytes at most: it ends with a branch, or where
\* the longest instruction might not fit any more.
Block(a) ==
    LET len == Min({BLOCK_LEN, get_mem_by_addr(a).bottom - a})
        addition == Min({len, MAX_INS})
        from[p \in 0 .. len] ==
            IF p = len \/ p + addition > len THEN <<>>
            ELSE LET ins == Decode(a + p, a + len)
                 IN  <<ins>> \o (IF ins.bytes[1] = "jmp" THEN <<>>
                                 ELSE from[p + Len(ins.bytes)])
    IN  from[0]

-----------------------------------------------------------------------------
(* The log of writes to executable memory.                                  *)

CODE_WRITES_ALL == [addr |-> 0, len |-> U64_MAX]

note_code_write(log, w) ==
    IF log # <<>> /\ log[1] = CODE_WRITES_ALL THEN log
    ELSE IF Len(log) >= CODE_WRITES_CAP THEN <<CODE_WRITES_ALL>>
    ELSE Append(log, w)

\* Every change of memory: the ranges in noted go to the log.  The bytes in silent
\* change past it, and are remembered until it is told of them.
Change(noted, silent) ==
    /\ changes < MaxChanges
    /\ changes' = changes + 1
    /\ code_writes' = FoldLeft(note_code_write, code_writes, noted)
    /\ untold' = (untold \cup silent)
                   \ UNION {Range_(w.addr, w.len) : w \in ToSet(noted)}

Region(m) == [addr |-> m.base, len |-> m.bottom - m.base]
BytesIn(m) == m.base .. m.bottom - 1
IfExec(m, w) == IF "x" \in m.perm THEN <<w>> ELSE <<>>
InOrder(ms) == SetToSortSeq(ms, LAMBDA m, n : m.base < n.base)

-----------------------------------------------------------------------------
(* maps/mod.rs and its callers.                                             *)

\* write_scalar and write_bytes: a store of len bytes, in one map or across the
\* border of two adjacent ones.
write_scalar(a, len, v) ==
    LET bytes == Range_(a, len)
        into == UNION {MapsAt(b) : b \in bytes}
        exec == \E m \in into : "x" \in m.perm
    IN  /\ \A b \in bytes : b \in Addr /\ MapsAt(b) # {}
        /\ \A m \in into : "w" \in m.perm
        /\ mem' = [b \in Addr |-> IF b \in bytes THEN v ELSE mem[b]]
        /\ Change(IF exec THEN <<[addr |-> a, len |-> len]>> ELSE <<>>, {})
        /\ UNCHANGED maps

\* read, pread64 and getdents64 of Linux: into any map, and past the log.
force_write_bytes(a, v) ==
    /\ MapsAt(a) # {}
    /\ mem' = [mem EXCEPT ![a] = v]
    /\ Change(<<>>, {a})
    /\ UNCHANGED maps

\* VirtualProtect: every region that the pages [start, end) touch.
protect(start, end, perm) ==
    LET into == UNION {MapsAt(b) : b \in start .. end - 1}
        opened == {m \in into : "x" \in perm /\ "x" \notin m.perm}
        ordered == InOrder(opened)
    IN  /\ \A b \in start .. end - 1 : MapsAt(b) # {}
        /\ maps' = (maps \ into) \cup {[m EXCEPT !.perm = perm] : m \in into}
        /\ Change([i \in DOMAIN ordered |-> Region(ordered[i])], {})
        /\ UNCHANGED mem

\* The NtProtectVirtualMemory system call: the one region, past the log.
nt_protect(m, perm) ==
    /\ maps' = (maps \ {m}) \cup {[m EXCEPT !.perm = perm]}
    /\ Change(<<>>, IF "x" \in m.perm THEN {} ELSE BytesIn(m))
    /\ UNCHANGED mem

\* Callers look for a free range first.  New memory is zero.
create_map(base, len, perm) ==
    LET m == [base |-> base, bottom |-> base + len, perm |-> perm]
    IN  /\ BytesIn(m) \subseteq Addr
        /\ \A b \in BytesIn(m) : MapsAt(b) = {}
        /\ maps' = maps \cup {m}
        /\ mem' = [b \in Addr |-> IF b \in BytesIn(m) THEN "op" ELSE mem[b]]
        /\ Change(IfExec(m, Region(m)), {})

dealloc(m) ==
    /\ maps' = maps \ {m}
    /\ Change(IfExec(m, Region(m)), BytesIn(m))
    /\ UNCHANGED mem

\* VirtualFreeEx: by name, and past the log.
free(m) ==
    /\ maps' = maps \ {m}
    /\ Change(<<>>, BytesIn(m))
    /\ UNCHANGED mem

\* munmap: whole regions are deallocated, the others trimmed or split; only the
\* tail of a split is mapped, and logged, anew.
unmap_range(addr, end) ==
    LET cut == {m \in maps : m.base < end /\ m.bottom > addr}
        whole == {m \in cut : addr <= m.base /\ end >= m.bottom}
        split == {m \in cut : addr > m.base /\ end < m.bottom}
        heads == {[m EXCEPT !.bottom = addr] : m \in {n \in cut : n.base < addr}}
        tails == {[m EXCEPT !.base = end] : m \in {n \in cut : n.bottom > end}}
        noted == [i \in DOMAIN InOrder(cut) |->
                    LET m == InOrder(cut)[i]
                    IN  IF m \in whole THEN IfExec(m, Region(m))
                        ELSE IF m \in split
                        THEN IfExec(m, [addr |-> end, len |-> m.bottom - end])
                        ELSE <<>>]
        gone == UNION {BytesIn(m) : m \in cut} \cap (addr .. end - 1)
    IN  /\ cut # {}
        /\ maps' = (maps \ cut) \cup heads \cup tails
        /\ Change(FlattenSeq(noted), gone)
        /\ UNCHANGED mem

PageStarts == {PageSize * p : p \in 0 .. NumPages}

\* What an API handler or a system call does alike.
MapEffect ==
    \/ \E s, e \in PageStarts, perm \in Perms : s < e /\ create_map(s, e - s, perm)
    \/ \E m \in maps : dealloc(m)

\* What an instruction does to memory: a store, or a system call.
InstructionEffect ==
    \/ \E a \in Addr, len \in 1 .. 2, v \in Stored : write_scalar(a, len, v)
    \/ \E a \in Addr, v \in Stored : force_write_bytes(a, v)
    \/ \E m \in maps, perm \in Perms : nt_protect(m, perm)
    \/ \E s, e \in PageStarts : s < e /\ unmap_range(s, e)
    \/ MapEffect

\* What an API handler does to memory; a branch to its address calls it.
ApiEffect ==
    \/ \E s, e \in PageStarts, perm \in Perms : s < e /\ protect(s, e, perm)
    \/ \E m \in maps : free(m)
    \/ MapEffect

-----------------------------------------------------------------------------
(* The instruction cache.                                                   *)

LineOf(a) == (a \div PageSize) % NUM_LINES

can_decode == current.idx < current.len
NextInstruction == instructions[current.slot + current.idx]

\* Bug: only the pages that were written.
invalidate_range_written(ls, w) ==
    [l \in DOMAIN ls |-> IF l \in {LineOf(a) : a \in Range_(w.addr, w.len)}
                           THEN <<>> ELSE ls[l]]

\* Every line that may hold a block with a byte of w.
invalidate_range(ls, w) ==
    LET first == Max({0, w.addr - (BLOCK_LEN - 1)}) \div PageSize
        last == (w.addr + w.len - 1) \div PageSize
    IN  [l \in DOMAIN ls |-> IF \E p \in first .. last : l = p % NUM_LINES
                               THEN <<>> ELSE ls[l]]

pending_x86_overlaps(w) ==
    LET last == instructions[current.slot + current.len - 1]
    IN  /\ can_decode
        /\ w.addr < last.addr + Len(last.bytes)
        /\ w.addr + w.len > NextInstruction.addr

\* drain_code_writes_x86: what it leaves of the lines, and whether the run loop
\* has to fetch again.
Drained == IF code_writes # <<>> /\ code_writes[1] = CODE_WRITES_ALL
             THEN [l \in DOMAIN lines |-> <<>>]
             ELSE FoldLeft(invalidate_range, lines, code_writes)

Refetch == \E i \in DOMAIN code_writes :
              \/ code_writes[i] = CODE_WRITES_ALL
              \/ pending_x86_overlaps(code_writes[i])

Hits(ls, a) == {i \in DOMAIN ls[LineOf(a)] : ls[LineOf(a)][i].addr = a}

\* lookup_entry on a miss: a full line is flushed.
MissedLine(ls, a) ==
    IF Len(ls[LineOf(a)]) = MAX_CACHE_PER_LINE
      THEN [ls EXCEPT ![LineOf(a)] = <<>>] ELSE ls

\* lookup_entry on a hit.
Found(entry) == [slot |-> entry.key, len |-> entry.len, idx |-> 0]

\* Bug: the last slot of a block is given to the next one.
SlotAfter_short(full, count) == (IF full THEN 0 ELSE next_slot) + count - 1

\* next_instruction_slot behind a new block; flush_cache restarts it.
SlotAfter(full, count) == (IF full THEN 0 ELSE next_slot) + count

\* insert_x86_from_decoder.  The slot is read before a full array is flushed,
\* and the new block is written there all the same.
insert_x86_from_decoder(ls, a) ==
    LET block == Block(a)
        max_position == Min({BLOCK_LEN, get_mem_by_addr(a).bottom - a})
        full == max_position + next_slot > INSTRUCTION_ARRAY_SIZE
        room == IF full THEN [l \in DOMAIN ls |-> <<>>] ELSE ls
        entry == [addr |-> a, key |-> next_slot, len |-> Len(block)]
        inserted == IF Len(room[LineOf(a)]) < MAX_CACHE_PER_LINE
                      THEN [room EXCEPT ![LineOf(a)] = Append(@, entry)] ELSE room
    IN  /\ next_slot + Len(block) <= INSTRUCTION_ARRAY_SIZE   \* or a panic
        /\ instructions' =
             [s \in DOMAIN instructions |->
                IF s \in Range_(next_slot, Len(block))
                  THEN block[s - next_slot + 1] ELSE instructions[s]]
        /\ next_slot' = SlotAfter(full, Len(block))
        /\ lines' = inserted
        /\ current' = IF Hits(inserted, a) # {} THEN Found(entry) ELSE current

-----------------------------------------------------------------------------
(* The run loop.                                                            *)

TypeOK ==
    /\ mem \in [Addr -> Byte]
    /\ \A m \in maps : /\ m.base \in Addr /\ m.bottom \in Addr \cup {PageSize * NumPages}
                       /\ m.base < m.bottom
                       /\ \A n \in maps \ {m} : BytesIn(m) \cap BytesIn(n) = {}
    /\ Len(code_writes) <= CODE_WRITES_CAP
    /\ \A l \in DOMAIN lines : Len(lines[l]) <= MAX_CACHE_PER_LINE
    /\ next_slot \in 0 .. INSTRUCTION_ARRAY_SIZE
    /\ current.idx <= current.len
    /\ current.slot + current.len <= INSTRUCTION_ARRAY_SIZE
    /\ pc \in Nat /\ loop \in {"idle", "outer", "inner"}

Init ==
    /\ mem = InitMem /\ maps = InitMaps
    /\ code_writes = <<>>
    /\ lines = [l \in 0 .. NUM_LINES - 1 |-> <<>>]
    /\ instructions = [s \in 0 .. INSTRUCTION_ARRAY_SIZE - 1 |->
                         [addr |-> 0, bytes |-> <<>>]]
    /\ next_slot = 0
    /\ current = [slot |-> 0, len |-> 0, idx |-> 0]
    /\ pc = 0 /\ loop = "idle"
    /\ untold = {} /\ fills = 0 /\ changes = 0

\* ensure_run_start_pc_mapped; the host may have moved the program counter.
Run == /\ loop = "idle"
       /\ \E a \in Addr : MapsAt(a) # {} /\ pc' = a
       /\ loop' = "outer"
       /\ UNCHANGED <<memory, cache>>

\* step, the multi-threaded loop and calls of the library between two runs:
\* nothing there reads the cache or drains the log.
Step == /\ loop = "idle"
        /\ InstructionEffect \/ ApiEffect
        /\ UNCHANGED <<cache, pc, loop>>

\* ensure_instruction_cache_populated_x86.
FetchHit ==
    /\ loop = "outer"
    /\ \E i \in Hits(Drained, pc) : current' = Found(Drained[LineOf(pc)][i])
    /\ lines' = Drained /\ code_writes' = <<>>
    /\ loop' = "inner"
    /\ UNCHANGED <<mem, maps, untold, changes, instructions, next_slot, fills, pc>>

FetchMiss ==
    /\ loop = "outer"
    /\ Hits(Drained, pc) = {}
    /\ MapsAt(pc) # {}
    /\ fills < MaxFills /\ fills' = fills + 1
    /\ insert_x86_from_decoder(MissedLine(Drained, pc), pc)
    /\ code_writes' = <<>>
    /\ loop' = "inner"
    /\ UNCHANGED <<mem, maps, untold, changes, pc>>

FetchFails ==
    /\ loop = "outer"
    /\ Hits(Drained, pc) = {}
    /\ MapsAt(pc) = {}
    /\ lines' = MissedLine(Drained, pc) /\ code_writes' = <<>>
    /\ loop' = "idle"
    /\ UNCHANGED <<mem, maps, untold, changes, instructions, next_slot, current, fills, pc>>

\* The head of the inner loop, when something was written.
Drain ==
    /\ loop = "inner" /\ code_writes # <<>>
    /\ lines' = Drained /\ code_writes' = <<>>
    /\ loop' = IF Refetch THEN "outer" ELSE "inner"
    /\ UNCHANGED <<mem, maps, untold, changes, instructions, next_slot, current, fills, pc>>

\* One cached instruction.  It falls through to the next one, or moves the
\* program counter (a branch, a return, an API call, an exception) and has the
\* loop fetch again.
Execute ==
    /\ loop = "inner" /\ code_writes = <<>> /\ can_decode
    /\ current' = [current EXCEPT !.idx = @ + 1]
    /\ \/ /\ InstructionEffect \/ UNCHANGED memory
          /\ pc' = pc + Len(NextInstruction.bytes)
          /\ loop' = IF current.idx + 1 < current.len THEN "inner" ELSE "outer"
       \/ /\ ApiEffect \/ UNCHANGED memory
          /\ pc' \in Addr
          /\ loop' = "outer"
    /\ UNCHANGED <<lines, instructions, next_slot, fills>>

\* The end address is reached, or a limit: the decoded instruction is dropped.
Stop ==
    /\ loop = "inner" /\ code_writes = <<>> /\ can_decode
    /\ current' = [current EXCEPT !.idx = @ + 1]
    /\ loop' = "idle"
    /\ UNCHANGED <<memory, lines, instructions, next_slot, fills, pc>>

Next == Run \/ Step \/ FetchHit \/ FetchMiss \/ FetchFails \/ Drain \/ Execute \/ Stop

Spec == Init /\ [][Next]_vars

-----------------------------------------------------------------------------
\* The instruction that the run loop is about to execute is the one at the
\* program counter, and in executable memory it has the bytes that memory holds
\* there now, unless one of them changed past the log (drain_code_writes_x86,
\* invalidate_range, pending_x86_overlaps and insert_x86_from_decoder together).
ExecutesMemory ==
    loop = "inner" /\ code_writes = <<>> /\ can_decode =>
        /\ NextInstruction.addr = pc
        /\ \/ MapsAt(pc) # {} /\ NextInstruction = InMemory(pc)
           \/ \E m \in MapsAt(pc) : "x" \notin m.perm
           \/ BytesOf(NextInstruction) \cap untold # {}

\* Every entry of the lookup table still describes the block that was decoded
\* for its address: its slots hold consecutive instructions from there on
\* (insert_x86_from_decoder never reuses the slots of a live entry).
EntriesKeepTheirBlocks ==
    \A l \in DOMAIN lines : \A i \in DOMAIN lines[l] :
        LET e == lines[l][i]
        IN  /\ e.len > 0 /\ instructions[e.key].addr = e.addr
            /\ \A k \in 1 .. e.len - 1 :
                  instructions[e.key + k].addr =
                    instructions[e.key + k - 1].addr
                      + Len(instructions[e.key + k - 1].bytes)

\* No table of the cache outgrows its limit, and none of its entries is overwritten.
CacheInv == TypeOK /\ EntriesKeepTheirBlocks
=============================================================================
