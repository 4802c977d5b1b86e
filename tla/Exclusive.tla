----------------------------- MODULE Exclusive ------------------------------
(***************************************************************************)
(* The exclusive monitor of emulated aarch64 threads: an exclusive load    *)
(* records what it read, and the store exclusive compares.  Words all have *)
(* the register width; a pair is a word and the one behind it.             *)
(***************************************************************************)
EXTENDS Integers

CONSTANTS
    Users,  \* threads that use exclusives
    Words   \* addresses of the words in use, counted in words

ASSUME ExclusiveAssumption == Words \subseteq Nat

VARIABLES
    word,      \* contents of the words
    loaded,    \* registers of each thread that its last exclusive load wrote
    exclusive  \* ThreadContext.exclusive: the Reservation, or NoReservation

monitor == <<word, loaded, exclusive>>

NoReservation == [addr |-> -1, values |-> <<0, 0>>]

MonitorInit ==
    /\ word = [a \in Words |-> 0]
    /\ loaded = [t \in Users |-> <<0, 0>>]
    /\ exclusive = [t \in Users |-> NoReservation]

reserve(t, addr, values) ==
    exclusive' = [exclusive EXCEPT ![t] = [addr |-> addr, values |-> values]]

\* LDXR, LDAXR
load(t, addr) ==
    /\ loaded' = [loaded EXCEPT ![t] = <<word[addr], 0>>]
    /\ reserve(t, addr, <<word[addr], 0>>)
    /\ UNCHANGED word

\* LDXP, LDAXP
load_pair(t, addr) ==
    LET values == <<word[addr], word[addr + 1]>> IN
    /\ loaded' = [loaded EXCEPT ![t] = values]
    /\ reserve(t, addr, values)
    /\ UNCHANGED word

\* Bug: the reservation is compared with the address only.
BugAddressOnly(t, addr, pair) == exclusive[t].addr = addr

reservation_holds(t, addr, pair) ==
    /\ exclusive[t].addr = addr
    /\ word[addr] = exclusive[t].values[1]
    /\ pair => word[addr + 1] = exclusive[t].values[2]

\* The store takes the reservation whether it succeeds or not.
Consume(t) == exclusive' = [exclusive EXCEPT ![t] = NoReservation]

\* STXR, STLXR, with value v; ok is what the status register reports.
store(t, addr, v, ok) ==
    /\ ok = reservation_holds(t, addr, FALSE)
    /\ Consume(t)
    /\ word' = IF ok THEN [word EXCEPT ![addr] = v] ELSE word
    /\ UNCHANGED loaded

\* STXP, STLXP
store_pair(t, addr, v, w, ok) ==
    /\ ok = reservation_holds(t, addr, TRUE)
    /\ Consume(t)
    /\ word' = IF ok THEN [word EXCEPT ![addr] = v, ![addr + 1] = w] ELSE word
    /\ UNCHANGED loaded

CLREX(t) ==
    /\ Consume(t)
    /\ UNCHANGED <<word, loaded>>
=============================================================================
