----------------------------- MODULE JitBlockIndex -----------------------------
(***************************************************************************)
(* The index of translated blocks (src/cerf/jit/jit_block_index.cpp): an   *)
(* open-addressing table with linear probing, which doubles when it is     *)
(* three quarters full and deletes by shifting later entries back into the *)
(* hole, so that it needs no tombstones.                                   *)
(*                                                                         *)
(* The loops of Grow() and EraseAt() are steps here, one per iteration:    *)
(* the index has one user, the JIT thread, so the steps are not            *)
(* interleaved with anything, and what holds between two iterations is     *)
(* what makes the loop correct.  A probe (`while (table_[i].blk ...)') is  *)
(* its result.  A slot is the key it holds; blocks and their chains are    *)
(* TranslationCache's.                                                     *)
(***************************************************************************)
EXTENDS Integers, FiniteSets

CONSTANTS
    Key,      \* guest_start values
    Empty,    \* a slot whose blk is null
    Sizes,    \* the capacities, kInitialSlots and its doubles up to a bound
    Initial,  \* kInitialSlots
    Hashes    \* the functions a Bucket() may be: Hashes[k][n] in 0..n-1

ASSUME KeyAssumption == Empty \notin Key
ASSUME SizeAssumption == Initial \in Sizes /\ Sizes \subseteq Nat \ {0, 1}
ASSUME HashAssumption ==
    \A h \in Hashes, k \in Key, n \in Sizes : h[k][n] \in 0..(n - 1)

VARIABLES
    hash,      \* the multiplicative hash, the same all along
    table,     \* table_
    size,      \* table_.size(), mask_ + 1
    count,     \* count_
    pc,        \* "idle", "grow" in Grow(), "erase" in EraseAt()
    old, g,    \* Grow(): the table before, and the next slot of it
    key,       \* the key PlaceOuterAt() was called with
    hole, j    \* EraseAt(): i, the slot to fill, and j, the one looked at

vars == <<hash, table, size, count, pc, old, g, key, hole, j>>

-----------------------------------------------------------------------------
(* Slots and probes *)

Slots(n) == 0..(n - 1)
EmptyTable(n) == [p \in Slots(n) |-> Empty]
Bucket(k) == hash[k][size]
After(p) == IF p = size - 1 THEN 0 ELSE p + 1

(* How many slots a probe from slot b passes before it comes to slot p. *)
Dist(b, p) == IF p >= b THEN p - b ELSE p - b + size

(* A probe for k, through t, does not end before it comes to slot p. *)
Passes(t, k, p) ==
    \A x \in Slots(size) :
        Dist(Bucket(k), x) < Dist(Bucket(k), p) => t[x] \notin {Empty, k}

(* FindExact(k): the probe ends at k's slot before it ends at an empty one.*)
Found(k) == \E p \in Slots(size) : table[p] = k /\ Passes(table, k, p)

(* Where a key that is not in the table goes. *)
FreeSlot(k) == {p \in Slots(size) : table[p] = Empty /\ Passes(table, k, p)}

Stored(t) == {t[p] : p \in DOMAIN t} \ {Empty}
Unmoved ==
    IF pc = "grow"
    THEN {old[p] : p \in {q \in DOMAIN old : q >= g}} \ {Empty} ELSE {}

(* The keys of the index, wherever a call under way has left them. *)
Contents == Stored(table) \cup Unmoved

-----------------------------------------------------------------------------
(* Operations *)

Init ==
    /\ hash \in Hashes
    /\ size = Initial /\ table = EmptyTable(Initial) /\ count = 0
    /\ pc = "idle" /\ old = EmptyTable(Initial) /\ g = 0
    /\ key = Empty /\ hole = 0 /\ j = 0

(* Flush(): the capacity stays. *)
Flush ==
    /\ pc = "idle"
    /\ table' = EmptyTable(size) /\ count' = 0
    /\ UNCHANGED <<hash, size, pc, old, g, key, hole, j>>

(* Mutant: the table may become full before it grows. *)
CrowdedWhenFull == count + 1 > size

Crowded == (count + 1) * 4 > size * 3

Put(k) == \E p \in FreeSlot(k) : table' = [table EXCEPT ![p] = k]

(* PlaceOuterAt(), for a key that is not indexed (a duplicate is fatal). *)
PlaceOuterAt(k) ==
    /\ pc = "idle" /\ k \notin Stored(table) /\ ~Crowded
    /\ Put(k) /\ count' = count + 1
    /\ UNCHANGED <<hash, size, pc, old, g, key, hole, j>>

(* PlaceOuterAt() into a crowded table: Grow() first. *)
GrowBegins(k) ==
    /\ pc = "idle" /\ k \notin Stored(table) /\ Crowded
    /\ 2 * size \in Sizes
    /\ pc' = "grow" /\ old' = table /\ g' = 0 /\ key' = k
    /\ size' = 2 * size /\ table' = EmptyTable(2 * size)
    /\ UNCHANGED <<hash, count, hole, j>>

(* Grow()'s loop: the next slot of the table before is empty, or moves. *)
GrowSkips ==
    /\ pc = "grow" /\ g \in DOMAIN old /\ old[g] = Empty
    /\ g' = g + 1
    /\ UNCHANGED <<hash, table, size, count, pc, old, key, hole, j>>

GrowMoves ==
    /\ pc = "grow" /\ g \in DOMAIN old /\ old[g] # Empty
    /\ Put(old[g]) /\ g' = g + 1
    /\ UNCHANGED <<hash, size, count, pc, old, key, hole, j>>

(* Mutant: the loop leaves out the last slot. *)
GrowEndsEarly ==
    /\ pc = "grow" /\ g + 1 \notin DOMAIN old
    /\ Put(key) /\ count' = count + 1 /\ pc' = "idle"
    /\ old' = EmptyTable(Initial) /\ g' = 0 /\ key' = Empty
    /\ UNCHANGED <<hash, size, hole, j>>

(* Grow() is done, and the key is placed. *)
GrowEnds ==
    /\ pc = "grow" /\ g \notin DOMAIN old
    /\ Put(key) /\ count' = count + 1 /\ pc' = "idle"
    /\ old' = EmptyTable(Initial) /\ g' = 0 /\ key' = Empty
    /\ UNCHANGED <<hash, size, hole, j>>

(* RemoveNode(), up to EraseAt(): the entry is emptied. *)
RemoveNode(k) ==
    /\ pc = "idle"
    /\ \E p \in Slots(size) :
           /\ table[p] = k
           /\ table' = [table EXCEPT ![p] = Empty]
           /\ hole' = p /\ j' = p
    /\ pc' = "erase"
    /\ UNCHANGED <<hash, size, count, old, g, key>>

(* Mutant: the test for a hole before the cluster's end, and no wrap. *)
StaysUnwrapped(k, n) == hole < Bucket(k) /\ Bucket(k) <= n

(* EraseAt(): the entry at n, in the cluster after the hole, must not move *)
(* before its own bucket.                                                  *)
Stays(k, n) ==
    IF hole <= n THEN hole < Bucket(k) /\ Bucket(k) <= n
                 ELSE hole < Bucket(k) \/ Bucket(k) <= n

EraseSkips ==
    /\ pc = "erase" /\ table[After(j)] # Empty
    /\ Stays(table[After(j)], After(j))
    /\ j' = After(j)
    /\ UNCHANGED <<hash, table, size, count, pc, old, g, key, hole>>

(* Mutant: the entry is copied, and its slot not emptied. *)
EraseCopies ==
    /\ pc = "erase" /\ table[After(j)] # Empty
    /\ ~Stays(table[After(j)], After(j))
    /\ table' = [table EXCEPT ![hole] = table[After(j)]]
    /\ hole' = After(j) /\ j' = After(j)
    /\ UNCHANGED <<hash, size, count, pc, old, g, key>>

EraseShifts ==
    /\ pc = "erase" /\ table[After(j)] # Empty
    /\ ~Stays(table[After(j)], After(j))
    /\ table' = [table EXCEPT ![hole] = table[After(j)], ![After(j)] = Empty]
    /\ hole' = After(j) /\ j' = After(j)
    /\ UNCHANGED <<hash, size, count, pc, old, g, key>>

EraseEnds ==
    /\ pc = "erase" /\ table[After(j)] = Empty
    /\ count' = count - 1 /\ pc' = "idle" /\ hole' = 0 /\ j' = 0
    /\ UNCHANGED <<hash, table, size, old, g, key>>

Next ==
    \/ Flush
    \/ \E k \in Key : PlaceOuterAt(k) \/ GrowBegins(k) \/ RemoveNode(k)
    \/ GrowSkips \/ GrowMoves \/ GrowEnds
    \/ EraseSkips \/ EraseShifts \/ EraseEnds

Spec == Init /\ [][Next]_vars

-----------------------------------------------------------------------------
(* Properties *)

TypeOK ==
    /\ \A k \in Key, n \in Sizes : hash[k][n] \in Slots(n)
    /\ size \in Sizes
    /\ table \in [Slots(size) -> Key \cup {Empty}]
    /\ pc \in {"idle", "grow", "erase"}
    /\ \E n \in Sizes : old \in [Slots(n) -> Key \cup {Empty}] /\ g \in 0..n
    /\ key \in Key \cup {Empty}
    /\ hole \in Slots(size) /\ j \in Slots(size)
    /\ count \in Nat

(* Between two calls every indexed block is found by FindExact(), and so   *)
(* by RemoveNode() (which is fatal otherwise): no deletion has left an     *)
(* entry behind a hole or before its bucket, and no growth has lost one.   *)
AllFound == pc = "idle" => \A k \in Stored(table) : Found(k)

(* No block is indexed twice, whatever was shifted or moved. *)
IndexedOnce ==
    \A p, q \in Slots(size) : table[p] = table[q] /\ table[p] # Empty => p = q

(* Between two calls count_ is the number of entries and at most three     *)
(* quarters of the table are in use, so that a probe always ends.          *)
NeverFull ==
    pc = "idle" => count = Cardinality(Stored(table)) /\ 4 * count <= 3 * size

(* The index is a BlockMap: a growth and a deletion, step by step, change  *)
(* nothing but the one key that the call was about.                        *)
Map == INSTANCE BlockMap WITH keys <- Contents
IsBlockMap == Map!Spec

=============================================================================
