-------------------------- MODULE JitBlockIndexProofs --------------------------
(***************************************************************************)
(* Proofs about JitBlockIndex, for every set of keys, every hash and every *)
(* capacity.                                                               *)
(***************************************************************************)
EXTENDS JitBlockIndex, FiniteSetTheorems, TLAPS

-----------------------------------------------------------------------------
(* The inductive invariant *)

(* The probe for the entry at p passes the slot x. *)
OnWay(p, x) ==
    Dist(Bucket(table[p]), x) < Dist(Bucket(table[p]), p)

(* No entry has an empty slot on its way... *)
Gapless ==
    \A p, x \in Slots(size) :
        table[p] # Empty /\ OnWay(p, x) => table[x] # Empty

(* ...outside EraseAt(). *)
NoGap == pc # "erase" => Gapless

(* In EraseAt() the hole is the only one, and only the entries that j has  *)
(* not come to may have it on their way.                                   *)
OneGap ==
    pc = "erase" =>
        /\ table[hole] = Empty
        /\ \A p, x \in Slots(size) :
               table[p] # Empty /\ OnWay(p, x) =>
                   table[x] # Empty \/ x = hole
        /\ \A p \in Slots(size) :
               table[p] # Empty /\ OnWay(p, hole) =>
                   Dist(hole, p) > Dist(hole, j)

(* In Grow() no key is both moved and to be moved, or twice to be moved,   *)
(* and the key that is to be placed is neither.                            *)
GrowInv ==
    pc = "grow" =>
        /\ key \in Key /\ key \notin Contents
        /\ \A p, q \in DOMAIN old :
               old[p] = old[q] /\ old[p] # Empty => p = q
        /\ Unmoved \cap Stored(table) = {}

(* count_ against the keys there are, in every phase. *)
CountInv ==
    /\ IsFiniteSet(Contents)
    /\ count = Cardinality(Contents) + (IF pc = "erase" THEN 1 ELSE 0)
    /\ 4 * (count + (IF pc = "grow" THEN 1 ELSE 0)) <= 3 * size

IInv == TypeOK /\ IndexedOnce /\ NoGap /\ OneGap /\ GrowInv /\ CountInv

-----------------------------------------------------------------------------
(* Slots and cyclic distances *)

(* A bucket is a slot. *)
LEMMA BucketType ==
    ASSUME TypeOK, NEW k \in Key
    PROVE  Bucket(k) \in Slots(size)
BY DEF TypeOK, Bucket, Slots

(* The slot after another, and that it is one further from any other start.*)
LEMMA AfterType ==
    ASSUME TypeOK, NEW p \in Slots(size), NEW h \in Slots(size)
    PROVE  /\ After(p) \in Slots(size)
           /\ After(p) # h => Dist(h, After(p)) = Dist(h, p) + 1
           /\ After(p) = h => Dist(h, p) = size - 1
BY SizeAssumption DEF TypeOK, After, Slots, Dist

(* Distances are between 0 and size - 1, and tell slots apart. *)
LEMMA DistType ==
    ASSUME TypeOK, NEW b \in Slots(size), NEW p \in Slots(size)
    PROVE  /\ Dist(b, p) \in Slots(size)
           /\ Dist(b, p) = 0 <=> b = p
           /\ \A q \in Slots(size) : Dist(b, p) = Dist(b, q) => p = q
BY SizeAssumption DEF TypeOK, Slots, Dist

(* Distances along a way add up, as long as it is not a full circle. *)
LEMMA DistAdds ==
    ASSUME TypeOK, NEW b \in Slots(size), NEW h \in Slots(size),
           NEW p \in Slots(size), Dist(b, h) <= Dist(b, p)
    PROVE  Dist(b, p) = Dist(b, h) + Dist(h, p)
BY SizeAssumption DEF TypeOK, Slots, Dist

(* And the other way round. *)
LEMMA DistSum ==
    ASSUME TypeOK, NEW b \in Slots(size), NEW h \in Slots(size),
           NEW p \in Slots(size), Dist(b, h) + Dist(h, p) < size
    PROVE  Dist(b, p) = Dist(b, h) + Dist(h, p)
BY SizeAssumption DEF TypeOK, Slots, Dist

(* EraseAt()'s test: an entry stays iff its probe does not pass the hole. *)
LEMMA StaysMeans ==
    ASSUME TypeOK, NEW k \in Key, NEW n \in Slots(size), n # hole
    PROVE  Stays(k, n) <=> ~(Dist(Bucket(k), hole) < Dist(Bucket(k), n))
<1>1. Bucket(k) \in Slots(size)
  BY BucketType
<1>. QED
  BY <1>1, SizeAssumption DEF TypeOK, Slots, Dist, Stays

-----------------------------------------------------------------------------
(* One step at a time: what Put() does to the table *)

(* A key that is new to the table becomes one more entry, and every entry  *)
(* is still found.                                                         *)
LEMMA PutAdds ==
    ASSUME TypeOK, IndexedOnce, Gapless, NEW k \in Key,
           k \notin Stored(table), Put(k), size' = size, hash' = hash
    PROVE  /\ table' \in [Slots(size) -> Key \cup {Empty}]
           /\ Stored(table') = Stored(table) \cup {k}
           /\ IndexedOnce'
           /\ Gapless'
<1>1. PICK p \in FreeSlot(k) : table' = [table EXCEPT ![p] = k]
  BY DEF Put
<1>2. /\ p \in Slots(size) /\ table[p] = Empty /\ Passes(table, k, p)
      /\ table \in [Slots(size) -> Key \cup {Empty}] /\ k # Empty
  BY <1>1, KeyAssumption DEF FreeSlot, TypeOK
<1>3. table' \in [Slots(size) -> Key \cup {Empty}]
  BY <1>1, <1>2
<1>4. Stored(table') = Stored(table) \cup {k}
  BY <1>1, <1>2, <1>3 DEF Stored
<1>5. IndexedOnce'
  <2>1. \A q \in Slots(size) : table[q] # k
    BY <1>2 DEF Stored
  <2>. QED  BY <1>1, <1>2, <2>1 DEF IndexedOnce, Slots
<1>6. Gapless'
  <2>. SUFFICES ASSUME NEW q \in Slots(size), NEW x \in Slots(size),
                       table'[q] # Empty, OnWay(q, x)'
                PROVE  table'[x] # Empty
    BY DEF Gapless, Slots
  <2>1. \A y \in Slots(size) : table[y] # Empty => table'[y] # Empty
    BY <1>1, <1>2
  <2>2. CASE q = p
    <3>1. Dist(Bucket(k), x) < Dist(Bucket(k), p)
      BY <1>1, <1>2, <2>2 DEF OnWay, Dist, Bucket
    <3>. QED  BY <3>1, <1>2, <2>1 DEF Passes
  <2>3. CASE q # p
    <3>1. table'[q] = table[q]
      BY <1>1, <1>2, <2>3
    <3>2. OnWay(q, x)
      BY <3>1 DEF OnWay, Dist, Bucket
    <3>. QED  BY <3>1, <3>2, <2>1 DEF Gapless
  <2>. QED  BY <2>2, <2>3
<1>. QED  BY <1>3, <1>4, <1>5, <1>6

(* An empty table of any capacity. *)
LEMMA EmptyTableFacts ==
    ASSUME NEW n \in Nat
    PROVE  /\ EmptyTable(n) \in [Slots(n) -> Key \cup {Empty}]
           /\ Stored(EmptyTable(n)) = {}
           /\ \A p \in Slots(n) : EmptyTable(n)[p] = Empty
BY DEF EmptyTable, Stored

-----------------------------------------------------------------------------
(* The invariant, action by action *)

(* OnReady()'s empty index. *)
LEMMA InitInv == Init => IInv
<1>. SUFFICES ASSUME Init PROVE IInv
  OBVIOUS
<1>1. /\ Initial \in Nat /\ Initial > 1
      /\ table = EmptyTable(Initial) /\ size = Initial /\ pc = "idle"
      /\ \A p \in Slots(Initial) : table[p] = Empty
      /\ Stored(table) = {}
  BY SizeAssumption, EmptyTableFacts DEF Init
<1>2. TypeOK
  BY <1>1, HashAssumption, SizeAssumption, EmptyTableFacts
     DEF Init, TypeOK, Slots
<1>3. IndexedOnce /\ NoGap /\ OneGap /\ GrowInv
  BY <1>1 DEF IndexedOnce, NoGap, Gapless, OneGap, GrowInv
<1>4. CountInv
  BY <1>1, FS_EmptySet DEF CountInv, Contents, Unmoved, Init
<1>. QED  BY <1>2, <1>3, <1>4 DEF IInv

(* Flush() leaves an empty table of the same capacity. *)
LEMMA FlushInv == IInv /\ Flush => IInv'
<1>. SUFFICES ASSUME IInv, Flush PROVE IInv'
  OBVIOUS
<1>1. /\ size \in Nat /\ size > 1 /\ size' = size /\ pc' = "idle"
      /\ table' = EmptyTable(size)
      /\ \A p \in Slots(size) : table'[p] = Empty
      /\ Stored(table') = {}
  BY SizeAssumption, EmptyTableFacts DEF IInv, TypeOK, Flush
<1>2. TypeOK'
  BY <1>1, EmptyTableFacts DEF IInv, TypeOK, Flush
<1>3. (IndexedOnce /\ NoGap /\ OneGap /\ GrowInv)'
  BY <1>1 DEF IndexedOnce, NoGap, Gapless, OneGap, GrowInv
<1>4. CountInv'
  BY <1>1, FS_EmptySet DEF CountInv, Contents, Unmoved, Flush
<1>. QED  BY <1>2, <1>3, <1>4 DEF IInv

(* PlaceOuterAt() without a growth adds the key it was called with. *)
LEMMA PlaceInv ==
    ASSUME IInv, NEW k \in Key, PlaceOuterAt(k)
    PROVE  IInv' /\ Contents' = Contents \cup {k} /\ k \notin Contents
<1>1. /\ TypeOK /\ IndexedOnce /\ Gapless /\ k \notin Stored(table) /\ Put(k)
      /\ size' = size /\ hash' = hash /\ pc = "idle" /\ pc' = "idle"
      /\ count' = count + 1 /\ ~Crowded
  BY DEF IInv, NoGap, PlaceOuterAt
<1>2. /\ table' \in [Slots(size) -> Key \cup {Empty}]
      /\ Stored(table') = Stored(table) \cup {k}
      /\ IndexedOnce' /\ Gapless'
  BY <1>1, PutAdds
<1>3. TypeOK'
  BY <1>1, <1>2 DEF TypeOK, PlaceOuterAt
<1>4. (NoGap /\ OneGap /\ GrowInv)'
  BY <1>1, <1>2 DEF NoGap, OneGap, GrowInv
<1>5. Contents' = Contents \cup {k} /\ k \notin Contents
  BY <1>1, <1>2 DEF Contents, Unmoved
<1>6. CountInv'
  <2>1. /\ IsFiniteSet(Contents')
        /\ Cardinality(Contents') = Cardinality(Contents) + 1
    BY <1>5, FS_AddElement DEF IInv, CountInv
  <2>2. 4 * (count + 1) <= 3 * size
    BY <1>1, SizeAssumption DEF Crowded, TypeOK
  <2>. QED  BY <1>1, <2>1, <2>2, FS_CardinalityType DEF IInv, CountInv
<1>. QED  BY <1>2, <1>3, <1>4, <1>5, <1>6 DEF IInv

(* Grow() begins: every key is still to be moved. *)
LEMMA GrowBeginsInv ==
    ASSUME IInv, NEW k \in Key, GrowBegins(k)
    PROVE  IInv' /\ Contents' = Contents
<1>1. /\ size \in Nat /\ size > 1 /\ size' = 2 * size /\ size' \in Sizes
      /\ pc = "idle" /\ pc' = "grow" /\ k \notin Stored(table)
      /\ table' = EmptyTable(2 * size) /\ old' = table /\ g' = 0 /\ key' = k
      /\ table \in [Slots(size) -> Key \cup {Empty}]
  BY SizeAssumption DEF IInv, TypeOK, GrowBegins
<1>2. /\ table' \in [Slots(size') -> Key \cup {Empty}]
      /\ Stored(table') = {}
      /\ \A p \in Slots(size') : table'[p] = Empty
  BY <1>1, EmptyTableFacts
<1>3. TypeOK'
  <2>1. hole' \in Slots(size') /\ j' \in Slots(size')
    BY <1>1 DEF IInv, TypeOK, GrowBegins, Slots
  <2>2. \E n \in Sizes : old' \in [Slots(n) -> Key \cup {Empty}] /\ g' \in 0..n
    BY <1>1 DEF IInv, TypeOK
  <2>. QED  BY <1>1, <1>2, <2>1, <2>2 DEF IInv, TypeOK, GrowBegins
<1>4. Unmoved' = Stored(table)
  <2>1. DOMAIN old' = Slots(size) /\ \A q \in DOMAIN old' : q >= g'
    BY <1>1 DEF Slots
  <2>. QED  BY <1>1, <2>1 DEF Unmoved, Stored
<1>5. Contents' = Contents
  BY <1>1, <1>2, <1>4 DEF Contents, Unmoved
<1>6. (IndexedOnce /\ NoGap /\ OneGap)'
  BY <1>1, <1>2 DEF IndexedOnce, NoGap, Gapless, OneGap
<1>7. GrowInv'
  <2>1. key' \in Key /\ key' \notin Contents'
    BY <1>1, <1>5 DEF Contents, Unmoved
  <2>2. \A p, q \in DOMAIN old' : old'[p] = old'[q] /\ old'[p] # Empty => p = q
    BY <1>1 DEF IInv, IndexedOnce
  <2>. QED  BY <1>2, <2>1, <2>2 DEF GrowInv
<1>8. CountInv'
  BY <1>1, <1>5, FS_CardinalityType DEF IInv, CountInv, TypeOK, GrowBegins
<1>. QED  BY <1>3, <1>5, <1>6, <1>7, <1>8 DEF IInv

(* One iteration of Grow() over an empty slot. *)
LEMMA GrowSkipsInv ==
    ASSUME IInv, GrowSkips
    PROVE  IInv' /\ Contents' = Contents
<1>. USE DEF GrowSkips
<1>1. PICK n \in Sizes : /\ old \in [Slots(n) -> Key \cup {Empty}]
                         /\ g \in 0..n
  BY DEF IInv, TypeOK
<1>2. n \in Nat /\ g \in Slots(n) /\ g + 1 \in 0..n
  BY <1>1, SizeAssumption DEF Slots
<1>3. TypeOK'
  BY <1>1, <1>2 DEF IInv, TypeOK
<1>4. Unmoved' = Unmoved
  <2>1. \A q \in DOMAIN old : q >= g' => q >= g
    BY <1>1, <1>2 DEF Slots
  <2>2. \A q \in DOMAIN old : q >= g => q = g \/ q >= g'
    BY <1>1, <1>2 DEF Slots
  <2>. QED  BY <2>1, <2>2 DEF Unmoved
<1>5. Contents' = Contents
  BY <1>4 DEF Contents
<1>6. (IndexedOnce /\ NoGap /\ OneGap)'
  BY DEF IInv, IndexedOnce, NoGap, Gapless, OneGap, OnWay, Dist, Bucket, Slots
<1>7. GrowInv'
  BY <1>4, <1>5 DEF IInv, GrowInv
<1>8. CountInv'
  BY <1>5 DEF IInv, CountInv
<1>. QED  BY <1>3, <1>5, <1>6, <1>7, <1>8 DEF IInv

(* One iteration of Grow() over an entry. *)
LEMMA GrowMovesInv ==
    ASSUME IInv, GrowMoves
    PROVE  IInv' /\ Contents' = Contents
<1>. USE DEF GrowMoves
<1>1. PICK n \in Sizes : /\ old \in [Slots(n) -> Key \cup {Empty}]
                         /\ g \in 0..n
  BY DEF IInv, TypeOK
<1>2. n \in Nat /\ g \in Slots(n) /\ g + 1 \in 0..n
  BY <1>1, SizeAssumption DEF Slots
<1>3. old[g] \in Key /\ old[g] \in Unmoved /\ old[g] \notin Stored(table)
  BY <1>1, <1>2 DEF IInv, GrowInv, Unmoved, Slots
<1>4. /\ table' \in [Slots(size) -> Key \cup {Empty}]
      /\ Stored(table') = Stored(table) \cup {old[g]}
      /\ IndexedOnce' /\ Gapless'
  BY <1>3, PutAdds DEF IInv, NoGap
<1>5. TypeOK'
  BY <1>1, <1>2, <1>4 DEF IInv, TypeOK
<1>6. Unmoved' = Unmoved \ {old[g]}
  <2>1. \A q \in DOMAIN old : q >= g' <=> q >= g /\ q # g
    BY <1>1, <1>2 DEF Slots
  <2>2. \A q \in DOMAIN old : old[q] = old[g] => q = g
    BY <1>1, <1>2 DEF IInv, GrowInv
  <2>. QED  BY <1>1, <1>2, <2>1, <2>2 DEF Unmoved
<1>7. Contents' = Contents
  BY <1>3, <1>4, <1>6 DEF Contents
<1>8. (NoGap /\ OneGap)'
  BY <1>4 DEF NoGap, OneGap
<1>9. GrowInv'
  BY <1>4, <1>6, <1>7 DEF IInv, GrowInv
<1>10. CountInv'
  BY <1>7 DEF IInv, CountInv
<1>. QED  BY <1>4, <1>5, <1>7, <1>8, <1>9, <1>10 DEF IInv

(* Grow() has moved every key, and the new one is placed. *)
LEMMA GrowEndsInv ==
    ASSUME IInv, GrowEnds
    PROVE  IInv' /\ Contents' = Contents \cup {key}
           /\ key \in Key /\ key \notin Contents
<1>. USE DEF GrowEnds
<1>1. PICK n \in Sizes : /\ old \in [Slots(n) -> Key \cup {Empty}]
                         /\ g \in 0..n
  BY DEF IInv, TypeOK
<1>2. n \in Nat /\ g = n
  BY <1>1, SizeAssumption DEF Slots
<1>3. Unmoved = {} /\ Contents = Stored(table)
  BY <1>1, <1>2 DEF Unmoved, Contents, Slots
<1>4. key \in Key /\ key \notin Contents
  BY DEF IInv, GrowInv
<1>5. /\ table' \in [Slots(size) -> Key \cup {Empty}]
      /\ Stored(table') = Stored(table) \cup {key}
      /\ IndexedOnce' /\ Gapless'
  BY <1>3, <1>4, PutAdds DEF IInv, NoGap
<1>6. TypeOK'
  <2>1. EmptyTable(Initial) \in [Slots(Initial) -> Key \cup {Empty}]
        /\ 0 \in 0..Initial
    BY SizeAssumption, EmptyTableFacts
  <2>. QED  BY <1>5, <2>1, SizeAssumption DEF IInv, TypeOK
<1>7. Contents' = Contents \cup {key}
  BY <1>3, <1>5 DEF Contents, Unmoved
<1>8. (NoGap /\ OneGap /\ GrowInv)'
  BY <1>5 DEF NoGap, OneGap, GrowInv
<1>9. CountInv'
  <2>1. /\ IsFiniteSet(Contents')
        /\ Cardinality(Contents') = Cardinality(Contents) + 1
    BY <1>4, <1>7, FS_AddElement DEF IInv, CountInv
  <2>. QED  BY <2>1, FS_CardinalityType DEF IInv, CountInv
<1>. QED  BY <1>4, <1>5, <1>6, <1>7, <1>8, <1>9 DEF IInv

(* RemoveNode() has emptied the entry's slot. *)
LEMMA RemoveInv ==
    ASSUME IInv, NEW k \in Key, RemoveNode(k)
    PROVE  IInv' /\ Contents' = Contents \ {k} /\ k \in Contents
<1>1. PICK p \in Slots(size) : /\ table[p] = k
                               /\ table' = [table EXCEPT ![p] = Empty]
                               /\ hole' = p /\ j' = p
  BY DEF RemoveNode
<1>2. /\ table \in [Slots(size) -> Key \cup {Empty}] /\ k # Empty
      /\ size' = size /\ hash' = hash /\ pc = "idle" /\ pc' = "erase"
      /\ count' = count
  BY KeyAssumption DEF IInv, TypeOK, RemoveNode
<1>3. TypeOK'
  BY <1>1, <1>2 DEF IInv, TypeOK, RemoveNode
<1>4. IndexedOnce'
  BY <1>1, <1>2 DEF IInv, IndexedOnce
<1>5. Contents' = Contents \ {k} /\ k \in Contents
  <2>1. \A q \in Slots(size) : table[q] = k => q = p
    BY <1>1, <1>2 DEF IInv, IndexedOnce
  <2>. QED  BY <1>1, <1>2, <2>1 DEF Contents, Unmoved, Stored
<1>6. OneGap'
  <2>1. table'[hole'] = Empty
    BY <1>1, <1>2
  <2>2. \A q, x \in Slots(size) : table'[q] # Empty /\ OnWay(q, x)' =>
            table'[x] # Empty \/ x = p
    <3>. SUFFICES ASSUME NEW q \in Slots(size), NEW x \in Slots(size),
                         table'[q] # Empty, OnWay(q, x)', x # p
                  PROVE  table'[x] # Empty
      OBVIOUS
    <3>1. table'[q] = table[q] /\ table'[x] = table[x]
      BY <1>1, <1>2
    <3>2. OnWay(q, x)
      BY <1>2, <3>1 DEF OnWay, Dist, Bucket
    <3>. QED  BY <1>2, <3>1, <3>2 DEF IInv, NoGap, Gapless
  <2>3. \A q \in Slots(size) :
            table'[q] # Empty => Dist(p, q)' > Dist(p, p)'
    <3>. SUFFICES ASSUME NEW q \in Slots(size), table'[q] # Empty
                  PROVE  Dist(p, q)' > Dist(p, p)'
      OBVIOUS
    <3>1. q # p
      BY <1>1, <1>2
    <3>. QED  BY <1>2, <3>1, SizeAssumption DEF IInv, TypeOK, Dist, Slots
  <2>. QED  BY <1>1, <1>2, <2>1, <2>2, <2>3 DEF OneGap, Slots
<1>7. (NoGap /\ GrowInv)'
  BY <1>2 DEF NoGap, GrowInv
<1>8. CountInv'
  <2>1. /\ IsFiniteSet(Contents')
        /\ Cardinality(Contents') = Cardinality(Contents) - 1
    BY <1>5, FS_RemoveElement DEF IInv, CountInv
  <2>. QED  BY <1>2, <2>1, FS_CardinalityType DEF IInv, CountInv
<1>. QED  BY <1>3, <1>4, <1>5, <1>6, <1>7, <1>8 DEF IInv

(* An entry of the cluster stays where it is: it did not have the hole on  *)
(* its way, and those after it are further from the hole.                  *)
LEMMA EraseSkipsInv ==
    ASSUME IInv, EraseSkips
    PROVE  IInv' /\ Contents' = Contents
<1>. DEFINE a == After(j)
<1>1. /\ TypeOK /\ pc = "erase" /\ table[a] # Empty /\ Stays(table[a], a)
      /\ j' = a /\ hole \in Slots(size) /\ j \in Slots(size)
      /\ a \in Slots(size) /\ table[hole] = Empty /\ table[a] \in Key
      /\ UNCHANGED <<hash, table, size, count, pc, old, g, key, hole>>
  <2>1. hole \in Slots(size) /\ j \in Slots(size)
    BY DEF IInv, TypeOK
  <2>2. a \in Slots(size)
    BY <2>1, AfterType DEF IInv
  <2>. QED  BY <2>1, <2>2 DEF IInv, TypeOK, OneGap, EraseSkips
<1>2. TypeOK'
  BY <1>1 DEF TypeOK, Slots
<1>3. Contents' = Contents
  BY <1>1 DEF Contents, Unmoved
<1>4. (IndexedOnce /\ NoGap /\ GrowInv /\ CountInv)'
  BY <1>1, <1>3 DEF IInv, IndexedOnce, NoGap, GrowInv, CountInv, Slots
<1>5. OneGap'
  <2>1. \A p \in Slots(size) :
            table[p] # Empty /\ OnWay(p, hole) => Dist(hole, p) > Dist(hole, a)
    <3>. SUFFICES ASSUME NEW p \in Slots(size), table[p] # Empty,
                         OnWay(p, hole)
                  PROVE  Dist(hole, p) > Dist(hole, a)
      OBVIOUS
    <3>1. Dist(hole, p) > Dist(hole, j)
      BY <1>1 DEF IInv, OneGap
    <3>2. p # a
      BY <1>1, StaysMeans DEF OnWay
    <3>3. Dist(hole, a) = Dist(hole, j) + 1
      BY <1>1, AfterType
    <3>4. Dist(hole, p) # Dist(hole, a)
      BY <1>1, <3>2, DistType
    <3>5. Dist(hole, p) \in Int /\ Dist(hole, j) \in Int
      BY <1>1, DistType DEF Slots
    <3>. QED  BY <3>1, <3>3, <3>4, <3>5
  <2>. QED
    BY <1>1, <2>1 DEF IInv, OneGap, OnWay, Dist, Bucket, Slots
<1>. QED  BY <1>2, <1>3, <1>4, <1>5 DEF IInv

(* An entry moves back into the hole, which was on its way, and leaves the *)
(* next hole.                                                              *)
LEMMA EraseShiftsInv ==
    ASSUME IInv, EraseShifts
    PROVE  IInv' /\ Contents' = Contents
<1>0. PICK a, k : a = After(j) /\ k = table[a]
  OBVIOUS
<1>1. /\ TypeOK /\ pc = "erase" /\ k # Empty /\ ~Stays(k, a)
      /\ table' = [table EXCEPT ![hole] = k, ![a] = Empty]
      /\ hole' = a /\ j' = a /\ hole \in Slots(size) /\ a \in Slots(size)
      /\ table[hole] = Empty /\ table[a] = k /\ k \in Key /\ a # hole
      /\ table \in [Slots(size) -> Key \cup {Empty}]
      /\ UNCHANGED <<hash, size, count, pc, old, g, key>>
  <2>1. hole \in Slots(size) /\ j \in Slots(size)
    BY DEF IInv, TypeOK
  <2>2. a \in Slots(size)
    BY <1>0, <2>1, AfterType DEF IInv
  <2>. QED  BY <1>0, <2>1, <2>2 DEF IInv, TypeOK, OneGap, EraseShifts
<1>2. /\ table'[hole] = k /\ table'[a] = Empty
      /\ \A p \in Slots(size) \ {hole, a} : table'[p] = table[p]
      /\ table' \in [Slots(size) -> Key \cup {Empty}]
  BY <1>1
<1>3. TypeOK'
  BY <1>1, <1>2 DEF TypeOK, Slots
<1>4. \A q \in Slots(size) : table[q] = k => q = a
  BY <1>1 DEF IInv, IndexedOnce
<1>5. IndexedOnce'
  BY <1>1, <1>2, <1>4 DEF IInv, IndexedOnce, Slots
<1>6. Contents' = Contents
  <2>1. Stored(table') \subseteq Stored(table)
    BY <1>1, <1>2 DEF Stored
  <2>2. Stored(table) \subseteq Stored(table')
    <3>. SUFFICES ASSUME NEW q \in Slots(size), table[q] # Empty
                  PROVE  \E p \in Slots(size) : table'[p] = table[q]
      BY <1>1, <1>2 DEF Stored
    <3>. QED  BY <1>1, <1>2
  <2>. QED  BY <1>1, <2>1, <2>2 DEF Contents, Unmoved
<1>7. Dist(Bucket(k), hole) < Dist(Bucket(k), a) /\ Bucket(k) \in Slots(size)
  BY <1>1, StaysMeans, BucketType
<1>8. OneGap'
  <2>1. \A p, x \in Slots(size) : table'[p] # Empty /\ OnWay(p, x)' =>
            table'[x] # Empty \/ x = a
    <3>. SUFFICES ASSUME NEW p \in Slots(size), NEW x \in Slots(size),
                         table'[p] # Empty, OnWay(p, x)', x # a
                  PROVE  table'[x] # Empty
      OBVIOUS
    <3>1. CASE x = hole
      BY <3>1, <1>1, <1>2
    <3>2. CASE x # hole /\ p = hole
      <4>1. Dist(Bucket(k), x) < Dist(Bucket(k), hole)
        BY <3>2, <1>1, <1>2 DEF OnWay, Dist, Bucket
      <4>2. /\ Dist(Bucket(k), x) \in Int /\ Dist(Bucket(k), hole) \in Int
            /\ Dist(Bucket(k), a) \in Int
        BY <1>1, <1>7, DistType DEF Slots
      <4>3. OnWay(a, x)
        BY <4>1, <4>2, <1>1, <1>7 DEF OnWay
      <4>. QED  BY <4>3, <3>2, <1>1, <1>2 DEF IInv, OneGap
    <3>3. CASE x # hole /\ p # hole
      <4>1. p # a /\ table'[p] = table[p]
        BY <3>3, <1>2
      <4>2. OnWay(p, x)
        BY <4>1, <1>1 DEF OnWay, Dist, Bucket
      <4>. QED  BY <4>1, <4>2, <3>3, <1>1, <1>2 DEF IInv, OneGap
    <3>. QED  BY <3>1, <3>2, <3>3
  <2>2. \A p \in Slots(size) : table'[p] # Empty => Dist(a, p)' > Dist(a, a)'
    <3>. SUFFICES ASSUME NEW p \in Slots(size), table'[p] # Empty
                  PROVE  Dist(a, p)' > Dist(a, a)'
      OBVIOUS
    <3>1. p # a
      BY <1>2
    <3>. QED  BY <1>1, <3>1, SizeAssumption DEF TypeOK, Dist, Slots
  <2>. QED  BY <1>1, <1>2, <2>1, <2>2 DEF OneGap, Slots
<1>9. (NoGap /\ GrowInv /\ CountInv)'
  BY <1>1, <1>6 DEF IInv, NoGap, GrowInv, CountInv
<1>. QED  BY <1>3, <1>5, <1>6, <1>8, <1>9 DEF IInv

(* The cluster ends: nothing can have the hole on its way any more. *)
LEMMA EraseEndsInv ==
    ASSUME IInv, EraseEnds
    PROVE  IInv' /\ Contents' = Contents
<1>. DEFINE a == After(j)
<1>1. /\ TypeOK /\ pc = "erase" /\ table[a] = Empty /\ table[hole] = Empty
      /\ pc' = "idle" /\ count' = count - 1 /\ hole' = 0 /\ j' = 0
      /\ hole \in Slots(size) /\ j \in Slots(size) /\ a \in Slots(size)
      /\ UNCHANGED <<hash, table, size, old, g, key>>
  <2>1. hole \in Slots(size) /\ j \in Slots(size)
    BY DEF IInv, TypeOK
  <2>2. a \in Slots(size)
    BY <2>1, AfterType DEF IInv
  <2>. QED  BY <2>1, <2>2 DEF IInv, OneGap, EraseEnds
<1>2. Contents' = Contents
  BY <1>1 DEF Contents, Unmoved
<1>3. CountInv'
  <2>1. /\ IsFiniteSet(Contents) /\ count = Cardinality(Contents) + 1
        /\ 4 * count <= 3 * size /\ size \in Nat
    BY <1>1, SizeAssumption DEF IInv, CountInv, TypeOK
  <2>2. Cardinality(Contents) \in Nat
    BY <2>1, FS_CardinalityType
  <2>3. count' = Cardinality(Contents) /\ 4 * count' <= 3 * size
    BY <1>1, <2>1, <2>2
  <2>. QED  BY <1>1, <1>2, <2>1, <2>2, <2>3 DEF CountInv
<1>4. TypeOK'
  <2>1. 0 \in Slots(size)
    BY <1>1, SizeAssumption DEF TypeOK, Slots
  <2>2. count' \in Nat
    BY <1>1, <1>2, FS_CardinalityType DEF IInv, CountInv
  <2>. QED  BY <1>1, <2>1, <2>2 DEF TypeOK, Slots
<1>5. \A p \in Slots(size) : table[p] # Empty => ~OnWay(p, hole)
  <2>. SUFFICES ASSUME NEW p \in Slots(size), table[p] # Empty, OnWay(p, hole)
                PROVE  FALSE
    OBVIOUS
  <2>. DEFINE b == Bucket(table[p])
  <2>1. Dist(hole, p) > Dist(hole, j)
    BY <1>1 DEF IInv, OneGap
  <2>2. b \in Slots(size) /\ Dist(b, hole) < Dist(b, p)
    BY <1>1, BucketType DEF TypeOK, OnWay
  <2>3. /\ Dist(hole, p) \in Slots(size) /\ Dist(hole, j) \in Slots(size)
        /\ Dist(b, hole) \in Slots(size) /\ Dist(b, p) \in Slots(size)
        /\ Dist(b, a) \in Slots(size) /\ size \in Nat
    BY <1>1, <2>2, DistType, SizeAssumption DEF TypeOK
  <2>4. a # hole /\ Dist(hole, a) = Dist(hole, j) + 1
    BY <1>1, <2>1, <2>3, AfterType DEF Slots
  <2>5. p # a
    BY <1>1
  <2>6. Dist(hole, a) < Dist(hole, p)
    BY <1>1, <2>1, <2>3, <2>4, <2>5, DistType DEF Slots
  <2>7. Dist(b, p) = Dist(b, hole) + Dist(hole, p)
    BY <1>1, <2>2, <2>3, DistAdds DEF Slots
  <2>8. Dist(b, a) = Dist(b, hole) + Dist(hole, a)
    <3>1. Dist(hole, a) \in Slots(size)
      BY <1>1, DistType
    <3>2. Dist(b, hole) + Dist(hole, a) < size
      BY <2>3, <2>6, <2>7, <3>1 DEF Slots
    <3>. HIDE DEF a, b
    <3>. QED  BY <1>1, <2>2, <3>2, DistSum
  <2>9. OnWay(p, a)
    BY <2>3, <2>4, <2>6, <2>7, <2>8 DEF OnWay, Slots
  <2>. QED  BY <1>1, <2>4, <2>9 DEF IInv, OneGap
<1>6. NoGap'
  <2>1. \A p, x \in Slots(size) :
            table[p] # Empty /\ OnWay(p, x) => table[x] # Empty
    BY <1>1, <1>5 DEF IInv, OneGap
  <2>. QED  BY <1>1, <2>1 DEF NoGap, Gapless, OnWay, Dist, Bucket, Slots
<1>7. (IndexedOnce /\ OneGap /\ GrowInv)'
  BY <1>1 DEF IInv, IndexedOnce, OneGap, GrowInv, Slots
<1>. QED  BY <1>2, <1>3, <1>4, <1>6, <1>7 DEF IInv

(* A step that changes nothing. *)
LEMMA StutterInv == IInv /\ UNCHANGED vars => IInv' /\ Contents' = Contents
<1>. SUFFICES ASSUME IInv, UNCHANGED vars PROVE IInv' /\ Contents' = Contents
  OBVIOUS
<1>1. Contents' = Contents
  BY DEF vars, Contents, Unmoved
<1>. QED
  BY <1>1 DEF vars, IInv, TypeOK, IndexedOnce, NoGap, Gapless, OneGap, GrowInv,
              CountInv, OnWay, Dist, Bucket, Slots, Unmoved

-----------------------------------------------------------------------------
(* The theorems *)

(* Every step keeps the invariant. *)
LEMMA NextInv == IInv /\ [Next]_vars => IInv'
BY FlushInv, PlaceInv, GrowBeginsInv, GrowSkipsInv, GrowMovesInv, GrowEndsInv,
   RemoveInv, EraseSkipsInv, EraseShiftsInv, EraseEndsInv, StutterInv DEF Next

(* The invariant holds of every behaviour of the index. *)
THEOREM Invariance == Spec => []IInv
<1>1. Init => IInv
  BY InitInv
<1>2. IInv /\ [Next]_vars => IInv'
  BY NextInv
<1>. QED  BY <1>1, <1>2, PTL DEF Spec

(* The table, the counters and the loop variables keep their types. *)
THEOREM Typing == Spec => []TypeOK
<1>1. IInv => TypeOK
  BY DEF IInv
<1>. QED  BY <1>1, Invariance, PTL

(* EraseAt() and Grow() never index a block twice. *)
THEOREM Once == Spec => []IndexedOnce
<1>1. IInv => IndexedOnce
  BY DEF IInv
<1>. QED  BY <1>1, Invariance, PTL

(* FindExact() finds every indexed block, for every hash and capacity. *)
THEOREM Findable == Spec => []AllFound
<1>1. IInv => AllFound
  <2>. SUFFICES ASSUME IInv, pc = "idle", NEW k \in Stored(table)
                PROVE  Found(k)
    BY DEF AllFound
  <2>1. PICK p \in Slots(size) : table[p] = k
    BY DEF IInv, TypeOK, Stored
  <2>2. k # Empty
    BY DEF Stored
  <2>3. ASSUME NEW x \in Slots(size),
               Dist(Bucket(k), x) < Dist(Bucket(k), p)
        PROVE  table[x] \notin {Empty, k}
    <3>1. table[x] # Empty
      BY <2>1, <2>2, <2>3 DEF IInv, NoGap, Gapless, OnWay
    <3>2. x # p
      BY <2>3, <2>1, BucketType, DistType DEF IInv, TypeOK, Slots, Stored
    <3>. QED  BY <2>1, <2>2, <3>1, <3>2 DEF IInv, IndexedOnce
  <2>. QED  BY <2>1, <2>3 DEF Found, Passes
<1>. QED  BY <1>1, Invariance, PTL

(* count_ is the number of entries, and a quarter of the table is free. *)
THEOREM Roomy == Spec => []NeverFull
<1>1. IInv => NeverFull
  <2>. SUFFICES ASSUME IInv, pc = "idle"
                PROVE  count = Cardinality(Stored(table)) /\ 4 * count <= 3 * size
    BY DEF NeverFull
  <2>1. Contents = Stored(table)
    BY DEF Contents, Unmoved
  <2>. QED  BY <2>1, FS_CardinalityType DEF IInv, CountInv, TypeOK
<1>. QED  BY <1>1, Invariance, PTL

(* The index implements BlockMap. *)
THEOREM Refinement == Spec => IsBlockMap
<1>1. Init => Map!Init
  <2>1. Init => Stored(table) = {} /\ pc = "idle"
    BY SizeAssumption, EmptyTableFacts DEF Init
  <2>. QED  BY <2>1 DEF Map!Init, Contents, Unmoved
<1>2. IInv /\ [Next]_vars => [Map!Next]_Contents
  <2>. SUFFICES ASSUME IInv, [Next]_vars
                PROVE  Map!Next \/ Contents' = Contents
    OBVIOUS
  <2>1. CASE Flush
    <3>1. Stored(table') = {} /\ pc' = "idle"
      BY <2>1, SizeAssumption, EmptyTableFacts DEF Flush, IInv, TypeOK
    <3>. QED  BY <3>1 DEF Map!Next, Map!Flush, Contents, Unmoved
  <2>2. ASSUME NEW k \in Key, PlaceOuterAt(k) PROVE Map!Next
    <3>1. Contents' = Contents \cup {k} /\ k \notin Contents
      BY <2>2, PlaceInv
    <3>. QED  BY <3>1 DEF Map!Next, Map!Insert
  <2>3. ASSUME NEW k \in Key, RemoveNode(k) PROVE Map!Next
    <3>1. Contents' = Contents \ {k} /\ k \in Contents
      BY <2>3, RemoveInv
    <3>. QED  BY <3>1 DEF Map!Next, Map!Remove
  <2>4. CASE GrowEnds
    <3>1. Contents' = Contents \cup {key} /\ key \in Key /\ key \notin Contents
      BY <2>4, GrowEndsInv
    <3>. QED  BY <3>1 DEF Map!Next, Map!Insert
  <2>. QED
    BY <2>1, <2>2, <2>3, <2>4, GrowBeginsInv, GrowSkipsInv, GrowMovesInv,
       EraseSkipsInv, EraseShiftsInv, EraseEndsInv, StutterInv DEF Next
<1>. QED  BY <1>1, <1>2, Invariance, PTL DEF Spec, IsBlockMap, Map!Spec

=============================================================================
