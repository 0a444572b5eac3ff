-------------------------- MODULE QueryCacheLemmas --------------------------
(***************************************************************************)
(* What the operations of ShmemCache and QueryCache do to the storage and  *)
(* the map files, and the steps of QueryCache to the children's records,   *)
(* for any number of child processes, tables and queries, and any number   *)
(* and size of blocks.                                                     *)
(***************************************************************************)
EXTENDS QueryCache, Iteration, FiniteSetTheorems, TLAPS

\* The provers a step is tried with, and the seconds each may take
USE ZenonT(2), SMTT(20), ZenonT(20)

-----------------------------------------------------------------------------
(* The storage                                                             *)

Items(R) == [key : Keys, result : R, live : BOOLEAN]

Memories(R) ==
  [blocks : [Blocks -> Seq(Items(R))], index : [Keys -> Ids \cup {NoId}], hand : Blocks]

\* the keys that have a hash element
Used(m) == {k \in Keys : m.index[k] # NoId}

\* The limits hold, and the hash table and the blocks agree.
Sound(m) ==
  /\ \A b \in Blocks : Len(m.blocks[b]) <= BlockItems
  /\ Cardinality(Used(m)) <= HashElements
  /\ Consistent(m)

Stores(R) == {m \in Memories(R) : Sound(m)}

\* m2 is m1 without some of its items.
Fewer(m1, m2) ==
  /\ LiveIds(m2) \subseteq LiveIds(m1)
  /\ \A id \in LiveIds(m2) : ItemAt(m2, id) = ItemAt(m1, id)
  /\ \A k \in Keys : m2.index[k] \in {m1.index[k], NoId}

-----------------------------------------------------------------------------
(* The storage                                                             *)

\* The fields of a memory.
LEMMA MemoryFields ==
  ASSUME NEW R, NEW m \in Memories(R)
  PROVE  /\ m.blocks \in [Blocks -> Seq(Items(R))]
         /\ m.index \in [Keys -> Ids \cup {NoId}]
         /\ m.hand \in Blocks
  BY DEF Memories

\* The cache ids of the undeleted items.
LEMMA LiveItems ==
  ASSUME NEW R, NEW m \in Memories(R), NEW id \in Ids
  PROVE  /\ id \in LiveIds(m) <=> /\ id[2] \in 1..Len(m.blocks[id[1]])
                                  /\ m.blocks[id[1]][id[2]].live
         /\ id[1] \in Blocks /\ id[2] \in 1..BlockItems /\ id = <<id[1], id[2]>>
         /\ id \in LiveIds(m) => ItemAt(m, id) \in Items(R) /\ ItemAt(m, id).key \in Keys
  <1>1. id[1] \in Blocks /\ id[2] \in 1..BlockItems /\ id = <<id[1], id[2]>> /\ BlockItems \in Nat
    BY ShmemCacheAssumption DEF Ids
  <1>2. m.blocks[id[1]] \in Seq(Items(R)) /\ Len(m.blocks[id[1]]) \in Nat
    BY <1>1, MemoryFields
  <1>3. id \in LiveIds(m) <=> /\ id[2] \in 1..Len(m.blocks[id[1]])
                             /\ m.blocks[id[1]][id[2]].live
    BY <1>1, <1>2 DEF LiveIds, Live, InBlock, ItemAt
  <1>4. id[2] \in 1..Len(m.blocks[id[1]]) => m.blocks[id[1]][id[2]] \in Items(R)
    BY <1>2
  <1> QED BY <1>1, <1>3, <1>4 DEF ItemAt, Items

\* In a sound memory a key belongs to one undeleted item.
LEMMA OneItemPerKey ==
  ASSUME NEW R, NEW m \in Stores(R)
  PROVE  /\ m \in Memories(R)
         /\ \A id \in LiveIds(m) : id \in Ids /\ ItemAt(m, id).key \in Keys
                                    /\ m.index[ItemAt(m, id).key] = id
         /\ \A k \in Keys : m.index[k] # NoId =>
               m.index[k] \in LiveIds(m) /\ ItemAt(m, m.index[k]).key = k
  <1>1. m \in Memories(R) /\ Consistent(m)
    BY DEF Stores, Sound
  <1>2. LiveIds(m) \subseteq Ids
    BY DEF LiveIds
  <1>3. \A id \in LiveIds(m) : ItemAt(m, id).key \in Keys
    BY <1>1, <1>2, LiveItems
  <1>4. \A k \in Keys : m.index[k] # NoId =>
               m.index[k] \in LiveIds(m) /\ ItemAt(m, m.index[k]).key = k
    BY <1>1 DEF Consistent, LiveIds
  <1>5. \A id \in LiveIds(m) : m.index[ItemAt(m, id).key] = id
    BY <1>1 DEF Consistent
  <1> QED BY <1>1, <1>2, <1>3, <1>4, <1>5

\* Fewer keys need fewer hash elements.
LEMMA FewerElements ==
  ASSUME NEW m1, NEW m2, \A k \in Keys : m2.index[k] \in {m1.index[k], NoId}
  PROVE  /\ IsFiniteSet(Used(m1)) /\ IsFiniteSet(Used(m2))
         /\ Cardinality(Used(m1)) \in Nat /\ Cardinality(Used(m2)) \in Nat
         /\ Cardinality(Used(m2)) <= Cardinality(Used(m1))
  <1>1. Used(m1) \in SUBSET Keys /\ Used(m2) \in SUBSET Used(m1) /\ IsFiniteSet(Keys)
    BY ShmemCacheAssumption DEF Used
  <1>2. IsFiniteSet(Used(m1))
    BY <1>1, FS_Subset
  <1>3. IsFiniteSet(Used(m2)) /\ Cardinality(Used(m2)) <= Cardinality(Used(m1))
    BY <1>1, <1>2, FS_Subset
  <1> QED BY <1>2, <1>3, FS_CardinalityType

\* The items of some keys go, with their entries of the hash table.
LEMMA Removal ==
  ASSUME NEW R, NEW m \in Stores(R), NEW d \in Memories(R), NEW K,
         \A b \in Blocks : Len(d.blocks[b]) <= BlockItems,
         \A k \in Keys : d.index[k] = IF k \in K THEN NoId ELSE m.index[k],
         \A id \in Ids : id \in LiveIds(d) <=> id \in LiveIds(m) /\ ItemAt(m, id).key \notin K,
         \A id \in LiveIds(d) : ItemAt(d, id) = ItemAt(m, id)
  PROVE  d \in Stores(R) /\ Fewer(m, d)
  <1>1. LiveIds(d) \subseteq Ids
    BY DEF LiveIds
  <1>2. Fewer(m, d)
    BY <1>1 DEF Fewer
  <1>3. Cardinality(Used(m)) <= HashElements
    BY DEF Stores, Sound
  <1>4. Cardinality(Used(d)) <= HashElements
    BY <1>2, <1>3, FewerElements, ShmemCacheAssumption DEF Fewer
  <1>5. ASSUME NEW k \in Keys, d.index[k] # NoId
        PROVE  d.index[k] \in LiveIds(d) /\ ItemAt(d, d.index[k]).key = k
    <2>1. k \notin K /\ d.index[k] = m.index[k]
      BY <1>5
    <2>2. m.index[k] \in LiveIds(m) /\ ItemAt(m, m.index[k]).key = k /\ m.index[k] \in Ids
      BY <1>5, <2>1, OneItemPerKey
    <2> QED BY <2>1, <2>2
  <1>6. ASSUME NEW id \in LiveIds(d) PROVE d.index[ItemAt(d, id).key] = id
    <2>1. id \in LiveIds(m) /\ ItemAt(m, id).key \notin K /\ ItemAt(d, id) = ItemAt(m, id)
      BY <1>1
    <2>2. ItemAt(m, id).key \in Keys /\ m.index[ItemAt(m, id).key] = id
      BY <2>1, OneItemPerKey
    <2> QED BY <2>1, <2>2
  <1>7. Consistent(d)
    BY <1>5, <1>6 DEF Consistent, LiveIds
  <1> QED BY <1>2, <1>4, <1>7 DEF Stores, Sound

\* pool_init_whole_cache_blocks, pool_hash_init
LEMMA EmptyStore ==
  ASSUME NEW R
  PROVE  EmptyMemory \in Stores(R) /\ LiveIds(EmptyMemory) = {}
  <1>1. EmptyMemory \in Memories(R)
    BY ShmemCacheAssumption DEF EmptyMemory, Memories, Blocks
  <1>2. \A b \in Blocks : EmptyMemory.blocks[b] = <<>> /\ Len(EmptyMemory.blocks[b]) = 0
    BY DEF EmptyMemory
  <1>3. \A k \in Keys : EmptyMemory.index[k] = NoId
    BY DEF EmptyMemory
  <1>4. LiveIds(EmptyMemory) = {}
    <2>1. \A id \in Ids : id \notin LiveIds(EmptyMemory)
      BY <1>1, <1>2, LiveItems
    <2> QED BY <2>1 DEF LiveIds
  <1>5. Used(EmptyMemory) = {}
    BY <1>3 DEF Used
  <1>6. Cardinality(Used(EmptyMemory)) <= HashElements
    BY <1>5, FS_EmptySet, ShmemCacheAssumption
  <1>7. Consistent(EmptyMemory)
    BY <1>3, <1>4 DEF Consistent
  <1>8. \A b \in Blocks : Len(EmptyMemory.blocks[b]) <= BlockItems
    BY <1>2, ShmemCacheAssumption
  <1> QED BY <1>1, <1>4, <1>6, <1>7, <1>8 DEF Stores, Sound

\* The items of a block after one was deleted.
LEMMA WithoutItem ==
  ASSUME NEW R, NEW items \in Seq(Items(R)), NEW i \in 1..Len(items)
  PROVE  /\ Without(items, i) \in Seq(Items(R))
         /\ Len(Without(items, i)) <= Len(items)
         /\ \A j \in 1..Len(items) : j # i =>
               j \in 1..Len(Without(items, i)) /\ Without(items, i)[j] = items[j]
         /\ i \in 1..Len(Without(items, i)) => ~Without(items, i)[i].live
  <1>1. CASE i = Len(items)
    <2>1. Without(items, i) = SubSeq(items, 1, i - 1)
      BY <1>1 DEF Without
    <2>2. /\ SubSeq(items, 1, i - 1) \in Seq(Items(R)) /\ Len(SubSeq(items, 1, i - 1)) = i - 1
          /\ \A j \in 1..(i - 1) : SubSeq(items, 1, i - 1)[j] = items[j]
      BY <1>1
    <2> QED BY <1>1, <2>1, <2>2
  <1>2. CASE i # Len(items)
    <2> DEFINE x == [items[i] EXCEPT !.live = FALSE]
    <2>1. x \in Items(R) /\ ~x.live
      <3>1. items[i] \in Items(R)
        OBVIOUS
      <3> QED BY <3>1, ZenonT(20) DEF Items
    <2>2. Without(items, i) = [items EXCEPT ![i] = x]
      BY <1>2 DEF Without
    <2> HIDE DEF x
    <2>3. /\ [items EXCEPT ![i] = x] \in Seq(Items(R))
          /\ Len([items EXCEPT ![i] = x]) = Len(items)
          /\ \A j \in 1..Len(items) : [items EXCEPT ![i] = x][j] = IF j = i THEN x ELSE items[j]
      BY <2>1
    <2> QED BY <2>1, <2>2, <2>3
  <1> QED BY <1>1, <1>2

\* pool_delete_item_shmem_cache: the item goes, and nothing else.
LEMMA DeleteStore ==
  ASSUME NEW R, NEW m \in Stores(R), NEW id \in Ids
  PROVE  /\ DeleteItem(m, id) \in Stores(R)
         /\ Fewer(m, DeleteItem(m, id))
         /\ id \notin LiveIds(DeleteItem(m, id))
         /\ \A k \in Keys : m.index[k] # id => DeleteItem(m, id).index[k] = m.index[k]
  <1>1. CASE ~Live(m, id)
    <2>1. DeleteItem(m, id) = m /\ id \notin LiveIds(m)
      BY <1>1 DEF DeleteItem, LiveIds
    <2> QED BY <2>1 DEF Fewer
  <1>2. CASE Live(m, id)
    <2> DEFINE b == id[1]
               i == id[2]
               k == ItemAt(m, id).key
               w == Without(m.blocks[b], i)
               d == DeleteItem(m, id)
    <2>1. /\ m \in Memories(R) /\ id \in LiveIds(m) /\ k \in Keys /\ m.index[k] = id
      BY <1>2, OneItemPerKey DEF LiveIds
    <2>2. b \in Blocks /\ i \in 1..Len(m.blocks[b]) /\ id = <<b, i>>
      BY <2>1, LiveItems
    <2>3. /\ m.blocks \in [Blocks -> Seq(Items(R))] /\ m.index \in [Keys -> Ids \cup {NoId}]
          /\ m.hand \in Blocks /\ \A c \in Blocks : Len(m.blocks[c]) <= BlockItems
      BY <2>1, MemoryFields DEF Stores, Sound
    <2>4. /\ d = [blocks |-> [c \in Blocks |-> IF c = b THEN Without(m.blocks[c], i)
                                                       ELSE m.blocks[c]],
                  index |-> Forget(m.index, {k}), hand |-> m.hand]
      BY <1>2 DEF DeleteItem
    <2>5. /\ w \in Seq(Items(R)) /\ Len(w) <= Len(m.blocks[b])
          /\ \A j \in 1..Len(m.blocks[b]) : j # i => j \in 1..Len(w) /\ w[j] = m.blocks[b][j]
          /\ i \in 1..Len(w) => ~w[i].live
      BY <2>2, <2>3, WithoutItem
    <2>6. /\ d.blocks = [c \in Blocks |-> IF c = b THEN w ELSE m.blocks[c]]
          /\ d.index = [y \in Keys |-> IF y \in {k} THEN NoId ELSE m.index[y]]
          /\ d.hand = m.hand
      BY <2>4 DEF Forget
    <2> HIDE DEF w, d, k
    <2>7. d \in Memories(R)
      BY <2>3, <2>4, <2>5 DEF Memories, Forget, w
    <2>8. \A c \in Blocks : Len(d.blocks[c]) <= BlockItems
      <3>1. Len(w) \in Nat /\ Len(m.blocks[b]) \in Nat /\ BlockItems \in Nat
        BY <2>2, <2>3, <2>5, ShmemCacheAssumption
      <3> QED BY <2>2, <2>3, <2>5, <2>6, <3>1
    <2>9. ASSUME NEW x \in Ids
          PROVE  /\ x \in LiveIds(d) <=> x \in LiveIds(m) /\ x # id
                 /\ x \in LiveIds(d) => ItemAt(d, x) = ItemAt(m, x)
      <3>1. /\ x[1] \in Blocks /\ x[2] \in 1..BlockItems /\ x = <<x[1], x[2]>>
            /\ x \in LiveIds(m) <=> x[2] \in 1..Len(m.blocks[x[1]]) /\ m.blocks[x[1]][x[2]].live
        BY <2>1, LiveItems
      <3>2. x \in LiveIds(d) <=> x[2] \in 1..Len(d.blocks[x[1]]) /\ d.blocks[x[1]][x[2]].live
        BY <2>7, LiveItems
      <3>3. CASE x[1] # b
        BY <2>2, <2>6, <3>1, <3>2, <3>3 DEF ItemAt
      <3>4. CASE x[1] = b /\ x[2] # i
        <4>1. x # id /\ d.blocks[x[1]] = w
          BY <2>2, <2>6, <3>1, <3>4
        <4>2. x[2] \in 1..Len(w) => x[2] \in 1..Len(m.blocks[b])
          BY <2>2, <2>3, <2>5, <3>1, ShmemCacheAssumption
        <4> QED BY <2>5, <3>1, <3>2, <3>4, <4>1, <4>2 DEF ItemAt
      <3>5. CASE x[1] = b /\ x[2] = i
        <4>1. x = id /\ d.blocks[x[1]] = w
          BY <2>2, <2>6, <3>1, <3>5
        <4> QED BY <2>5, <3>2, <3>5, <4>1
      <3> QED BY <3>3, <3>4, <3>5
    <2>10. \A x \in Ids : x \in LiveIds(d) <=> x \in LiveIds(m) /\ ItemAt(m, x).key \notin {k}
      BY <2>1, <2>9, OneItemPerKey DEF k
    <2>11. \A x \in LiveIds(d) : ItemAt(d, x) = ItemAt(m, x)
      BY <2>9 DEF LiveIds
    <2>12. d \in Stores(R) /\ Fewer(m, d)
      BY <2>6, <2>7, <2>8, <2>10, <2>11, Removal, ZenonT(20)
    <2> QED BY <2>1, <2>6, <2>9, <2>12 DEF d
  <1> QED BY <1>1, <1>2

\* The clock hand goes through the blocks in a circle.
LEMMA ClockHand ==
  ASSUME NEW R, NEW m \in Memories(R)
  PROVE  /\ \A i \in Nat : Victim(m, i) \in Blocks
         /\ \A b \in Blocks : \E i \in 0..(NumBlocks - 1) : Victim(m, i) = b
  <1>1. NumBlocks \in Nat /\ NumBlocks > 0 /\ m.hand \in 1..NumBlocks
    BY MemoryFields, ShmemCacheAssumption DEF Blocks
  <1>2. \A x \in Nat : x % NumBlocks \in 0..(NumBlocks - 1)
    BY <1>1
  <1>3. \A i \in Nat : Victim(m, i) \in Blocks
    <2> SUFFICES ASSUME NEW i \in Nat PROVE Victim(m, i) \in Blocks
      OBVIOUS
    <2>1. m.hand - 1 + i \in Nat
      BY <1>1
    <2>2. (m.hand - 1 + i) % NumBlocks \in 0..(NumBlocks - 1)
      BY <1>2, <2>1
    <2> QED BY <1>1, <2>2 DEF Victim, Blocks
  <1>4. ASSUME NEW b \in Blocks PROVE \E i \in 0..(NumBlocks - 1) : Victim(m, i) = b
    <2>1. b \in 1..NumBlocks
      BY DEF Blocks
    <2>2. CASE b >= m.hand
      <3>1. b - m.hand \in 0..(NumBlocks - 1) /\ m.hand - 1 + (b - m.hand) = b - 1
        BY <1>1, <2>1, <2>2
      <3>2. (b - 1) % NumBlocks = b - 1
        BY <1>1, <2>1
      <3>3. Victim(m, b - m.hand) = b
        BY <2>1, <3>1, <3>2 DEF Victim
      <3> QED BY <3>1, <3>3
    <2>3. CASE b < m.hand
      <3> DEFINE i == b - m.hand + NumBlocks
      <3>1. i \in 0..(NumBlocks - 1) /\ m.hand - 1 + i = (b - 1) + NumBlocks
        BY <1>1, <2>1, <2>3
      <3>2. ((b - 1) + NumBlocks) % NumBlocks = b - 1
        BY <1>1, <2>1
      <3> HIDE DEF i
      <3>3. Victim(m, i) = b
        BY <2>1, <3>1, <3>2 DEF Victim
      <3> QED BY <3>1, <3>3
    <2> QED BY <1>1, <2>1, <2>2, <2>3
  <1> QED BY <1>3, <1>4

\* pool_reuse_block, n times: the victims are empty, the rest is as before.
LEMMA ReuseStore ==
  ASSUME NEW R, NEW m \in Stores(R), NEW n \in Nat
  PROVE  /\ ReuseBlocks(m, n) \in Stores(R)
         /\ Fewer(m, ReuseBlocks(m, n))
         /\ \A i \in 0..(n - 1) : ReuseBlocks(m, n).blocks[Victim(m, i)] = <<>>
         /\ n = 0 => ReuseBlocks(m, n).blocks = m.blocks
  <1> DEFINE V == {Victim(m, i) : i \in 0..(n - 1)}
             K == {ItemAt(m, id).key : id \in {x \in LiveIds(m) : x[1] \in V}}
             d == ReuseBlocks(m, n)
  <1>1. /\ d.blocks = [b \in Blocks |-> IF b \in V THEN <<>> ELSE m.blocks[b]]
        /\ d.index = [k \in Keys |-> IF k \in K THEN NoId ELSE m.index[k]]
        /\ d.hand = Victim(m, n)
        /\ d = [blocks |-> d.blocks, index |-> d.index, hand |-> d.hand]
    BY DEF ReuseBlocks, Forget
  <1>2. m \in Memories(R) /\ \A b \in Blocks : Len(m.blocks[b]) <= BlockItems
    BY DEF Stores, Sound
  <1>3. /\ m.blocks \in [Blocks -> Seq(Items(R))] /\ m.index \in [Keys -> Ids \cup {NoId}]
    BY <1>2, MemoryFields
  <1>4. Victim(m, n) \in Blocks /\ V \subseteq Blocks
    BY <1>2, ClockHand
  <1>5. \A i \in 0..(n - 1) : Victim(m, i) \in V
    OBVIOUS
  <1>6. n = 0 => V = {}
    OBVIOUS
  <1>7. \A x \in LiveIds(m) : ItemAt(m, x).key \in K <=> x[1] \in V
    BY OneItemPerKey
  <1> HIDE DEF V, K, d
  <1>8. d \in Memories(R)
    <2>1. d.blocks \in [Blocks -> Seq(Items(R))]
      BY <1>1, <1>3
    <2>2. d.index \in [Keys -> Ids \cup {NoId}] /\ d.hand \in Blocks
      BY <1>1, <1>3, <1>4
    <2> QED BY <1>1, <2>1, <2>2, ZenonT(20) DEF Memories
  <1>9. \A b \in Blocks : Len(d.blocks[b]) <= BlockItems
    BY <1>1, <1>2, ShmemCacheAssumption
  <1>10. ASSUME NEW x \in Ids
         PROVE  /\ x \in LiveIds(d) <=> x \in LiveIds(m) /\ x[1] \notin V
                /\ x \in LiveIds(d) => ItemAt(d, x) = ItemAt(m, x)
    <2>1. /\ x[1] \in Blocks
          /\ x \in LiveIds(m) <=> x[2] \in 1..Len(m.blocks[x[1]]) /\ m.blocks[x[1]][x[2]].live
      BY <1>2, LiveItems
    <2>2. x \in LiveIds(d) <=> x[2] \in 1..Len(d.blocks[x[1]]) /\ d.blocks[x[1]][x[2]].live
      BY <1>8, LiveItems
    <2>3. CASE x[1] \in V
      <3>1. d.blocks[x[1]] = <<>> /\ Len(<<>>) = 0 /\ 1..0 = {}
        BY <1>1, <2>1, <2>3
      <3> QED BY <2>2, <2>3, <3>1
    <2>4. CASE x[1] \notin V
      BY <1>1, <2>1, <2>2, <2>4 DEF ItemAt
    <2> QED BY <2>3, <2>4
  <1>11. \A x \in Ids : x \in LiveIds(d) <=> x \in LiveIds(m) /\ ItemAt(m, x).key \notin K
    BY <1>7, <1>10
  <1>12. \A x \in LiveIds(d) : ItemAt(d, x) = ItemAt(m, x)
    BY <1>10 DEF LiveIds
  <1>13. d \in Stores(R) /\ Fewer(m, d)
    BY <1>1, <1>8, <1>9, <1>11, <1>12, Removal
  <1>14. \A i \in 0..(n - 1) : d.blocks[Victim(m, i)] = <<>>
    BY <1>1, <1>4, <1>5
  <1>15. n = 0 => d.blocks = m.blocks
    BY <1>1, <1>3, <1>6
  <1> QED BY <1>13, <1>14, <1>15 DEF d

\* With every block reused the hash table is empty.
LEMMA AllReused ==
  ASSUME NEW R, NEW m \in Stores(R)
  PROVE  FreeElement(ReuseBlocks(m, NumBlocks))
  <1> DEFINE d == ReuseBlocks(m, NumBlocks)
  <1>1. NumBlocks \in Nat /\ m \in Memories(R)
    BY ShmemCacheAssumption DEF Stores
  <1>2. d \in Stores(R) /\ d \in Memories(R)
    BY <1>1, ReuseStore DEF Stores
  <1>3. \A b \in Blocks : d.blocks[b] = <<>>
    <2>1. \A i \in 0..(NumBlocks - 1) : d.blocks[Victim(m, i)] = <<>>
      BY <1>1, ReuseStore
    <2> HIDE DEF d
    <2> QED BY <1>1, <2>1, ClockHand
  <1> HIDE DEF d
  <1>4. \A id \in Ids : id \notin LiveIds(d)
    <2> SUFFICES ASSUME NEW id \in Ids PROVE id \notin LiveIds(d)
      OBVIOUS
    <2>1. id[1] \in Blocks /\ (id \in LiveIds(d) => id[2] \in 1..Len(d.blocks[id[1]]))
      BY <1>2, LiveItems
    <2>2. d.blocks[id[1]] = <<>> /\ Len(<<>>) = 0 /\ 1..0 = {}
      BY <1>3, <2>1
    <2> QED BY <2>1, <2>2
  <1>5. \A k \in Keys : d.index[k] = NoId
    BY <1>2, <1>4, OneItemPerKey
  <1>6. {k \in Keys : d.index[k] # NoId} = {}
    BY <1>5
  <1> QED BY <1>6, FS_EmptySet, ShmemCacheAssumption DEF FreeElement, d

\* pool_add_item_shmem_cache finds a block with room and a hash element,
\* reusing blocks if it has to.
LEMMA RoomFound ==
  ASSUME NEW R, NEW m \in Stores(R)
  PROVE  /\ Reused(m) \in Nat
         /\ FreeElement(ReuseBlocks(m, Reused(m)))
         /\ BlockFor(m) \in Blocks
         /\ Len(ReuseBlocks(m, Reused(m)).blocks[BlockFor(m)]) < BlockItems
  <1> DEFINE first == IF Room(m) = {} THEN 1 ELSE 0
             Free(n) == FreeElement(ReuseBlocks(m, n))
             T == {n \in first..NumBlocks : Free(n) \/ n = NumBlocks}
  <1>1. /\ NumBlocks \in Nat /\ NumBlocks > 0 /\ first \in Nat /\ first <= NumBlocks
        /\ BlockItems \in Nat /\ BlockItems > 0
    BY ShmemCacheAssumption
  <1>2. Free(NumBlocks)
    BY AllReused
  <1>3. Reused(m) = CHOOSE n \in first..NumBlocks :
                      (Free(n) \/ n = NumBlocks) /\ \A j \in first..(n - 1) : ~Free(j)
    BY DEF Reused
  <1> HIDE DEF Free
  <1>4. \E n \in first..NumBlocks :
           (Free(n) \/ n = NumBlocks) /\ \A j \in first..(n - 1) : ~Free(j)
    <2>1. T \in SUBSET Nat /\ NumBlocks \in T
      BY <1>1
    <2>2. PICK n \in T : \A y \in T : n <= y
      BY <2>1, LeastNatural, ZenonT(20)
    <2>3. n \in first..NumBlocks /\ (Free(n) \/ n = NumBlocks)
      BY <2>2
    <2>4. ASSUME NEW j \in first..(n - 1), Free(j) PROVE FALSE
      <3>1. j \in first..NumBlocks /\ j < n
        BY <1>1, <2>3
      <3>2. j \in T
        BY <2>4, <3>1
      <3> QED BY <1>1, <2>2, <2>3, <3>1, <3>2
    <2> QED BY <2>3, <2>4
  <1> HIDE DEF first
  <1>5. Reused(m) \in first..NumBlocks /\ (Free(Reused(m)) \/ Reused(m) = NumBlocks)
    BY <1>3, <1>4
  <1>6. Reused(m) \in Nat /\ Free(Reused(m))
    BY <1>1, <1>2, <1>5
  <1>7. CASE Reused(m) = 0
    <2>1. Room(m) # {}
      BY <1>1, <1>5, <1>7 DEF first
    <2>2. Room(m) \in SUBSET Nat
      BY DEF Room, Blocks
    <2>3. FirstRoom(m) \in Room(m)
      BY <2>1, <2>2, LeastNatural DEF FirstRoom
    <2>4. ReuseBlocks(m, Reused(m)).blocks = m.blocks
      BY <1>6, <1>7, ReuseStore
    <2> QED BY <1>6, <1>7, <2>3, <2>4 DEF BlockFor, Room, Free
  <1>8. CASE Reused(m) # 0
    <2>1. Reused(m) - 1 \in 0..(Reused(m) - 1) /\ Reused(m) - 1 \in Nat
      BY <1>6, <1>8
    <2>2. Victim(m, Reused(m) - 1) \in Blocks
      BY <2>1, ClockHand DEF Stores
    <2>3. ReuseBlocks(m, Reused(m)).blocks[Victim(m, Reused(m) - 1)] = <<>>
      BY <1>6, <2>1, ReuseStore
    <2>4. BlockFor(m) = Victim(m, Reused(m) - 1)
      BY <1>8 DEF BlockFor
    <2> QED BY <1>1, <1>6, <2>2, <2>3, <2>4 DEF Free
  <1> QED BY <1>7, <1>8

\* pool_add_item_shmem_cache: the new item is the only addition.
LEMMA AddStore ==
  ASSUME NEW R, NEW m \in Stores(R), NEW key \in Keys, m.index[key] = NoId, NEW result \in R
  PROVE  /\ AddItem(m, key, result) \in Stores(R)
         /\ IdForNew(m) \in LiveIds(AddItem(m, key, result)) /\ IdForNew(m) \in Ids
         /\ ItemAt(AddItem(m, key, result), IdForNew(m)).key = key
         /\ ItemAt(AddItem(m, key, result), IdForNew(m)).result = result
         /\ \A id \in LiveIds(AddItem(m, key, result)) : id # IdForNew(m) =>
               /\ id \in LiveIds(m)
               /\ ItemAt(AddItem(m, key, result), id) = ItemAt(m, id)
         /\ AddItem(m, key, result).index[key] = IdForNew(m)
  <1> DEFINE r == ReuseBlocks(m, Reused(m))
             b == BlockFor(m)
             x == [key |-> key, result |-> result, live |-> TRUE]
             new == IdForNew(m)
             a == AddItem(m, key, result)
  <1>1. r \in Stores(R) /\ Fewer(m, r) /\ r \in Memories(R)
    BY RoomFound, ReuseStore DEF Stores
  <1>2. b \in Blocks /\ Len(r.blocks[b]) < BlockItems /\ FreeElement(r)
    BY RoomFound
  <1>3. /\ r.blocks \in [Blocks -> Seq(Items(R))] /\ r.index \in [Keys -> Ids \cup {NoId}]
        /\ r.hand \in Blocks /\ \A c \in Blocks : Len(r.blocks[c]) <= BlockItems
    BY <1>1, MemoryFields DEF Stores, Sound
  <1>4. r.index[key] = NoId
    BY <1>1 DEF Fewer
  <1>5. x \in Items(R) /\ x.key = key /\ x.result = result /\ x.live
    BY DEF Items
  <1>6. new = <<b, Len(r.blocks[b]) + 1>>
    BY DEF IdForNew
  <1>7. /\ a.blocks = [c \in Blocks |-> IF c = b THEN Append(r.blocks[c], x) ELSE r.blocks[c]]
        /\ a.index = [k \in Keys |-> IF k = key THEN new ELSE r.index[k]]
        /\ a.hand = r.hand
        /\ a = [blocks |-> a.blocks, index |-> a.index, hand |-> a.hand]
    BY DEF AddItem
  <1> HIDE DEF r, b, x, new, a
  <1>8. Len(r.blocks[b]) \in Nat /\ Len(r.blocks[b]) + 1 \in 1..BlockItems /\ BlockItems \in Nat
    BY <1>2, <1>3, ShmemCacheAssumption
  <1>9. new \in Ids /\ new[1] = b /\ new[2] = Len(r.blocks[b]) + 1 /\ new # NoId
    <2>1. new \in Ids /\ new[1] = b /\ new[2] = Len(r.blocks[b]) + 1
      BY <1>2, <1>6, <1>8 DEF Ids
    <2> QED BY <1>2, <2>1 DEF NoId, Blocks
  <1>10. /\ Append(r.blocks[b], x) \in Seq(Items(R))
         /\ Len(Append(r.blocks[b], x)) = Len(r.blocks[b]) + 1
         /\ \A j \in 1..Len(r.blocks[b]) : Append(r.blocks[b], x)[j] = r.blocks[b][j]
         /\ Append(r.blocks[b], x)[Len(r.blocks[b]) + 1] = x
    BY <1>2, <1>3, <1>5
  <1>11. a \in Memories(R)
    <2>1. a.blocks \in [Blocks -> Seq(Items(R))]
      BY <1>3, <1>7, <1>10
    <2>2. a.index \in [Keys -> Ids \cup {NoId}] /\ a.hand \in Blocks
      BY <1>3, <1>7, <1>9
    <2> QED BY <1>7, <2>1, <2>2, ZenonT(20) DEF Memories
  <1>12. \A c \in Blocks : Len(a.blocks[c]) <= BlockItems
    BY <1>3, <1>7, <1>8, <1>10
  <1>13. ASSUME NEW id \in Ids
         PROVE  /\ id \in LiveIds(a) <=> id \in LiveIds(r) \/ id = new
                /\ id \in LiveIds(r) => id # new /\ ItemAt(a, id) = ItemAt(r, id)
                /\ ItemAt(a, new) = x
    <2>1. /\ id[1] \in Blocks /\ id[2] \in 1..BlockItems /\ id = <<id[1], id[2]>>
          /\ id \in LiveIds(r) <=> id[2] \in 1..Len(r.blocks[id[1]]) /\ r.blocks[id[1]][id[2]].live
      BY <1>1, LiveItems
    <2>2. id \in LiveIds(a) <=> id[2] \in 1..Len(a.blocks[id[1]]) /\ a.blocks[id[1]][id[2]].live
      BY <1>11, LiveItems
    <2>3. ItemAt(a, new) = x
      BY <1>2, <1>7, <1>9, <1>10 DEF ItemAt
    <2>4. CASE id[1] # b
      BY <1>7, <1>9, <2>1, <2>2, <2>3, <2>4 DEF ItemAt
    <2>5. CASE id[1] = b
      <3>1. a.blocks[id[1]] = Append(r.blocks[b], x)
        BY <1>2, <1>7, <2>5
      <3>2. CASE id[2] = Len(r.blocks[b]) + 1
        <4>1. id = new
          BY <1>6, <2>1, <2>5, <3>2
        <4>2. id \in LiveIds(a) /\ id \notin LiveIds(r)
          BY <1>5, <1>8, <1>10, <2>1, <2>2, <2>5, <3>1, <3>2
        <4> QED BY <2>3, <4>1, <4>2
      <3>3. CASE id[2] # Len(r.blocks[b]) + 1
        <4>1. id # new
          BY <1>9, <3>3
        <4>2. id[2] \in 1..(Len(r.blocks[b]) + 1) <=> id[2] \in 1..Len(r.blocks[b])
          BY <1>8, <2>1, <3>3
        <4> QED BY <1>10, <2>1, <2>2, <2>3, <2>5, <3>1, <4>1, <4>2 DEF ItemAt
      <3> QED BY <3>2, <3>3
    <2> QED BY <2>4, <2>5
  <1>14. LiveIds(a) \subseteq Ids /\ LiveIds(r) \subseteq Ids
    BY DEF LiveIds
  <1>15. Consistent(a)
    <2>1. ASSUME NEW k \in Keys, a.index[k] # NoId
          PROVE  a.index[k] \in LiveIds(a) /\ ItemAt(a, a.index[k]).key = k
      <3>1. CASE k = key
        BY <1>5, <1>7, <1>9, <1>13, <3>1
      <3>2. CASE k # key
        <4>1. a.index[k] = r.index[k]
          BY <1>7, <3>2
        <4>2. r.index[k] \in LiveIds(r) /\ ItemAt(r, r.index[k]).key = k
          BY <1>1, <2>1, <4>1, OneItemPerKey
        <4> QED BY <1>13, <1>14, <4>1, <4>2
      <3> QED BY <3>1, <3>2
    <2>2. ASSUME NEW id \in LiveIds(a) PROVE a.index[ItemAt(a, id).key] = id
      <3>1. CASE id = new
        BY <1>5, <1>7, <1>9, <1>13, <3>1
      <3>2. CASE id # new
        <4>1. id \in LiveIds(r) /\ ItemAt(a, id) = ItemAt(r, id)
          BY <1>13, <1>14, <3>2
        <4>2. /\ ItemAt(r, id).key \in Keys /\ r.index[ItemAt(r, id).key] = id
              /\ id # NoId
          BY <1>1, <1>14, <4>1, OneItemPerKey DEF NoId, Ids, Blocks
        <4>3. ItemAt(r, id).key # key
          BY <1>4, <4>2
        <4> QED BY <1>7, <4>1, <4>2, <4>3
      <3> QED BY <3>1, <3>2
    <2> QED BY <2>1, <2>2, <1>14 DEF Consistent, LiveIds
  <1>16. Cardinality(Used(a)) <= HashElements
    <2>1. Used(a) = Used(r) \cup {key} /\ key \notin Used(r)
      BY <1>4, <1>7, <1>9 DEF Used
    <2>2. IsFiniteSet(Used(r)) /\ Cardinality(Used(r)) \in Nat
      BY FewerElements
    <2>3. Cardinality(Used(a)) = Cardinality(Used(r)) + 1
      BY <2>1, <2>2, FS_AddElement, ZenonT(20)
    <2>4. Cardinality(Used(r)) < HashElements
      BY <1>2 DEF FreeElement, Used
    <2> QED BY <2>2, <2>3, <2>4, ShmemCacheAssumption
  <1>17. a \in Stores(R)
    BY <1>11, <1>12, <1>15, <1>16 DEF Stores, Sound
  <1>18. \A id \in LiveIds(a) : id # new => id \in LiveIds(m) /\ ItemAt(a, id) = ItemAt(m, id)
    BY <1>1, <1>13, <1>14 DEF Fewer
  <1>19. new \in LiveIds(a) /\ ItemAt(a, new) = x
    BY <1>9, <1>13
  <1>20. a.index[key] = new
    BY <1>7
  <1> QED BY <1>5, <1>9, <1>17, <1>18, <1>19, <1>20 DEF a, new

\* What is left of what is left.
LEMMA FewerStill ==
  ASSUME NEW m1, NEW m2, NEW m3, Fewer(m1, m2), Fewer(m2, m3)
  PROVE  Fewer(m1, m3)
  BY DEF Fewer

\* The ids of a map file: none of them is left.
LEMMA DeleteItemsStore ==
  ASSUME NEW R, NEW m \in Stores(R), NEW ids \in Seq(Ids)
  PROVE  /\ DeleteItems(m, ids) \in Stores(R)
         /\ Fewer(m, DeleteItems(m, ids))
         /\ \A i \in 1..Len(ids) : ids[i] \notin LiveIds(DeleteItems(m, ids))
  <1> DEFINE n == Len(ids)
             Eq(g) == g = [i \in 0..n |-> IF i = 0 THEN m ELSE DeleteItem(g[i - 1], ids[i])]
             f == CHOOSE g : Eq(g)
             step == [x \in Stores(R) \X (1..n) |-> DeleteItem(x[1], ids[x[2]])]
  <1>1. n \in Nat /\ \A i \in 1..n : ids[i] \in Ids
    OBVIOUS
  <1>2. DeleteItems(m, ids) = f[n]
    BY DEF DeleteItems
  <1>3. step \in Operations(Stores(R), n)
    BY <1>1, DeleteStore DEF Operations
  <1>4. \A y \in Stores(R), i \in 1..n : step[<<y, i>>] = DeleteItem(y, ids[i])
    OBVIOUS
  <1> HIDE DEF step, n
  <1>5. PICK h \in [0..n -> Stores(R)] :
           h[0] = m /\ \A i \in 1..n : h[i] = step[<<h[i - 1], i>>]
    <2>1. \E h : h \in Runs(Stores(R), m, n, step)
      BY <1>1, <1>3, RunExists
    <2> QED BY <2>1, ZenonT(20) DEF Runs
  <1>6. \A i \in 1..n : h[i] = DeleteItem(h[i - 1], ids[i])
    <2>1. \A i \in 1..n : i - 1 \in 0..n
      BY <1>1
    <2> QED BY <1>4, <1>5, <2>1, ZenonT(20)
  <1>7. h = [i \in 0..n |-> IF i = 0 THEN m ELSE DeleteItem(h[i - 1], ids[i])]
    <2>1. \A i \in 0..n : i = 0 \/ i \in 1..n
      BY <1>1
    <2> QED BY <1>5, <1>6, <2>1
  <1>8. f = [i \in 0..n |-> IF i = 0 THEN m ELSE DeleteItem(f[i - 1], ids[i])]
    <2>1. Eq(h)
      BY <1>7, ZenonT(20)
    <2> HIDE DEF Eq
    <2>2. Eq(f)
      BY <2>1
    <2> QED BY <2>2, ZenonT(20) DEF Eq
  <1> HIDE DEF f
  <1> DEFINE P(i) == /\ f[i] \in Stores(R) /\ Fewer(m, f[i])
                     /\ \A j \in 1..i : ids[j] \notin LiveIds(f[i])
             T == {i \in 0..n : P(i)}
  <1>9. 0 \in T
    <2>1. f[0] = m
      BY <1>1, <1>8
    <2>2. Fewer(m, m)
      BY DEF Fewer
    <2> QED BY <1>1, <2>1, <2>2
  <1>10. ASSUME NEW i \in 0..(n - 1), i \in T PROVE i + 1 \in T
    <2>1. i + 1 \in 0..n /\ i + 1 \in 1..n /\ (i + 1) - 1 = i /\ i + 1 # 0
      BY <1>1
    <2>2. f[i + 1] = DeleteItem(f[i], ids[i + 1])
      BY <1>8, <2>1, ZenonT(20)
    <2>3. P(i) /\ ids[i + 1] \in Ids
      BY <1>1, <1>10, <2>1
    <2>4. f[i + 1] \in Stores(R) /\ Fewer(f[i], f[i + 1]) /\ ids[i + 1] \notin LiveIds(f[i + 1])
      BY <2>2, <2>3, DeleteStore
    <2>5. Fewer(m, f[i + 1])
      BY <2>3, <2>4, FewerStill
    <2>6. \A j \in 1..(i + 1) : j = i + 1 \/ j \in 1..i
      BY <1>1
    <2>7. \A j \in 1..(i + 1) : ids[j] \notin LiveIds(f[i + 1])
      BY <2>3, <2>4, <2>6 DEF Fewer
    <2> QED BY <2>1, <2>4, <2>5, <2>7
  <1> HIDE DEF T
  <1>11. \A i \in 0..n : i \in T
    BY <1>1, <1>9, <1>10, UpTo, ZenonT(20)
  <1>12. n \in T
    BY <1>1, <1>11
  <1> QED BY <1>2, <1>12 DEF T, n

-----------------------------------------------------------------------------
(* The invariants of QueryCache                                            *)

Contents == [Tables -> Versions] \cup {None}

Places == {"idle", "expiring", "reading", "got", "mapping", "wrote", "committed"}

SessionType ==
  [at : Places, asked : Queries \cup {None}, result : Results \cup {None},
   id : Ids \cup {NoId}, tstate : {"I", "T", "E"}, writing : BOOLEAN,
   own : [Tables -> Versions], dml : Seq(Tables), kept : Seq(Results),
   oidKnown : BOOLEAN]

\* What a child's record holds at each place.
SessionInv(ses) ==
  /\ ses.at \in {"expiring", "reading", "got", "mapping"} => ses.asked \in Queries
  /\ ses.at = "got" => ses.result \in Results /\ ses.result.query = ses.asked
  /\ ses.at = "mapping" => ses.id \in Ids
  /\ ses.at \in {"got", "mapping", "wrote", "committed"} => ses.tstate = "I"
  /\ ses.tstate = "I" => ses.own = NoWrites
  /\ ses.tstate = "I" /\ ses.at # "committed" => ses.kept = <<>>
  /\ ses.at \in {"expiring", "reading"} => Len(ses.kept) < MaxKept
  /\ Len(ses.kept) <= MaxKept
  /\ \A t \in Tables : ses.own[t] # 0 => Contains(ses.dml, t)

TypeInv ==
  /\ mem \in Stores(Contents)
  /\ map \in [Tables -> Seq(Ids)]
  /\ lock \in Sessions \cup {None}
  /\ db \in [Tables -> Versions]
  /\ writes \in Versions
  /\ sess \in [Sessions -> SessionType]
  /\ \A s \in Sessions : SessionInv(sess[s])
  /\ late \subseteq Ids
  /\ missed \subseteq Tables

\* An undeleted result is in the map files of its tables, or the child that
\* stored it for this very query is about to enter it.
Mapped(f, id, q) == \A t \in TablesOf[q] : Contains(f[t], id)

Mapping(id, q) ==
  \E s \in Sessions : sess[s].at = "mapping" /\ sess[s].id = id /\ sess[s].asked = q

MapInv ==
  \A id \in LiveIds(mem) :
    LET q == ItemAt(mem, id).key IN q = Catalog \/ Mapping(id, q) \/ Mapped(map, id, q)

\* Two transactions never have both written a table: the row is locked.
RowInv == \A s, o \in Sessions : s # o => \A t \in Tables : sess[s].own[t] = 0 \/ sess[o].own[t] = 0

\* Another child is about to invalidate the results of the table.
PendingElsewhere(s, t) ==
  \E o \in Sessions \ {s} : sess[o].at \in {"wrote", "committed"} /\ Contains(sess[o].dml, t)

\* A result that a child holds shows what the child's transaction sees, unless
\* an invalidation came or is to come.
Fresh(s, r) ==
  \/ r.raced
  \/ \A t \in TablesOf[r.query] :
       t \in missed \/ PendingElsewhere(s, t) \/ r.seen[t] = Visible(s, t)

HeldInv ==
  \A s \in Sessions :
    /\ sess[s].at = "got" => Fresh(s, sess[s].result)
    /\ \A i \in 1..Len(sess[s].kept) : Fresh(s, sess[s].kept[i])

CurrentInv == RowInv /\ HeldInv /\ CachedResultsAreCurrent

-----------------------------------------------------------------------------
(* Steps on the storage and the map files                                  *)

\* the storage, the map files and the ids stored late
Caches == [mem : Stores(Contents), map : [Tables -> Seq(Ids)], late : SUBSET Ids]

\* Every result is in its map files or in M, the ids about to be entered.
Covered(c, M) ==
  \A id \in LiveIds(c.mem) :
    \/ ItemAt(c.mem, id).key = Catalog
    \/ <<id, ItemAt(c.mem, id).key>> \in M
    \/ Mapped(c.map, id, ItemAt(c.mem, id).key)

\* Every result was stored late or shows versions that are all right by V.
Good(c, V) ==
  \A id \in LiveIds(c.mem) :
    \/ ItemAt(c.mem, id).key = Catalog
    \/ id \in c.late
    \/ \A t \in TablesOf[ItemAt(c.mem, id).key] : <<t, ItemAt(c.mem, id).result[t]>> \in V

CachesWith(M, V) == {c \in Caches : Covered(c, M) /\ Good(c, V)}

\* The tables of a key of the storage.
LEMMA KeyTables ==
  /\ \A q \in Queries : q \in Keys /\ q # Catalog /\ TablesOf[q] \in SUBSET Tables
  /\ Catalog \in Keys
  /\ \A k \in Keys : k # Catalog => k \in Queries
  BY QueryCacheAssumption

\* pool_add_table_oid_map only adds entries, among them those it is called for.
LEMMA Registered ==
  ASSUME NEW f \in [Tables -> Seq(Ids)], NEW q \in Queries, NEW id \in Ids
  PROVE  /\ Register(f, q, id) \in [Tables -> Seq(Ids)]
         /\ Mapped(Register(f, q, id), id, q)
         /\ \A t \in Tables, x \in Ids : Contains(f[t], x) => Contains(Register(f, q, id)[t], x)
  <1>1. ASSUME NEW t \in Tables
        PROVE  /\ Register(f, q, id)[t] \in Seq(Ids)
               /\ t \in TablesOf[q] => Contains(Register(f, q, id)[t], id)
               /\ \A x \in Ids : Contains(f[t], x) => Contains(Register(f, q, id)[t], x)
    <2>1. f[t] \in Seq(Ids)
      OBVIOUS
    <2>2. CASE t \in TablesOf[q] /\ ~Contains(f[t], id)
      <3>1. Register(f, q, id)[t] = Append(f[t], id)
        BY <2>2 DEF Register
      <3>2. /\ Append(f[t], id) \in Seq(Ids) /\ Len(Append(f[t], id)) = Len(f[t]) + 1
            /\ \A i \in 1..Len(f[t]) : Append(f[t], id)[i] = f[t][i]
            /\ Append(f[t], id)[Len(f[t]) + 1] = id /\ Len(f[t]) \in Nat
        BY <2>1
      <3> QED BY <3>1, <3>2 DEF Contains
    <2>3. CASE ~(t \in TablesOf[q] /\ ~Contains(f[t], id))
      BY <2>1, <2>3 DEF Register
    <2> QED BY <2>2, <2>3
  <1>2. Register(f, q, id) \in [Tables -> Seq(Ids)]
    BY <1>1 DEF Register
  <1>3. Mapped(Register(f, q, id), id, q)
    BY <1>1, KeyTables DEF Mapped
  <1> QED BY <1>1, <1>2, <1>3

\* pool_commit_cache: a result is stored with its map entries.
LEMMA CommitCacheIn ==
  ASSUME NEW M, NEW V, NEW c \in CachesWith(M, V), NEW r \in Results,
         r.raced \/ \A t \in TablesOf[r.query] : <<t, r.seen[t]>> \in V
  PROVE  CommitCache(c, r) \in CachesWith(M, V)
  <1>1. CASE Search(c.mem, r.query) # NoId
    BY <1>1 DEF CommitCache
  <1>2. CASE Search(c.mem, r.query) = NoId
    <2> DEFINE id == IdForNew(c.mem)
               a == AddItem(c.mem, r.query, r.seen)
               f == Register(c.map, r.query, id)
               l == IF r.raced THEN c.late \cup {id} ELSE c.late \ {id}
    <2>1. /\ c.mem \in Stores(Contents) /\ c.map \in [Tables -> Seq(Ids)] /\ c.late \subseteq Ids
          /\ Covered(c, M) /\ Good(c, V)
      BY DEF CachesWith, Caches
    <2>2. r.query \in Queries /\ r.query \in Keys /\ r.seen \in Contents
      BY KeyTables DEF Results, Contents
    <2>3. c.mem.index[r.query] = NoId
      BY <1>2 DEF Search
    <2>4. /\ a \in Stores(Contents) /\ id \in LiveIds(a) /\ id \in Ids
          /\ ItemAt(a, id).key = r.query /\ ItemAt(a, id).result = r.seen
          /\ \A x \in LiveIds(a) : x # id => x \in LiveIds(c.mem) /\ ItemAt(a, x) = ItemAt(c.mem, x)
      BY <2>1, <2>2, <2>3, AddStore
    <2>5. /\ f \in [Tables -> Seq(Ids)] /\ Mapped(f, id, r.query)
          /\ \A t \in Tables, x \in Ids : Contains(c.map[t], x) => Contains(f[t], x)
      BY <2>1, <2>2, <2>4, Registered
    <2>6. CommitCache(c, r) = [mem |-> a, map |-> f, late |-> l]
      BY <1>2 DEF CommitCache
    <2>7. l \subseteq Ids /\ (r.raced => id \in l) /\ \A x \in c.late : x # id => x \in l
      BY <2>1, <2>4
    <2> HIDE DEF id, a, f, l
    <2> DEFINE n == [mem |-> a, map |-> f, late |-> l]
    <2>8. n \in Caches /\ n.mem = a /\ n.map = f /\ n.late = l
      BY <2>4, <2>5, <2>7 DEF Caches
    <2> HIDE DEF n
    <2>9. ASSUME NEW x \in LiveIds(a), x # id
          PROVE  x \in LiveIds(c.mem) /\ ItemAt(a, x) = ItemAt(c.mem, x) /\ x \in Ids
                 /\ (ItemAt(a, x).key # Catalog => ItemAt(a, x).key \in Queries)
      BY <2>1, <2>4, <2>9, OneItemPerKey, KeyTables
    <2>10. Covered(n, M)
      <3> SUFFICES ASSUME NEW x \in LiveIds(a)
                   PROVE  \/ ItemAt(a, x).key = Catalog
                          \/ <<x, ItemAt(a, x).key>> \in M
                          \/ Mapped(f, x, ItemAt(a, x).key)
        BY <2>8 DEF Covered
      <3>1. CASE x = id
        BY <2>4, <2>5, <3>1
      <3>2. CASE x # id
        <4>1. \/ ItemAt(a, x).key = Catalog \/ <<x, ItemAt(a, x).key>> \in M
              \/ Mapped(c.map, x, ItemAt(a, x).key)
          BY <2>1, <2>9, <3>2 DEF Covered
        <4>2. ItemAt(a, x).key # Catalog /\ Mapped(c.map, x, ItemAt(a, x).key)
              => Mapped(f, x, ItemAt(a, x).key)
          BY <2>5, <2>9, <3>2, KeyTables DEF Mapped
        <4> QED BY <4>1, <4>2
      <3> QED BY <3>1, <3>2
    <2>11. Good(n, V)
      <3> SUFFICES ASSUME NEW x \in LiveIds(a)
                   PROVE  \/ ItemAt(a, x).key = Catalog \/ x \in l
                          \/ \A t \in TablesOf[ItemAt(a, x).key] : <<t, ItemAt(a, x).result[t]>> \in V
        BY <2>8 DEF Good
      <3>1. CASE x = id
        BY <2>4, <2>7, <3>1
      <3>2. CASE x # id
        BY <2>1, <2>7, <2>9, <3>2 DEF Good
      <3> QED BY <3>1, <3>2
    <2> QED BY <2>6, <2>8, <2>10, <2>11 DEF CachesWith, n
  <1> QED BY <1>1, <1>2

\* The results kept in a transaction are stored one after the other.
LEMMA CommitAllIn ==
  ASSUME NEW M, NEW V, NEW c \in CachesWith(M, V), NEW rs \in Seq(Results),
         \A i \in 1..Len(rs) :
            rs[i].raced \/ \A t \in TablesOf[rs[i].query] : <<t, rs[i].seen[t]>> \in V
  PROVE  CommitAll(c, rs) \in CachesWith(M, V)
  <1> DEFINE n == Len(rs)
             S == CachesWith(M, V)
             Eq(g) == g = [i \in 0..n |-> IF i = 0 THEN c ELSE CommitCache(g[i - 1], rs[i])]
             f == CHOOSE g : Eq(g)
             step == [x \in S \X (1..n) |-> CommitCache(x[1], rs[x[2]])]
  <1>1. n \in Nat /\ \A i \in 1..n : rs[i] \in Results
    OBVIOUS
  <1>2. CommitAll(c, rs) = f[n]
    BY DEF CommitAll
  <1>3. \A y \in S, i \in 1..n : CommitCache(y, rs[i]) \in S
    BY <1>1, CommitCacheIn
  <1>4. step \in Operations(S, n)
    BY <1>3 DEF Operations
  <1>5. \A y \in S, i \in 1..n : step[<<y, i>>] = CommitCache(y, rs[i])
    OBVIOUS
  <1> HIDE DEF step, n, S
  <1>6. PICK h \in [0..n -> S] : h[0] = c /\ \A i \in 1..n : h[i] = step[<<h[i - 1], i>>]
    <2>1. \E h : h \in Runs(S, c, n, step)
      BY <1>1, <1>4, RunExists DEF S
    <2> QED BY <2>1, ZenonT(20) DEF Runs
  <1>7. h = [i \in 0..n |-> IF i = 0 THEN c ELSE CommitCache(h[i - 1], rs[i])]
    <2>1. \A i \in 0..n : i = 0 \/ (i \in 1..n /\ i - 1 \in 0..n)
      BY <1>1
    <2>2. ASSUME NEW i \in 1..n PROVE h[i] = CommitCache(h[i - 1], rs[i])
      <3>1. h[i - 1] \in S
        BY <1>1, <1>6
      <3> QED BY <1>5, <1>6, <3>1, ZenonT(20)
    <2> QED BY <1>6, <2>1, <2>2
  <1>8. f = [i \in 0..n |-> IF i = 0 THEN c ELSE CommitCache(f[i - 1], rs[i])]
    <2>1. Eq(h)
      BY <1>7, ZenonT(20)
    <2> HIDE DEF Eq
    <2>2. Eq(f)
      BY <2>1
    <2> QED BY <2>2 DEF Eq
  <1> HIDE DEF f
  <1> DEFINE T == {i \in 0..n : f[i] \in S}
  <1>9. 0 \in T
    <2>1. f[0] = c
      BY <1>1, <1>8
    <2> QED BY <1>1, <2>1 DEF S
  <1>10. ASSUME NEW i \in 0..(n - 1), i \in T PROVE i + 1 \in T
    <2>1. i + 1 \in 0..n /\ i + 1 \in 1..n /\ (i + 1) - 1 = i /\ i + 1 # 0
      BY <1>1
    <2>2. f[i + 1] = CommitCache(f[i], rs[i + 1])
      BY <1>8, <2>1, ZenonT(20)
    <2> QED BY <1>3, <1>10, <2>1, <2>2
  <1> HIDE DEF T
  <1>11. \A i \in 0..n : i \in T
    BY <1>1, <1>9, <1>10, UpTo, ZenonT(20)
  <1>12. n \in T
    BY <1>1, <1>11
  <1> QED BY <1>2, <1>12 DEF T, S

\* pool_catalog_commit_cache adds at most the entry of the database oid.
LEMMA CommitCatalogStore ==
  ASSUME NEW m \in Stores(Contents)
  PROVE  /\ CommitCatalog(m) \in Stores(Contents)
         /\ \A id \in LiveIds(CommitCatalog(m)) :
               \/ ItemAt(CommitCatalog(m), id).key = Catalog
               \/ id \in LiveIds(m) /\ ItemAt(CommitCatalog(m), id) = ItemAt(m, id)
  <1>1. CASE Search(m, Catalog) # NoId
    BY <1>1 DEF CommitCatalog
  <1>2. CASE Search(m, Catalog) = NoId
    <2>1. CommitCatalog(m) = AddItem(m, Catalog, None)
      BY <1>2 DEF CommitCatalog
    <2>2. m.index[Catalog] = NoId /\ Catalog \in Keys /\ None \in Contents
      BY <1>2, KeyTables DEF Search, Contents
    <2> QED BY <2>1, <2>2, AddStore
  <1> QED BY <1>1, <1>2

\* The map files of the tables: none of the ids in them is left.
LEMMA DeleteListedStore ==
  ASSUME NEW m \in Stores(Contents), NEW oids \in Seq(Tables), map \in [Tables -> Seq(Ids)]
  PROVE  /\ DeleteListed(m, oids) \in Stores(Contents)
         /\ Fewer(m, DeleteListed(m, oids))
         /\ \A i \in 1..Len(oids), id \in Ids :
               Contains(map[oids[i]], id) => id \notin LiveIds(DeleteListed(m, oids))
  <1> DEFINE n == Len(oids)
             S == Stores(Contents)
             Eq(g) == g = [i \in 0..n |-> IF i = 0 THEN m ELSE DeleteItems(g[i - 1], map[oids[i]])]
             f == CHOOSE g : Eq(g)
             step == [x \in S \X (1..n) |-> DeleteItems(x[1], map[oids[x[2]]])]
  <1>1. n \in Nat /\ \A i \in 1..n : oids[i] \in Tables /\ map[oids[i]] \in Seq(Ids)
    OBVIOUS
  <1>2. DeleteListed(m, oids) = f[n]
    BY DEF DeleteListed
  <1>3. ASSUME NEW y \in S, NEW i \in 1..n
        PROVE  /\ DeleteItems(y, map[oids[i]]) \in S /\ Fewer(y, DeleteItems(y, map[oids[i]]))
               /\ \A id \in Ids : Contains(map[oids[i]], id)
                     => id \notin LiveIds(DeleteItems(y, map[oids[i]]))
    BY <1>1, DeleteItemsStore DEF Contains
  <1>4. step \in Operations(S, n)
    BY <1>3 DEF Operations
  <1>5. \A y \in S, i \in 1..n : step[<<y, i>>] = DeleteItems(y, map[oids[i]])
    OBVIOUS
  <1> HIDE DEF step, n, S
  <1>6. PICK h \in [0..n -> S] : h[0] = m /\ \A i \in 1..n : h[i] = step[<<h[i - 1], i>>]
    <2>1. \E h : h \in Runs(S, m, n, step)
      BY <1>1, <1>4, RunExists DEF S
    <2> QED BY <2>1, ZenonT(20) DEF Runs
  <1>7. h = [i \in 0..n |-> IF i = 0 THEN m ELSE DeleteItems(h[i - 1], map[oids[i]])]
    <2>1. \A i \in 0..n : i = 0 \/ (i \in 1..n /\ i - 1 \in 0..n)
      BY <1>1
    <2>2. ASSUME NEW i \in 1..n PROVE h[i] = DeleteItems(h[i - 1], map[oids[i]])
      <3>1. h[i - 1] \in S
        BY <1>1, <1>6
      <3> QED BY <1>5, <1>6, <3>1, ZenonT(20)
    <2> QED BY <1>6, <2>1, <2>2
  <1>8. f = [i \in 0..n |-> IF i = 0 THEN m ELSE DeleteItems(f[i - 1], map[oids[i]])]
    <2>1. Eq(h)
      BY <1>7, ZenonT(20)
    <2> HIDE DEF Eq
    <2>2. Eq(f)
      BY <2>1
    <2> QED BY <2>2, ZenonT(20) DEF Eq
  <1> HIDE DEF f
  <1> DEFINE P(i) == /\ f[i] \in S /\ Fewer(m, f[i])
                     /\ \A j \in 1..i, id \in Ids :
                           Contains(map[oids[j]], id) => id \notin LiveIds(f[i])
             T == {i \in 0..n : P(i)}
  <1>9. 0 \in T
    <2>1. f[0] = m /\ 1..0 = {}
      BY <1>1, <1>8
    <2>2. Fewer(m, m)
      BY DEF Fewer
    <2> QED BY <1>1, <2>1, <2>2 DEF S
  <1>10. ASSUME NEW i \in 0..(n - 1), i \in T PROVE i + 1 \in T
    <2>1. i + 1 \in 0..n /\ i + 1 \in 1..n /\ (i + 1) - 1 = i /\ i + 1 # 0
      BY <1>1
    <2>2. f[i + 1] = DeleteItems(f[i], map[oids[i + 1]])
      BY <1>8, <2>1, ZenonT(20)
    <2>3. P(i)
      BY <1>10
    <2>4. /\ f[i + 1] \in S /\ Fewer(f[i], f[i + 1])
          /\ \A id \in Ids : Contains(map[oids[i + 1]], id) => id \notin LiveIds(f[i + 1])
      BY <1>3, <2>1, <2>2, <2>3
    <2>5. Fewer(m, f[i + 1])
      BY <2>3, <2>4, FewerStill
    <2>6. \A j \in 1..(i + 1) : j = i + 1 \/ j \in 1..i
      BY <1>1
    <2>7. \A j \in 1..(i + 1), id \in Ids :
             Contains(map[oids[j]], id) => id \notin LiveIds(f[i + 1])
      BY <2>3, <2>4, <2>6 DEF Fewer
    <2> QED BY <2>1, <2>4, <2>5, <2>7
  <1> HIDE DEF T
  <1>11. \A i \in 0..n : i \in T
    BY <1>1, <1>9, <1>10, UpTo, ZenonT(20)
  <1>12. n \in T
    BY <1>1, <1>11
  <1> QED BY <1>2, <1>12 DEF T, n, S

\* the ids a child is about to enter into the map files
MappingIds ==
  {<<sess[o].id, sess[o].asked>> : o \in {x \in Sessions : sess[x].at = "mapping"}}

\* pool_invalidate_query_cache: every result of the tables goes, but those that
\* another child has just stored and not yet entered; those are late now.
LEMMA InvalidateIn ==
  ASSUME NEW s \in Sessions, sess[s].at # "mapping", NEW oids \in Seq(Tables), NEW V, NEW W,
         [mem |-> mem, map |-> map, late |-> late] \in CachesWith(MappingIds, V),
         \A t \in Tables : \A v : <<t, v>> \in V /\ ~Contains(oids, t) => <<t, v>> \in W
  PROVE  Invalidate(s, oids) \in CachesWith(MappingIds, W)
  <1> DEFINE known == IF OidFound(s, mem) THEN mem ELSE CommitCatalog(mem)
             left == DeleteListed(known, oids)
             f == [t \in Tables |-> IF Contains(oids, t) THEN <<>> ELSE map[t]]
             l == (late \cup Unmapped(s, Range(oids))) \cap LiveIds(left)
             c0 == [mem |-> mem, map |-> map, late |-> late]
             n == [mem |-> left, map |-> f, late |-> l]
  <1>1. /\ mem \in Stores(Contents) /\ map \in [Tables -> Seq(Ids)] /\ late \subseteq Ids
        /\ Covered(c0, MappingIds) /\ Good(c0, V)
    BY DEF CachesWith, Caches
  <1>2. /\ known \in Stores(Contents)
        /\ \A id \in LiveIds(known) : \/ ItemAt(known, id).key = Catalog
                                      \/ id \in LiveIds(mem) /\ ItemAt(known, id) = ItemAt(mem, id)
    BY <1>1, CommitCatalogStore, ZenonT(20)
  <1>3. Invalidate(s, oids) = n
    BY DEF Invalidate
  <1> HIDE DEF known
  <1>4. /\ left \in Stores(Contents) /\ Fewer(known, left)
        /\ \A i \in 1..Len(oids), id \in Ids : Contains(map[oids[i]], id) => id \notin LiveIds(left)
    BY <1>1, <1>2, DeleteListedStore
  <1> HIDE DEF left
  <1>5. \A t \in Tables, id \in Ids :
           Contains(oids, t) /\ Contains(map[t], id) => id \notin LiveIds(left)
    BY <1>4 DEF Contains
  <1>6. /\ f \in [Tables -> Seq(Ids)] /\ \A t \in Tables : ~Contains(oids, t) => f[t] = map[t]
    BY <1>1
  <1>7. LiveIds(left) \subseteq Ids
    BY DEF LiveIds
  <1>8. n \in Caches /\ n.mem = left /\ n.map = f /\ n.late = l
    BY <1>4, <1>6, <1>7, ZenonT(20) DEF Caches
  <1>9. ASSUME NEW id \in LiveIds(left), ItemAt(left, id).key # Catalog
        PROVE  /\ id \in LiveIds(mem) /\ ItemAt(left, id) = ItemAt(mem, id) /\ id \in Ids
               /\ TablesOf[ItemAt(mem, id).key] \in SUBSET Tables
    <2>1. id \in LiveIds(known) /\ ItemAt(left, id) = ItemAt(known, id)
      BY <1>4, ZenonT(20) DEF Fewer
    <2>2. id \in LiveIds(mem) /\ ItemAt(left, id) = ItemAt(mem, id)
      BY <1>2, <1>9, <2>1, ZenonT(20)
    <2>3. ItemAt(mem, id).key \in Keys
      BY <1>1, <2>2, OneItemPerKey
    <2> QED BY <1>7, <1>9, <2>2, <2>3, KeyTables, ZenonT(20)
  <1> HIDE DEF n, f, l
  <1>10. ASSUME NEW id \in LiveIds(left), ItemAt(left, id).key # Catalog
         PROVE  \/ <<id, ItemAt(left, id).key>> \in MappingIds
                \/ /\ Mapped(map, id, ItemAt(left, id).key)
                   /\ \A t \in TablesOf[ItemAt(left, id).key] : ~Contains(oids, t)
    <2>1. \/ <<id, ItemAt(left, id).key>> \in MappingIds \/ Mapped(map, id, ItemAt(left, id).key)
      BY <1>1, <1>9, <1>10, ZenonT(20) DEF Covered
    <2> QED BY <1>5, <1>9, <1>10, <2>1, ZenonT(20) DEF Mapped
  <1>11. Covered(n, MappingIds)
    <2> SUFFICES ASSUME NEW id \in LiveIds(left), ItemAt(left, id).key # Catalog
                 PROVE  \/ <<id, ItemAt(left, id).key>> \in MappingIds
                        \/ Mapped(f, id, ItemAt(left, id).key)
      BY <1>8, ZenonT(20) DEF Covered
    <2> QED BY <1>6, <1>9, <1>10, ZenonT(20) DEF Mapped
  <1>12. Good(n, W)
    <2> SUFFICES ASSUME NEW id \in LiveIds(left), ItemAt(left, id).key # Catalog
                 PROVE  \/ id \in l
                        \/ \A t \in TablesOf[ItemAt(left, id).key] :
                              <<t, ItemAt(left, id).result[t]>> \in W
      BY <1>8, ZenonT(20) DEF Good
    <2>1. CASE id \in late
      BY <2>1, ZenonT(20) DEF l
    <2>2. CASE \A t \in TablesOf[ItemAt(left, id).key] : ~Contains(oids, t)
      <3>1. \/ id \in late
            \/ \A t \in TablesOf[ItemAt(left, id).key] : <<t, ItemAt(left, id).result[t]>> \in V
        BY <1>1, <1>9 DEF Good
      <3> QED BY <1>9, <2>1, <2>2, <3>1
    <2>3. CASE \E t \in TablesOf[ItemAt(left, id).key] : Contains(oids, t)
      <3>1. <<id, ItemAt(left, id).key>> \in MappingIds
        BY <1>10, <2>3
      <3>2. PICK o \in Sessions : /\ sess[o].at = "mapping" /\ sess[o].id = id
                                  /\ sess[o].asked = ItemAt(left, id).key
        BY <3>1, ZenonT(20) DEF MappingIds
      <3>3. o # s
        BY <3>2, ZenonT(20)
      <3>4. TablesOf[sess[o].asked] \cap Range(oids) # {}
        BY <2>3, <3>2 DEF Contains, Range
      <3>5. id \in Unmapped(s, Range(oids))
        BY <3>2, <3>3, <3>4 DEF Unmapped
      <3> QED BY <3>5 DEF l
    <2> QED BY <2>2, <2>3, ZenonT(20)
  <1> QED BY <1>3, <1>8, <1>11, <1>12 DEF CachesWith

-----------------------------------------------------------------------------
(* Steps of the sessions                                                   *)

SessOK == sess \in [Sessions -> SessionType] /\ \A s \in Sessions : SessionInv(sess[s])

\* A step of the child's that invalidates nothing and changes no contents:
\* it holds no new result, and keeps the old ones only if it sees the same.
Quiet(s) ==
  /\ SessOK'
  /\ \A o \in Sessions \ {s} : sess'[o] = sess[o]
  /\ sess[s].at \notin {"wrote", "committed"}
  /\ sess'[s].at \notin {"got", "wrote", "committed"}
  /\ \/ sess'[s].kept = <<>>
     \/ sess'[s].kept = sess[s].kept /\ sess'[s].own = sess[s].own
  /\ \A t \in Tables : sess'[s].own[t] \in {0, sess[s].own[t]}
  /\ db' = db /\ missed' = missed

\* A step of one child changes its record only.
LEMMA SessionStep ==
  ASSUME SessOK, NEW s \in Sessions, NEW new \in SessionType, SessionInv(new),
         sess' = [sess EXCEPT ![s] = new]
  PROVE  SessOK' /\ sess'[s] = new /\ \A o \in Sessions \ {s} : sess'[o] = sess[o]
  <1>1. sess' \in [Sessions -> SessionType] /\ sess'[s] = new
        /\ \A o \in Sessions \ {s} : sess'[o] = sess[o]
    BY DEF SessOK
  <1>2. \A o \in Sessions : SessionInv(sess'[o])
    BY <1>1 DEF SessOK
  <1> QED BY <1>1, <1>2 DEF SessOK

\* The SELECT is sent to the backend.
LEMMA SendStep ==
  ASSUME SessOK, NEW s \in Sessions, NEW q \in Queries, sess[s].at \in {"idle", "expiring"},
         Len(sess[s].kept) < MaxKept, SendSelect(s, q), db' = db, missed' = missed
  PROVE  Quiet(s)
  <1> DEFINE new == [sess[s] EXCEPT !.at = "reading", !.asked = q, !.id = NoId]
  <1>1. sess[s] \in SessionType /\ SessionInv(sess[s])
    BY DEF SessOK
  <1>2. sess' = [sess EXCEPT ![s] = new]
    BY ZenonT(20) DEF SendSelect, SessOK
  <1>3. new \in SessionType
    BY <1>1, ZenonT(20) DEF SessionType, Places
  <1>4. /\ new.at = "reading" /\ new.asked = q /\ new.tstate = sess[s].tstate
        /\ new.own = sess[s].own /\ new.kept = sess[s].kept /\ new.dml = sess[s].dml
    BY <1>1 DEF SessionType
  <1> HIDE DEF new
  <1>5. SessionInv(new)
    BY <1>1, <1>4 DEF SessionInv
  <1> QED BY <1>1, <1>2, <1>3, <1>4, <1>5, SessionStep, ZenonT(20) DEF Quiet

\* An expired item was found.
LEMMA FetchExpiredStep ==
  ASSUME TypeInv, NEW s \in Sessions, NEW q \in Queries, FetchExpired(s, q)
  PROVE  Quiet(s)
  <1> DEFINE new == [sess[s] EXCEPT !.at = "expiring", !.asked = q, !.id = Search(mem, q)]
  <1>1. SessOK /\ sess[s] \in SessionType /\ SessionInv(sess[s])
    BY DEF SessOK, TypeInv
  <1>2. sess' = [sess EXCEPT ![s] = new]
    BY <1>1, ZenonT(20) DEF FetchExpired, SessOK
  <1>3. Search(mem, q) \in Ids \cup {NoId}
    BY KeyTables DEF TypeInv, Search, Stores, Memories
  <1>4. new \in SessionType
    BY <1>1, <1>3, ZenonT(20) DEF SessionType, Places
  <1>5. /\ new.at = "expiring" /\ new.asked = q /\ new.tstate = sess[s].tstate
        /\ new.own = sess[s].own /\ new.kept = sess[s].kept /\ new.dml = sess[s].dml
    BY <1>1 DEF SessionType
  <1> HIDE DEF new
  <1>6. sess[s].at = "idle" /\ Len(sess[s].kept) < MaxKept /\ db' = db /\ missed' = missed
    BY DEF FetchExpired, MaySelect, Idle, history
  <1>7. SessionInv(new)
    BY <1>1, <1>5, <1>6, ZenonT(20) DEF SessionInv
  <1> QED BY <1>1, <1>2, <1>4, <1>5, <1>6, <1>7, SessionStep, ZenonT(20) DEF Quiet

\* The end of a query, a reset of the buffers and the known oid on a record.
LEMMA DoneType ==
  ASSUME NEW x \in SessionType
  PROVE  /\ Done(x) \in SessionType /\ Done(x).at = "idle" /\ Done(x).tstate = x.tstate
         /\ Done(x).own = x.own /\ Done(x).kept = x.kept /\ Done(x).dml = x.dml
  <1>1. Done(x) \in SessionType
    BY ZenonT(20) DEF SessionType, Places, Done
  <1> QED BY <1>1 DEF SessionType, Done

\* A reset of the buffers on a record (pool_reset_memqcache_buffer).
LEMMA ResetType ==
  ASSUME NEW x \in SessionType
  PROVE  /\ Reset(x) \in SessionType /\ Reset(x).at = x.at /\ Reset(x).tstate = x.tstate
         /\ Reset(x).own = x.own /\ Reset(x).kept = <<>> /\ Reset(x).dml = <<>>
         /\ Reset(x).asked = x.asked /\ Reset(x).result = x.result /\ Reset(x).id = x.id
  <1>1. Reset(x) \in SessionType
    <2>1. \A k \in Seq(Results), d \in Seq(Tables) : [x EXCEPT !.kept = k, !.dml = d] \in SessionType
      BY ZenonT(20) DEF SessionType
    <2>2. <<>> \in Seq(Results) /\ <<>> \in Seq(Tables)
      OBVIOUS
    <2> QED BY <2>1, <2>2, ZenonT(20) DEF Reset
  <1> QED BY <1>1 DEF SessionType, Reset

\* The known oid on a record (the relation cache).
LEMMA OidType ==
  ASSUME NEW x \in SessionType, NEW b \in BOOLEAN
  PROVE  LET y == [x EXCEPT !.oidKnown = b]
         IN  /\ y \in SessionType /\ y.at = x.at /\ y.tstate = x.tstate
             /\ y.own = x.own /\ y.kept = x.kept /\ y.dml = x.dml
             /\ y.asked = x.asked /\ y.result = x.result /\ y.id = x.id
  <1> DEFINE y == [x EXCEPT !.oidKnown = b]
  <1>1. y \in SessionType
    BY DEF SessionType
  <1>2. /\ y.at = x.at /\ y.tstate = x.tstate
        /\ y.own = x.own /\ y.kept = x.kept /\ y.dml = x.dml
        /\ y.asked = x.asked /\ y.result = x.result /\ y.id = x.id
    BY DEF SessionType
  <1> QED BY <1>1, <1>2

\* The query ends and the buffers are reset; the oid of the database may be known now.
LEMMA EndStep ==
  ASSUME SessOK, NEW s \in Sessions, NEW b \in BOOLEAN, sess[s].at \in {"got", "mapping"},
         sess' = [sess EXCEPT ![s] = [Reset(Done(@)) EXCEPT !.oidKnown = b]],
         db' = db, missed' = missed
  PROVE  Quiet(s)
  <1> DEFINE new == [Reset(Done(sess[s])) EXCEPT !.oidKnown = b]
  <1>1. sess[s] \in SessionType /\ SessionInv(sess[s])
    BY DEF SessOK
  <1>2. sess' = [sess EXCEPT ![s] = new]
    BY DEF SessOK
  <1>3. new \in SessionType
    BY <1>1, DoneType, ResetType, OidType
  <1>4. /\ new.at = "idle" /\ new.tstate = sess[s].tstate
        /\ new.own = sess[s].own /\ new.kept = <<>> /\ new.dml = <<>>
    BY <1>1, DoneType, ResetType, OidType
  <1> HIDE DEF new
  <1>5. \A t \in Tables : sess[s].own[t] = 0
    BY <1>1 DEF SessionInv, NoWrites
  <1>6. SessionInv(new)
    BY <1>1, <1>4, <1>5, QueryCacheAssumption DEF SessionInv
  <1> QED BY <1>1, <1>2, <1>3, <1>4, <1>6, SessionStep, ZenonT(20) DEF Quiet

\* BEGIN, a failed UPDATE, ROLLBACK and the reset of an idle child: at most the
\* oids grow, and what was written and kept goes together.
LEMMA IdleStep ==
  ASSUME SessOK, NEW s \in Sessions, sess[s].at = "idle", NEW new \in SessionType,
         sess' = [sess EXCEPT ![s] = new], new.at = "idle",
         \/ new.kept = <<>>
         \/ new.kept = sess[s].kept /\ new.own = sess[s].own /\ new.tstate # "I",
         new.own \in {NoWrites, sess[s].own}, new.tstate = "I" => new.own = NoWrites,
         \A t \in Tables : new.own[t] # 0 => Contains(new.dml, t),
         db' = db, missed' = missed
  PROVE  Quiet(s)
  <1>1. sess[s] \in SessionType /\ SessionInv(sess[s])
    BY DEF SessOK
  <1>2. SessionInv(new)
    <2>1. Len(new.kept) <= MaxKept
      BY <1>1, QueryCacheAssumption DEF SessionInv
    <2> QED BY <2>1 DEF SessionInv
  <1>3. \A t \in Tables : new.own[t] \in {0, sess[s].own[t]}
    BY DEF NoWrites
  <1> QED BY <1>2, <1>3, SessionStep, ZenonT(20) DEF Quiet

\* pool_add_dml_table_oid
LEMMA Oids ==
  ASSUME NEW oids \in Seq(Tables), NEW t \in Tables
  PROVE  /\ AddOid(oids, t) \in Seq(Tables) /\ Contains(AddOid(oids, t), t)
         /\ \A u \in Tables : Contains(oids, u) => Contains(AddOid(oids, t), u)
  <1>1. CASE Contains(oids, t)
    BY <1>1 DEF AddOid
  <1>2. CASE ~Contains(oids, t)
    <2>1. /\ Append(oids, t) \in Seq(Tables) /\ Len(Append(oids, t)) = Len(oids) + 1
          /\ \A i \in 1..Len(oids) : Append(oids, t)[i] = oids[i]
          /\ Append(oids, t)[Len(oids) + 1] = t /\ Len(oids) \in Nat
      OBVIOUS
    <2> QED BY <1>2, <2>1 DEF AddOid, Contains
  <1> QED BY <1>1, <1>2

\* A failed UPDATE leaves its table in oidbuf and what was kept.
LEMMA UpdateFailsStep ==
  ASSUME TypeInv, NEW s \in Sessions, NEW t \in Tables, UpdateFails(s, t)
  PROVE  Quiet(s)
  <1> DEFINE x == sess[s]
             oids == AddOid(x.dml, t)
             ts == IF x.tstate = "T" THEN "E" ELSE "I"
             new == [x EXCEPT !.dml = oids, !.tstate = ts]
  <1>1. SessOK /\ x \in SessionType /\ SessionInv(x) /\ x.dml \in Seq(Tables)
    BY DEF SessOK, TypeInv, SessionType
  <1>2. sess' = [sess EXCEPT ![s] = new]
    BY <1>1, ZenonT(20) DEF UpdateFails, SessOK
  <1>3. oids \in Seq(Tables) /\ \A u \in Tables : Contains(x.dml, u) => Contains(oids, u)
    BY <1>1, Oids
  <1>4. x.at = "idle" /\ x.tstate \in {"I", "T"} /\ db' = db /\ missed' = missed
    BY <1>1 DEF UpdateFails, Idle, history, SessionType
  <1>5. ts \in {"I", "T", "E"} /\ (x.tstate = "I" <=> ts = "I")
    BY <1>4
  <1> HIDE DEF oids, ts
  <1>6. new \in SessionType
    BY <1>1, <1>3, <1>5, ZenonT(20) DEF SessionType
  <1>7. new.at = x.at /\ new.tstate = ts /\ new.own = x.own /\ new.kept = x.kept /\ new.dml = oids
    BY <1>1 DEF SessionType
  <1> HIDE DEF new
  <1> QED BY <1>1, <1>2, <1>3, <1>4, <1>5, <1>6, <1>7, IdleStep, ZenonT(20) DEF SessionInv

\* BEGIN drops what was kept.
LEMMA BeginStep ==
  ASSUME TypeInv, NEW s \in Sessions, Begin(s)
  PROVE  Quiet(s)
  <1> DEFINE x == sess[s]
             new == [x EXCEPT !.tstate = "T", !.kept = <<>>]
  <1>1. SessOK /\ x \in SessionType /\ SessionInv(x)
    BY DEF SessOK, TypeInv
  <1>2. sess' = [sess EXCEPT ![s] = new]
    BY <1>1, ZenonT(20) DEF Begin, SessOK
  <1>3. x.at = "idle" /\ x.tstate = "I" /\ db' = db /\ missed' = missed
    BY DEF Begin, Idle, history
  <1>4. new \in SessionType
    <2>1. \A k \in Seq(Results) : [x EXCEPT !.tstate = "T", !.kept = k] \in SessionType
      BY <1>1, ZenonT(20) DEF SessionType
    <2>2. <<>> \in Seq(Results)
      OBVIOUS
    <2> QED BY <2>1, <2>2, ZenonT(20)
  <1>5. new.at = x.at /\ new.own = x.own /\ new.kept = <<>> /\ new.dml = x.dml /\ new.tstate = "T"
    BY <1>1 DEF SessionType
  <1> HIDE DEF new
  <1> QED BY <1>1, <1>2, <1>3, <1>4, <1>5, IdleStep, ZenonT(20) DEF SessionInv

\* ROLLBACK drops the writes together with what was kept.
LEMMA RollbackStep ==
  ASSUME TypeInv, NEW s \in Sessions, Rollback(s)
  PROVE  Quiet(s)
  <1> DEFINE x == Reset(sess[s])
             new == [x EXCEPT !.tstate = "I", !.own = NoWrites, !.writing = FALSE]
  <1>1. SessOK /\ x \in SessionType /\ x.at = sess[s].at /\ x.kept = <<>>
    BY ResetType DEF SessOK, TypeInv
  <1>2. sess' = [sess EXCEPT ![s] = new]
    BY <1>1 DEF Rollback, SessOK
  <1>3. sess[s].at = "idle" /\ db' = db /\ missed' = missed
    BY DEF Rollback, Idle, history
  <1> HIDE DEF x
  <1>4. NoWrites \in [Tables -> Versions]
    BY QueryCacheAssumption DEF NoWrites, Versions
  <1>5. new \in SessionType
    BY <1>1, <1>4, ZenonT(20) DEF SessionType
  <1>6. new.at = x.at /\ new.own = NoWrites /\ new.kept = x.kept /\ new.dml = x.dml
    BY <1>1 DEF SessionType
  <1> HIDE DEF new
  <1>7. \A t \in Tables : new.own[t] = 0
    BY <1>6 DEF NoWrites
  <1> QED BY <1>1, <1>2, <1>3, <1>5, <1>6, <1>7, IdleStep, ZenonT(20)

\* clear_query_cache resets the buffers of its child.
LEMMA ClearStep ==
  ASSUME TypeInv, NEW s \in Sessions, ClearCache(s)
  PROVE  Quiet(s)
  <1> DEFINE x == sess[s]
             new == Reset(x)
  <1>1. SessOK /\ x \in SessionType /\ SessionInv(x)
    BY DEF SessOK, TypeInv
  <1>2. sess' = [sess EXCEPT ![s] = new]
    BY <1>1 DEF ClearCache, SessOK
  <1>3. x.at = "idle" /\ x.tstate = "I" /\ db' = db /\ missed' = missed
    BY DEF ClearCache, Idle
  <1>4. new \in SessionType /\ new.at = x.at /\ new.own = x.own /\ new.kept = <<>>
    BY <1>1, ResetType
  <1> HIDE DEF new
  <1>5. x.own = NoWrites /\ \A t \in Tables : x.own[t] = 0
    BY <1>1, <1>3 DEF SessionInv, NoWrites
  <1> QED BY <1>1, <1>2, <1>3, <1>4, <1>5, IdleStep, ZenonT(20)

\* The item is stored under the new id, and the map entries are to come.
LEMMA StoreItemStep ==
  ASSUME TypeInv, NEW s \in Sessions, StoreItem(s)
  PROVE  Quiet(s) /\ sess'[s].at = "mapping" /\ sess'[s].asked = sess[s].asked
         /\ sess'[s].id = IdForNew(mem)
  <1> DEFINE x == sess[s]
             id == IdForNew(mem)
             new == [x EXCEPT !.at = "mapping", !.id = id]
  <1>1. SessOK /\ x \in SessionType /\ SessionInv(x)
    BY DEF SessOK, TypeInv
  <1>2. sess' = [sess EXCEPT ![s] = new]
    BY <1>1, ZenonT(20) DEF StoreItem, SessOK
  <1>3. /\ x.at = "got" /\ db' = db /\ missed' = missed /\ mem.index[x.asked] = NoId
        /\ x.asked \in Queries /\ x.asked \in Keys /\ x.tstate = "I" /\ x.own = NoWrites
        /\ x.kept = <<>>
    BY <1>1, KeyTables DEF StoreItem, Search, SessionInv
  <1>4. id \in Ids
    <2>1. x.result \in Results /\ x.result.seen \in Contents
      BY <1>1, <1>3, ZenonT(20) DEF SessionInv, Results, Contents
    <2>2. mem \in Stores(Contents)
      BY DEF TypeInv
    <2>3. ASSUME NEW key \in Keys, NEW seen \in Contents, mem.index[key] = NoId
          PROVE  IdForNew(mem) \in Ids
      BY <2>2, <2>3, AddStore
    <2>4. IdForNew(mem) \in Ids
      BY <1>3, <2>1, <2>3, ZenonT(20)
    <2> QED BY <2>4, ZenonT(20)
  <1> HIDE DEF id
  <1>5. new \in SessionType
    BY <1>1, <1>4, ZenonT(20) DEF SessionType, Places
  <1>6. /\ new.at = "mapping" /\ new.id = id /\ new.asked = x.asked /\ new.tstate = x.tstate
        /\ new.own = x.own /\ new.kept = x.kept /\ new.dml = x.dml
    BY <1>1 DEF SessionType
  <1> HIDE DEF new
  <1>7. SessionInv(new)
    BY <1>1, <1>3, <1>4, <1>6, ZenonT(20) DEF SessionInv
  <1>8. SessOK' /\ sess'[s] = new /\ \A o \in Sessions \ {s} : sess'[o] = sess[o]
    BY <1>1, <1>2, <1>5, <1>7, SessionStep, ZenonT(20)
  <1> QED BY <1>3, <1>6, <1>8 DEF Quiet, id

\* The key is searched again: the SELECT is sent, or answered.
LEMMA FetchAgainStep ==
  ASSUME TypeInv, NEW s \in Sessions, FetchAgain(s)
  PROVE  Quiet(s)
  <1> DEFINE x == sess[s]
  <1>1. SessOK /\ x \in SessionType /\ SessionInv(x)
    BY DEF SessOK, TypeInv
  <1>2. /\ x.at = "expiring" /\ db' = db /\ missed' = missed
        /\ x.asked \in Queries /\ Len(x.kept) < MaxKept
    BY <1>1, ZenonT(20) DEF FetchAgain, SessionInv, history
  <1>3. CASE SendSelect(s, x.asked)
    BY <1>1, <1>2, <1>3, SendStep
  <1>4. CASE sess' = [sess EXCEPT ![s] = Done(@)]
    <2> DEFINE new == Done(x)
    <2>1. sess' = [sess EXCEPT ![s] = new]
      BY <1>1, <1>4 DEF SessOK
    <2>2. /\ new \in SessionType /\ new.at = "idle" /\ new.tstate = x.tstate
          /\ new.own = x.own /\ new.kept = x.kept /\ new.dml = x.dml
      BY <1>1, DoneType
    <2> HIDE DEF new
    <2>3. SessionInv(new)
      BY <1>1, <1>2, <2>2 DEF SessionInv
    <2> QED BY <1>1, <1>2, <2>1, <2>2, <2>3, SessionStep, ZenonT(20) DEF Quiet
  <1> QED BY <1>3, <1>4 DEF FetchAgain

\* The end of a SELECT outside a transaction (pool_handle_query_cache).
LEMMA StoreStep ==
  ASSUME TypeInv, NEW s \in Sessions, Store(s) \/ StoreExceeded(s) \/ StoreMap(s)
  PROVE  Quiet(s)
  <1> DEFINE x == sess[s]
  <1>1. SessOK /\ x \in SessionType /\ SessionInv(x) /\ x.oidKnown \in BOOLEAN
    BY ZenonT(20) DEF SessOK, TypeInv, SessionType
  <1>2. x.at \in {"got", "mapping"} /\ db' = db /\ missed' = missed
    BY DEF Store, StoreExceeded, StoreMap, history
  <1>3. \E b \in BOOLEAN : sess' = [sess EXCEPT ![s] = [Reset(Done(@)) EXCEPT !.oidKnown = b]]
    <2> DEFINE y == Reset(Done(x))
    <2>1. y \in SessionType
      BY <1>1, DoneType, ResetType
    <2> HIDE DEF y
    <2>2. y.oidKnown \in BOOLEAN /\ y = [y EXCEPT !.oidKnown = y.oidKnown]
      BY <2>1 DEF SessionType
    <2>3. CASE StoreExceeded(s)
      <3>1. sess' = [sess EXCEPT ![s] = y]
        BY <2>3 DEF StoreExceeded, y
      <3>2. sess' = [sess EXCEPT ![s] = [y EXCEPT !.oidKnown = y.oidKnown]]
        BY <2>2, <3>1, ZenonT(20)
      <3> QED BY <2>2, <3>2, ZenonT(20) DEF y
    <2>4. CASE StoreMap(s)
      BY <2>4, ZenonT(20) DEF StoreMap
    <2>5. CASE Store(s)
      <3>1. PICK f \in BOOLEAN : sess' = [sess EXCEPT ![s] =
                                    [Reset(Done(@)) EXCEPT !.oidKnown = x.oidKnown \/ ~f]]
        BY <2>5, ZenonT(20) DEF Store
      <3>2. (x.oidKnown \/ ~f) \in BOOLEAN
        OBVIOUS
      <3> QED BY <3>1, <3>2, ZenonT(20)
    <2> QED BY <2>3, <2>4, <2>5
  <1> QED BY <1>1, <1>2, <1>3, EndStep, ZenonT(20)

\* All the steps that neither write, commit nor hold a new result.
QuietAction(s) ==
  \/ \E q \in Queries : \/ SelectUncached(s, q) \/ FetchMiss(s, q) \/ FetchHit(s, q)
                        \/ FetchExpired(s, q) \/ DeleteByStatement(s, q)
  \/ FetchAgain(s) \/ Store(s) \/ StoreExceeded(s) \/ StoreItem(s) \/ StoreMap(s)
  \/ Begin(s) \/ Rollback(s) \/ ClearCache(s)
  \/ \E t \in Tables : UpdateFails(s, t)

\* Each of them is a quiet step.
LEMMA QuietStep ==
  ASSUME TypeInv, NEW s \in Sessions, QuietAction(s)
  PROVE  Quiet(s)
  <1>1. SessOK /\ sess[s] \in SessionType /\ SessionInv(sess[s])
    BY DEF SessOK, TypeInv
  <1>2. ASSUME NEW q \in Queries, SelectUncached(s, q) \/ FetchMiss(s, q) PROVE Quiet(s)
    <2>1. sess[s].at = "idle" /\ Len(sess[s].kept) < MaxKept /\ SendSelect(s, q)
          /\ db' = db /\ missed' = missed
      BY <1>2 DEF SelectUncached, FetchMiss, MaySelect, Idle, history
    <2> QED BY <1>1, <2>1, SendStep
  <1>3. ASSUME NEW q \in Queries, FetchHit(s, q) \/ DeleteByStatement(s, q) PROVE Quiet(s)
    <2>1. sess[s].at = "idle" /\ sess' = sess /\ db' = db /\ missed' = missed
      BY <1>3 DEF FetchHit, DeleteByStatement, MaySelect, Idle, history
    <2>2. SessOK'
      BY <1>1, <2>1 DEF SessOK
    <2> QED BY <2>1, <2>2 DEF Quiet
  <1> QED BY <1>2, <1>3, FetchExpiredStep, FetchAgainStep, StoreStep, StoreItemStep,
             BeginStep, RollbackStep, ClearStep, UpdateFailsStep, ZenonT(20) DEF QuietAction

\* what the backend answers
Answer(s) ==
  [query |-> sess[s].asked, raced |-> FALSE,
   seen |-> [t \in Tables |-> IF t \in TablesOf[sess[s].asked] THEN Visible(s, t) ELSE 0]]

Others(s) == \A o \in Sessions \ {s} : sess'[o] = sess[o]

\* The versions of a transaction that wrote nothing.
LEMMA NoWritesType == NoWrites \in [Tables -> Versions] /\ \A t \in Tables : NoWrites[t] = 0
  BY QueryCacheAssumption DEF NoWrites, Versions

\* The backend answers: outside a transaction the answer is held until
\* ReadyForQuery, in one it is kept or exceeds memqcache_maxcache.
LEMMA ReadStep ==
  ASSUME TypeInv, NEW s \in Sessions, Read(s)
  PROVE  /\ SessOK' /\ Others(s) /\ sess[s].at = "reading" /\ sess'[s].at \in {"got", "idle"}
         /\ sess'[s].own = sess[s].own /\ db' = db /\ missed' = missed
         /\ sess'[s].at = "got" => sess'[s].result = Answer(s)
         /\ \A i \in 1..Len(sess'[s].kept) :
               \/ sess'[s].kept[i] = Answer(s)
               \/ i \in 1..Len(sess[s].kept) /\ sess'[s].kept[i] = sess[s].kept[i]
  <1> DEFINE x == sess[s]
  <1>1. /\ SessOK /\ x \in SessionType /\ SessionInv(x) /\ x.own \in [Tables -> Versions]
        /\ db \in [Tables -> Versions] /\ x.kept \in Seq(Results)
    BY ZenonT(20) DEF SessOK, TypeInv, SessionType
  <1>2. x.at = "reading" /\ x.asked \in Queries /\ db' = db /\ missed' = missed
    BY <1>1 DEF Read, SessionInv, history
  <1>3. Answer(s) \in Results
    BY <1>1, <1>2, QueryCacheAssumption DEF Answer, Results, Visible, Versions
  <1>4. CASE x.tstate = "I"
    <2> DEFINE new == [x EXCEPT !.at = "got", !.result = Answer(s)]
    <2>1. sess' = [sess EXCEPT ![s] = new]
      BY <1>1, <1>4, ZenonT(20) DEF Read, SessOK, Answer
    <2>2. new \in SessionType
      BY <1>1, <1>3, ZenonT(20) DEF SessionType, Places
    <2>3. /\ new.at = "got" /\ new.result = Answer(s) /\ new.asked = x.asked /\ new.dml = x.dml
          /\ new.tstate = x.tstate /\ new.own = x.own /\ new.kept = x.kept
      BY <1>1 DEF SessionType
    <2> HIDE DEF new
    <2>4. Answer(s).query = x.asked
      BY ZenonT(20) DEF Answer
    <2>5. SessionInv(new)
      BY <1>1, <1>2, <1>3, <1>4, <2>3, <2>4, ZenonT(20) DEF SessionInv
    <2>6. SessOK' /\ sess'[s] = new /\ Others(s)
      BY <1>1, <2>1, <2>2, <2>5, SessionStep, ZenonT(20) DEF Others
    <2> QED BY <1>2, <2>3, <2>6, ZenonT(20)
  <1>5. CASE x.tstate # "I"
    <2>1. PICK k \in {Append(x.kept, Answer(s)), x.kept} :
             sess' = [sess EXCEPT ![s] = [Done(@) EXCEPT !.kept = k]]
      BY <1>5 DEF Read, Answer
    <2> DEFINE y == Done(x)
               new == [y EXCEPT !.kept = k]
    <2>2. sess' = [sess EXCEPT ![s] = new]
      BY <1>1, <2>1 DEF SessOK
    <2>3. /\ y \in SessionType /\ y.at = "idle" /\ y.tstate = x.tstate
          /\ y.own = x.own /\ y.dml = x.dml
      BY <1>1, DoneType, ZenonT(20)
    <2> HIDE DEF y
    <2>4. /\ k \in Seq(Results) /\ Len(k) <= Len(x.kept) + 1
          /\ \A i \in 1..Len(k) : k[i] = Answer(s) \/ (i \in 1..Len(x.kept) /\ k[i] = x.kept[i])
      BY <1>1, <1>3
    <2>5. new \in SessionType
      BY <2>3, <2>4, ZenonT(20) DEF SessionType
    <2>6. /\ new.at = "idle" /\ new.tstate = x.tstate /\ new.own = x.own /\ new.dml = x.dml
          /\ new.kept = k
      BY <2>3 DEF SessionType
    <2> HIDE DEF new
    <2>7. Len(k) <= MaxKept
      BY <1>1, <1>2, <2>4, QueryCacheAssumption DEF SessionInv
    <2>8. SessionInv(new)
      BY <1>1, <1>5, <2>6, <2>7, ZenonT(20) DEF SessionInv
    <2>9. SessOK' /\ sess'[s] = new /\ Others(s)
      BY <1>1, <2>2, <2>5, <2>8, SessionStep, ZenonT(20) DEF Others
    <2> QED BY <1>2, <2>4, <2>6, <2>9, ZenonT(20)
  <1> QED BY <1>4, <1>5

\* An UPDATE: its table is in oidbuf, nothing is kept, and either the table
\* changes at once or the row is written by the transaction.
LEMMA UpdateStep ==
  ASSUME TypeInv, NEW s \in Sessions, NEW t \in Tables, Update(s, t)
  PROVE  /\ SessOK' /\ Others(s) /\ sess[s].at = "idle" /\ sess'[s].kept = <<>>
         /\ missed' = missed /\ db' \in [Tables -> Versions] /\ writes' \in Versions
         /\ \/ /\ sess'[s].at = "wrote" /\ Contains(sess'[s].dml, t)
               /\ sess'[s].own = sess[s].own /\ \A u \in Tables \ {t} : db'[u] = db[u]
            \/ /\ sess'[s].at = "idle" /\ db' = db
               /\ \A u \in Tables \ {t} : sess'[s].own[u] = sess[s].own[u]
  <1> DEFINE x == sess[s]
             w == writes + 1
             oids == AddOid(x.dml, t)
  <1>1. /\ SessOK /\ x \in SessionType /\ SessionInv(x) /\ x.own \in [Tables -> Versions]
        /\ db \in [Tables -> Versions] /\ x.dml \in Seq(Tables)
    BY ZenonT(20) DEF SessOK, TypeInv, SessionType
  <1>2. /\ x.at = "idle" /\ missed' = missed /\ w \in Versions /\ writes' = w
    BY QueryCacheAssumption DEF Update, Idle, history, TypeInv, Versions
  <1>3. /\ oids \in Seq(Tables) /\ Contains(oids, t)
        /\ \A u \in Tables : Contains(x.dml, u) => Contains(oids, u)
    BY <1>1, Oids, ZenonT(20)
  <1>4. CASE x.tstate = "I"
    <2> DEFINE new == [x EXCEPT !.dml = oids, !.at = "wrote"]
    <2>1. sess' = [sess EXCEPT ![s] = new] /\ db' = [db EXCEPT ![t] = w]
      BY <1>1, <1>4, ZenonT(20) DEF Update, SessOK
    <2> HIDE DEF oids, w
    <2>2. new \in SessionType
      BY <1>1, <1>3, ZenonT(20) DEF SessionType, Places
    <2>3. /\ new.at = "wrote" /\ new.dml = oids /\ new.tstate = x.tstate /\ new.own = x.own
          /\ new.kept = x.kept
      BY <1>1 DEF SessionType
    <2> HIDE DEF new
    <2>4. SessionInv(new) /\ new.kept = <<>>
      BY <1>1, <1>2, <1>3, <1>4, <2>3 DEF SessionInv
    <2>5. SessOK' /\ sess'[s] = new /\ Others(s)
      BY <1>1, <2>1, <2>2, <2>4, SessionStep, ZenonT(20) DEF Others
    <2>6. db' \in [Tables -> Versions] /\ \A u \in Tables \ {t} : db'[u] = db[u]
      BY <1>1, <1>2, <2>1
    <2> QED BY <1>2, <1>3, <2>3, <2>4, <2>5, <2>6, ZenonT(20)
  <1>5. CASE x.tstate # "I"
    <2> DEFINE own == [x.own EXCEPT ![t] = w]
               new == [x EXCEPT !.dml = oids, !.kept = <<>>, !.own = own, !.writing = TRUE]
    <2>1. sess' = [sess EXCEPT ![s] = new] /\ db' = db
      BY <1>1, <1>5, ZenonT(20) DEF Update, SessOK, SessionType
    <2>2. /\ own \in [Tables -> Versions] /\ own[t] = w
          /\ \A u \in Tables \ {t} : own[u] = x.own[u]
      BY <1>1, <1>2
    <2> HIDE DEF oids, w, own
    <2>3. new \in SessionType
      <3>1. \A k \in Seq(Results) :
               [x EXCEPT !.dml = oids, !.kept = k, !.own = own, !.writing = TRUE] \in SessionType
        BY <1>1, <1>3, <2>2, ZenonT(20) DEF SessionType
      <3>2. <<>> \in Seq(Results)
        OBVIOUS
      <3> QED BY <3>1, <3>2, ZenonT(20)
    <2>4. /\ new.at = x.at /\ new.dml = oids /\ new.tstate = x.tstate /\ new.own = own
          /\ new.kept = <<>>
      BY <1>1 DEF SessionType
    <2> HIDE DEF new
    <2>5. \A u \in Tables : own[u] # 0 => Contains(oids, u)
      BY <1>1, <1>3, <2>2, ZenonT(20) DEF SessionInv
    <2>6. SessionInv(new)
      <3>1. Len(new.kept) = 0 /\ 0 <= MaxKept
        BY <2>4, QueryCacheAssumption
      <3>2. new.at = "idle" /\ new.tstate # "I" /\ new.kept = <<>>
        BY <1>2, <1>5, <2>4, ZenonT(20)
      <3>3. \A u \in Tables : new.own[u] # 0 => Contains(new.dml, u)
        BY <2>4, <2>5, ZenonT(20)
      <3>4. Len(new.kept) <= MaxKept
        BY <3>1
      <3> QED BY <3>2, <3>3, <3>4 DEF SessionInv
    <2>7. SessOK' /\ sess'[s] = new /\ Others(s)
      BY <1>1, <2>1, <2>3, <2>6, SessionStep, ZenonT(20) DEF Others
    <2> QED BY <1>1, <1>2, <2>1, <2>2, <2>4, <2>7, ZenonT(20)
  <1> QED BY <1>4, <1>5, ZenonT(20)

\* COMMIT publishes what the session saw and leaves oidbuf and what was kept.
LEMMA CommitStep ==
  ASSUME TypeInv, NEW s \in Sessions, Commit(s)
  PROVE  /\ SessOK' /\ Others(s) /\ sess[s].at = "idle" /\ sess'[s].at = "committed"
         /\ sess'[s].kept = sess[s].kept /\ sess'[s].dml = sess[s].dml
         /\ sess'[s].own = NoWrites /\ missed' = missed /\ db' \in [Tables -> Versions]
         /\ sess[s].tstate = "T" \/ FailedCommits
         /\ \A t \in Tables : db'[t] = IF sess[s].tstate = "T" THEN Visible(s, t) ELSE db[t]
  <1> DEFINE x == sess[s]
             new == [x EXCEPT !.tstate = "I", !.at = "committed", !.own = NoWrites,
                              !.writing = FALSE]
  <1>1. /\ SessOK /\ x \in SessionType /\ SessionInv(x) /\ x.own \in [Tables -> Versions]
        /\ db \in [Tables -> Versions]
    BY ZenonT(20) DEF SessOK, TypeInv, SessionType
  <1>2. sess' = [sess EXCEPT ![s] = new]
    BY <1>1, ZenonT(20) DEF Commit, SessOK
  <1>3. /\ x.at = "idle" /\ missed' = missed
        /\ x.tstate = "T" \/ FailedCommits
        /\ db' = [t \in Tables |-> IF x.tstate = "T" THEN Visible(s, t) ELSE db[t]]
    BY DEF Commit, Idle, history
  <1>4. \A t \in Tables : Visible(s, t) \in Versions
    BY <1>1 DEF Visible
  <1>5. new \in SessionType
    BY <1>1, NoWritesType, ZenonT(20) DEF SessionType, Places
  <1>6. /\ new.at = "committed" /\ new.tstate = "I" /\ new.own = NoWrites
        /\ new.kept = x.kept /\ new.dml = x.dml
    BY <1>1 DEF SessionType
  <1> HIDE DEF new
  <1>7. SessionInv(new)
    BY <1>1, <1>6, NoWritesType DEF SessionInv
  <1>8. SessOK' /\ sess'[s] = new /\ Others(s)
    BY <1>1, <1>2, <1>5, <1>7, SessionStep, ZenonT(20) DEF Others
  <1>9. db' \in [Tables -> Versions]
    BY <1>1, <1>3, <1>4
  <1> QED BY <1>3, <1>6, <1>8, <1>9, ZenonT(20)

\* The record of a new session.
LEMMA NewSessionType ==
  /\ NewSession \in SessionType /\ NewSession.at = "idle" /\ NewSession.tstate = "I"
  /\ NewSession.own = NoWrites /\ NewSession.kept = <<>> /\ NewSession.dml = <<>>
  <1>1. NewSession \in SessionType
    <2>1. \A k \in Seq(Results), d \in Seq(Tables) :
             [at |-> "idle", asked |-> None, result |-> None, id |-> NoId, tstate |-> "I",
              writing |-> FALSE, own |-> NoWrites, dml |-> d, kept |-> k, oidKnown |-> FALSE]
               \in SessionType
      BY NoWritesType, ZenonT(20) DEF SessionType, Places
    <2>2. <<>> \in Seq(Results) /\ <<>> \in Seq(Tables)
      OBVIOUS
    <2> QED BY <2>1, <2>2, ZenonT(20) DEF NewSession
  <1> QED BY <1>1 DEF NewSession

\* The client is lost: nothing is held, and the tables of an invalidation
\* that was to come are recorded.
LEMMA LoseStep ==
  ASSUME TypeInv, NEW s \in Sessions, LoseClient(s)
  PROVE  /\ SessOK' /\ Others(s) /\ sess[s].at # "mapping" /\ sess'[s].at = "idle"
         /\ sess'[s].kept = <<>> /\ sess'[s].own = NoWrites /\ db' = db
         /\ missed \subseteq missed' /\ missed' \subseteq Tables
         /\ sess[s].at \in {"wrote", "committed"} =>
               \A t \in Tables : Contains(sess[s].dml, t) => t \in missed'
  <1> DEFINE x == sess[s]
             new == [NewSession EXCEPT !.dml = x.dml, !.oidKnown = x.oidKnown]
  <1>1. /\ SessOK /\ x \in SessionType /\ x.dml \in Seq(Tables) /\ x.oidKnown \in BOOLEAN
        /\ missed \subseteq Tables
    BY ZenonT(20) DEF SessOK, TypeInv, SessionType
  <1>2. sess' = [sess EXCEPT ![s] = new] /\ x.at # "mapping" /\ db' = db
    BY DEF LoseClient, Idle
  <1>3. /\ NewSession \in SessionType /\ NewSession.at = "idle" /\ NewSession.tstate = "I"
        /\ NewSession.own = NoWrites /\ NewSession.kept = <<>>
    BY NewSessionType
  <1> HIDE DEF NewSession
  <1>4. new \in SessionType
    BY <1>1, <1>3, ZenonT(20) DEF SessionType
  <1>5. new.at = "idle" /\ new.tstate = "I" /\ new.own = NoWrites /\ new.kept = <<>>
    BY <1>3 DEF SessionType
  <1> HIDE DEF new
  <1>6. SessionInv(new)
    BY <1>5, NoWritesType, QueryCacheAssumption DEF SessionInv
  <1>7. SessOK' /\ sess'[s] = new /\ Others(s)
    BY <1>1, <1>2, <1>4, <1>6, SessionStep, ZenonT(20) DEF Others
  <1>8. /\ missed \subseteq missed' /\ missed' \subseteq Tables
        /\ x.at # "idle" => \A t \in Tables : Contains(x.dml, t) => t \in missed'
    <2>1. Range(x.dml) \subseteq Tables /\ \A t \in Tables : Contains(x.dml, t) => t \in Range(x.dml)
      BY <1>1 DEF Range, Contains
    <2>2. missed' = IF x.at = "idle" THEN missed ELSE missed \cup Range(x.dml)
      BY DEF LoseClient, Idle
    <2> QED BY <1>1, <2>1, <2>2
  <1> QED BY <1>2, <1>5, <1>7, <1>8

\* A held result that an invalidation misses is marked, and nothing else is changed.
LEMMA RacedType ==
  ASSUME NEW r \in Results, NEW T
  PROVE  /\ Raced(r, T) \in Results /\ Raced(r, T).query = r.query /\ Raced(r, T).seen = r.seen
         /\ r.raced => Raced(r, T).raced
         /\ TablesOf[r.query] \cap T # {} => Raced(r, T).raced
  <1>1. r # None
    BY QueryCacheAssumption
  <1>2. CASE TablesOf[r.query] \cap T = {}
    BY <1>2 DEF Raced
  <1>3. CASE TablesOf[r.query] \cap T # {}
    <2>1. Raced(r, T) = [r EXCEPT !.raced = TRUE]
      BY <1>1, <1>3 DEF Raced
    <2> QED BY <2>1, ZenonT(20) DEF Results
  <1> QED BY <1>2, <1>3

\* what an invalidation of the tables T leaves of another child's record
RacedSession(x, y, T) ==
  /\ y.at = x.at /\ y.asked = x.asked /\ y.id = x.id /\ y.own = x.own /\ y.dml = x.dml
  /\ y.tstate = x.tstate /\ y.result = Raced(x.result, T) /\ Len(y.kept) = Len(x.kept)
  /\ \A i \in 1..Len(x.kept) : y.kept[i] = Raced(x.kept[i], T)

RaceOf(x, T) == [x EXCEPT !.result = Raced(@, T), !.kept = [i \in DOMAIN @ |-> Raced(@[i], T)]]

\* The marks change neither the type nor the invariant of a record.
LEMMA RacedSessions ==
  ASSUME NEW x \in SessionType, SessionInv(x), NEW T
  PROVE  /\ RaceOf(x, T) \in SessionType /\ SessionInv(RaceOf(x, T))
         /\ RacedSession(x, RaceOf(x, T), T)
  <1> DEFINE r == Raced(x.result, T)
             k == [i \in DOMAIN x.kept |-> Raced(x.kept[i], T)]
             y == [x EXCEPT !.result = r, !.kept = k]
  <1>1. x.kept \in Seq(Results) /\ x.result \in Results \cup {None}
    BY DEF SessionType
  <1>2. /\ r \in Results \cup {None}
        /\ x.result \in Results => r \in Results /\ r.query = x.result.query
    <2>1. CASE x.result = None
      BY <2>1, QueryCacheAssumption DEF Raced
    <2>2. CASE x.result \in Results
      BY <2>2, RacedType
    <2> QED BY <1>1, <2>1, <2>2
  <1>3. /\ k \in Seq(Results) /\ Len(k) = Len(x.kept)
        /\ \A i \in 1..Len(x.kept) : k[i] = Raced(x.kept[i], T)
    <2>1. DOMAIN x.kept = 1..Len(x.kept) /\ Len(x.kept) \in Nat
      BY <1>1
    <2>2. \A i \in 1..Len(x.kept) : Raced(x.kept[i], T) \in Results
      BY <1>1, RacedType
    <2>3. k \in [1..Len(x.kept) -> Results]
      BY <2>1, <2>2
    <2> HIDE DEF k
    <2>4. k \in Seq(Results) /\ Len(k) = Len(x.kept)
      BY <2>1, <2>3
    <2> QED BY <2>1, <2>4 DEF k
  <1>4. x.kept = <<>> => k = <<>>
    BY <1>3
  <1> HIDE DEF r, k
  <1>5. y \in SessionType
    BY <1>2, <1>3, ZenonT(20) DEF SessionType
  <1>6. /\ y.at = x.at /\ y.asked = x.asked /\ y.id = x.id /\ y.own = x.own /\ y.dml = x.dml
        /\ y.tstate = x.tstate /\ y.result = r /\ y.kept = k
    BY DEF SessionType
  <1>7. RacedSession(x, y, T)
    BY <1>3, <1>6 DEF RacedSession, r
  <1> HIDE DEF y
  <1>8. SessionInv(y)
    BY <1>2, <1>3, <1>4, <1>6 DEF SessionInv
  <1>9. RaceOf(x, T) = y
    BY DEF RaceOf, y, r, k
  <1> QED BY <1>5, <1>7, <1>8, <1>9

\* ReadyForQuery after a write or a COMMIT: the child is idle, and the results
\* that the others hold are marked.
LEMMA FinishStep ==
  ASSUME TypeInv, NEW s \in Sessions, FinishUpdate(s) \/ FinishCommit(s)
  PROVE  /\ SessOK' /\ db' = db /\ missed' = missed
         /\ sess[s].at \in {"wrote", "committed"} /\ sess'[s].at = "idle"
         /\ sess'[s].kept = <<>> /\ sess'[s].own = NoWrites /\ sess[s].own = NoWrites
         /\ \A o \in Sessions \ {s} : RacedSession(sess[o], sess'[o], Range(sess[s].dml))
  <1> DEFINE x == sess[s]
             T == Range(x.dml)
             R == RaceOthers(s, T)
             y == Reset(Done(x))
             new == [y EXCEPT !.oidKnown = TRUE]
  <1>1. /\ SessOK /\ x \in SessionType /\ SessionInv(x)
        /\ \A o \in Sessions : sess[o] \in SessionType /\ SessionInv(sess[o])
    BY DEF SessOK, TypeInv
  <1>2. /\ x.at \in {"wrote", "committed"} /\ db' = db /\ missed' = missed
        /\ sess' = [R EXCEPT ![s] = [Reset(Done(R[s])) EXCEPT !.oidKnown = TRUE]]
    BY DEF FinishUpdate, FinishCommit
  <1>3. R = [o \in Sessions |-> IF o = s THEN sess[o] ELSE
                [sess[o] EXCEPT !.result = Raced(@, T), !.kept = [i \in DOMAIN @ |-> Raced(@[i], T)]]]
    BY DEF RaceOthers
  <1> HIDE DEF R, T
  <1>4. DOMAIN R = Sessions /\ R[s] = x
    BY <1>3, ZenonT(20)
  <1>5. DOMAIN sess' = Sessions /\ sess'[s] = new /\ \A o \in Sessions \ {s} : sess'[o] = R[o]
    BY <1>2, <1>4
  <1>6. sess' = [o \in Sessions |-> sess'[o]]
    BY <1>2, <1>3, ZenonT(20)
  <1>7. ASSUME NEW o \in Sessions \ {s}
        PROVE  /\ sess'[o] \in SessionType /\ SessionInv(sess'[o])
               /\ RacedSession(sess[o], sess'[o], T)
    <2>1. sess'[o] = RaceOf(sess[o], T)
      BY <1>3, <1>5, ZenonT(20) DEF RaceOf
    <2>2. sess[o] \in SessionType /\ SessionInv(sess[o])
      BY <1>1
    <2> QED BY <2>1, <2>2, RacedSessions
  <1>8. /\ y \in SessionType /\ y.at = "idle" /\ y.tstate = x.tstate /\ y.own = x.own
        /\ y.kept = <<>> /\ y.dml = <<>>
    BY <1>1, DoneType, ResetType
  <1> HIDE DEF y
  <1>9. /\ new \in SessionType /\ new.at = "idle" /\ new.tstate = x.tstate /\ new.own = x.own
        /\ new.kept = <<>> /\ new.dml = <<>>
    BY <1>8, OidType, ZenonT(20)
  <1> HIDE DEF new
  <1>10. x.tstate = "I" /\ x.own = NoWrites
    BY <1>1, <1>2 DEF SessionInv
  <1>11. SessionInv(new)
    BY <1>9, <1>10, NoWritesType, QueryCacheAssumption DEF SessionInv
  <1>12. \A o \in Sessions : sess'[o] \in SessionType /\ SessionInv(sess'[o])
    BY <1>5, <1>7, <1>9, <1>11
  <1>13. sess' \in [Sessions -> SessionType]
    BY <1>6, <1>12
  <1>14. SessOK'
    BY <1>12, <1>13 DEF SessOK
  <1> QED BY <1>2, <1>5, <1>7, <1>9, <1>10, <1>14, ZenonT(20) DEF T
=============================================================================
