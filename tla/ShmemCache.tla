----------------------------- MODULE ShmemCache -----------------------------
(***************************************************************************)
(* The shared-memory storage of the query cache: blocks of items, the hash *)
(* table from query keys to items, and the clock hand that picks the block *)
(* to reuse (pool_memqcache.c).  Every operation runs under the lock of    *)
(* the cache, so each is a function of the whole memory:                   *)
(*                                                                         *)
(*   blocks[b]   the items of block b in the order they were added; num_   *)
(*               items is the length, and deleted items are still counted  *)
(*   index[k]    the cache id the hash table gives for key k, or NoId      *)
(*   hand        the block that pool_reuse_block() takes next              *)
(*                                                                         *)
(* Items have one size, so a block has room for BlockItems of them and its *)
(* free_bytes are BlockItems - Len(blocks[b]).  The free space map, which  *)
(* repeats free_bytes in coarser units, is left out.                       *)
(***************************************************************************)
EXTENDS Integers, Sequences, FiniteSets

CONSTANTS Keys,           \* MD5 keys of user, database and query
          NumBlocks,      \* memqcache_total_size / memqcache_cache_block_size
          BlockItems,     \* items that fit into an empty block
          HashElements    \* hash elements that can be handed out

ASSUME ShmemCacheAssumption ==
  /\ IsFiniteSet(Keys)
  /\ NumBlocks \in Nat \ {0}
  /\ BlockItems \in Nat \ {0}
  /\ HashElements \in Nat \ {0}

NoId == <<0, 0>>

Blocks == 1..NumBlocks
Ids == Blocks \X (1..BlockItems)

\* pool_init_whole_cache_blocks, pool_hash_init, pool_allocate_fsmm_clock_hand
EmptyMemory ==
  [blocks |-> [b \in Blocks |-> <<>>], index |-> [k \in Keys |-> NoId], hand |-> 1]

\* pool_hash_search
Search(mem, key) == mem.index[key]

ItemAt(mem, id) == mem.blocks[id[1]][id[2]]

\* item_pointer: the cache id names an item of its block, deleted or not
InBlock(mem, id) == id[2] <= Len(mem.blocks[id[1]])

Live(mem, id) == InBlock(mem, id) /\ ItemAt(mem, id).live

LiveIds(mem) == {id \in Ids : Live(mem, id)}

\* pool_hash_delete for each of the keys
Forget(index, keys) == [k \in Keys |-> IF k \in keys THEN NoId ELSE index[k]]

\* the i-th next block the clock hand comes to
Victim(mem, i) == 1 + ((mem.hand - 1 + i) % NumBlocks)

\* seeded fault: the items of a reused block stay in the hash table
ReuseKeepsKeys(mem, n) ==
  LET victims == {Victim(mem, i) : i \in 0..(n - 1)}
  IN  [blocks |-> [b \in Blocks |-> IF b \in victims THEN <<>> ELSE mem.blocks[b]],
       index |-> mem.index,
       hand |-> Victim(mem, n)]

\* pool_reuse_block, n times: the blocks are emptied, the keys of the items
\* that were not deleted leave the hash table, and the hand moves on
ReuseBlocks(mem, n) ==
  LET victims == {Victim(mem, i) : i \in 0..(n - 1)}
      keys == {ItemAt(mem, id).key : id \in {x \in LiveIds(mem) : x[1] \in victims}}
  IN  [blocks |-> [b \in Blocks |-> IF b \in victims THEN <<>> ELSE mem.blocks[b]],
       index |-> Forget(mem.index, keys),
       hand |-> Victim(mem, n)]

\* is_free_hash_element
FreeElement(mem) ==
  Cardinality({k \in Keys : mem.index[k] # NoId}) < HashElements

\* seeded fault: a full block counts as one with room
RoomInFull(mem) == {b \in Blocks : Len(mem.blocks[b]) <= BlockItems}

Room(mem) == {b \in Blocks : Len(mem.blocks[b]) < BlockItems}

\* pool_get_block without a block to reuse: the first block with room
FirstRoom(mem) == CHOOSE b \in Room(mem) : \A c \in Room(mem) : b <= c

\* How many blocks pool_add_item_shmem_cache reuses: one when no block has
\* room, and then as many as it takes to free a hash element.
Reused(mem) ==
  LET first == IF Room(mem) = {} THEN 1 ELSE 0
  IN  CHOOSE n \in first..NumBlocks :
        /\ FreeElement(ReuseBlocks(mem, n)) \/ n = NumBlocks
        /\ \A m \in first..(n - 1) : ~FreeElement(ReuseBlocks(mem, m))

\* the block the new item goes to: the last one reused, if any was
BlockFor(mem) ==
  IF Reused(mem) = 0 THEN FirstRoom(mem) ELSE Victim(mem, Reused(mem) - 1)

\* pool_add_item_shmem_cache: the cache id of the new item ...
IdForNew(mem) == <<BlockFor(mem), Len(ReuseBlocks(mem, Reused(mem)).blocks[BlockFor(mem)]) + 1>>

\* ... and the memory with it; the caller has found that the key is not there
AddItem(mem, key, result) ==
  LET room == ReuseBlocks(mem, Reused(mem))
      item == [key |-> key, result |-> result, live |-> TRUE]
  IN  [blocks |-> [b \in Blocks |-> IF b = BlockFor(mem) THEN Append(room.blocks[b], item)
                                                         ELSE room.blocks[b]],
       index |-> [k \in Keys |-> IF k = key THEN IdForNew(mem) ELSE room.index[k]],
       hand |-> room.hand]

\* the items of a block without the i-th: the last one gives its space back
\* (the only one empties the block), any other is marked
Without(items, i) ==
  IF i = Len(items) THEN SubSeq(items, 1, i - 1) ELSE [items EXCEPT ![i].live = FALSE]

\* pool_delete_item_shmem_cache: ids of an unused block, past num_items or
\* of a deleted item are refused
DeleteItem(mem, id) ==
  IF ~Live(mem, id)
  THEN mem
  ELSE [blocks |-> [b \in Blocks |-> IF b = id[1] THEN Without(mem.blocks[b], id[2])
                                                  ELSE mem.blocks[b]],
        index |-> Forget(mem.index, {ItemAt(mem, id).key}),
        hand |-> mem.hand]

\* the cache ids of a map file, one after the other
DeleteItems(mem, ids) ==
  LET after[i \in 0..Len(ids)] == IF i = 0 THEN mem ELSE DeleteItem(after[i - 1], ids[i])
  IN  after[Len(ids)]

\* The hash table and the blocks agree: a key leads to an undeleted item
\* stored under that key, and every undeleted item is reached by its key.
Consistent(mem) ==
  /\ \A k \in Keys : mem.index[k] # NoId =>
        /\ mem.index[k] \in Ids
        /\ Live(mem, mem.index[k])
        /\ ItemAt(mem, mem.index[k]).key = k
  /\ \A id \in LiveIds(mem) : mem.index[ItemAt(mem, id).key] = id
=============================================================================
