-------------------------- MODULE QueryCacheProofs --------------------------
(***************************************************************************)
(* Theorems about QueryCache for any number of child processes, tables and *)
(* queries, and any size of the storage.                                   *)
(***************************************************************************)
EXTENDS QueryCacheLemmas

\* The provers a step is tried with, and the seconds each may take
USE ZenonT(2), SMTT(20), ZenonT(20)

-----------------------------------------------------------------------------
(* The cache                                                               *)

Cache == [mem |-> mem, map |-> map, late |-> late]

\* The storage is left alone: what was all right stays so.
LEMMA SameCache ==
  ASSUME NEW M, NEW V, NEW N, NEW W, Cache \in CachesWith(M, V), V \subseteq W, M \subseteq N,
         mem' = mem, map' = map, late' = late
  PROVE  Cache' \in CachesWith(N, W)
  <1>1. Cache' = Cache
    BY DEF Cache
  <1>2. \A c \in CachesWith(M, V) : c \in CachesWith(N, W)
    BY DEF CachesWith, Covered, Good
  <1> QED BY <1>1, <1>2

\* An item is deleted.
LEMMA FewerCache ==
  ASSUME NEW M, NEW V, NEW N, NEW W, Cache \in CachesWith(M, V), V \subseteq W, M \subseteq N,
         mem' \in Stores(Contents), Fewer(mem, mem'), map' = map, late' = late
  PROVE  Cache' \in CachesWith(N, W)
  <1>1. /\ map \in [Tables -> Seq(Ids)] /\ late \subseteq Ids /\ Covered(Cache, M) /\ Good(Cache, V)
    BY DEF CachesWith, Caches, Cache
  <1>2. Cache' \in Caches
    BY <1>1 DEF Cache, Caches
  <1>3. ASSUME NEW id \in LiveIds(mem')
        PROVE  id \in LiveIds(mem) /\ ItemAt(mem', id) = ItemAt(mem, id)
    BY <1>3 DEF Fewer
  <1>4. Covered(Cache', N)
    BY <1>1, <1>3 DEF Cache, Covered
  <1>5. Good(Cache', W)
    BY <1>1, <1>3, ZenonT(20) DEF Cache, Good
  <1> QED BY <1>2, <1>4, <1>5 DEF CachesWith

\* The ids about to be entered: a child that is not at that point loses none.
LEMMA MappingKept ==
  ASSUME NEW s \in Sessions, Others(s), sess[s].at # "mapping"
  PROVE  MappingIds \subseteq MappingIds'
  BY DEF MappingIds, Others

\* ReadyForQuery after a SELECT with the database oid known
LEMMA StoreCache ==
  ASSUME TypeInv, NEW s \in Sessions, Store(s), Quiet(s), NEW V, NEW W,
         Cache \in CachesWith(MappingIds, V), V \subseteq W,
         \/ sess[s].result.raced
         \/ \A t \in TablesOf[sess[s].result.query] : <<t, sess[s].result.seen[t]>> \in W
  PROVE  Cache' \in CachesWith(MappingIds', W)
  <1>1. sess[s].at = "got" /\ sess[s].result \in Results
    BY DEF Store, TypeInv, SessionInv
  <1>2. MappingIds \subseteq MappingIds'
    BY <1>1, MappingKept, ZenonT(20) DEF Quiet, Others
  <1>3. Cache \in CachesWith(MappingIds', W)
    BY <1>2 DEF CachesWith, Covered, Good
  <1>4. CommitCache(Cache, sess[s].result) \in CachesWith(MappingIds', W)
    BY <1>1, <1>3, CommitCacheIn
  <1> DEFINE c == CommitCache(Cache, sess[s].result)
  <1>5. mem' = c.mem /\ map' = c.map /\ late' = c.late
    BY DEF Store, Cache
  <1> HIDE DEF c
  <1>6. \A d \in Caches : d = [mem |-> d.mem, map |-> d.map, late |-> d.late]
    BY DEF Caches
  <1>7. Cache' = c
    BY <1>4, <1>5, <1>6 DEF Cache, CachesWith, c
  <1> QED BY <1>4, <1>7 DEF c

\* ReadyForQuery after a SELECT with the database oid to be asked for: the item
\* is stored, and the child is about to enter it.
LEMMA StoreItemCache ==
  ASSUME TypeInv, NEW s \in Sessions, StoreItem(s), NEW V, NEW W,
         Cache \in CachesWith(MappingIds, V), V \subseteq W,
         \/ sess[s].result.raced
         \/ \A t \in TablesOf[sess[s].result.query] : <<t, sess[s].result.seen[t]>> \in W
  PROVE  Cache' \in CachesWith(MappingIds', W)
  <1> DEFINE r == sess[s].result
             q == sess[s].asked
             id == IdForNew(mem)
             a == AddItem(mem, q, r.seen)
  <1>1. /\ sess[s].at = "got" /\ r \in Results /\ r.query = q /\ q \in Queries /\ q \in Keys
        /\ r.seen \in Contents /\ mem.index[q] = NoId
    BY KeyTables DEF StoreItem, TypeInv, SessionInv, Search, Results, Contents
  <1>2. /\ mem' = a /\ map' = map /\ late' = IF r.raced THEN late \cup {id} ELSE late \ {id}
    BY DEF StoreItem
  <1>3. /\ a \in Stores(Contents) /\ id \in LiveIds(a) /\ id \in Ids
        /\ ItemAt(a, id).key = q /\ ItemAt(a, id).result = r.seen
        /\ \A x \in LiveIds(a) : x # id => x \in LiveIds(mem) /\ ItemAt(a, x) = ItemAt(mem, x)
    BY <1>1, AddStore DEF TypeInv
  <1>4. /\ Quiet(s) /\ sess'[s].at = "mapping" /\ sess'[s].asked = q /\ sess'[s].id = id
    BY StoreItemStep, ZenonT(20)
  <1>5. MappingIds \subseteq MappingIds' /\ <<id, q>> \in MappingIds'
    <2>1. MappingIds \subseteq MappingIds'
      BY <1>1, <1>4, MappingKept DEF Quiet, Others
    <2> QED BY <1>4, <2>1 DEF MappingIds
  <1> HIDE DEF id, a
  <1>6. /\ map \in [Tables -> Seq(Ids)] /\ late \subseteq Ids
        /\ Covered(Cache, MappingIds) /\ Good(Cache, V)
    BY DEF CachesWith, Caches, Cache
  <1>7. late' \subseteq Ids /\ (r.raced => id \in late') /\ \A x \in late : x # id => x \in late'
    BY <1>2, <1>3, <1>6, ZenonT(20)
  <1>8. Cache' \in Caches
    BY <1>2, <1>3, <1>6, <1>7 DEF Cache, Caches
  <1>9. Covered(Cache', MappingIds')
    <2> SUFFICES ASSUME NEW x \in LiveIds(a)
                 PROVE  \/ ItemAt(a, x).key = Catalog
                        \/ <<x, ItemAt(a, x).key>> \in MappingIds'
                        \/ Mapped(map, x, ItemAt(a, x).key)
      BY <1>2, ZenonT(20) DEF Cache, Covered
    <2>1. CASE x = id
      BY <1>3, <1>5, <2>1
    <2>2. CASE x # id
      BY <1>3, <1>5, <1>6, <2>2, ZenonT(20) DEF Cache, Covered
    <2> QED BY <2>1, <2>2
  <1>10. Good(Cache', W)
    <2> SUFFICES ASSUME NEW x \in LiveIds(a)
                 PROVE  \/ ItemAt(a, x).key = Catalog \/ x \in late'
                        \/ \A t \in TablesOf[ItemAt(a, x).key] : <<t, ItemAt(a, x).result[t]>> \in W
      BY <1>2, ZenonT(20) DEF Cache, Good
    <2>1. CASE x = id
      BY <1>1, <1>3, <1>7, <2>1, ZenonT(20)
    <2>2. CASE x # id
      BY <1>3, <1>6, <1>7, <2>2, ZenonT(20) DEF Cache, Good
    <2> QED BY <2>1, <2>2
  <1> QED BY <1>8, <1>9, <1>10 DEF CachesWith

\* The map entries follow.
LEMMA StoreMapCache ==
  ASSUME TypeInv, NEW s \in Sessions, StoreMap(s), Quiet(s), NEW V, NEW W,
         Cache \in CachesWith(MappingIds, V), V \subseteq W
  PROVE  Cache' \in CachesWith(MappingIds', W)
  <1> DEFINE q == sess[s].asked
             id == sess[s].id
             a == CommitCatalog(mem)
             f == Register(map, q, id)
  <1>1. sess[s].at = "mapping" /\ q \in Queries /\ id \in Ids
    BY DEF StoreMap, TypeInv, SessionInv
  <1>2. mem' = a /\ map' = f /\ late' = late
    BY DEF StoreMap
  <1>3. /\ a \in Stores(Contents)
        /\ \A x \in LiveIds(a) : \/ ItemAt(a, x).key = Catalog
                                 \/ x \in LiveIds(mem) /\ ItemAt(a, x) = ItemAt(mem, x)
    <2>1. mem \in Stores(Contents)
      BY DEF TypeInv
    <2> QED BY <2>1, CommitCatalogStore
  <1>4. /\ f \in [Tables -> Seq(Ids)] /\ Mapped(f, id, q)
        /\ \A t \in Tables, x \in Ids : Contains(map[t], x) => Contains(f[t], x)
    BY <1>1, Registered DEF TypeInv
  <1> HIDE DEF a, f
  <1>5. \A p \in MappingIds : p = <<id, q>> \/ p \in MappingIds'
    BY DEF MappingIds, Quiet
  <1>6. /\ late \subseteq Ids /\ Covered(Cache, MappingIds) /\ Good(Cache, V)
    BY ZenonT(20) DEF CachesWith, Caches, Cache
  <1>7. Cache' \in Caches
    BY <1>2, <1>3, <1>4, <1>6, ZenonT(20) DEF Cache, Caches
  <1>8. Covered(Cache', MappingIds')
    <2> SUFFICES ASSUME NEW x \in LiveIds(a), ItemAt(a, x).key # Catalog
                 PROVE  \/ <<x, ItemAt(a, x).key>> \in MappingIds'
                        \/ Mapped(f, x, ItemAt(a, x).key)
      BY <1>2 DEF Cache, Covered
    <2>1. x \in LiveIds(mem) /\ ItemAt(a, x) = ItemAt(mem, x)
      BY <1>3
    <2>2. x \in Ids /\ TablesOf[ItemAt(a, x).key] \subseteq Tables
      BY <2>1, OneItemPerKey, KeyTables DEF TypeInv
    <2>3. <<x, ItemAt(a, x).key>> \in MappingIds \/ Mapped(map, x, ItemAt(a, x).key)
      BY <1>6, <2>1 DEF Cache, Covered
    <2>4. CASE Mapped(map, x, ItemAt(a, x).key)
      BY <1>4, <2>2, <2>4 DEF Mapped
    <2>5. CASE <<x, ItemAt(a, x).key>> = <<id, q>>
      BY <1>4, <2>5, ZenonT(20)
    <2> QED BY <1>5, <2>3, <2>4, <2>5
  <1>9. Good(Cache', W)
    BY <1>2, <1>3, <1>6, ZenonT(20) DEF Cache, Good
  <1> QED BY <1>7, <1>8, <1>9 DEF CachesWith

\* ReadyForQuery after a write or a COMMIT: the invalidation of the tables
\* written, then the results that were kept.
LEMMA FinishCache ==
  ASSUME TypeInv, NEW s \in Sessions, FinishUpdate(s) \/ FinishCommit(s), NEW V, NEW W,
         Cache \in CachesWith(MappingIds, V),
         \A t \in Tables : \A v : <<t, v>> \in V /\ ~Contains(sess[s].dml, t) => <<t, v>> \in W,
         \A i \in 1..Len(sess[s].kept) :
            \/ sess[s].kept[i].raced
            \/ \A t \in TablesOf[sess[s].kept[i].query] : <<t, sess[s].kept[i].seen[t]>> \in W
  PROVE  Cache' \in CachesWith(MappingIds', W)
  <1> DEFINE c == Invalidate(s, sess[s].dml)
             d == CommitAll(c, sess[s].kept)
  <1>1. /\ sess[s].at \in {"wrote", "committed"} /\ sess'[s].at = "idle"
        /\ \A o \in Sessions \ {s} : RacedSession(sess[o], sess'[o], Range(sess[s].dml))
    BY FinishStep, ZenonT(20)
  <1>2. MappingIds' = MappingIds
    BY <1>1 DEF MappingIds, RacedSession
  <1>3. sess[s].dml \in Seq(Tables) /\ sess[s].kept \in Seq(Results)
    BY ZenonT(20) DEF TypeInv, SessionType
  <1>4. c \in CachesWith(MappingIds, W)
    BY <1>1, <1>3, InvalidateIn, ZenonT(20) DEF Cache
  <1> HIDE DEF c
  <1>5. d \in CachesWith(MappingIds, W)
    BY <1>3, <1>4, CommitAllIn
  <1> HIDE DEF d
  <1>6. \A e \in Caches : e = [mem |-> e.mem, map |-> e.map, late |-> e.late]
    BY DEF Caches
  <1>7. CASE FinishUpdate(s)
    <2>1. mem' = c.mem /\ map' = c.map /\ late' = c.late
      BY <1>7 DEF FinishUpdate, c
    <2> QED BY <1>2, <1>4, <1>6, <2>1 DEF Cache, CachesWith
  <1>8. CASE FinishCommit(s)
    <2>1. mem' = d.mem /\ map' = d.map /\ late' = d.late
      BY <1>8 DEF FinishCommit, c, d
    <2> QED BY <1>2, <1>5, <1>6, <2>1 DEF Cache, CachesWith
  <1> QED BY <1>7, <1>8

\* A key in the hash table has its id there.
LEMMA SearchIds ==
  ASSUME TypeInv, NEW q \in Queries, Search(mem, q) # NoId
  PROVE  Search(mem, q) \in Ids
  <1>1. mem \in Stores(Contents) /\ q \in Keys
    BY KeyTables DEF TypeInv
  <1> QED BY <1>1, OneItemPerKey DEF Search

\* The steps that leave the storage alone or delete the item of a key.
LEMMA ShrinkCache ==
  ASSUME TypeInv, NEW s \in Sessions, FetchAgain(s) \/ \E q \in Queries : DeleteByStatement(s, q)
  PROVE  /\ mem' \in Stores(Contents) /\ Fewer(mem, mem') /\ map' = map /\ late' = late
         /\ sess[s].at # "mapping"
  <1>1. mem \in Stores(Contents) /\ Fewer(mem, mem)
    BY DEF TypeInv, Fewer
  <1>2. CASE FetchAgain(s)
    <2>1. sess[s].at = "expiring" /\ sess[s].asked \in Queries /\ map' = map /\ late' = late
      BY <1>2, ZenonT(20) DEF FetchAgain, TypeInv, SessionInv, history
    <2>2. \/ mem' = mem
          \/ /\ Search(mem, sess[s].asked) # NoId
             /\ mem' = DeleteItem(mem, Search(mem, sess[s].asked))
      BY <1>2 DEF FetchAgain, FoundAgain
    <2> QED BY <1>1, <2>1, <2>2, SearchIds, DeleteStore
  <1>3. ASSUME NEW q \in Queries, DeleteByStatement(s, q)
        PROVE  /\ mem' \in Stores(Contents) /\ Fewer(mem, mem') /\ map' = map /\ late' = late
               /\ sess[s].at # "mapping"
    <2>1. sess[s].at = "idle" /\ map' = map /\ late' = late
      BY <1>3, ZenonT(20) DEF DeleteByStatement, Idle, history
    <2>2. \/ mem' = mem
          \/ Search(mem, q) # NoId /\ mem' = DeleteItem(mem, Search(mem, q))
      BY <1>3 DEF DeleteByStatement
    <2> QED BY <1>1, <2>1, <2>2, SearchIds, DeleteStore
  <1> QED BY <1>2, <1>3

\* Every step without a write, a commit or an invalidation.
LEMMA QuietCache ==
  ASSUME TypeInv, NEW s \in Sessions, QuietAction(s), NEW V, NEW W,
         Cache \in CachesWith(MappingIds, V), V \subseteq W,
         sess[s].at = "got" =>
           \/ sess[s].result.raced
           \/ \A t \in TablesOf[sess[s].result.query] : <<t, sess[s].result.seen[t]>> \in W
  PROVE  Cache' \in CachesWith(MappingIds', W)
  <1>1. Quiet(s) /\ Others(s)
    BY QuietStep DEF Quiet, Others
  <1>2. CASE Store(s)
    <2>1. sess[s].at = "got"
      BY <1>2 DEF Store
    <2> QED BY <1>1, <1>2, <2>1, StoreCache, ZenonT(20)
  <1>3. CASE StoreItem(s)
    <2>1. sess[s].at = "got"
      BY <1>3 DEF StoreItem
    <2> QED BY <1>3, <2>1, StoreItemCache, ZenonT(20)
  <1>4. CASE StoreMap(s)
    BY <1>1, <1>4, StoreMapCache
  <1>5. CASE FetchAgain(s) \/ \E q \in Queries : DeleteByStatement(s, q)
    <2>1. /\ mem' \in Stores(Contents) /\ Fewer(mem, mem') /\ map' = map /\ late' = late
          /\ sess[s].at # "mapping"
      BY <1>5, ShrinkCache, ZenonT(20)
    <2> QED BY <1>1, <2>1, MappingKept, FewerCache
  <1>6. CASE ClearCache(s)
    <2>1. Cache' = [mem |-> EmptyMemory, map |-> [t \in Tables |-> <<>>], late |-> {}]
      BY <1>6 DEF ClearCache, Cache
    <2>2. EmptyMemory \in Stores(Contents) /\ LiveIds(EmptyMemory) = {}
      BY EmptyStore
    <2>3. [t \in Tables |-> <<>>] \in [Tables -> Seq(Ids)]
      OBVIOUS
    <2>4. Cache' \in Caches /\ Cache'.mem = EmptyMemory
      BY <2>1, <2>2, <2>3, ZenonT(20) DEF Caches
    <2> QED BY <2>2, <2>4, ZenonT(20) DEF CachesWith, Covered, Good
  <1>7. CASE \/ \E q \in Queries : \/ SelectUncached(s, q) \/ FetchMiss(s, q)
                                   \/ FetchHit(s, q) \/ FetchExpired(s, q)
             \/ StoreExceeded(s) \/ Begin(s) \/ Rollback(s) \/ \E t \in Tables : UpdateFails(s, t)
    <2>1. sess[s].at # "mapping" /\ mem' = mem /\ map' = map /\ late' = late
      BY <1>7, ZenonT(20)
         DEF SelectUncached, FetchMiss, FetchHit, FetchExpired, StoreExceeded, Begin,
                  Rollback, UpdateFails, MaySelect, Idle, cache, history
    <2> QED BY <1>1, <2>1, MappingKept, SameCache, ZenonT(20)
  <1> QED BY <1>2, <1>3, <1>4, <1>5, <1>6, <1>7, ZenonT(20) DEF QuietAction

\* The steps that only concern the session and the backend.
LEMMA OtherCache ==
  ASSUME TypeInv, NEW s \in Sessions, NEW V, NEW W,
         Read(s) \/ Commit(s) \/ LoseClient(s) \/ \E t \in Tables : Update(s, t),
         Cache \in CachesWith(MappingIds, V), V \subseteq W
  PROVE  Cache' \in CachesWith(MappingIds', W)
  <1>1. mem' = mem /\ map' = map /\ late' = late
    BY ZenonT(20) DEF Read, Commit, LoseClient, Update, cache, history
  <1>2. Others(s) /\ sess[s].at # "mapping"
    <2>1. CASE Read(s)
      BY <2>1, ReadStep
    <2>2. CASE Commit(s)
      BY <2>2, CommitStep
    <2>3. CASE LoseClient(s)
      BY <2>3, LoseStep
    <2>4. ASSUME NEW t \in Tables, Update(s, t) PROVE Others(s) /\ sess[s].at # "mapping"
      BY <2>4, UpdateStep
    <2> QED BY <2>1, <2>2, <2>3, <2>4
  <1> QED BY <1>1, <1>2, MappingKept, SameCache

-----------------------------------------------------------------------------
(* Types, storage and map files                                            *)

\* any contents of any table
Anything == {<<t, c[t]>> : t \in Tables, c \in Contents}

\* The invariants as a statement about the cache.
LEMMA CacheOf ==
  TypeInv /\ MapInv => Cache \in CachesWith(MappingIds, Anything)
  <1> SUFFICES ASSUME TypeInv, MapInv PROVE Cache \in CachesWith(MappingIds, Anything)
    OBVIOUS
  <1>1. Cache \in Caches /\ mem \in Stores(Contents)
    BY ZenonT(20) DEF TypeInv, Cache, Caches
  <1>2. Covered(Cache, MappingIds)
    BY DEF MapInv, Covered, Cache, Mapping, MappingIds
  <1>3. ASSUME NEW id \in LiveIds(mem), ItemAt(mem, id).key # Catalog,
               NEW t \in TablesOf[ItemAt(mem, id).key]
        PROVE  <<t, ItemAt(mem, id).result[t]>> \in Anything
    <2>1. id \in Ids /\ ItemAt(mem, id).key \in Keys /\ mem \in Memories(Contents)
      BY <1>1, <1>3, OneItemPerKey
    <2>2. ItemAt(mem, id) \in Items(Contents)
      BY <1>3, <2>1, LiveItems
    <2>3. t \in Tables
      BY <1>3, <2>1, KeyTables
    <2> QED BY <2>2, <2>3 DEF Items, Anything
  <1>4. Good(Cache, Anything)
    BY <1>3 DEF Good, Cache
  <1> QED BY <1>1, <1>2, <1>4 DEF CachesWith

\* What a step yields for the cache gives the invariants back.
LEMMA CacheSafe ==
  ASSUME NEW V, Cache' \in CachesWith(MappingIds', V)
  PROVE  mem' \in Stores(Contents) /\ map' \in [Tables -> Seq(Ids)] /\ late' \subseteq Ids /\ MapInv'
  <1>1. Cache' \in Caches /\ Covered(Cache', MappingIds')
    BY DEF CachesWith
  <1>2. mem' \in Stores(Contents) /\ map' \in [Tables -> Seq(Ids)] /\ late' \subseteq Ids
    BY <1>1 DEF Cache, Caches
  <1>3. MapInv'
    BY <1>1 DEF MapInv, Covered, Cache, Mapping, MappingIds
  <1> QED BY <1>2, <1>3

\* A held result is within Anything.
LEMMA AnyResult ==
  ASSUME NEW r \in Results
  PROVE  \A t \in TablesOf[r.query] : <<t, r.seen[t]>> \in Anything
  <1>1. r.query \in Queries /\ r.seen \in Contents
    BY DEF Results, Contents
  <1> QED BY <1>1, KeyTables DEF Anything

\* The steps, grouped.
LEMMA Steps ==
  ASSUME Next
  PROVE  \E s \in Sessions :
            \/ QuietAction(s)
            \/ Read(s) \/ Commit(s) \/ LoseClient(s) \/ \E t \in Tables : Update(s, t)
            \/ FinishUpdate(s) \/ FinishCommit(s)
  BY DEF Next, QuietAction

\* Every step keeps the types, the storage and the map files right.
LEMMA SafeNext ==
  TypeInv /\ MapInv /\ [Next]_vars => TypeInv' /\ MapInv'
  <1> SUFFICES ASSUME TypeInv, MapInv, [Next]_vars PROVE TypeInv' /\ MapInv'
    OBVIOUS
  <1>1. CASE UNCHANGED vars
    <2>1. /\ mem' = mem /\ map' = map /\ lock' = lock /\ db' = db /\ writes' = writes
          /\ sess' = sess /\ late' = late /\ missed' = missed
      BY <1>1 DEF vars, cache, history
    <2>2. TypeInv'
      BY <2>1 DEF TypeInv
    <2>3. MapInv'
      BY <2>1 DEF MapInv, Mapping
    <2> QED BY <2>2, <2>3
  <1>2. CASE Next
    <2>1. PICK s \in Sessions :
            \/ QuietAction(s)
            \/ Read(s) \/ Commit(s) \/ LoseClient(s) \/ \E t \in Tables : Update(s, t)
            \/ FinishUpdate(s) \/ FinishCommit(s)
      BY <1>2, Steps
    <2>2. Cache \in CachesWith(MappingIds, Anything)
      BY CacheOf
    <2>3. /\ lock \in Sessions \cup {None} /\ db \in [Tables -> Versions] /\ writes \in Versions
          /\ missed \subseteq Tables /\ sess[s] \in SessionType /\ SessionInv(sess[s])
          /\ sess[s].kept \in Seq(Results)
      BY DEF TypeInv, SessionType
    <2>4. lock' \in Sessions \cup {None}
      BY <2>1, <2>3, ZenonT(20)
         DEF QuietAction, SelectUncached, FetchMiss, FetchHit, FetchExpired, FetchAgain,
           DeleteByStatement, Read, Store, StoreExceeded, StoreItem, StoreMap, Update, UpdateFails,
           FinishUpdate, FinishCommit, Begin, Commit, Rollback, ClearCache, LoseClient, cache
    <2> DEFINE Rest == /\ SessOK' /\ db' \in [Tables -> Versions] /\ writes' \in Versions
                       /\ missed' \subseteq Tables /\ Cache' \in CachesWith(MappingIds', Anything)
    <2>5. ASSUME QuietAction(s) PROVE Rest
      <3>1. Quiet(s)
        BY <2>5, QuietStep
      <3>2. writes' \in Versions
        <4>1. writes' = writes \/ (writes < MaxWrites /\ writes' = writes + 1)
          BY <2>5, ZenonT(20)
             DEF QuietAction, SelectUncached, FetchMiss, FetchHit, FetchExpired, FetchAgain,
             DeleteByStatement, Store, StoreExceeded, StoreItem, StoreMap, UpdateFails, Begin,
             Rollback, ClearCache
        <4> QED BY <2>3, <4>1, QueryCacheAssumption DEF Versions
      <3>3. sess[s].at = "got" => \A t \in TablesOf[sess[s].result.query] :
                                    <<t, sess[s].result.seen[t]>> \in Anything
        BY <2>3, AnyResult DEF SessionInv
      <3>4. Cache' \in CachesWith(MappingIds', Anything)
        BY <2>2, <2>5, <3>3, QuietCache
      <3> QED BY <2>3, <3>1, <3>2, <3>4 DEF Quiet
    <2>6. ASSUME Read(s) \/ Commit(s) \/ LoseClient(s) \/ \E t \in Tables : Update(s, t)
          PROVE  Rest
      <3>1. Cache' \in CachesWith(MappingIds', Anything)
        BY <2>2, <2>6, OtherCache
      <3>2. CASE Read(s)
        <4>1. SessOK' /\ db' = db /\ missed' = missed /\ writes' = writes
          BY <3>2, ReadStep DEF Read
        <4> QED BY <2>3, <3>1, <4>1
      <3>3. CASE Commit(s)
        <4>1. SessOK' /\ db' \in [Tables -> Versions] /\ missed' = missed /\ writes' = writes
          BY <3>3, CommitStep, ZenonT(20) DEF Commit
        <4> QED BY <2>3, <3>1, <4>1
      <3>4. CASE LoseClient(s)
        <4>1. SessOK' /\ db' = db /\ missed' \subseteq Tables /\ writes' = writes
          BY <3>4, LoseStep, ZenonT(20) DEF LoseClient
        <4> QED BY <2>3, <3>1, <4>1
      <3>5. ASSUME NEW t \in Tables, Update(s, t) PROVE Rest
        <4>1. SessOK' /\ db' \in [Tables -> Versions] /\ missed' = missed /\ writes' \in Versions
          BY <3>5, UpdateStep
        <4> QED BY <2>3, <3>1, <4>1
      <3> QED BY <2>6, <3>2, <3>3, <3>4, <3>5
    <2>7. ASSUME FinishUpdate(s) \/ FinishCommit(s) PROVE Rest
      <3>1. SessOK' /\ db' = db /\ missed' = missed /\ writes' = writes
        BY <2>7, FinishStep, ZenonT(20) DEF FinishUpdate, FinishCommit
      <3>2. \A i \in 1..Len(sess[s].kept) : \A t \in TablesOf[sess[s].kept[i].query] :
               <<t, sess[s].kept[i].seen[t]>> \in Anything
        BY <2>3, AnyResult
      <3>3. Cache' \in CachesWith(MappingIds', Anything)
        BY <2>2, <2>7, <3>2, FinishCache, ZenonT(20)
      <3> QED BY <2>3, <3>1, <3>3
    <2>8. Rest
      BY <2>1, <2>5, <2>6, <2>7
    <2> HIDE DEF Anything
    <2>9. mem' \in Stores(Contents) /\ map' \in [Tables -> Seq(Ids)] /\ late' \subseteq Ids /\ MapInv'
      BY <2>8, CacheSafe
    <2>10. TypeInv'
      BY <2>4, <2>8, <2>9 DEF TypeInv, SessOK
    <2> QED BY <2>9, <2>10
  <1> QED BY <1>1, <1>2

\* The empty cache is right.
LEMMA SafeInit ==
  Init => TypeInv /\ MapInv
  <1> SUFFICES ASSUME Init PROVE TypeInv /\ MapInv
    OBVIOUS
  <1>1. mem \in Stores(Contents) /\ LiveIds(mem) = {}
    BY EmptyStore DEF Init
  <1>2. SessionInv(NewSession)
    BY NewSessionType, NoWritesType, QueryCacheAssumption DEF SessionInv
  <1>3. sess \in [Sessions -> SessionType] /\ \A s \in Sessions : SessionInv(sess[s])
    BY <1>2, NewSessionType, ZenonT(20) DEF Init
  <1>4. map \in [Tables -> Seq(Ids)]
    BY DEF Init
  <1>5. lock \in Sessions \cup {None} /\ late \subseteq Ids /\ missed \subseteq Tables
    BY DEF Init
  <1>6. db \in [Tables -> Versions] /\ writes \in Versions
    BY NoWritesType, QueryCacheAssumption DEF Init, Versions
  <1>7. MapInv
    BY <1>1 DEF MapInv
  <1> QED BY <1>1, <1>3, <1>4, <1>5, <1>6, <1>7 DEF TypeInv

\* The inductive invariant of the storage and the map files.
LEMMA SafeAlways == Spec => [](TypeInv /\ MapInv)
  BY SafeInit, SafeNext, PTL DEF Spec

\* Whatever the children do and in whatever order, blocks never hold more items
\* than fit and the hash table never has more entries than elements
\* (pool_add_item_shmem_cache), and every variable keeps its type.
THEOREM TypeCorrect == Spec => []TypeOK
  <1>1. TypeInv => TypeOK
    <2> SUFFICES ASSUME TypeInv PROVE TypeOK
      OBVIOUS
    <2>1. /\ mem \in Memories(Contents) /\ \A b \in Blocks : Len(mem.blocks[b]) <= BlockItems
          /\ Cardinality({k \in Keys : mem.index[k] # NoId}) <= HashElements
      BY ZenonT(20) DEF TypeInv, Stores, Sound, Used
    <2>2. mem.hand \in Blocks
      BY <2>1 DEF Memories
    <2>3. ASSUME NEW s \in Sessions
          PROVE  /\ sess[s].at \in Places /\ sess[s].asked \in Queries \cup {None}
                 /\ sess[s].result \in Results \cup {None} /\ sess[s].id \in Ids \cup {NoId}
                 /\ sess[s].tstate \in {"I", "T", "E"}
                 /\ sess[s].writing \in BOOLEAN /\ sess[s].oidKnown \in BOOLEAN
                 /\ sess[s].own \in [Tables -> Versions] /\ sess[s].dml \in Seq(Tables)
                 /\ sess[s].kept \in Seq(Results) /\ Len(sess[s].kept) <= MaxKept
      <3>1. sess[s] \in SessionType /\ SessionInv(sess[s])
        BY DEF TypeInv
      <3> QED BY <3>1, ZenonT(20) DEF SessionType, SessionInv
    <2>4. /\ map \in [Tables -> Seq(Ids)] /\ lock \in Sessions \cup {None}
          /\ db \in [Tables -> Versions] /\ writes \in Versions
          /\ late \subseteq Ids /\ missed \subseteq Tables
      BY DEF TypeInv
    <2> QED BY <2>1, <2>2, <2>3, <2>4 DEF TypeOK, Places
  <1> QED BY <1>1, SafeAlways, PTL

\* The hash table and the blocks agree in every reachable state, for any number
\* and size of blocks: items are added, deleted and expired, and whole blocks
\* reused, by children in any order (pool_reuse_block, pool_add_item_shmem_cache,
\* pool_delete_item_shmem_cache).
THEOREM StorageCorrect == Spec => []StorageConsistent
  <1>1. TypeInv => StorageConsistent
    BY DEF TypeInv, Stores, Sound, StorageConsistent
  <1> QED BY <1>1, SafeAlways, PTL

\* An invalidation that reads the oid map files misses no result but one that a
\* child has just stored and is about to enter (pool_add_table_oid_map,
\* pool_invalidate_query_cache).
THEOREM MapsCorrect == Spec => []MapsCoverItems
  <1>1. MapInv => MapsCoverItems
    BY DEF MapInv, MapsCoverItems, Mapping, Mapped
  <1> QED BY <1>1, SafeAlways, PTL

\* The action of ExpiryLooksAgain
LooksAgain ==
  \A s \in Sessions :
    sess[s].at = "expiring" /\ sess'[s].at # "expiring" =>
      /\ \A k \in Keys \ {sess[s].asked} : mem'.index[k] = mem.index[k]
      /\ sess'[s].at = "idle" => Search(mem, sess[s].asked) # NoId

\* Only the child itself leaves the window, by looking the key up again.
LEMMA LeavesWindow ==
  ASSUME TypeInv, Next, NEW s \in Sessions, sess[s].at = "expiring", sess'[s].at # "expiring"
  PROVE  FetchAgain(s)
  <1>1. PICK x \in Sessions :
          \/ QuietAction(x)
          \/ Read(x) \/ Commit(x) \/ LoseClient(x) \/ \E t \in Tables : Update(x, t)
          \/ FinishUpdate(x) \/ FinishCommit(x)
    BY Steps
  <1>2. x = s
    <2>1. CASE QuietAction(x)
      BY <2>1, QuietStep DEF Quiet
    <2>2. CASE Read(x)
      BY <2>2, ReadStep DEF Others
    <2>3. CASE Commit(x)
      BY <2>3, CommitStep DEF Others
    <2>4. CASE LoseClient(x)
      BY <2>4, LoseStep DEF Others
    <2>5. ASSUME NEW t \in Tables, Update(x, t) PROVE x = s
      BY <2>5, UpdateStep DEF Others
    <2>6. CASE FinishUpdate(x) \/ FinishCommit(x)
      BY <2>6, FinishStep DEF RacedSession
    <2> QED BY <1>1, <2>1, <2>2, <2>3, <2>4, <2>5, <2>6
  <1>3. FetchAgain(s) \/ sess[s].at # "expiring"
    BY <1>1, <1>2, ZenonT(20) DEF QuietAction, SelectUncached, FetchMiss, FetchHit, FetchExpired,
         DeleteByStatement, Read, Store, StoreExceeded, StoreItem, StoreMap, Update, UpdateFails,
         FinishUpdate, FinishCommit, Begin, Commit, Rollback, ClearCache, LoseClient, MaySelect, Idle
  <1> QED BY <1>3

\* After the window in which the lock is released to delete an expired item, only
\* the item of that query is deleted, and the client is answered from the cache
\* only when the result is still there (pool_find_item_on_shmem_cache).
THEOREM ExpiryCorrect == Spec => ExpiryLooksAgain
  <1>1. TypeInv /\ [Next]_vars => [LooksAgain]_vars
    <2> SUFFICES ASSUME TypeInv, Next, NEW s \in Sessions, sess[s].at = "expiring",
                        sess'[s].at # "expiring"
                 PROVE  /\ \A k \in Keys \ {sess[s].asked} : mem'.index[k] = mem.index[k]
                        /\ sess'[s].at = "idle" => Search(mem, sess[s].asked) # NoId
      BY ZenonT(20) DEF LooksAgain
    <2> DEFINE q == sess[s].asked
    <2>1. FetchAgain(s)
      BY LeavesWindow
    <2>2. q \in Queries /\ q \in Keys /\ mem \in Stores(Contents)
          /\ sess \in [Sessions -> SessionType] /\ sess[s] \in SessionType
      BY KeyTables DEF TypeInv, SessionInv
    <2>3. SendSelect(s, q) => sess'[s].at = "reading"
      BY <2>2 DEF SendSelect, SessionType
    <2>4. CASE mem' = mem /\ (SendSelect(s, q) \/ Search(mem, q) # NoId)
      BY <2>3, <2>4, ZenonT(20)
    <2>5. CASE Search(mem, q) # NoId /\ mem' = DeleteItem(mem, Search(mem, q))
      <3>1. Search(mem, q) \in Ids /\ \A k \in Keys \ {q} : mem.index[k] # Search(mem, q)
        BY <2>2, <2>5, SearchIds, OneItemPerKey DEF Search
      <3>2. \A k \in Keys \ {q} : DeleteItem(mem, Search(mem, q)).index[k] = mem.index[k]
        BY <2>2, <3>1, DeleteStore, ZenonT(20)
      <3> QED BY <2>5, <3>2
    <2> QED BY <2>1, <2>4, <2>5, ZenonT(20) DEF FetchAgain, FoundAgain
  <1>2. ExpiryLooksAgain <=> [][LooksAgain]_vars
    BY PTL DEF ExpiryLooksAgain, LooksAgain
  <1> QED BY <1>1, <1>2, SafeAlways, PTL DEF Spec

-----------------------------------------------------------------------------
(* Cached results are current                                              *)

\* the contents that a cached result may show of a table
Right == {p \in Anything : p[1] \in missed \/ Pending(p[1]) \/ p[2] = db[p[1]]}

\* Fresh(s, r) after the step
FreshNext(s, r) ==
  \/ r.raced
  \/ \A t \in TablesOf[r.query] :
       t \in missed' \/ PendingElsewhere(s, t)' \/ r.seen[t] = Visible(s, t)'

\* what a child holds after the step
HeldNext(s) ==
  /\ sess'[s].at = "got" => FreshNext(s, sess'[s].result)
  /\ \A i \in 1..Len(sess'[s].kept) : FreshNext(s, sess'[s].kept[i])

\* HeldInv after the step, child by child.
LEMMA HeldFrom == (\A s \in Sessions : HeldNext(s)) => HeldInv'
  BY ZenonT(20) DEF HeldInv, HeldNext, Fresh, FreshNext

\* A result stays fresh when the table is still to be invalidated or the same.
LEMMA StaysFresh ==
  ASSUME NEW s \in Sessions, NEW r \in Results, Fresh(s, r), missed \subseteq missed',
         \A t \in Tables : PendingElsewhere(s, t) => PendingElsewhere(s, t)' \/ t \in missed',
         \A t \in Tables : Visible(s, t)' = Visible(s, t) \/ PendingElsewhere(s, t)'
  PROVE  FreshNext(s, r)
  <1>1. TablesOf[r.query] \subseteq Tables
    BY KeyTables DEF Results
  <1> QED BY <1>1 DEF Fresh, FreshNext

\* A child that makes no step keeps its results.
LEMMA StaysHeld ==
  ASSUME TypeInv, HeldInv, NEW s \in Sessions, sess'[s] = sess[s], missed \subseteq missed',
         \A t \in Tables : PendingElsewhere(s, t) => PendingElsewhere(s, t)' \/ t \in missed',
         \A t \in Tables : db'[t] = db[t] \/ PendingElsewhere(s, t)'
  PROVE  HeldNext(s)
  <1>1. \A t \in Tables : Visible(s, t)' = Visible(s, t) \/ PendingElsewhere(s, t)'
    BY DEF Visible
  <1>2. /\ sess[s].at = "got" => sess[s].result \in Results /\ Fresh(s, sess[s].result)
        /\ \A i \in 1..Len(sess[s].kept) : sess[s].kept[i] \in Results /\ Fresh(s, sess[s].kept[i])
    BY DEF HeldInv, TypeInv, SessionInv, SessionType
  <1>3. ASSUME NEW r \in Results, Fresh(s, r) PROVE FreshNext(s, r)
    BY <1>1, <1>3, StaysFresh, ZenonT(20)
  <1> QED BY <1>2, <1>3, ZenonT(20) DEF HeldNext

\* What is right of a table stays so when its invalidation is to come.
LEMMA StaysRight ==
  ASSUME missed \subseteq missed',
         \A t \in Tables : Pending(t) => Pending(t)' \/ t \in missed',
         \A t \in Tables : db'[t] = db[t] \/ Pending(t)'
  PROVE  Right \subseteq Right'
  <1>1. \A p \in Anything : p[1] \in Tables
    BY DEF Anything
  <1> QED BY <1>1 DEF Right

\* Pending, for the children other than the one that makes the step.
LEMMA PendingOf ==
  ASSUME NEW s \in Sessions, Others(s)
  PROVE  /\ \A t \in Tables : PendingElsewhere(s, t)' <=> PendingElsewhere(s, t)
         /\ sess[s].at \notin {"wrote", "committed"} => \A t \in Tables :
               /\ Pending(t) => Pending(t)'
               /\ \A o \in Sessions : PendingElsewhere(o, t) => PendingElsewhere(o, t)'
  BY ZenonT(20) DEF Others, Pending, PendingElsewhere

\* Quiet steps keep results current: no contents change and nothing is held anew.
LEMMA QuietCurrent ==
  ASSUME TypeInv, RowInv, HeldInv, NEW s \in Sessions, Quiet(s)
  PROVE  RowInv' /\ HeldInv' /\ Right \subseteq Right'
  <1>1. /\ Others(s) /\ db' = db /\ missed' = missed /\ sess[s].at \notin {"wrote", "committed"}
    BY ZenonT(20) DEF Quiet, Others
  <1>2. \A t \in Tables : /\ Pending(t) => Pending(t)'
                          /\ \A o \in Sessions : PendingElsewhere(o, t) => PendingElsewhere(o, t)'
    BY <1>1, PendingOf
  <1>3. ASSUME NEW o \in Sessions \ {s} PROVE HeldNext(o)
    BY <1>1, <1>2, StaysHeld DEF Others
  <1>4. HeldNext(s)
    <2>1. CASE sess'[s].kept = <<>>
      BY <2>1 DEF HeldNext, Quiet
    <2>2. CASE sess'[s].kept = sess[s].kept /\ sess'[s].own = sess[s].own
      <3>1. \A t \in Tables : Visible(s, t)' = Visible(s, t)
        BY <1>1, <2>2 DEF Visible
      <3>2. \A i \in 1..Len(sess[s].kept) : sess[s].kept[i] \in Results /\ Fresh(s, sess[s].kept[i])
        BY DEF HeldInv, TypeInv, SessionType
      <3>3. \A i \in 1..Len(sess[s].kept) : FreshNext(s, sess[s].kept[i])
        BY <1>1, <1>2, <3>1, <3>2, StaysFresh, ZenonT(20)
      <3> QED BY <2>2, <3>3 DEF HeldNext, Quiet
    <2> QED BY <2>1, <2>2 DEF Quiet
  <1>5. RowInv'
    BY DEF RowInv, Quiet
  <1>6. Right \subseteq Right'
    BY <1>1, <1>2, StaysRight
  <1> QED BY <1>3, <1>4, <1>5, <1>6, HeldFrom

\* The answer of the backend shows what the session sees.
LEMMA ReadCurrent ==
  ASSUME TypeInv, RowInv, HeldInv, NEW s \in Sessions, Read(s)
  PROVE  RowInv' /\ HeldInv' /\ Right \subseteq Right'
  <1>1. /\ Others(s) /\ db' = db /\ missed' = missed /\ sess[s].at = "reading"
        /\ sess'[s].own = sess[s].own
        /\ sess'[s].at = "got" => sess'[s].result = Answer(s)
        /\ \A i \in 1..Len(sess'[s].kept) :
               \/ sess'[s].kept[i] = Answer(s)
               \/ i \in 1..Len(sess[s].kept) /\ sess'[s].kept[i] = sess[s].kept[i]
    BY ReadStep
  <1>2. \A t \in Tables : /\ Pending(t) => Pending(t)'
                          /\ \A o \in Sessions : PendingElsewhere(o, t) => PendingElsewhere(o, t)'
    BY <1>1, PendingOf
  <1>3. ASSUME NEW o \in Sessions \ {s} PROVE HeldNext(o)
    BY <1>1, <1>2, StaysHeld DEF Others
  <1>4. \A t \in Tables : Visible(s, t)' = Visible(s, t)
    BY <1>1 DEF Visible
  <1>5. FreshNext(s, Answer(s))
    <2>1. sess[s].asked \in Queries
      BY <1>1, ZenonT(20) DEF TypeInv, SessionInv
    <2>2. /\ Answer(s).query = sess[s].asked /\ TablesOf[sess[s].asked] \subseteq Tables
          /\ \A t \in TablesOf[sess[s].asked] : Answer(s).seen[t] = Visible(s, t)
      BY <2>1, KeyTables DEF Answer
    <2> QED BY <1>4, <2>2 DEF FreshNext
  <1>6. \A i \in 1..Len(sess[s].kept) : sess[s].kept[i] \in Results /\ Fresh(s, sess[s].kept[i])
    BY DEF HeldInv, TypeInv, SessionType
  <1>7. \A i \in 1..Len(sess[s].kept) : FreshNext(s, sess[s].kept[i])
    BY <1>1, <1>2, <1>4, <1>6, StaysFresh, ZenonT(20)
  <1>8. HeldNext(s)
    BY <1>1, <1>5, <1>7 DEF HeldNext
  <1>9. RowInv'
    BY <1>1 DEF RowInv, Others
  <1>10. Right \subseteq Right'
    BY <1>1, <1>2, StaysRight, ZenonT(20)
  <1> QED BY <1>3, <1>8, <1>9, <1>10, HeldFrom

\* An UPDATE makes results of its table stale, and its invalidation is to come;
\* the row lock keeps two transactions from writing the same table.
LEMMA UpdateCurrent ==
  ASSUME TypeInv, RowInv, HeldInv, NEW s \in Sessions, NEW t \in Tables, Update(s, t)
  PROVE  RowInv' /\ HeldInv' /\ Right \subseteq Right'
  <1>1. /\ Others(s) /\ missed' = missed /\ sess[s].at = "idle" /\ sess'[s].kept = <<>>
        /\ \/ /\ sess'[s].at = "wrote" /\ Contains(sess'[s].dml, t)
              /\ sess'[s].own = sess[s].own /\ \A u \in Tables \ {t} : db'[u] = db[u]
           \/ /\ sess'[s].at = "idle" /\ db' = db
              /\ \A u \in Tables \ {t} : sess'[s].own[u] = sess[s].own[u]
    BY UpdateStep, ZenonT(20)
  <1>2. \A u \in Tables : /\ Pending(u) => Pending(u)'
                          /\ \A o \in Sessions : PendingElsewhere(o, u) => PendingElsewhere(o, u)'
    BY <1>1, PendingOf, ZenonT(20)
  <1>3. \A u \in Tables : \/ db'[u] = db[u]
                          \/ Pending(u)' /\ \A o \in Sessions \ {s} : PendingElsewhere(o, u)'
    BY <1>1 DEF Pending, PendingElsewhere
  <1>4. ASSUME NEW o \in Sessions \ {s} PROVE HeldNext(o)
    BY <1>1, <1>2, <1>3, StaysHeld, ZenonT(20) DEF Others
  <1>5. HeldNext(s)
    BY <1>1 DEF HeldNext
  <1>6. \A o \in Sessions \ {s} : sess[o].own[t] = 0
    BY DEF Update, RowLocked
  <1>7. RowInv'
    BY <1>1, <1>6 DEF RowInv, Others
  <1>8. Right \subseteq Right'
    BY <1>1, <1>2, <1>3, StaysRight, ZenonT(20)
  <1> QED BY <1>4, <1>5, <1>7, <1>8, HeldFrom

\* COMMIT makes the writes visible to all, and their tables are in oidbuf.
LEMMA CommitCurrent ==
  ASSUME TypeInv, RowInv, HeldInv, NEW s \in Sessions, Commit(s), ~FailedCommits
  PROVE  RowInv' /\ HeldInv' /\ Right \subseteq Right'
  <1>1. /\ Others(s) /\ missed' = missed /\ sess[s].at = "idle" /\ sess'[s].at = "committed"
        /\ sess'[s].kept = sess[s].kept /\ sess'[s].dml = sess[s].dml /\ sess'[s].own = NoWrites
        /\ \A t \in Tables : db'[t] = Visible(s, t)
    BY CommitStep, ZenonT(20)
  <1>2. \A u \in Tables : /\ Pending(u) => Pending(u)'
                          /\ \A o \in Sessions : PendingElsewhere(o, u) => PendingElsewhere(o, u)'
    BY <1>1, PendingOf, ZenonT(20)
  <1>3. \A u \in Tables : db'[u] = db[u] \/ Contains(sess'[s].dml, u)
    BY <1>1, ZenonT(20) DEF Visible, TypeInv, SessionInv
  <1>4. \A u \in Tables : \/ db'[u] = db[u]
                          \/ Pending(u)' /\ \A o \in Sessions \ {s} : PendingElsewhere(o, u)'
    BY <1>1, <1>3 DEF Pending, PendingElsewhere
  <1>5. ASSUME NEW o \in Sessions \ {s} PROVE HeldNext(o)
    BY <1>1, <1>2, <1>4, StaysHeld, ZenonT(20) DEF Others
  <1>6. \A t \in Tables : Visible(s, t)' = Visible(s, t)
    BY <1>1, NoWritesType DEF Visible
  <1>7. \A i \in 1..Len(sess[s].kept) : sess[s].kept[i] \in Results /\ Fresh(s, sess[s].kept[i])
    BY DEF HeldInv, TypeInv, SessionType
  <1>8. \A i \in 1..Len(sess[s].kept) : FreshNext(s, sess[s].kept[i])
    BY <1>1, <1>2, <1>6, <1>7, StaysFresh, ZenonT(20)
  <1>9. HeldNext(s)
    BY <1>1, <1>8, ZenonT(20) DEF HeldNext
  <1>10. RowInv'
    BY <1>1, NoWritesType DEF RowInv, Others
  <1>11. Right \subseteq Right'
    BY <1>1, <1>2, <1>4, StaysRight, ZenonT(20)
  <1> QED BY <1>5, <1>9, <1>10, <1>11, HeldFrom

\* The client is lost: the invalidation that was to come is recorded as missed.
LEMMA LoseCurrent ==
  ASSUME TypeInv, RowInv, HeldInv, NEW s \in Sessions, LoseClient(s)
  PROVE  RowInv' /\ HeldInv' /\ Right \subseteq Right'
  <1>1. /\ Others(s) /\ db' = db /\ missed \subseteq missed' /\ sess'[s].at = "idle"
        /\ sess'[s].kept = <<>> /\ sess'[s].own = NoWrites
        /\ sess[s].at \in {"wrote", "committed"} =>
               \A t \in Tables : Contains(sess[s].dml, t) => t \in missed'
    BY LoseStep
  <1>2. \A t \in Tables :
          /\ Pending(t) => Pending(t)' \/ t \in missed'
          /\ \A o \in Sessions : PendingElsewhere(o, t) => PendingElsewhere(o, t)' \/ t \in missed'
    BY <1>1 DEF Others, Pending, PendingElsewhere
  <1>3. ASSUME NEW o \in Sessions \ {s} PROVE HeldNext(o)
    BY <1>1, <1>2, StaysHeld DEF Others
  <1>4. HeldNext(s)
    BY <1>1 DEF HeldNext
  <1>5. RowInv'
    BY <1>1, NoWritesType DEF RowInv, Others
  <1>6. Right \subseteq Right'
    BY <1>1, <1>2, StaysRight
  <1> QED BY <1>3, <1>4, <1>5, <1>6, HeldFrom

\* The invalidation: what the others hold of the tables is marked, and what the
\* child stores shows the committed contents.
LEMMA FinishCurrent ==
  ASSUME TypeInv, RowInv, HeldInv, NEW s \in Sessions, FinishUpdate(s) \/ FinishCommit(s)
  PROVE  /\ RowInv' /\ HeldInv'
         /\ \A t \in Tables : \A v : <<t, v>> \in Right /\ ~Contains(sess[s].dml, t) => <<t, v>> \in Right'
         /\ \A i \in 1..Len(sess[s].kept) :
               \/ sess[s].kept[i].raced
               \/ \A t \in TablesOf[sess[s].kept[i].query] : <<t, sess[s].kept[i].seen[t]>> \in Right'
  <1> DEFINE T == Range(sess[s].dml)
  <1>1. /\ db' = db /\ missed' = missed
        /\ sess[s].at \in {"wrote", "committed"} /\ sess'[s].at = "idle"
        /\ sess'[s].kept = <<>> /\ sess'[s].own = NoWrites /\ sess[s].own = NoWrites
        /\ \A o \in Sessions \ {s} : RacedSession(sess[o], sess'[o], T)
    BY FinishStep
  <1>2. \A t \in Tables : Contains(sess[s].dml, t) => t \in T
    BY DEF Range, Contains
  <1> HIDE DEF T
  <1>3. \A o \in Sessions \ {s} : sess'[o].at = sess[o].at /\ sess'[o].dml = sess[o].dml
                                /\ sess'[o].own = sess[o].own
    BY <1>1 DEF RacedSession
  <1>4. \A t \in Tables : /\ PendingElsewhere(s, t) => Pending(t)'
                          /\ Pending(t) => Pending(t)' \/ Contains(sess[s].dml, t)
                          /\ \A o \in Sessions : PendingElsewhere(o, t) =>
                               PendingElsewhere(o, t)' \/ Contains(sess[s].dml, t)
    BY <1>3 DEF Pending, PendingElsewhere
  <1>5. RowInv'
    BY <1>1, <1>3, NoWritesType DEF RowInv
  <1>6. ASSUME NEW o \in Sessions \ {s}, NEW r \in Results, Fresh(o, r)
        PROVE  FreshNext(o, Raced(r, T))
    <2>1. /\ Raced(r, T).query = r.query /\ Raced(r, T).seen = r.seen
          /\ r.raced => Raced(r, T).raced
          /\ TablesOf[r.query] \cap T # {} => Raced(r, T).raced
      BY RacedType
    <2>2. TablesOf[r.query] \subseteq Tables
      BY KeyTables DEF Results
    <2>3. \A t \in Tables : Visible(o, t)' = Visible(o, t)
      BY <1>1, <1>3 DEF Visible
    <2>4. CASE r.raced \/ TablesOf[r.query] \cap T # {}
      BY <2>1, <2>4, ZenonT(20) DEF FreshNext
    <2>5. CASE ~r.raced /\ TablesOf[r.query] \cap T = {}
      <3>1. \A t \in TablesOf[r.query] : ~Contains(sess[s].dml, t)
        BY <1>2, <2>2, <2>5
      <3>2. \A t \in TablesOf[r.query] :
               t \in missed' \/ PendingElsewhere(o, t)' \/ r.seen[t] = Visible(o, t)'
        BY <1>1, <1>4, <1>6, <2>2, <2>3, <2>5, <3>1, ZenonT(20) DEF Fresh
      <3> QED BY <2>1, <3>2, ZenonT(20) DEF FreshNext
    <2> QED BY <2>4, <2>5, ZenonT(20)
  <1>7. ASSUME NEW o \in Sessions \ {s} PROVE HeldNext(o)
    <2>1. /\ sess[o].at = "got" => sess[o].result \in Results /\ Fresh(o, sess[o].result)
          /\ \A i \in 1..Len(sess[o].kept) : sess[o].kept[i] \in Results /\ Fresh(o, sess[o].kept[i])
      BY DEF HeldInv, TypeInv, SessionInv, SessionType
    <2> QED BY <1>1, <1>6, <2>1 DEF HeldNext, RacedSession
  <1>8. HeldNext(s)
    BY <1>1 DEF HeldNext
  <1>9. \A t \in Tables : \A v : <<t, v>> \in Right /\ ~Contains(sess[s].dml, t) => <<t, v>> \in Right'
    BY <1>1, <1>4, ZenonT(20) DEF Right
  <1>10. ASSUME NEW i \in 1..Len(sess[s].kept), ~sess[s].kept[i].raced,
                NEW t \in TablesOf[sess[s].kept[i].query]
         PROVE  <<t, sess[s].kept[i].seen[t]>> \in Right'
    <2> DEFINE r == sess[s].kept[i]
    <2>1. r \in Results /\ Fresh(s, r)
      BY DEF HeldInv, TypeInv, SessionType
    <2>2. t \in Tables /\ <<t, r.seen[t]>> \in Anything
      BY <2>1, AnyResult, KeyTables DEF Results
    <2>3. t \in missed \/ PendingElsewhere(s, t) \/ r.seen[t] = Visible(s, t)
      BY <1>10, <2>1 DEF Fresh
    <2>4. Visible(s, t) = db[t]
      BY <1>1, <2>2, NoWritesType DEF Visible
    <2> QED BY <1>1, <1>4, <2>2, <2>3, <2>4, ZenonT(20) DEF Right
  <1> QED BY <1>5, <1>7, <1>8, <1>9, <1>10, HeldFrom, ZenonT(20)

\* CachedResultsAreCurrent as a statement about the cache, and back.
LEMMA RightCache ==
  ASSUME TypeInv, MapInv, CachedResultsAreCurrent
  PROVE  Cache \in CachesWith(MappingIds, Right)
  <1>1. Cache \in Caches /\ Covered(Cache, MappingIds) /\ Good(Cache, Anything)
    BY CacheOf DEF CachesWith
  <1>2. mem \in Stores(Contents) /\ Cache.mem = mem /\ Cache.late = late
    BY DEF TypeInv, Cache
  <1>3. ASSUME NEW id \in LiveIds(mem), ItemAt(mem, id).key # Catalog, id \notin late,
               NEW t \in TablesOf[ItemAt(mem, id).key]
        PROVE  <<t, ItemAt(mem, id).result[t]>> \in Right
    <2>1. <<t, ItemAt(mem, id).result[t]>> \in Anything
      BY <1>1, <1>2, <1>3 DEF Good
    <2>2. t \in missed \/ Pending(t) \/ ItemAt(mem, id).result[t] = db[t]
      BY <1>3 DEF CachedResultsAreCurrent
    <2> QED BY <2>1, <2>2 DEF Right
  <1>4. Good(Cache, Right)
    BY <1>2, <1>3 DEF Good
  <1> QED BY <1>1, <1>4 DEF CachesWith

\* The same after the step.
LEMMA CurrentFrom ==
  ASSUME Cache' \in CachesWith(MappingIds', Right')
  PROVE  CachedResultsAreCurrent'
  <1>1. Good(Cache', Right') /\ Cache'.mem = mem' /\ Cache'.late = late'
    BY DEF CachesWith, Cache
  <1>2. \A t, v : <<t, v>> \in Right' => t \in missed' \/ Pending(t)' \/ v = db'[t]
    BY DEF Right
  <1>3. \A id \in LiveIds(mem') :
          \/ ItemAt(mem', id).key = Catalog \/ id \in late'
          \/ \A t \in TablesOf[ItemAt(mem', id).key] :
                t \in missed' \/ Pending(t)' \/ ItemAt(mem', id).result[t] = db'[t]
    BY <1>1, <1>2, ZenonT(20) DEF Good
  <1> QED BY <1>3 DEF CachedResultsAreCurrent

\* Every step keeps the cached and the held results current.
LEMMA CurrentNext ==
  ASSUME ~FailedCommits
  PROVE  TypeInv /\ MapInv /\ CurrentInv /\ [Next]_vars => CurrentInv'
  <1> SUFFICES ASSUME TypeInv, MapInv, CurrentInv, [Next]_vars PROVE CurrentInv'
    OBVIOUS
  <1>1. CASE UNCHANGED vars
    <2>1. /\ mem' = mem /\ map' = map /\ lock' = lock /\ db' = db /\ writes' = writes
          /\ sess' = sess /\ late' = late /\ missed' = missed
      BY <1>1 DEF vars, cache, history
    <2>2. RowInv' /\ CachedResultsAreCurrent'
      BY <2>1, ZenonT(20) DEF CurrentInv, RowInv, CachedResultsAreCurrent, Pending
    <2>3. HeldInv'
      BY <2>1, ZenonT(20) DEF CurrentInv, HeldInv, Fresh, PendingElsewhere, Visible
    <2> QED BY <2>2, <2>3 DEF CurrentInv
  <1>2. CASE Next
    <2>1. RowInv /\ HeldInv /\ CachedResultsAreCurrent
      BY DEF CurrentInv
    <2>2. Cache \in CachesWith(MappingIds, Right)
      BY <2>1, RightCache
    <2>3. PICK s \in Sessions :
            \/ QuietAction(s)
            \/ Read(s) \/ Commit(s) \/ LoseClient(s) \/ \E t \in Tables : Update(s, t)
            \/ FinishUpdate(s) \/ FinishCommit(s)
      BY <1>2, Steps
    <2> DEFINE CurrentAfter == RowInv' /\ HeldInv' /\ Cache' \in CachesWith(MappingIds', Right')
    <2>4. ASSUME QuietAction(s) PROVE CurrentAfter
      <3>1. Quiet(s)
        BY <2>4, QuietStep
      <3>2. RowInv' /\ HeldInv' /\ Right \subseteq Right'
        BY <2>1, <3>1, QuietCurrent
      <3>3. ASSUME sess[s].at = "got", ~sess[s].result.raced,
                   NEW t \in TablesOf[sess[s].result.query]
            PROVE  <<t, sess[s].result.seen[t]>> \in Right'
        <4> DEFINE r == sess[s].result
        <4>1. r \in Results /\ Fresh(s, r) /\ sess[s].own = NoWrites
          BY <2>1, <3>3, ZenonT(20) DEF HeldInv, TypeInv, SessionInv
        <4>2. t \in Tables /\ <<t, r.seen[t]>> \in Anything
          BY <3>3, <4>1, AnyResult, KeyTables DEF Results
        <4>3. t \in missed \/ PendingElsewhere(s, t) \/ r.seen[t] = Visible(s, t)
          BY <3>3, <4>1 DEF Fresh
        <4>4. Visible(s, t) = db[t] /\ (PendingElsewhere(s, t) => Pending(t))
          BY <4>1, <4>2, NoWritesType DEF Visible, Pending, PendingElsewhere
        <4>5. <<t, r.seen[t]>> \in Right
          BY <4>2, <4>3, <4>4 DEF Right
        <4> QED BY <3>2, <4>5
      <3>4. Cache' \in CachesWith(MappingIds', Right')
        BY <2>2, <2>4, <3>2, <3>3, QuietCache
      <3> QED BY <3>2, <3>4
    <2>5. ASSUME Read(s) \/ Commit(s) \/ LoseClient(s) \/ \E t \in Tables : Update(s, t)
          PROVE  CurrentAfter
      <3>1. RowInv' /\ HeldInv' /\ Right \subseteq Right'
        BY <2>1, <2>5, ReadCurrent, CommitCurrent, LoseCurrent, UpdateCurrent
      <3>2. Cache' \in CachesWith(MappingIds', Right')
        BY <2>2, <2>5, <3>1, OtherCache
      <3> QED BY <3>1, <3>2
    <2>6. ASSUME FinishUpdate(s) \/ FinishCommit(s) PROVE CurrentAfter
      <3>1. /\ RowInv' /\ HeldInv'
            /\ \A t \in Tables : \A v :
                  <<t, v>> \in Right /\ ~Contains(sess[s].dml, t) => <<t, v>> \in Right'
            /\ \A i \in 1..Len(sess[s].kept) :
                  \/ sess[s].kept[i].raced
                  \/ \A t \in TablesOf[sess[s].kept[i].query] :
                        <<t, sess[s].kept[i].seen[t]>> \in Right'
        BY <2>1, <2>6, FinishCurrent
      <3>2. Cache' \in CachesWith(MappingIds', Right')
        BY <2>2, <2>6, <3>1, FinishCache, ZenonT(20)
      <3> QED BY <3>1, <3>2
    <2>7. CurrentAfter
      BY <2>3, <2>4, <2>5, <2>6
    <2> QED BY <2>7, CurrentFrom DEF CurrentInv
  <1> QED BY <1>1, <1>2

\* With clients that end a failed transaction by ROLLBACK, a cached result shows
\* the committed contents of its tables, but for results that were read before
\* and stored after an invalidation, and for tables whose invalidation is still
\* to come or was given up with the client: for any number of children, tables
\* and queries (pool_handle_query_cache).
THEOREM CurrentCorrect == ~FailedCommits => (Spec => []CachedResultsAreCurrent)
  <1> SUFFICES ASSUME ~FailedCommits PROVE Spec => []CachedResultsAreCurrent
    OBVIOUS
  <1>1. Init => CurrentInv
    <2> SUFFICES ASSUME Init PROVE CurrentInv
      OBVIOUS
    <2>1. LiveIds(mem) = {}
      BY EmptyStore DEF Init
    <2>2. \A s \in Sessions : sess[s] = NewSession
      BY DEF Init
    <2>3. \A s \in Sessions : /\ sess[s].at = "idle" /\ sess[s].own = NoWrites
                              /\ Len(sess[s].kept) = 0
      BY <2>2, NewSessionType
    <2>4. RowInv
      BY <2>3, NoWritesType DEF RowInv
    <2>5. HeldInv
      BY <2>3 DEF HeldInv
    <2>6. CachedResultsAreCurrent
      BY <2>1 DEF CachedResultsAreCurrent
    <2> QED BY <2>4, <2>5, <2>6 DEF CurrentInv
  <1>2. TypeInv /\ MapInv /\ CurrentInv /\ [Next]_vars => CurrentInv'
    BY CurrentNext
  <1>3. CurrentInv => CachedResultsAreCurrent
    BY DEF CurrentInv
  <1> QED BY <1>1, <1>2, <1>3, SafeAlways, PTL DEF Spec
=============================================================================
