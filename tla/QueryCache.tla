----------------------------- MODULE QueryCache -----------------------------
(***************************************************************************)
(* The in-memory query cache (pool_memqcache.c) as the child processes use *)
(* it for simple queries in streaming replication mode: looking a SELECT   *)
(* up, running it on the backend, storing its result, and deleting the     *)
(* results that depend on an updated table by way of the oid map files.    *)
(*                                                                         *)
(* Each session is served by a child process of its own.  A step that is   *)
(* made under the lock of the cache is one action; between the steps of a  *)
(* session every other session may act.  A table's contents are a version  *)
(* number, and a SELECT returns the versions of its tables that it saw.    *)
(***************************************************************************)
EXTENDS ShmemCache, Functions

CONSTANTS Sessions,
          Tables,
          Queries,          \* cacheable SELECTs; Keys are these and Catalog
          TablesOf,         \* the tables each of them reads
          Catalog,          \* the relation cache's query for the database oid
          None,
          FailedCommits,    \* whether clients end failed transactions by COMMIT
          Transactional,    \* bound: the sessions that open transactions
          MaxWrites,        \* bound: UPDATEs in one behaviour
          MaxKept           \* bound: results kept in one transaction

\* a table's contents; the result of a SELECT: the contents of its tables that
\* it saw, and whether an invalidation it missed came since (history)
Versions == 0..MaxWrites
Results == [query : Queries, raced : BOOLEAN, seen : [Tables -> Versions]]

ASSUME QueryCacheAssumption ==
  /\ Catalog \notin Queries
  /\ Keys = Queries \cup {Catalog}
  /\ TablesOf \in [Queries -> SUBSET Tables]
  /\ None \notin Results
  /\ FailedCommits \in BOOLEAN
  /\ Transactional \subseteq Sessions
  /\ MaxWrites \in Nat
  /\ MaxKept \in Nat

VARIABLES
  mem,        \* blocks and hash table of the cache
  map,        \* the oid map files: cache ids of the results that read a table
  lock,       \* the child that left the cache's lock file locked, or None
  db,         \* the committed version of each table
  writes,     \* how many UPDATEs were tried; the last one's version
  sess,       \* what each child knows of its session
  late,       \* history: ids stored after an invalidation that they missed
  missed      \* history: tables with an invalidation that was never made

cache == <<mem, map, lock>>
history == <<late, missed>>
vars == <<cache, db, writes, sess, history>>

NoWrites == [t \in Tables |-> 0]

\* at: where the child is; asked: the SELECT it works on; result: its
\* result; id: the cache id it holds; tstate: TSTATE; writing: writing_
\* transaction; own: versions written by the open transaction;
\* dml: oidbuf; kept: query_cache_array; oidKnown: whether the local relation
\* cache has the database oid
NewSession ==
  [at |-> "idle", asked |-> None, result |-> None, id |-> NoId, tstate |-> "I",
   writing |-> FALSE, own |-> NoWrites, dml |-> <<>>,
   kept |-> <<>>, oidKnown |-> FALSE]

Init ==
  /\ mem = EmptyMemory
  /\ map = [t \in Tables |-> <<>>]
  /\ lock = None
  /\ db = NoWrites
  /\ writes = 0
  /\ sess = [s \in Sessions |-> NewSession]
  /\ late = {}
  /\ missed = {}

-----------------------------------------------------------------------------
(* Helpers                                                                 *)

\* what the search of a map file or of oidbuf finds
Contains(seq, entry) == \E i \in 1..Len(seq) : seq[i] = entry

\* pool_shmem_lock: is_shmem_locked makes it a no-op for the child that has it
MayLock(s) == lock \in {None, s}

\* what the backend shows to the session
Visible(s, t) == IF sess[s].own[t] # 0 THEN sess[s].own[t] ELSE db[t]

\* another open transaction has updated the table's row
RowLocked(s, t) == \E other \in Sessions \ {s} : sess[other].own[t] # 0

\* seeded fault: the map file of one table only
RegisterOne(files, q, id) ==
  [t \in Tables |-> IF /\ t = CHOOSE u \in TablesOf[q] : TRUE
                       /\ ~Contains(files[t], id)
                    THEN Append(files[t], id) ELSE files[t]]

\* pool_add_table_oid_map; a second entry for an id changes nothing
Register(files, q, id) ==
  [t \in Tables |-> IF t \in TablesOf[q] /\ ~Contains(files[t], id)
                    THEN Append(files[t], id) ELSE files[t]]

\* pool_commit_cache with the database oid at hand
CommitCache(c, result) ==
  IF Search(c.mem, result.query) # NoId
  THEN c
  ELSE LET id == IdForNew(c.mem)
       IN  [mem |-> AddItem(c.mem, result.query, result.seen),
            map |-> Register(c.map, result.query, id),
            late |-> IF result.raced THEN c.late \cup {id} ELSE c.late \ {id}]

\* pool_commit_cache for each of the results
CommitAll(c, results) ==
  LET after[i \in 0..Len(results)] == IF i = 0 THEN c ELSE CommitCache(after[i - 1], results[i])
  IN  after[Len(results)]

\* pool_get_database_oid when the oid is in no relation cache:
\* pool_catalog_commit_cache
CommitCatalog(m) ==
  IF Search(m, Catalog) # NoId THEN m ELSE AddItem(m, Catalog, None)

OidFound(s, m) == sess[s].oidKnown \/ Search(m, Catalog) # NoId

\* history: ids that are stored and not yet in the map files of the tables
Unmapped(s, tables) ==
  {sess[o].id : o \in {x \in Sessions \ {s} :
      sess[x].at = "mapping" /\ TablesOf[sess[x].asked] \cap tables # {}}}

\* the ids in the map files of the tables are deleted
DeleteListed(m, oids) ==
  LET after[i \in 0..Len(oids)] == IF i = 0 THEN m ELSE DeleteItems(after[i - 1], map[oids[i]])
  IN  after[Len(oids)]

\* seeded fault: the files are unlinked and their ids are not deleted
InvalidateFilesOnly(s, oids) ==
  [mem |-> IF OidFound(s, mem) THEN mem ELSE CommitCatalog(mem),
   map |-> [t \in Tables |-> IF Contains(oids, t) THEN <<>> ELSE map[t]],
   late |-> late \cup Unmapped(s, Range(oids))]

\* pool_invalidate_query_cache: the database oid, then per table the ids in
\* its file, then the file is unlinked
Invalidate(s, oids) ==
  LET known == IF OidFound(s, mem) THEN mem ELSE CommitCatalog(mem)
      left == DeleteListed(known, oids)
  IN  [mem |-> left,
       map |-> [t \in Tables |-> IF Contains(oids, t) THEN <<>> ELSE map[t]],
       late |-> (late \cup Unmapped(s, Range(oids))) \cap LiveIds(left)]

\* history: a result that is still held was read before this invalidation
Raced(result, tables) ==
  IF result # None /\ TablesOf[result.query] \cap tables # {}
  THEN [result EXCEPT !.raced = TRUE] ELSE result

RaceOthers(s, tables) ==
  [o \in Sessions |->
     IF o = s THEN sess[o]
     ELSE [sess[o] EXCEPT !.result = Raced(@, tables),
                          !.kept = [i \in DOMAIN @ |-> Raced(@[i], tables)]]]

\* pool_add_dml_table_oid
AddOid(oids, t) == IF Contains(oids, t) THEN oids ELSE Append(oids, t)

\* pool_reset_memqcache_buffer(true): buffers and the table oids of DML
Reset(session) == [session EXCEPT !.kept = <<>>, !.dml = <<>>]

\* the query context is destroyed and the child reads the next message
Done(session) ==
  [session EXCEPT !.at = "idle", !.asked = None, !.result = None, !.id = NoId]

Idle(s) == sess[s].at = "idle"

-----------------------------------------------------------------------------
(* SELECT: SimpleQuery, pool_fetch_from_memory_cache                       *)

\* The SELECT goes to the backend.
SendSelect(s, q) ==
  sess' = [sess EXCEPT ![s].at = "reading", ![s].asked = q, ![s].id = NoId]

MaySelect(s) == Idle(s) /\ sess[s].tstate # "E" /\ Len(sess[s].kept) < MaxKept

\* After a write of the transaction the cache is not used.
SelectUncached(s, q) ==
  /\ MaySelect(s)
  /\ sess[s].writing
  /\ SendSelect(s, q)
  /\ UNCHANGED <<cache, db, writes, history>>

FetchMiss(s, q) ==
  /\ MaySelect(s) /\ ~sess[s].writing /\ MayLock(s)
  /\ Search(mem, q) = NoId
  /\ SendSelect(s, q)
  /\ lock' = None
  /\ UNCHANGED <<mem, map, db, writes, history>>

FetchHit(s, q) ==
  /\ MaySelect(s) /\ ~sess[s].writing /\ MayLock(s)
  /\ Search(mem, q) # NoId
  /\ lock' = None
  /\ UNCHANGED <<mem, map, db, writes, sess, history>>

\* pool_find_item_on_shmem_cache: the shared lock is released and an
\* exclusive one is asked for
FetchExpired(s, q) ==
  /\ MaySelect(s) /\ ~sess[s].writing /\ MayLock(s)
  /\ Search(mem, q) # NoId
  /\ sess' = [sess EXCEPT ![s].at = "expiring", ![s].asked = q,
                          ![s].id = Search(mem, q)]
  /\ lock' = None
  /\ UNCHANGED <<mem, map, db, writes, history>>

\* seeded fault: the id found under the shared lock is used
FoundBefore(s) == sess[s].id

\* pool_find_item_on_shmem_cache: the key is searched again under the
\* exclusive lock
FoundAgain(s) == Search(mem, sess[s].asked)

FetchAgain(s) ==
  /\ sess[s].at = "expiring"
  /\ MayLock(s)
  /\ lock' = None
  /\ \/ /\ FoundAgain(s) = NoId
        /\ SendSelect(s, sess[s].asked)
        /\ UNCHANGED mem
     \/ /\ FoundAgain(s) # NoId
        /\ mem' = DeleteItem(mem, FoundAgain(s))
        /\ SendSelect(s, sess[s].asked)
     \/ /\ FoundAgain(s) # NoId
        /\ sess' = [sess EXCEPT ![s] = Done(@)]
        /\ UNCHANGED mem
  /\ UNCHANGED <<map, db, writes, history>>

\* The backend runs the SELECT.  In a transaction the result is kept, unless
\* it exceeds memqcache_maxcache; otherwise it is stored when the query ends.
Read(s) ==
  /\ sess[s].at = "reading"
  /\ LET result == [query |-> sess[s].asked, raced |-> FALSE,
                    seen |-> [t \in Tables |->
                               IF t \in TablesOf[sess[s].asked] THEN Visible(s, t) ELSE 0]]
     IN  IF sess[s].tstate = "I"
         THEN sess' = [sess EXCEPT ![s].at = "got", ![s].result = result]
         ELSE \E kept \in {Append(sess[s].kept, result), sess[s].kept} :
                sess' = [sess EXCEPT ![s] = [Done(@) EXCEPT !.kept = kept]]
  /\ UNCHANGED <<cache, db, writes, history>>

\* ReadyForQuery outside a transaction: pool_handle_query_cache stores the
\* result.  The item may be there already, or the database oid may be known:
\* then the item is added and entered into the map files at once.
Store(s) ==
  /\ sess[s].at = "got"
  /\ MayLock(s)
  /\ LET found == Search(mem, sess[s].asked) # NoId
         c == CommitCache([mem |-> mem, map |-> map, late |-> late], sess[s].result)
     IN  /\ found \/ OidFound(s, c.mem)
         /\ mem' = c.mem /\ map' = c.map /\ late' = c.late
         /\ sess' = [sess EXCEPT ![s] =
                       [Reset(Done(@)) EXCEPT !.oidKnown = sess[s].oidKnown \/ ~found]]
  /\ lock' = None
  /\ UNCHANGED <<db, writes, missed>>

\* The result exceeds memqcache_maxcache and is not stored.
StoreExceeded(s) ==
  /\ sess[s].at = "got"
  /\ sess' = [sess EXCEPT ![s] = Reset(Done(@))]
  /\ UNCHANGED <<cache, db, writes, history>>

\* The database oid is in no relation cache: pool_search_relcache asks the
\* backend for it, and releases the lock that the caller took around the item
\* and its map entries.
StoreItem(s) ==
  /\ sess[s].at = "got"
  /\ MayLock(s)
  /\ Search(mem, sess[s].asked) = NoId
  /\ LET id == IdForNew(mem)
         added == AddItem(mem, sess[s].asked, sess[s].result.seen)
     IN  /\ ~OidFound(s, added)
         /\ mem' = added
         /\ sess' = [sess EXCEPT ![s].at = "mapping", ![s].id = id]
         /\ late' = IF sess[s].result.raced THEN late \cup {id} ELSE late \ {id}
  /\ lock' = None
  /\ UNCHANGED <<map, db, writes, missed>>

\* ... takes it again to cache the oid, and the map entries follow.
StoreMap(s) ==
  /\ sess[s].at = "mapping"
  /\ MayLock(s)
  /\ mem' = CommitCatalog(mem)
  /\ map' = Register(map, sess[s].asked, sess[s].id)
  /\ sess' = [sess EXCEPT ![s] = [Reset(Done(@)) EXCEPT !.oidKnown = TRUE]]
  /\ lock' = None
  /\ UNCHANGED <<db, writes, late, missed>>

-----------------------------------------------------------------------------
(* UPDATE and transactions                                                 *)

\* SimpleQuery notes the table; the backend updates it.  In a transaction
\* the kept results are dropped and writing_transaction is set.
Update(s, t) ==
  /\ Idle(s) /\ sess[s].tstate # "E"
  /\ ~RowLocked(s, t)
  /\ writes < MaxWrites
  /\ writes' = writes + 1
  /\ IF sess[s].tstate = "I"
     THEN /\ db' = [db EXCEPT ![t] = writes + 1]
          /\ sess' = [sess EXCEPT ![s].dml = AddOid(@, t), ![s].at = "wrote"]
     ELSE /\ sess' = [sess EXCEPT ![s].dml = AddOid(@, t), ![s].kept = <<>>,
                                  ![s].own[t] = writes + 1, ![s].writing = TRUE]
          /\ UNCHANGED db
  /\ UNCHANGED <<cache, history>>

\* An UPDATE ends in an error: pool_handle_query_cache is not called, so the
\* table stays in oidbuf and the kept results stay kept.
UpdateFails(s, t) ==
  /\ Idle(s) /\ sess[s].tstate # "E"
  /\ writes < MaxWrites
  /\ writes' = writes + 1
  /\ sess' = [sess EXCEPT ![s].dml = AddOid(@, t),
                          ![s].tstate = IF @ = "T" THEN "E" ELSE "I"]
  /\ UNCHANGED <<cache, db, history>>

\* ReadyForQuery after an UPDATE outside a transaction
FinishUpdate(s) ==
  /\ sess[s].at = "wrote"
  /\ MayLock(s)
  /\ LET c == Invalidate(s, sess[s].dml)
     IN  mem' = c.mem /\ map' = c.map /\ late' = c.late
  /\ sess' = [RaceOthers(s, Range(sess[s].dml)) EXCEPT
                ![s] = [Reset(Done(@)) EXCEPT !.oidKnown = TRUE]]
  /\ lock' = None
  /\ UNCHANGED <<db, writes, missed>>

Begin(s) ==
  /\ s \in Transactional
  /\ Idle(s) /\ sess[s].tstate = "I"
  /\ sess' = [sess EXCEPT ![s].tstate = "T", ![s].kept = <<>>]
  /\ UNCHANGED <<cache, db, writes, history>>

\* The backend commits; it rolls a failed transaction back instead.
Commit(s) ==
  /\ Idle(s)
  /\ sess[s].tstate = "T" \/ (sess[s].tstate = "E" /\ FailedCommits)
  /\ db' = [t \in Tables |-> IF sess[s].tstate = "T" THEN Visible(s, t) ELSE db[t]]
  /\ sess' = [sess EXCEPT ![s].tstate = "I", ![s].at = "committed", ![s].own = NoWrites,
                          ![s].writing = FALSE]
  /\ UNCHANGED <<cache, writes, history>>

\* ReadyForQuery after COMMIT: the invalidation, then the kept results
FinishCommit(s) ==
  /\ sess[s].at = "committed"
  /\ MayLock(s)
  /\ LET c == CommitAll(Invalidate(s, sess[s].dml), sess[s].kept)
     IN  mem' = c.mem /\ map' = c.map /\ late' = c.late
  /\ sess' = [RaceOthers(s, Range(sess[s].dml)) EXCEPT
                ![s] = [Reset(Done(@)) EXCEPT !.oidKnown = TRUE]]
  /\ lock' = None
  /\ UNCHANGED <<db, writes, missed>>

Rollback(s) ==
  /\ Idle(s) /\ sess[s].tstate # "I"
  /\ sess' = [sess EXCEPT ![s] = [Reset(@) EXCEPT !.tstate = "I", !.own = NoWrites,
                                                   !.writing = FALSE]]
  /\ UNCHANGED <<cache, db, writes, history>>

-----------------------------------------------------------------------------
(* Other operations on the cache                                           *)

\* PGPOOL SET CACHE DELETE: query_cache_delete_by_stmt ends by releasing the
\* semaphore of the statistics, so the lock of the cache stays with the child.
DeleteByStatement(s, q) ==
  /\ Idle(s) /\ MayLock(s)
  /\ mem' = IF Search(mem, q) = NoId THEN mem ELSE DeleteItem(mem, Search(mem, q))
  /\ lock' = s
  /\ UNCHANGED <<map, db, writes, sess, history>>

\* process_clear_cache, clear_query_cache: REVOKE or ALTER outside a
\* transaction empties the cache and removes the map files.
ClearCache(s) ==
  /\ Idle(s) /\ sess[s].tstate = "I"
  /\ MayLock(s)
  /\ mem' = EmptyMemory
  /\ map' = [t \in Tables |-> <<>>]
  /\ late' = {}
  /\ sess' = [sess EXCEPT ![s] = Reset(@)]
  /\ lock' = None
  /\ UNCHANGED <<db, writes, missed>>

\* The client is gone.  ReadyForQuery flushes to it before it handles the
\* cache, so an error of the flush ends the session without invalidation.
\* oidbuf and the local relation cache belong to the child and live on.
LoseClient(s) ==
  /\ sess[s].at \in {"wrote", "committed"} \/ (Idle(s) /\ sess[s].tstate # "I")
  /\ sess' = [sess EXCEPT ![s] = [NewSession EXCEPT !.dml = sess[s].dml,
                                                    !.oidKnown = sess[s].oidKnown]]
  /\ missed' = IF Idle(s) THEN missed ELSE missed \cup Range(sess[s].dml)
  /\ UNCHANGED <<cache, db, writes, late>>

-----------------------------------------------------------------------------
Next ==
  \/ \E s \in Sessions, q \in Queries :
       \/ SelectUncached(s, q) \/ FetchMiss(s, q) \/ FetchHit(s, q)
       \/ FetchExpired(s, q) \/ DeleteByStatement(s, q)
  \/ \E s \in Sessions :
       \/ FetchAgain(s) \/ Read(s)
       \/ Store(s) \/ StoreExceeded(s) \/ StoreItem(s) \/ StoreMap(s)
       \/ FinishUpdate(s) \/ Begin(s) \/ Commit(s) \/ FinishCommit(s)
       \/ Rollback(s)
       \/ ClearCache(s) \/ LoseClient(s)
  \/ \E s \in Sessions, t \in Tables : Update(s, t) \/ UpdateFails(s, t)

Spec == Init /\ [][Next]_vars

-----------------------------------------------------------------------------
(* Properties                                                              *)

\* The types of the variables; blocks never hold more items than fit, and the
\* hash table never has more entries than elements (pool_add_item_shmem_cache).
TypeOK ==
  /\ \A b \in Blocks : Len(mem.blocks[b]) <= BlockItems
  /\ Cardinality({k \in Keys : mem.index[k] # NoId}) <= HashElements
  /\ mem.hand \in Blocks
  /\ map \in [Tables -> Seq(Ids)]
  /\ lock \in Sessions \cup {None}
  /\ db \in [Tables -> Versions]
  /\ writes \in Versions
  /\ \A s \in Sessions :
       /\ sess[s].at \in {"idle", "expiring", "reading", "got", "mapping", "wrote", "committed"}
       /\ sess[s].asked \in Queries \cup {None}
       /\ sess[s].result = None \/ sess[s].result \in Results
       /\ sess[s].id \in Ids \cup {NoId}
       /\ sess[s].tstate \in {"I", "T", "E"}
       /\ {sess[s].writing, sess[s].oidKnown} \subseteq BOOLEAN
       /\ sess[s].own \in [Tables -> Versions]
       /\ sess[s].dml \in Seq(Tables)
       /\ sess[s].kept \in Seq(Results) /\ Len(sess[s].kept) <= MaxKept
  /\ late \subseteq Ids
  /\ missed \subseteq Tables

\* However items are added, deleted, expired and whole blocks reused, the
\* hash table and the blocks agree (pool_memqcache.c: pool_reuse_block,
\* pool_add_item_shmem_cache, pool_delete_item_shmem_cache).
StorageConsistent == Consistent(mem)

\* Every undeleted result is listed in the map file of every table it reads,
\* or the child that stored it is just about to list it: an invalidation that
\* reads the files misses nothing else (pool_add_table_oid_map,
\* pool_invalidate_query_cache).
MapsCoverItems ==
  \A id \in LiveIds(mem) :
    \/ ItemAt(mem, id).key = Catalog
    \/ \E s \in Sessions : sess[s].at = "mapping" /\ sess[s].id = id
    \/ \A t \in TablesOf[ItemAt(mem, id).key] : Contains(map[t], id)

\* The table was updated and the invalidation is still to come.
Pending(t) ==
  \E s \in Sessions : sess[s].at \in {"wrote", "committed"} /\ Contains(sess[s].dml, t)

\* A cached result shows the committed contents of its tables, unless it was
\* stored after an invalidation it missed, or the invalidation is still to
\* come or was given up with the client (pool_handle_query_cache).
CachedResultsAreCurrent ==
  \A id \in LiveIds(mem) :
    \/ ItemAt(mem, id).key = Catalog
    \/ id \in late
    \/ \A t \in TablesOf[ItemAt(mem, id).key] :
         t \in missed \/ Pending(t) \/ ItemAt(mem, id).result[t] = db[t]

\* After the window in which the lock is released to delete an expired item,
\* the client is answered from the cache only if the result is still there,
\* and nothing but that query's own item is deleted, although its place may
\* hold another result by then (pool_find_item_on_shmem_cache).
ExpiryLooksAgain ==
  [][\A s \in Sessions :
       sess[s].at = "expiring" /\ sess'[s].at # "expiring" =>
         /\ \A k \in Keys \ {sess[s].asked} : mem'.index[k] = mem.index[k]
         /\ sess'[s].at = "idle" => Search(mem, sess[s].asked) # NoId]_vars
=============================================================================
