--------------------------- MODULE StorageEngine ---------------------------
(***************************************************************************)
(* One database of the node agent: StorageEngine of                        *)
(* services/node-agent/src/storage/engine.rs with the crash recovery,      *)
(* page store, snapshots and compaction it drives (recovery.rs, page.rs,   *)
(* snapshot.rs, compaction.rs, hash_index.rs, btree_index.rs), over the    *)
(* write-ahead log of module Wal.                                          *)
(*                                                                         *)
(* The node agent calls the engine under one mutex, so an operation is one *)
(* step; a crash may cut each of them short.  Two operations are sequences *)
(* of steps, any of which may crash or fail, with no other operation in    *)
(* between: open applies the log to the pages record by record, and        *)
(* restore is a sequence of puts.                                          *)
(*                                                                         *)
(* HashIndex and BTreeIndex are updated together at every site and are one *)
(* variable here, as are vector_records and the ids held by HnswIndex.     *)
(* Keys with the "vec:" prefix are written by insert_vector only.  Pages   *)
(* are numbered from 1; a page's payload is the set of entries legible in  *)
(* it: writing an entry overwrites the one before it.                      *)
(***************************************************************************)
EXTENDS Wal, SequencesExt

CONSTANTS
    VecKeys,     \* the keys that start with "vec:"
    VecId,       \* strip_prefix("vec:").unwrap_or(key)
    EmptyVal,    \* the value of a Delete record
    BigVals,     \* values whose entry does not fit in a page
    MaxSnaps,    \* bound: snapshot files; 0 when backup is not called
    None,        \* no record, no location, no snapshot
    Corrupt,     \* a snapshot file that does not deserialize
    Compactions, \* whether compact is called
    PageFaults,  \* whether writing a page may fail, or be cut short by a crash
    MaxPages     \* bound: pages in the page file

ASSUME EngineConstants ==
    /\ {"Insert", "Update", "Delete"} \subseteq Op
    /\ IsFiniteSet(Key)
    /\ VecKeys \subseteq Key
    /\ DOMAIN VecId = Key
    /\ EmptyVal \in Val
    /\ BigVals \subseteq Val \ {EmptyVal}
    /\ None \notin Val \cup [val : Val, lsn : Nat] \cup [page : Nat, lsn : Nat]
    /\ MaxSnaps \in Nat
    /\ Compactions \in BOOLEAN
    /\ PageFaults \in BOOLEAN
    /\ MaxPages \in Nat

VARIABLES
    active,     \* active_records: key -> record or None
    index,      \* hash_idx and btree_idx: key -> location or None
    vectors,    \* vector_records and hnsw_idx: vector id -> value or None
    pages,      \* the page file
    free,       \* PageManager.free_pages, used as a stack
    snaps,      \* snapshot files, by checkpoint LSN
    ready,      \* open has returned the engine
    replaying,  \* the records recover has still to apply to the pages
    restoring   \* the entries restore has still to put; {} when it is not running

opening == <<ready, replaying>>

engVars == <<active, index, vectors, pages, free, snaps, opening, restoring>>

vars == <<walVars, engVars>>

Vals == Val \ {EmptyVal}

VectorIds == {VecId[k] : k \in Key}

Page == [type : {"Data", "Free", "Torn"}, lsn : Nat, num : Nat,
         holds : SUBSET (Key \X Val)]

DataPage(lsn, num, holds) == [type |-> "Data", lsn |-> lsn, num |-> num, holds |-> holds]

FreePage == [type |-> "Free", lsn |-> 0, num |-> 0, holds |-> {}]

(* A page whose write was cut short: its checksum does not match. *)
TornPage == [type |-> "Torn", lsn |-> 0, num |-> 0, holds |-> {}]

----------------------------------------------------------------------------
(* The page store. *)

(* Writing page id, which may be one past the end of the file. *)
WithPage(ps, id, p) == IF id > Len(ps) THEN Append(ps, p) ELSE [ps EXCEPT ![id] = p]

(* allocate_page takes the last free page, or a new one. *)
AllocatedId(ps, fr) == IF fr = <<>> THEN Len(ps) + 1 ELSE Last(fr)

(* Mutation of FreeLeft: the page handed out stays on the free list. *)
FreeLeftKept(fr) == fr

FreeLeft(fr) == IF fr = <<>> THEN fr ELSE Front(fr)

PagesOfType(ps, t) == {id \in 1 .. Len(ps) : ps[id].type = t}

(* The ids of a set in the order of a scan. *)
Ascending(S) ==
    CHOOSE s \in [1 .. Cardinality(S) -> S] :
        \A i, j \in 1 .. Cardinality(S) : i < j => s[i] < s[j]

(* What put writes on the page it allocated. *)
Entry(key, val) == IF val \in BigVals THEN {} ELSE {<<key, val>>}

EntryPage(lsn, key, val) == DataPage(lsn, Cardinality(Entry(key, val)), Entry(key, val))

(* Mutation of ApplyRecord: the LSN guard lets an equal LSN through. *)
ApplyRecordAgain(store, rec) ==
    LET data == PagesOfType(store.pages, "Data")
        id   == Min(data)
        page == store.pages[id]
        new  == AllocatedId(store.pages, store.free)
    IN  IF data = {}
        THEN [pages |-> WithPage(store.pages, new, DataPage(rec.lsn, 0, {})),
              free  |-> FreeLeft(store.free)]
        ELSE IF page.lsn > rec.lsn \/ rec.val \in BigVals
        THEN store
        ELSE [store EXCEPT !.pages[id] =
                 DataPage(rec.lsn, page.num + 1, {<<rec.key, rec.val>>})]

(* apply_record_to_pages: the first data page takes the record unless its  *)
(* LSN is already as high; without a data page one is allocated, whose LSN *)
(* then makes the idempotency guard skip the record's payload.             *)
ApplyRecord(store, rec) ==
    LET data == PagesOfType(store.pages, "Data")
        id   == Min(data)
        page == store.pages[id]
        new  == AllocatedId(store.pages, store.free)
    IN  IF data = {}
        THEN [pages |-> WithPage(store.pages, new, DataPage(rec.lsn, 0, {})),
              free  |-> FreeLeft(store.free)]
        ELSE IF page.lsn >= rec.lsn \/ rec.val \in BigVals
        THEN store
        ELSE [store EXCEPT !.pages[id] =
                 DataPage(rec.lsn, page.num + 1, {<<rec.key, rec.val>>})]

Applied(rec) == ApplyRecord([pages |-> pages, free |-> free], rec)

----------------------------------------------------------------------------
(* Recovery. *)

(* The state a replay of recs leaves for key: that of its last record. *)
ReplayKey(recs, key) ==
    LET mine == {i \in 1 .. Len(recs) : recs[i].key = key}
        rec  == recs[Max(mine)]
    IN  IF mine = {} THEN None
        ELSE IF rec.op = "Delete" THEN None
        ELSE [val |-> rec.val, lsn |-> rec.lsn]

Replay(recs) == [k \in Key |-> ReplayKey(recs, k)]

ValueOf(entry) == IF entry = None THEN None ELSE entry.val

(* HashIndex and BTreeIndex: insert replaces the location, remove drops it. *)
Indexed(idx, key, id, lsn) == [idx EXCEPT ![key] = [page |-> id, lsn |-> lsn]]

Unindexed(idx, key) == [idx EXCEPT ![key] = None]

(* hash_idx and btree_idx are rebuilt with page 0 for every key. *)
RebuiltIndex(act) ==
    [k \in Key |-> IF act[k] = None THEN None ELSE [page |-> 1, lsn |-> act[k].lsn]]

RebuiltVectors(act) ==
    [id \in VectorIds |->
        LET ks == {k \in VecKeys : VecId[k] = id /\ act[k] # None}
        IN  IF ks = {} THEN None ELSE act[CHOOSE k \in ks : TRUE].val]

NoEntries == [k \in Key |-> None]

NoVectors == [id \in VectorIds |-> None]

----------------------------------------------------------------------------
EngineInit ==
    /\ WalInit
    /\ active = NoEntries
    /\ index = NoEntries
    /\ vectors = NoVectors
    /\ pages = <<>>
    /\ free = <<>>
    /\ snaps = [l \in 0 .. MaxLsn |-> None]
    /\ ready = FALSE
    /\ replaying = <<>>
    /\ restoring = {}

(* StorageEngine::open up to the loop of recover: the free pages are found *)
(* by a scan, and read_all returns the readable part of the log.           *)
OpenEngine ==
    /\ Open
    /\ free' = Ascending(PagesOfType(pages, "Free"))
    /\ replaying' = Readable(file)
    /\ UNCHANGED <<active, index, vectors, pages, snaps, ready, restoring>>

Recovering == opened /\ ~ready

(* One turn of the loop of recover, as far as the pages go. *)
RecoverRecord ==
    /\ Recovering /\ replaying # <<>>
    /\ pages' = Applied(Head(replaying)).pages
    /\ free' = Applied(Head(replaying)).free
    /\ replaying' = Tail(replaying)
    /\ UNCHANGED <<walVars, active, index, vectors, snaps, ready, restoring>>

(* The rest of open: recover returns the memtable, the indexes are rebuilt *)
(* from it.                                                                *)
OpenReturns ==
    /\ Recovering /\ replaying = <<>>
    /\ active' = Replay(Readable(file))
    /\ index' = RebuiltIndex(active')
    /\ vectors' = RebuiltVectors(active')
    /\ ready' = TRUE
    /\ UNCHANGED <<walVars, pages, free, snaps, replaying, restoring>>

Idle == ready /\ restoring = {}

PutOp(key) == IF active[key] = None THEN "Insert" ELSE "Update"

(* The steps of put after the record is in the log. *)
ApplyPut(key, val) ==
    LET id == AllocatedId(pages, free)
    IN  /\ id <= MaxPages
        /\ pages' = WithPage(pages, id, EntryPage(next_lsn, key, val))
        /\ free' = FreeLeft(free)
        /\ index' = Indexed(index, key, id, next_lsn)
        /\ active' = [active EXCEPT ![key] = [val |-> val, lsn |-> next_lsn]]

Put(key, val) ==
    /\ Idle
    /\ key \notin VecKeys
    /\ AppendOk(PutOp(key), key, val)
    /\ ApplyPut(key, val)
    /\ UNCHANGED <<vectors, snaps, opening, restoring>>

InsertVector(key, val) ==
    /\ Idle
    /\ key \in VecKeys
    /\ AppendOk(PutOp(key), key, val)
    /\ ApplyPut(key, val)
    /\ vectors' = [vectors EXCEPT ![VecId[key]] = val]
    /\ UNCHANGED <<snaps, opening, restoring>>

(* Mutation of Delete: the record is dropped from memory only. *)
DeleteUnlogged(key) ==
    /\ Idle
    /\ active[key] # None
    /\ index' = Unindexed(index, key)
    /\ active' = [active EXCEPT ![key] = None]
    /\ vectors' = [vectors EXCEPT ![VecId[key]] = None]
    /\ UNCHANGED <<walVars, pages, free, snaps, opening, restoring>>

(* Mutation of Delete: a tombstone stays in the memtable. *)
DeleteTombstone(key) ==
    /\ Idle
    /\ active[key] # None
    /\ AppendOk("Delete", key, EmptyVal)
    /\ active' = [active EXCEPT ![key] = [val |-> EmptyVal, lsn |-> next_lsn]]
    /\ index' = Unindexed(index, key)
    /\ vectors' = [vectors EXCEPT ![VecId[key]] = None]
    /\ UNCHANGED <<pages, free, snaps, opening, restoring>>

(* Mutation of Delete: the vector stays searchable. *)
DeleteKeepsVector(key) ==
    /\ Idle
    /\ active[key] # None
    /\ AppendOk("Delete", key, EmptyVal)
    /\ index' = Unindexed(index, key)
    /\ active' = [active EXCEPT ![key] = None]
    /\ UNCHANGED <<vectors, pages, free, snaps, opening, restoring>>

Delete(key) ==
    /\ Idle
    /\ active[key] # None
    /\ AppendOk("Delete", key, EmptyVal)
    /\ index' = Unindexed(index, key)
    /\ active' = [active EXCEPT ![key] = None]
    /\ vectors' = [vectors EXCEPT ![VecId[key]] = None]
    /\ UNCHANGED <<pages, free, snaps, opening, restoring>>

(* put, insert_vector or delete returns the error of append; a restore in  *)
(* progress gives up and leaves what it has restored.                      *)
WriteFails ==
    /\ ready
    /\ \/ \E n \in ShortWrites : AppendShort(n)
       \/ \E key \in Key, val \in Vals :
             /\ restoring # {} => <<key, val>> \in restoring
             /\ AppendUnsynced(PutOp(key), key, val)
       \/ \E key \in Key :
             /\ restoring = {} /\ active[key] # None
             /\ AppendUnsynced("Delete", key, EmptyVal)
    /\ restoring' = {}
    /\ UNCHANGED <<active, index, vectors, pages, free, snaps, opening>>

(* put fails after the log has the record: the page could not be written.  *)
PageWriteFails(key, val) ==
    /\ ready /\ PageFaults
    /\ restoring # {} => <<key, val>> \in restoring
    /\ AppendOk(PutOp(key), key, val)
    /\ AllocatedId(pages, free) <= MaxPages
    /\ pages' = WithPage(pages, AllocatedId(pages, free), TornPage)
    /\ free' = FreeLeft(free)
    /\ restoring' = {}
    /\ UNCHANGED <<active, index, vectors, snaps, opening>>

SnapsWith(l) == {m \in 0 .. MaxLsn : snaps[m] # None} \cup {l}

(* backup: the snapshot file is named after the last LSN handed out. *)
Backup ==
    /\ Idle
    /\ Cardinality(SnapsWith(next_lsn - 1)) <= MaxSnaps
    /\ snaps' = [snaps EXCEPT ![next_lsn - 1] = [k \in Key |-> ValueOf(active[k])]]
    /\ UNCHANGED <<walVars, active, index, vectors, pages, free, opening, restoring>>

Loadable(l) == snaps[l] \notin {None, Corrupt}

SnapshotEntries(l) == {<<k, snaps[l][k]>> : k \in {j \in Key : snaps[l][j] # None}}

(* Mutation of RestoreBegin: the indexes are not cleared. *)
RestoreKeepsIndex(l) ==
    /\ Idle
    /\ Loadable(l)
    /\ active' = NoEntries
    /\ vectors' = NoVectors
    /\ restoring' = SnapshotEntries(l)
    /\ UNCHANGED <<walVars, index, pages, free, snaps, opening>>

(* restore up to its loop: the memory is cleared, the log is not. *)
RestoreBegin(l) ==
    /\ Idle
    /\ Loadable(l)
    /\ active' = NoEntries
    /\ vectors' = NoVectors
    /\ index' = NoEntries
    /\ restoring' = SnapshotEntries(l)
    /\ UNCHANGED <<walVars, pages, free, snaps, opening>>

(* One turn of restore's loop: put, even for the key of a vector. *)
RestorePut(key, val) ==
    /\ ready
    /\ <<key, val>> \in restoring
    /\ AppendOk(PutOp(key), key, val)
    /\ ApplyPut(key, val)
    /\ restoring' = restoring \ {<<key, val>>}
    /\ UNCHANGED <<vectors, snaps, opening>>

(* compact: every data page is freed, one page is allocated, and the live  *)
(* records are written over each other on it in the map's order.           *)
Freed(ps, ids) == [id \in 1 .. Len(ps) |-> IF id \in ids THEN FreePage ELSE ps[id]]

LiveSmall == {k \in Key : active[k] # None /\ active[k].val \notin BigVals}

CompactedPage(last) ==
    DataPage(active[last].lsn, Cardinality(LiveSmall), {<<last, active[last].val>>})

Compact ==
    LET data  == PagesOfType(pages, "Data")
        freed == Freed(pages, data)
        stack == free \o Ascending(data)
        id    == AllocatedId(freed, stack)
    IN  /\ Idle /\ Compactions
        /\ id <= MaxPages
        /\ \/ /\ LiveSmall = {}
              /\ pages' = WithPage(freed, id, DataPage(0, 0, {}))
           \/ \E last \in LiveSmall : pages' = WithPage(freed, id, CompactedPage(last))
        /\ free' = FreeLeft(stack)
        /\ UNCHANGED <<walVars, active, index, vectors, snaps, opening, restoring>>

(* What a crash leaves of the engine's memory. *)
Forget ==
    /\ active' = NoEntries
    /\ index' = NoEntries
    /\ vectors' = NoVectors
    /\ free' = <<>>
    /\ ready' = FALSE
    /\ replaying' = <<>>
    /\ restoring' = {}

(* The crash comes between two steps, those of open and restore included. *)
CrashIdle ==
    /\ Crash
    /\ Forget
    /\ UNCHANGED <<pages, snaps>>

(* The crash comes inside put, insert_vector, delete or a turn of restore: *)
(* in append, or between append and the end of the page write.             *)
CrashInWrite(op, key, val) ==
    LET id == AllocatedId(pages, free)
    IN  /\ ready
        /\ restoring # {} => <<key, val>> \in restoring
        /\ CrashInAppend(op, key, val)
        /\ Forget
        /\ UNCHANGED snaps
        /\ \/ UNCHANGED pages
           \/ /\ PageFaults
              /\ op # "Delete"
              /\ file' = Append(file, NewRecord(op, key, val))
              /\ id <= MaxPages
              /\ \E p \in {TornPage, DataPage(next_lsn, 0, {}), EntryPage(next_lsn, key, val)} :
                    pages' = WithPage(pages, id, p)

(* The crash comes while recover writes the page that a record changes; or *)
(* that write fails, open returns the error and the log stays as it is.    *)
CrashInRecovery ==
    /\ Recovering /\ replaying # <<>> /\ PageFaults
    /\ LET after == Applied(Head(replaying)).pages
       IN \E id \in 1 .. Len(after) :
             /\ id <= MaxPages
             /\ id <= Len(pages) => pages[id] # after[id]
             /\ pages' = WithPage(pages, id, TornPage)
    /\ Crash
    /\ Forget
    /\ UNCHANGED snaps

(* The crash comes while the snapshot file is written. *)
CrashInBackup ==
    /\ Idle
    /\ Cardinality(SnapsWith(next_lsn - 1)) <= MaxSnaps
    /\ snaps' = [snaps EXCEPT ![next_lsn - 1] = Corrupt]
    /\ Crash
    /\ Forget
    /\ UNCHANGED pages

(* The crash comes after compact has freed some of the data pages, or all  *)
(* of them and written n of the live records, the last one being last.     *)
CrashInCompact ==
    LET data  == PagesOfType(pages, "Data")
        freed == Freed(pages, data)
        id    == AllocatedId(freed, free \o Ascending(data))
    IN  /\ Idle /\ Compactions
        /\ \/ \E i \in data : pages' = Freed(pages, data \cap 1 .. i)
           \/ /\ id <= MaxPages
              /\ \/ pages' = WithPage(freed, id, DataPage(0, 0, {}))
                 \/ \E last \in LiveSmall, n \in 1 .. Cardinality(LiveSmall) :
                       pages' = WithPage(freed, id,
                           DataPage(active[last].lsn, n, {<<last, active[last].val>>}))
        /\ Crash
        /\ Forget
        /\ UNCHANGED snaps

EngineNext ==
    \/ OpenEngine
    \/ RecoverRecord
    \/ OpenReturns
    \/ \E key \in Key :
          \/ \E val \in Vals :
                \/ Put(key, val)
                \/ InsertVector(key, val)
                \/ RestorePut(key, val)
                \/ PageWriteFails(key, val)
                \/ CrashInWrite(PutOp(key), key, val)
          \/ Delete(key)
          \/ active[key] # None /\ CrashInWrite("Delete", key, EmptyVal)
    \/ WriteFails
    \/ Backup
    \/ \E l \in 0 .. MaxLsn : RestoreBegin(l)
    \/ Compact
    \/ CrashIdle
    \/ CrashInRecovery
    \/ CrashInBackup
    \/ CrashInCompact

EngineSpec == EngineInit /\ [][EngineNext]_vars

----------------------------------------------------------------------------
(* Properties. *)

Location == [page : Nat, lsn : Nat]

(* Type invariant of StorageEngine. *)
EngineTypeOK ==
    /\ active \in [Key -> [val : Vals, lsn : Nat] \cup {None}]
    /\ index \in [Key -> Location \cup {None}]
    /\ vectors \in [VectorIds -> Vals \cup {None}]
    /\ \A id \in 1 .. Len(pages) : pages[id] \in Page
    /\ \A i \in 1 .. Len(free) : free[i] \in 1 .. Len(pages)
    /\ ready \in BOOLEAN /\ (ready => opened)
    /\ \A i \in 1 .. Len(replaying) : replaying[i] \in LogRecord
    /\ restoring \subseteq Key \X Vals

(* put, delete, restore and open keep the hash and B+tree indexes in step  *)
(* with the memtable: the same keys, at the LSN of the record shown.       *)
IndexMatches ==
    \A k \in Key :
        /\ index[k] = None <=> active[k] = None
        /\ index[k] # None => index[k].lsn = active[k].lsn

(* insert_vector, delete and open: the vectors that can be searched are    *)
(* those whose record is in the memtable.                                  *)
VectorsMatch ==
    Idle =>
        \A id \in VectorIds :
            vectors[id] = RebuiltVectors(active)[id]

(* allocate_page, free_page, compact, open: the free list names distinct   *)
(* pages, each of them free on disk, so no live page is handed out twice.  *)
FreeListSound ==
    /\ \A i, j \in 1 .. Len(free) : free[i] = free[j] => i = j
    /\ \A i \in 1 .. Len(free) : pages[free[i]].type = "Free"

(* recover: once it is through the log, whatever earlier crashes left of   *)
(* the pages, no record of the log would change a page if it were applied  *)
(* again, so a second replay changes nothing ("replay must be safe to run  *)
(* twice").                                                                *)
ReplayTwice ==
    Recovering /\ replaying = <<>> =>
        \A i \in 1 .. Len(Readable(file)) : Applied(Readable(file)[i]).pages = pages

(* put, delete, open: what a reader sees is what a restart would show.     *)
RestartShowsSame ==
    Idle => \A k \in Key : ValueOf(active[k]) = ValueOf(ReplayKey(Readable(file), k))

----------------------------------------------------------------------------
(* The engine implements DurableMap.  A restart replays some prefix of the *)
(* log that contains everything synced, so these are the values it may     *)
(* show.                                                                   *)
Survivors(k) == {ValueOf(ReplayKey(SubSeq(file, 1, n), k)) :
                    n \in {m \in synced .. Len(file) : m <= ValidCells(file)}}

Map == INSTANCE DurableMap WITH
    MapKey <- Key,
    MapVal <- Vals,
    Absent <- None,
    store  <- [k \in Key |-> ValueOf(active[k])],
    maybe  <- [k \in Key |-> Survivors(k)],
    up     <- ready

(* StorageEngine as a whole: every acknowledged put, insert_vector and     *)
(* delete survives any number of crashes, and nothing but a write to the   *)
(* same key can change what a restart shows for it.                        *)
ImplementsMap == Map!MapSpec
=============================================================================
