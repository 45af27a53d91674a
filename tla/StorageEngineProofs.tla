------------------------ MODULE StorageEngineProofs ------------------------
(***************************************************************************)
(* Theorems about StorageEngine, for any keys, values, log and page file:  *)
(* the engine's log is a Wal; its types, its indexes, its free list and    *)
(* the replay of its log are sound under every fault; and, without restore *)
(* and with the fragments that open recognises, it implements DurableMap.  *)
(***************************************************************************)
EXTENDS StorageEngine, WalProofs, FiniteSetTheorems, WellFoundedInduction

----------------------------------------------------------------------------
(* Least and greatest numbers, and sets in ascending order. *)

LEMMA NatLeast ==
    ASSUME NEW T \in SUBSET Nat, T # {}
    PROVE  \E x \in T : \A y \in T : x <= y
<1> DEFINE R == OpToRel(<, Nat)
<1>1. PICK x \in T : \A y \in T : ~ (<<y, x>> \in R)
  <2>1. IsWellFoundedOn(R, Nat)
    BY NatLessThanWellFounded
  <2> HIDE DEF R
  <2> QED BY <2>1, WFMin
<1>2. ASSUME NEW y \in T PROVE x <= y
  <2>1. ~ (y < x)
    BY <1>1 DEF OpToRel
  <2> QED BY <2>1
<1> QED BY <1>2

LEMMA MinIn ==
    ASSUME NEW S \in SUBSET Nat, S # {}
    PROVE  Min(S) \in S /\ \A y \in S : Min(S) <= y
BY NatLeast DEF Min

LEMMA MaxIn ==
    ASSUME NEW n \in Nat, NEW S \in SUBSET (1 .. n), S # {}
    PROVE  Max(S) \in S /\ \A y \in S : y <= Max(S)
<1> DEFINE T == {n - x : x \in S}
<1>0. \A x \in S : x \in 1 .. n
  OBVIOUS
<1>1. T \in SUBSET Nat /\ T # {}
  <2>1. ASSUME NEW x \in S PROVE n - x \in Nat
    BY <1>0
  <2> QED BY <2>1
<1>2. PICK t \in T : \A u \in T : t <= u
  BY <1>1, NatLeast
<1>3. PICK x \in S : t = n - x
  OBVIOUS
<1>4. \A y \in S : x >= y
  <2> TAKE y \in S
  <2>1. n - x <= n - y /\ x \in Nat /\ y \in Nat
    BY <1>2, <1>3, SMTT(30)
  <2> QED BY <2>1
<1>5. Max(S) \in S /\ \A y \in S : Max(S) >= y
  BY <1>4 DEF Max
<1>6. \A y \in S : y \in Nat
  <2> TAKE y \in S
  <2>1. y \in 1 .. n
    BY <1>0
  <2> QED BY <2>1
<1>7. Max(S) \in Nat
  BY <1>5, <1>6
<1> QED BY <1>5, <1>6, <1>7

Increasing(s, S) ==
    /\ s \in [1 .. Cardinality(S) -> S]
    /\ \A i, j \in 1 .. Cardinality(S) : i < j => s[i] < s[j]

(* A set of page ids can be put in order: by induction on the largest id. *)
LEMMA IncreasingExists ==
    ASSUME NEW n \in Nat, NEW S \in SUBSET (1 .. n)
    PROVE  IsFiniteSet(S) /\ Cardinality(S) \in Nat /\ \E s : Increasing(s, S)
<1> DEFINE Fails == {m \in Nat : \E V \in SUBSET (1 .. m) : ~ \E s : Increasing(s, V)}
<1>f. ASSUME NEW m \in Nat, NEW V \in SUBSET (1 .. m)
      PROVE  IsFiniteSet(V) /\ Cardinality(V) \in Nat
  <2>1. IsFiniteSet(1 .. m)
    BY FS_Interval
  <2> QED BY <2>1, FS_Subset, FS_CardinalityType
<1>1. Fails = {}
  <2> SUFFICES ASSUME Fails # {} PROVE FALSE
    OBVIOUS
  <2>1. PICK m \in Fails : \A k \in Fails : m <= k
    <3>1. Fails \in SUBSET Nat
      OBVIOUS
    <3> HIDE DEF Fails
    <3> QED BY <3>1, NatLeast
  <2>2. PICK V \in SUBSET (1 .. m) : ~ \E s : Increasing(s, V)
    OBVIOUS
  <2>3. m # 0
    <3> SUFFICES ASSUME m = 0 PROVE FALSE
      OBVIOUS
    <3>0. V = {}
      <4>1. 1 .. m = {}
        OBVIOUS
      <4> QED BY <4>1
    <3>1. V = {} /\ Cardinality(V) = 0
      BY <3>0, FS_EmptySet
    <3>2. Increasing(<<>>, V)
      BY <3>1 DEF Increasing
    <3> QED BY <2>2, <3>2
  <2>4. m \in Nat /\ m - 1 \in Nat /\ ~ (m <= m - 1)
    BY <2>3
  <2>5. m - 1 \notin Fails
    BY <2>1, <2>4
  <2>6. \A W \in SUBSET (1 .. (m - 1)) : \E s : Increasing(s, W)
    BY <2>4, <2>5
  <2>7. m \in V
    <3> SUFFICES ASSUME m \notin V PROVE FALSE
      OBVIOUS
    <3>1. V \in SUBSET (1 .. (m - 1))
      BY <2>4
    <3> QED BY <2>2, <2>6, <3>1
  <2> DEFINE W == V \ {m}
  <2>8. W \in SUBSET (1 .. (m - 1))
    BY <2>4
  <2>9. PICK s : Increasing(s, W)
    BY <2>6, <2>8
  <2>10. Cardinality(W) = Cardinality(V) - 1 /\ Cardinality(V) \in Nat /\ Cardinality(W) \in Nat
    BY <1>f, <2>4, <2>7, FS_RemoveElement
  <2> DEFINE t == [i \in 1 .. Cardinality(V) |-> IF i = Cardinality(V) THEN m ELSE s[i]]
  <2>11. \A i \in 1 .. Cardinality(W) : s[i] \in W /\ s[i] \in V /\ s[i] < m /\ s[i] \in Nat
    <3> TAKE i \in 1 .. Cardinality(W)
    <3>1. s[i] \in W
      BY <2>9 DEF Increasing
    <3>2. s[i] \in 1 .. (m - 1)
      BY <2>8, <3>1
    <3> QED BY <2>4, <3>1, <3>2
  <2>12. t \in [1 .. Cardinality(V) -> V]
    <3> SUFFICES ASSUME NEW i \in 1 .. Cardinality(V), i # Cardinality(V)
                 PROVE  s[i] \in V
      BY <2>7
    <3>1. i \in 1 .. Cardinality(W)
      BY <2>10
    <3> QED BY <2>11, <3>1
  <2>13. ASSUME NEW i \in 1 .. Cardinality(V), NEW j \in 1 .. Cardinality(V), i < j
         PROVE  t[i] < t[j]
    <3>1. i \in 1 .. Cardinality(W) /\ t[i] = s[i]
      BY <2>10, <2>13
    <3>2. CASE j = Cardinality(V)
      BY <2>11, <3>1, <3>2
    <3>3. CASE j # Cardinality(V)
      <4>1. j \in 1 .. Cardinality(W) /\ t[j] = s[j]
        BY <2>10, <3>3
      <4> QED BY <2>9, <2>13, <3>1, <4>1 DEF Increasing
    <3> QED BY <3>2, <3>3
  <2>14. Increasing(t, V)
    BY <2>12, <2>13 DEF Increasing
  <2> QED BY <2>2, <2>14
<1>2. n \notin Fails
  BY <1>1
<1> QED BY <1>2, <1>f

(* What PageManager::open and compact put on the free list: the pages of   *)
(* the set, each of them once.                                             *)
LEMMA AscendingList ==
    ASSUME NEW n \in Nat, NEW S \in SUBSET (1 .. n)
    PROVE  /\ Ascending(S) \in Seq(S)
           /\ \A i, j \in 1 .. Len(Ascending(S)) : Ascending(S)[i] = Ascending(S)[j] => i = j
<1>1. Cardinality(S) \in Nat /\ \E s : Increasing(s, S)
  BY IncreasingExists
<1>2. Ascending(S) = CHOOSE s \in [1 .. Cardinality(S) -> S] :
                       \A i, j \in 1 .. Cardinality(S) : i < j => s[i] < s[j]
  BY DEF Ascending
<1>3. Increasing(Ascending(S), S)
  BY <1>1, <1>2 DEF Increasing
<1> DEFINE a == Ascending(S)
<1>4. a \in Seq(S) /\ Len(a) = Cardinality(S)
  BY <1>1, <1>3 DEF Increasing
<1>5. ASSUME NEW i \in 1 .. Len(a), NEW j \in 1 .. Len(a), a[i] = a[j] PROVE i = j
  <2>1. i \in 1 .. Cardinality(S) /\ j \in 1 .. Cardinality(S)
    BY <1>4
  <2>2. a[i] \in 1 .. n
    BY <1>3, <2>1 DEF Increasing
  <2>3. a[i] \in Nat
    BY <2>2
  <2> HIDE DEF a
  <2>4. ~ (i < j) /\ ~ (j < i)
    BY <1>3, <1>5, <2>1, <2>3 DEF Increasing, a
  <2> QED BY <2>1, <2>4
<1> QED BY <1>4, <1>5

----------------------------------------------------------------------------
(* The log of the engine. *)

LEMMA Ops ==
    /\ \A k \in Key : PutOp(k) \in Op /\ PutOp(k) \in OpType /\ PutOp(k) # "Delete"
    /\ "Delete" \in Op /\ "Delete" \in OpType
    /\ EmptyVal \in Val /\ Vals \subseteq Val
BY EngineConstants DEF PutOp, OpType, Vals

(* Whatever the engine does to its log, the log manager does. *)
LEMMA EngineLogs == [EngineNext]_vars => [WalNext]_walVars
<1> SUFFICES ASSUME EngineNext PROVE [WalNext]_walVars
  BY DEF vars, walVars
<1>1. CASE OpenEngine \/ CrashIdle \/ CrashInBackup \/ CrashInCompact \/ CrashInRecovery
  BY <1>1 DEF OpenEngine, CrashIdle, CrashInBackup, CrashInCompact, CrashInRecovery, WalNext
<1>2. CASE RecoverRecord \/ OpenReturns \/ Backup \/ Compact
  BY <1>2 DEF RecoverRecord, OpenReturns, Backup, Compact
<1>3. ASSUME NEW l \in 0 .. MaxLsn, RestoreBegin(l) PROVE [WalNext]_walVars
  BY <1>3 DEF RestoreBegin
<1>4. ASSUME NEW key \in Key, NEW val \in Vals,
             \/ Put(key, val) \/ InsertVector(key, val) \/ RestorePut(key, val)
             \/ PageWriteFails(key, val)
      PROVE  [WalNext]_walVars
  <2>1. AppendOk(PutOp(key), key, val)
    BY <1>4 DEF Put, InsertVector, RestorePut, PageWriteFails
  <2> QED BY <2>1, Ops DEF WalNext
<1>5. ASSUME NEW key \in Key, NEW val \in Vals, CrashInWrite(PutOp(key), key, val)
      PROVE  [WalNext]_walVars
  <2>1. CrashInAppend(PutOp(key), key, val)
    BY <1>5 DEF CrashInWrite
  <2> QED BY <2>1, Ops DEF WalNext
<1>6. ASSUME NEW key \in Key, Delete(key) \/ CrashInWrite("Delete", key, EmptyVal)
      PROVE  [WalNext]_walVars
  <2>1. AppendOk("Delete", key, EmptyVal) \/ CrashInAppend("Delete", key, EmptyVal)
    BY <1>6 DEF Delete, CrashInWrite
  <2> QED BY <2>1, Ops DEF WalNext
<1>7. CASE WriteFails
  <2>1. ASSUME NEW n \in ShortWrites, AppendShort(n) PROVE [WalNext]_walVars
    BY <2>1 DEF WalNext
  <2>2. ASSUME NEW key \in Key, NEW val \in Vals, AppendUnsynced(PutOp(key), key, val)
        PROVE  [WalNext]_walVars
    BY <2>2, Ops DEF WalNext
  <2>3. ASSUME NEW key \in Key, AppendUnsynced("Delete", key, EmptyVal)
        PROVE  [WalNext]_walVars
    BY <2>3, Ops DEF WalNext
  <2> QED BY <1>7, <2>1, <2>2, <2>3 DEF WriteFails
<1> QED BY <1>1, <1>2, <1>3, <1>4, <1>5, <1>6, <1>7 DEF EngineNext

(* StorageEngine uses its log as WalManager allows, so that everything     *)
(* proved of Wal holds of the engine's log.                                *)
THEOREM EngineLogIsWal == EngineSpec => WalSpec
<1>1. EngineInit => WalInit
  BY DEF EngineInit
<1> QED BY <1>1, EngineLogs, PTL DEF EngineSpec, WalSpec

(* Opening the log, a short write and a crash leave no record that was not *)
(* there, in its place.                                                    *)
LEMMA FileKept ==
    ASSUME OrderInv, Open \/ Crash \/ \E n \in ShortWrites : AppendShort(n)
    PROVE  \A i \in 1 .. Len(file') :
              file'[i] \in LogRecord => i \in 1 .. Len(file) /\ file'[i] = file[i]
<1>t. file \in Seq(Cell) /\ Len(file) \in Nat /\ synced \in 0 .. Len(file)
  BY DEF OrderInv, WalTypeOK
<1>b. PICK n \in 0 .. Len(file) : Boundary(file, n)
  BY DEF OrderInv, HasBoundary
<1>1. CASE Open
  <2>1. /\ \A i \in 1 .. n : file'[i] = file[i]
        /\ \A i \in 1 .. Len(file') : file'[i] \in LogRecord => i \in 1 .. n
    BY <1>t, <1>b, <1>1, TruncatedFile DEF Open
  <2> QED BY <1>t, <2>1
<1>2. CASE Crash
  <2>1. PICK keep \in synced .. Len(file) :
          \/ file' = SubSeq(file, 1, keep)
          \/ \E k \in TornSizes : file' = WithStrayBytes(SubSeq(file, 1, keep), k)
    BY <1>2 DEF Crash
  <2> DEFINE cut == SubSeq(file, 1, keep)
  <2>2. keep \in 0 .. Len(file)
    BY <1>t
  <2>3. PICK m : /\ cut \in Seq(Cell) /\ Len(cut) = keep /\ Boundary(cut, m)
                 /\ \A i \in 1 .. keep : cut[i] = file[i]
    BY <1>t, <1>b, <2>2, CutBoundary
  <2> HIDE DEF cut
  <2>4. CASE file' = cut
    BY <1>t, <2>2, <2>3, <2>4
  <2>5. ASSUME NEW k \in TornSizes, file' = WithStrayBytes(cut, k)
        PROVE  \A i \in 1 .. Len(file') :
                  file'[i] \in LogRecord => i \in 1 .. Len(file) /\ file'[i] = file[i]
    <3>1. k \in Nat
      BY WalConstants
    <3>2. \A i \in 1 .. Len(file') :
             file'[i] \in LogRecord => i \in 1 .. Len(cut) /\ file'[i] = cut[i]
      BY <2>3, <2>5, <3>1, StrayBoundary
    <3> QED BY <1>t, <2>2, <2>3, <3>2
  <2> QED BY <2>1, <2>4, <2>5 DEF cut
<1>3. ASSUME NEW k \in ShortWrites, AppendShort(k)
      PROVE  \A i \in 1 .. Len(file') :
                file'[i] \in LogRecord => i \in 1 .. Len(file) /\ file'[i] = file[i]
  <2>1. k \in Nat
    BY WalConstants
  <2>2. CASE k = 0
    BY <1>3, <2>2 DEF AppendShort
  <2>3. CASE k # 0
    BY <1>t, <1>b, <1>3, <2>1, <2>3, StrayBoundary DEF AppendShort
  <2> QED BY <2>2, <2>3
<1> QED BY <1>1, <1>2, <1>3

(* An append, and a crash inside it, add at most the record appended. *)
LEMMA FileGrows ==
    ASSUME OrderInv, NEW op \in Op, NEW key \in Key, NEW val \in Val,
           \/ AppendOk(op, key, val) \/ AppendUnsynced(op, key, val)
           \/ CrashInAppend(op, key, val)
    PROVE  \A i \in 1 .. Len(file') : file'[i] \in LogRecord =>
              \/ i \in 1 .. Len(file) /\ file'[i] = file[i]
              \/ file'[i] = NewRecord(op, key, val)
<1>t. file \in Seq(Cell) /\ Len(file) \in Nat
  BY DEF OrderInv, WalTypeOK
<1>b. PICK n \in 0 .. Len(file) : Boundary(file, n)
  BY DEF OrderInv, HasBoundary
<1>1. CASE file' = Append(file, NewRecord(op, key, val))
  <2> DEFINE r == NewRecord(op, key, val)
  <2> HIDE DEF r
  <2>1. Len(file') = Len(file) + 1 /\ file'[Len(file) + 1] = r
        /\ \A i \in 1 .. Len(file) : file'[i] = file[i]
    BY <1>t, <1>1 DEF r
  <2>2. \A i \in 1 .. Len(file') : i \in 1 .. Len(file) \/ i = Len(file) + 1
    BY <1>t, <2>1
  <2> QED BY <2>1, <2>2 DEF r
<1>2. ASSUME NEW k \in TornSizes, file' = WithStrayBytes(file, k)
      PROVE  \A i \in 1 .. Len(file') :
                file'[i] \in LogRecord => i \in 1 .. Len(file) /\ file'[i] = file[i]
  <2>1. k \in Nat
    BY WalConstants
  <2> QED BY <1>t, <1>b, <1>2, <2>1, StrayBoundary
<1> QED BY <1>1, <1>2 DEF AppendOk, AppendUnsynced, CrashInAppend

(* A record that is not a deletion carries a value that put was called with. *)
LiveRecords ==
    \A i \in 1 .. Len(file) :
        file[i] \in LogRecord /\ file[i].op # "Delete" => file[i].val \in Vals

LogInv == OrderInv /\ LiveRecords

LEMMA LogInvStep == LogInv /\ [EngineNext]_vars => LogInv'
<1> SUFFICES ASSUME LogInv, [EngineNext]_vars PROVE LiveRecords'
  BY EngineLogs, OrderInvStep DEF LogInv
<1>1. ASSUME Open \/ Crash \/ \E n \in ShortWrites : AppendShort(n) PROVE LiveRecords'
  BY <1>1, FileKept DEF LogInv, LiveRecords
<1>2. ASSUME NEW op \in Op, NEW key \in Key, NEW val \in Val, op # "Delete" => val \in Vals,
             \/ AppendOk(op, key, val) \/ AppendUnsynced(op, key, val)
             \/ CrashInAppend(op, key, val)
      PROVE  LiveRecords'
  <2>1. NewRecord(op, key, val).op = op /\ NewRecord(op, key, val).val = val
    BY DEF NewRecord
  <2>2. \A i \in 1 .. Len(file') : file'[i] \in LogRecord =>
              \/ i \in 1 .. Len(file) /\ file'[i] = file[i]
              \/ file'[i] = NewRecord(op, key, val)
    BY <1>2, FileGrows DEF LogInv
  <2> QED BY <1>2, <2>1, <2>2 DEF LogInv, LiveRecords
<1>3. CASE file' = file
  BY <1>3 DEF LogInv, LiveRecords
<1>4. ASSUME NEW key \in Key, NEW val \in Vals,
             \/ Put(key, val) \/ InsertVector(key, val) \/ RestorePut(key, val)
             \/ PageWriteFails(key, val) \/ CrashInWrite(PutOp(key), key, val)
      PROVE  LiveRecords'
  <2>1. AppendOk(PutOp(key), key, val) \/ CrashInAppend(PutOp(key), key, val)
    BY <1>4 DEF Put, InsertVector, RestorePut, PageWriteFails, CrashInWrite
  <2> QED BY <1>2, <2>1, Ops
<1>5. ASSUME NEW key \in Key, Delete(key) \/ CrashInWrite("Delete", key, EmptyVal)
      PROVE  LiveRecords'
  <2>1. AppendOk("Delete", key, EmptyVal) \/ CrashInAppend("Delete", key, EmptyVal)
    BY <1>5 DEF Delete, CrashInWrite
  <2> QED BY <1>2, <2>1, Ops
<1>6. CASE WriteFails
  <2>1. ASSUME NEW key \in Key, NEW val \in Vals, AppendUnsynced(PutOp(key), key, val)
        PROVE  LiveRecords'
    BY <1>2, <2>1, Ops
  <2>2. ASSUME NEW key \in Key, AppendUnsynced("Delete", key, EmptyVal)
        PROVE  LiveRecords'
    BY <1>2, <2>2, Ops
  <2> QED BY <1>1, <1>6, <2>1, <2>2 DEF WriteFails
<1>7. CASE OpenEngine \/ CrashIdle \/ CrashInBackup \/ CrashInCompact \/ CrashInRecovery
  BY <1>1, <1>7 DEF OpenEngine, CrashIdle, CrashInBackup, CrashInCompact, CrashInRecovery
<1>8. CASE RecoverRecord \/ OpenReturns \/ Backup \/ Compact
  BY <1>3, <1>8 DEF RecoverRecord, OpenReturns, Backup, Compact, walVars
<1>9. ASSUME NEW l \in 0 .. MaxLsn, RestoreBegin(l) PROVE LiveRecords'
  BY <1>3, <1>9 DEF RestoreBegin, walVars
<1>10. CASE UNCHANGED vars
  BY <1>3, <1>10 DEF vars, walVars
<1> QED BY <1>4, <1>5, <1>6, <1>7, <1>8, <1>9, <1>10 DEF EngineNext

----------------------------------------------------------------------------
(* The memory: memtable, indexes, vectors. *)

ActiveEntry == [val : Vals, lsn : Nat]

MemTypes ==
    /\ active \in [Key -> ActiveEntry \cup {None}]
    /\ index \in [Key -> Location \cup {None}]
    /\ vectors \in [VectorIds -> Vals \cup {None}]
    /\ ready \in BOOLEAN /\ (ready => opened)
    /\ replaying \in Seq(LogRecord)
    /\ restoring \subseteq Key \X Vals

SnapTypes ==
    /\ DOMAIN snaps = 0 .. MaxLsn
    /\ \A l \in 0 .. MaxLsn : Loadable(l) => snaps[l] \in [Key -> Vals \cup {None}]

(* The free list: existing pages, distinct and free (FreeListSound). *)
PageInv ==
    /\ pages \in Seq(Page)
    /\ free \in Seq(1 .. Len(pages))
    /\ FreeListSound

EngineInv == LogInv /\ MemTypes /\ IndexMatches /\ SnapTypes /\ PageInv

LEMMA NoneIsNone ==
    /\ None \notin Vals /\ None \notin ActiveEntry /\ None \notin Location
BY EngineConstants DEF Vals, ActiveEntry, Location

(* What a scan of the file reads. *)
LEMMA ReadableFile ==
    ASSUME OrderInv
    PROVE  /\ ValidCells(file) \in 0 .. Len(file) /\ Boundary(file, ValidCells(file))
           /\ Readable(file) \in Seq(LogRecord) /\ Len(Readable(file)) = ValidCells(file)
           /\ \A i \in 1 .. ValidCells(file) : Readable(file)[i] = file[i]
<1>t. file \in Seq(Cell) /\ Len(file) \in Nat
  BY DEF OrderInv, WalTypeOK
<1>b. PICK n \in 0 .. Len(file) : Boundary(file, n)
  BY DEF OrderInv, HasBoundary
<1>1. ValidCells(file) = n
  BY <1>t, <1>b, ValidIsBoundary
<1>2. Readable(file) = SubSeq(file, 1, n)
  BY <1>1 DEF Readable
<1>3. \A i \in 1 .. n : file[i] \in LogRecord
  BY <1>b DEF Boundary
<1>4. /\ SubSeq(file, 1, n) \in Seq(LogRecord) /\ Len(SubSeq(file, 1, n)) = n
      /\ \A i \in 1 .. n : SubSeq(file, 1, n)[i] = file[i]
  BY <1>t, <1>b, <1>3
<1> QED BY <1>b, <1>1, <1>2, <1>4

(* recover shows for a key the value of its last record, unless that is a  *)
(* deletion.                                                               *)
LEMMA ReplayKeyType ==
    ASSUME NEW recs \in Seq(LogRecord), NEW k,
           \A i \in 1 .. Len(recs) : recs[i].op # "Delete" => recs[i].val \in Vals
    PROVE  ReplayKey(recs, k) \in ActiveEntry \cup {None}
<1> DEFINE mine == {i \in 1 .. Len(recs) : recs[i].key = k}
<1>1. CASE mine = {}
  BY <1>1 DEF ReplayKey
<1>2. CASE mine # {}
  <2>1. Max(mine) \in mine
    <3>1. mine \in SUBSET (1 .. Len(recs)) /\ Len(recs) \in Nat
      OBVIOUS
    <3> HIDE DEF mine
    <3> QED BY <1>2, <3>1, MaxIn
  <2>2. Max(mine) \in 1 .. Len(recs)
    BY <2>1
  <2> DEFINE rec == recs[Max(mine)]
  <2>3. rec \in LogRecord /\ (rec.op # "Delete" => rec.val \in Vals)
    BY <2>2
  <2>4. rec.lsn \in Nat
    BY <2>3 DEF LogRecord
  <2>5. ReplayKey(recs, k) = IF rec.op = "Delete" THEN None
                             ELSE [val |-> rec.val, lsn |-> rec.lsn]
    BY <1>2 DEF ReplayKey
  <2> HIDE DEF rec
  <2> QED BY <2>3, <2>4, <2>5 DEF ActiveEntry
<1> QED BY <1>1, <1>2

LEMMA ReplayTypes ==
    ASSUME LogInv
    PROVE  Replay(Readable(file)) \in [Key -> ActiveEntry \cup {None}]
<1>1. /\ Readable(file) \in Seq(LogRecord) /\ Len(Readable(file)) = ValidCells(file)
      /\ \A i \in 1 .. ValidCells(file) : Readable(file)[i] = file[i]
      /\ ValidCells(file) \in 0 .. Len(file) /\ Len(file) \in Nat
  BY ReadableFile DEF LogInv, OrderInv, WalTypeOK
<1> DEFINE recs == Readable(file)
<1>2. ASSUME NEW i \in 1 .. Len(recs), recs[i].op # "Delete" PROVE recs[i].val \in Vals
  <2>1. recs[i] = file[i] /\ recs[i] \in LogRecord /\ i \in 1 .. Len(file)
    BY <1>1
  <2> QED BY <1>2, <2>1 DEF LogInv, LiveRecords
<1> HIDE DEF recs
<1>3. recs \in Seq(LogRecord)
  BY <1>1 DEF recs
<1>4. ASSUME NEW k \in Key PROVE ReplayKey(recs, k) \in ActiveEntry \cup {None}
  BY <1>2, <1>3, ReplayKeyType
<1> QED BY <1>4 DEF Replay, recs

(* allocate_page returns the id of a free page or of the one past the end. *)
LEMMA AllocatedType ==
    ASSUME NEW ps \in Seq(Page), NEW fr \in Seq(1 .. Len(ps))
    PROVE  /\ AllocatedId(ps, fr) \in 1 .. (Len(ps) + 1)
           /\ AllocatedId(ps, fr) \in Nat
<1>1. Len(ps) \in Nat /\ Len(fr) \in Nat
  OBVIOUS
<1>2. CASE fr = <<>>
  BY <1>1, <1>2 DEF AllocatedId
<1>3. CASE fr # <<>>
  <2>1. Len(fr) \in 1 .. Len(fr)
    BY <1>1, <1>3
  <2>2. fr[Len(fr)] \in 1 .. Len(ps)
    BY <2>1
  <2>3. AllocatedId(ps, fr) = fr[Len(fr)]
    BY <1>3 DEF AllocatedId, Last
  <2> QED BY <1>1, <2>2, <2>3
<1> QED BY <1>2, <1>3

(* put enters the key in the memtable and in the indexes at the same LSN. *)
LEMMA ApplyPutMemory ==
    ASSUME EngineInv, NEW key \in Key, NEW val \in Vals, ApplyPut(key, val)
    PROVE  /\ active' \in [Key -> ActiveEntry \cup {None}]
           /\ index' \in [Key -> Location \cup {None}]
           /\ IndexMatches'
<1> DEFINE id == AllocatedId(pages, free)
           e  == [val |-> val, lsn |-> next_lsn]
           w  == [page |-> id, lsn |-> next_lsn]
<1>1. next_lsn \in Nat /\ id \in Nat
  BY AllocatedType DEF EngineInv, LogInv, OrderInv, WalTypeOK, PageInv
<1>2. e \in ActiveEntry /\ w \in Location /\ e.lsn = next_lsn /\ w.lsn = next_lsn
  BY <1>1 DEF ActiveEntry, Location
<1>3. /\ active' = [active EXCEPT ![key] = e] /\ index' = [index EXCEPT ![key] = w]
  BY DEF ApplyPut, Indexed
<1> HIDE DEF e, w, id
<1>4. /\ active \in [Key -> ActiveEntry \cup {None}]
      /\ index \in [Key -> Location \cup {None}]
  BY DEF EngineInv, MemTypes
<1>5. IndexMatches'
  <2> SUFFICES ASSUME NEW k \in Key
               PROVE  /\ index'[k] = None <=> active'[k] = None
                      /\ index'[k] # None => index'[k].lsn = active'[k].lsn
    BY DEF IndexMatches
  <2>1. CASE k = key
    BY <1>2, <1>3, <1>4, <2>1, NoneIsNone
  <2>2. CASE k # key
    BY <1>3, <1>4, <2>2 DEF EngineInv, IndexMatches
  <2> QED BY <2>1, <2>2
<1> QED BY <1>2, <1>3, <1>4, <1>5

(* The vectors that open rebuilds are values of the memtable. *)
LEMMA RebuiltTypes ==
    ASSUME NEW act \in [Key -> ActiveEntry \cup {None}]
    PROVE  /\ RebuiltIndex(act) \in [Key -> Location \cup {None}]
           /\ RebuiltVectors(act) \in [VectorIds -> Vals \cup {None}]
           /\ \A k \in Key : /\ RebuiltIndex(act)[k] = None <=> act[k] = None
                             /\ RebuiltIndex(act)[k] # None => RebuiltIndex(act)[k].lsn = act[k].lsn
<1>1. ASSUME NEW k \in Key, act[k] # None
      PROVE  act[k].lsn \in Nat /\ act[k].val \in Vals
  BY <1>1 DEF ActiveEntry
<1>2. ASSUME NEW k \in Key, act[k] # None
      PROVE  [page |-> 1, lsn |-> act[k].lsn] \in Location
  BY <1>1, <1>2 DEF Location
<1>3. RebuiltIndex(act) \in [Key -> Location \cup {None}]
  BY <1>2 DEF RebuiltIndex
<1>4. ASSUME NEW k \in Key
      PROVE  /\ RebuiltIndex(act)[k] = None <=> act[k] = None
             /\ RebuiltIndex(act)[k] # None => RebuiltIndex(act)[k].lsn = act[k].lsn
  BY <1>2, NoneIsNone DEF RebuiltIndex
<1>5. ASSUME NEW id \in VectorIds PROVE RebuiltVectors(act)[id] \in Vals \cup {None}
  <2> DEFINE ks == {k \in VecKeys : VecId[k] = id /\ act[k] # None}
  <2>1. RebuiltVectors(act)[id] = IF ks = {} THEN None ELSE act[CHOOSE k \in ks : TRUE].val
    BY DEF RebuiltVectors
  <2>2. ks # {} => (CHOOSE k \in ks : TRUE) \in ks
    OBVIOUS
  <2>3. ks \subseteq Key /\ \A k \in ks : act[k] # None
    BY EngineConstants
  <2> HIDE DEF ks
  <2> QED BY <1>1, <2>1, <2>2, <2>3
<1>6. RebuiltVectors(act) \in [VectorIds -> Vals \cup {None}]
  BY <1>5 DEF RebuiltVectors
<1> QED BY <1>3, <1>4, <1>6

(* What a crash, and the start of a restore, leave of the memory. *)
LEMMA EmptyMemory ==
    ASSUME active' = NoEntries, index' = NoEntries, vectors' = NoVectors
    PROVE  /\ active' \in [Key -> ActiveEntry \cup {None}]
           /\ index' \in [Key -> Location \cup {None}]
           /\ vectors' \in [VectorIds -> Vals \cup {None}]
           /\ IndexMatches'
BY DEF NoEntries, NoVectors, IndexMatches

LEMMA VectorIdOf == \A k \in Key : VecId[k] \in VectorIds
BY DEF VectorIds

(* Memtable, indexes and vectors through every step. *)
LEMMA MemStep == EngineInv /\ [EngineNext]_vars => (MemTypes /\ IndexMatches)'
<1> SUFFICES ASSUME EngineInv, [EngineNext]_vars PROVE (MemTypes /\ IndexMatches)'
  OBVIOUS
<1>t. /\ active \in [Key -> ActiveEntry \cup {None}] /\ index \in [Key -> Location \cup {None}]
      /\ vectors \in [VectorIds -> Vals \cup {None}]
      /\ ready \in BOOLEAN /\ (ready => opened) /\ replaying \in Seq(LogRecord)
      /\ restoring \subseteq Key \X Vals /\ IndexMatches
      /\ opened \in BOOLEAN /\ OrderInv /\ LogInv
  BY DEF EngineInv, MemTypes, LogInv, OrderInv, WalTypeOK
<1>1. CASE OpenEngine
  <2>1. replaying' \in Seq(LogRecord)
    BY <1>t, <1>1, ReadableFile DEF OpenEngine
  <2>2. UNCHANGED <<active, index, vectors, ready, restoring>> /\ opened' = TRUE
    BY <1>1 DEF OpenEngine, Open
  <2> QED BY <1>t, <2>1, <2>2 DEF MemTypes, IndexMatches
<1>2. CASE RecoverRecord
  <2>1. replaying' \in Seq(LogRecord)
    BY <1>t, <1>2 DEF RecoverRecord
  <2>2. UNCHANGED <<active, index, vectors, ready, restoring, opened>>
    BY <1>2 DEF RecoverRecord, walVars
  <2> QED BY <1>t, <2>1, <2>2 DEF MemTypes, IndexMatches
<1>3. CASE OpenReturns
  <2>1. /\ active' = Replay(Readable(file)) /\ index' = RebuiltIndex(active')
        /\ vectors' = RebuiltVectors(active') /\ ready' = TRUE /\ opened' = TRUE
        /\ UNCHANGED <<replaying, restoring>>
    BY <1>t, <1>3 DEF OpenReturns, walVars, Recovering
  <2>2. active' \in [Key -> ActiveEntry \cup {None}]
    BY <1>t, <2>1, ReplayTypes
  <2>3. /\ index' \in [Key -> Location \cup {None}]
        /\ vectors' \in [VectorIds -> Vals \cup {None}] /\ IndexMatches'
    BY <2>1, <2>2, RebuiltTypes DEF IndexMatches
  <2> QED BY <1>t, <2>1, <2>2, <2>3 DEF MemTypes
<1>4. ASSUME NEW key \in Key, NEW val \in Vals,
             Put(key, val) \/ InsertVector(key, val) \/ RestorePut(key, val)
      PROVE  (MemTypes /\ IndexMatches)'
  <2>1. /\ ApplyPut(key, val) /\ UNCHANGED opening /\ opened' = opened
        /\ restoring' \subseteq restoring
        /\ vectors' \in {vectors, [vectors EXCEPT ![VecId[key]] = val]}
    BY <1>4 DEF Put, InsertVector, RestorePut, AppendOk, TakeLsn
  <2>2. vectors' \in [VectorIds -> Vals \cup {None}]
    BY <1>t, <2>1, VectorIdOf
  <2>3. /\ active' \in [Key -> ActiveEntry \cup {None}]
        /\ index' \in [Key -> Location \cup {None}] /\ IndexMatches'
    BY <2>1, ApplyPutMemory
  <2> QED BY <1>t, <2>1, <2>2, <2>3 DEF MemTypes, opening
<1>5. ASSUME NEW key \in Key, Delete(key) PROVE (MemTypes /\ IndexMatches)'
  <2>1. /\ active' = [active EXCEPT ![key] = None] /\ index' = [index EXCEPT ![key] = None]
        /\ vectors' = [vectors EXCEPT ![VecId[key]] = None]
        /\ UNCHANGED <<ready, replaying, restoring, opened>>
    BY <1>5 DEF Delete, Unindexed, AppendOk, TakeLsn, opening
  <2>2. IndexMatches'
    BY <1>t, <2>1 DEF IndexMatches
  <2> QED BY <1>t, <2>1, <2>2, VectorIdOf DEF MemTypes
<1>6. ASSUME NEW key \in Key, NEW val \in Vals, PageWriteFails(key, val)
      PROVE  (MemTypes /\ IndexMatches)'
  <2>1. UNCHANGED <<active, index, vectors, ready, replaying, opened>> /\ restoring' = {}
    BY <1>6 DEF PageWriteFails, AppendOk, TakeLsn, opening
  <2> QED BY <1>t, <2>1 DEF MemTypes, IndexMatches
<1>7. CASE WriteFails
  <2>1. UNCHANGED <<active, index, vectors, ready, replaying, opened>> /\ restoring' = {}
    BY <1>7 DEF WriteFails, AppendShort, AppendUnsynced, TakeLsn, opening
  <2> QED BY <1>t, <2>1 DEF MemTypes, IndexMatches
<1>8. CASE Backup \/ Compact
  <2>1. UNCHANGED <<active, index, vectors, ready, replaying, opened, restoring>>
    BY <1>8 DEF Backup, Compact, walVars, opening
  <2> QED BY <1>t, <2>1 DEF MemTypes, IndexMatches
<1>9. ASSUME NEW l \in 0 .. MaxLsn, RestoreBegin(l) PROVE (MemTypes /\ IndexMatches)'
  <2>1. /\ active' = NoEntries /\ index' = NoEntries /\ vectors' = NoVectors
        /\ UNCHANGED <<ready, replaying, opened>>
    BY <1>9 DEF RestoreBegin, walVars, opening
  <2>2. restoring' \subseteq Key \X Vals
    <3>1. snaps[l] \in [Key -> Vals \cup {None}] /\ restoring' = SnapshotEntries(l)
      BY <1>9 DEF RestoreBegin, EngineInv, SnapTypes
    <3> QED BY <3>1 DEF SnapshotEntries
  <2> QED BY <1>t, <2>1, <2>2, EmptyMemory DEF MemTypes
<1>10. ASSUME Forget, opened' = FALSE PROVE (MemTypes /\ IndexMatches)'
  <2>1. /\ active' = NoEntries /\ index' = NoEntries /\ vectors' = NoVectors
        /\ ready' = FALSE /\ replaying' = <<>> /\ restoring' = {}
    BY <1>10 DEF Forget
  <2>2. replaying' \in Seq(LogRecord)
    BY <2>1
  <2> QED BY <2>1, <2>2, EmptyMemory DEF MemTypes
<1>11. CASE CrashIdle \/ CrashInBackup \/ CrashInCompact \/ CrashInRecovery
  BY <1>10, <1>11 DEF CrashIdle, CrashInBackup, CrashInCompact, CrashInRecovery, Crash
<1>12. ASSUME NEW op, NEW key, NEW val, CrashInWrite(op, key, val)
       PROVE  (MemTypes /\ IndexMatches)'
  BY <1>10, <1>12 DEF CrashInWrite, CrashInAppend
<1>13. CASE UNCHANGED vars
  BY <1>t, <1>13 DEF vars, walVars, engVars, opening, MemTypes, IndexMatches
<1> QED BY <1>1, <1>2, <1>3, <1>4, <1>5, <1>6, <1>7, <1>8, <1>9, <1>11, <1>12, <1>13
        DEF EngineNext

LEMMA SnapStep == EngineInv /\ [EngineNext]_vars => SnapTypes'
<1> SUFFICES ASSUME EngineInv, [EngineNext]_vars PROVE SnapTypes'
  OBVIOUS
<1>1. CASE UNCHANGED snaps
  BY <1>1 DEF EngineInv, SnapTypes, Loadable
<1>2. CASE Backup
  <2> DEFINE copy == [k \in Key |-> ValueOf(active[k])]
  <2>1. copy \in [Key -> Vals \cup {None}]
    BY DEF EngineInv, MemTypes, ActiveEntry, ValueOf
  <2>2. snaps' = [snaps EXCEPT ![next_lsn - 1] = copy]
    BY <1>2 DEF Backup
  <2> HIDE DEF copy
  <2> QED BY <2>1, <2>2 DEF EngineInv, SnapTypes, Loadable
<1>3. CASE CrashInBackup
  BY <1>3 DEF CrashInBackup, EngineInv, SnapTypes, Loadable
<1>4. ASSUME NEW key, NEW val,
             \/ Put(key, val) \/ InsertVector(key, val) \/ RestorePut(key, val)
             \/ PageWriteFails(key, val) \/ Delete(key)
      PROVE  UNCHANGED snaps
  BY <1>4 DEF Put, InsertVector, RestorePut, PageWriteFails, Delete
<1>5. ASSUME NEW op, NEW key, NEW val, CrashInWrite(op, key, val) PROVE UNCHANGED snaps
  BY <1>5 DEF CrashInWrite
<1>6. CASE OpenEngine \/ RecoverRecord \/ OpenReturns \/ WriteFails \/ Compact
  BY <1>1, <1>6 DEF OpenEngine, RecoverRecord, OpenReturns, WriteFails, Compact
<1>7. CASE CrashIdle \/ CrashInRecovery \/ CrashInCompact
  BY <1>1, <1>7 DEF CrashIdle, CrashInRecovery, CrashInCompact
<1>8. ASSUME NEW l, RestoreBegin(l) PROVE UNCHANGED snaps
  BY <1>8 DEF RestoreBegin
<1>9. CASE UNCHANGED vars
  BY <1>1, <1>9 DEF vars, engVars
<1> QED BY <1>1, <1>2, <1>3, <1>4, <1>5, <1>6, <1>7, <1>8, <1>9 DEF EngineNext

----------------------------------------------------------------------------
(* The page file and the free list. *)

(* A free list of a page file: existing pages, free and each named once. *)
FreeListOf(fr, ps) ==
    /\ fr \in Seq(1 .. Len(ps))
    /\ \A i, j \in 1 .. Len(fr) : fr[i] = fr[j] => i = j
    /\ \A i \in 1 .. Len(fr) : ps[fr[i]].type = "Free"

LEMMA PageInvIs == PageInv <=> pages \in Seq(Page) /\ FreeListOf(free, pages)
BY DEF PageInv, FreeListOf, FreeListSound

LEMMA WithPageIs ==
    ASSUME NEW ps \in Seq(Page), NEW id \in 1 .. (Len(ps) + 1), NEW p \in Page
    PROVE  /\ WithPage(ps, id, p) \in Seq(Page)
           /\ Len(WithPage(ps, id, p)) = IF id > Len(ps) THEN Len(ps) + 1 ELSE Len(ps)
           /\ WithPage(ps, id, p)[id] = p
           /\ \A i \in 1 .. Len(ps) : i # id => WithPage(ps, id, p)[i] = ps[i]
<1>1. CASE id > Len(ps)
  <2>1. id = Len(ps) + 1 /\ WithPage(ps, id, p) = Append(ps, p)
    BY <1>1 DEF WithPage
  <2> QED BY <2>1
<1>2. CASE ~ (id > Len(ps))
  <2>1. id \in 1 .. Len(ps) /\ WithPage(ps, id, p) = [ps EXCEPT ![id] = p]
    BY <1>2 DEF WithPage
  <2> QED BY <2>1
<1> QED BY <1>1, <1>2

LEMMA Prefix ==
    ASSUME NEW S, NEW s \in Seq(S), NEW n \in 0 .. Len(s)
    PROVE  /\ SubSeq(s, 1, n) \in Seq(S) /\ Len(SubSeq(s, 1, n)) = n
           /\ \A i \in 1 .. n : SubSeq(s, 1, n)[i] = s[i]
OBVIOUS

(* The list without its last entry. *)
LEMMA FreeLeftIs ==
    ASSUME NEW S, NEW fr \in Seq(S)
    PROVE  /\ FreeLeft(fr) \in Seq(S)
           /\ fr # <<>> => /\ Len(FreeLeft(fr)) = Len(fr) - 1
                           /\ \A i \in 1 .. Len(FreeLeft(fr)) : FreeLeft(fr)[i] = fr[i]
           /\ fr = <<>> => FreeLeft(fr) = <<>>
<1>1. CASE fr = <<>>
  BY <1>1 DEF FreeLeft
<1>2. CASE fr # <<>>
  <2>1. Len(fr) \in Nat /\ Len(fr) # 0 /\ FreeLeft(fr) = SubSeq(fr, 1, Len(fr) - 1)
    BY <1>2 DEF FreeLeft, Front
  <2>2. /\ SubSeq(fr, 1, Len(fr) - 1) \in Seq(S)
        /\ Len(SubSeq(fr, 1, Len(fr) - 1)) = Len(fr) - 1
        /\ \A i \in 1 .. (Len(fr) - 1) : SubSeq(fr, 1, Len(fr) - 1)[i] = fr[i]
    <3>1. Len(fr) - 1 \in 0 .. Len(fr)
      BY <2>1
    <3> QED BY <3>1, Prefix
  <2> QED BY <1>2, <2>1, <2>2
<1> QED BY <1>1, <1>2

(* allocate_page: writing the page it hands out, whatever is written, keeps *)
(* what is left of the free list sound.                                     *)
LEMMA Allocate ==
    ASSUME NEW ps \in Seq(Page), NEW fr, FreeListOf(fr, ps), NEW p \in Page
    PROVE  LET id == AllocatedId(ps, fr) IN
           /\ id \in 1 .. (Len(ps) + 1)
           /\ WithPage(ps, id, p) \in Seq(Page)
           /\ FreeListOf(FreeLeft(fr), WithPage(ps, id, p))
<1> DEFINE id == AllocatedId(ps, fr)
           qs == WithPage(ps, id, p)
           gr == FreeLeft(fr)
<1>t. Len(ps) \in Nat /\ fr \in Seq(1 .. Len(ps)) /\ Len(fr) \in Nat
  BY DEF FreeListOf
<1>1. id \in 1 .. (Len(ps) + 1)
  BY <1>t, AllocatedType
<1>2. /\ qs \in Seq(Page) /\ Len(qs) \in Nat /\ Len(ps) <= Len(qs)
      /\ \A i \in 1 .. Len(ps) : i # id => qs[i] = ps[i]
  <2> HIDE DEF id
  <2>1. /\ qs \in Seq(Page) /\ Len(qs) = IF id > Len(ps) THEN Len(ps) + 1 ELSE Len(ps)
        /\ \A i \in 1 .. Len(ps) : i # id => qs[i] = ps[i]
    BY <1>1, WithPageIs, ZenonT(40)
  <2> HIDE DEF qs
  <2> QED BY <1>t, <2>1
<1>3. CASE fr = <<>>
  <2>1. gr = <<>>
    BY <1>3 DEF FreeLeft
  <2> HIDE DEF qs, gr, id
  <2>2. FreeListOf(gr, qs)
    BY <2>1 DEF FreeListOf
  <2> QED BY <1>1, <1>2, <2>2 DEF qs, gr, id
<1>4. CASE fr # <<>>
  <2>1. /\ gr \in Seq(1 .. Len(ps)) /\ Len(gr) = Len(fr) - 1
        /\ \A i \in 1 .. Len(gr) : gr[i] = fr[i]
    BY <1>t, <1>4, FreeLeftIs
  <2>2. id = fr[Len(fr)]
    BY <1>4 DEF AllocatedId, Last
  <2> HIDE DEF qs, gr, id
  <2>3. Len(fr) # 0
    BY <1>t, <1>4
  <2>i. \A i \in 1 .. Len(gr) : i \in 1 .. Len(fr) /\ i # Len(fr) /\ gr[i] = fr[i]
    <3> TAKE i \in 1 .. Len(gr)
    <3>1. gr[i] = fr[i]
      BY <2>1
    <3>2. i \in 1 .. (Len(fr) - 1)
      BY <2>1
    <3> QED BY <1>t, <3>1, <3>2
  <2>4. ASSUME NEW i \in 1 .. Len(gr)
        PROVE  gr[i] \in 1 .. Len(ps) /\ gr[i] # id /\ ps[gr[i]].type = "Free"
    <3>1. i \in 1 .. Len(fr) /\ Len(fr) \in 1 .. Len(fr) /\ i # Len(fr) /\ gr[i] = fr[i]
      BY <1>t, <2>i, <2>3
    <3>2. \A j, k \in 1 .. Len(fr) : fr[j] = fr[k] => j = k
      BY DEF FreeListOf
    <3>3. fr[i] # fr[Len(fr)]
      BY <3>1, <3>2
    <3>4. fr[i] \in 1 .. Len(ps)
      BY <1>t, <3>1
    <3>5. ps[fr[i]].type = "Free"
      BY <3>1 DEF FreeListOf
    <3> QED BY <2>2, <3>1, <3>3, <3>4, <3>5
  <2>5. ASSUME NEW i \in 1 .. Len(gr)
        PROVE  gr[i] \in 1 .. Len(qs) /\ qs[gr[i]].type = "Free"
    <3>1. gr[i] \in 1 .. Len(ps) /\ qs[gr[i]] = ps[gr[i]]
      BY <1>2, <2>4
    <3> QED BY <1>t, <1>2, <2>4, <3>1
  <2>6. gr \in Seq(1 .. Len(qs))
    BY <2>1, <2>5, SMTT(30)
  <2>7. ASSUME NEW i \in 1 .. Len(gr), NEW j \in 1 .. Len(gr), gr[i] = gr[j] PROVE i = j
    <3>1. i \in 1 .. Len(fr) /\ j \in 1 .. Len(fr) /\ fr[i] = fr[j]
      BY <2>i, <2>7
    <3> QED BY <3>1 DEF FreeListOf
  <2>8. FreeListOf(gr, qs)
    BY <2>5, <2>6, <2>7 DEF FreeListOf
  <2> QED BY <1>1, <1>2, <2>8 DEF qs, gr, id
<1> QED BY <1>3, <1>4

(* Writing over a page that is not free leaves the free list sound. *)
LEMMA Overwrite ==
    ASSUME NEW ps \in Seq(Page), NEW fr, FreeListOf(fr, ps), NEW id \in 1 .. Len(ps),
           ps[id].type # "Free", NEW p \in Page
    PROVE  [ps EXCEPT ![id] = p] \in Seq(Page) /\ FreeListOf(fr, [ps EXCEPT ![id] = p])
           /\ Len([ps EXCEPT ![id] = p]) = Len(ps)
<1> DEFINE qs == [ps EXCEPT ![id] = p]
<1>1. qs \in Seq(Page) /\ Len(qs) = Len(ps) /\ \A i \in 1 .. Len(ps) : i # id => qs[i] = ps[i]
  OBVIOUS
<1> HIDE DEF qs
<1>2. ASSUME NEW i \in 1 .. Len(fr) PROVE qs[fr[i]].type = "Free"
  <2>0. fr \in Seq(1 .. Len(ps)) /\ ps[fr[i]].type = "Free"
    BY DEF FreeListOf
  <2>1. fr[i] \in 1 .. Len(ps) /\ ps[fr[i]].type = "Free"
    BY <2>0
  <2>2. fr[i] # id
    BY <2>1
  <2> QED BY <1>1, <2>1, <2>2
<1>3. FreeListOf(fr, qs)
  BY <1>1, <1>2 DEF FreeListOf
<1> QED BY <1>1, <1>3 DEF qs

LEMMA PageKinds ==
    /\ FreePage \in Page /\ TornPage \in Page /\ FreePage.type = "Free"
    /\ \A lsn \in Nat, num \in Nat, holds \in SUBSET (Key \X Val) :
          DataPage(lsn, num, holds) \in Page
BY DEF FreePage, TornPage, DataPage, Page

LEMMA EntryPageType ==
    ASSUME NEW lsn \in Nat, NEW key \in Key, NEW val \in Val
    PROVE  EntryPage(lsn, key, val) \in Page
<1>1. Entry(key, val) \in SUBSET (Key \X Val)
  BY DEF Entry
<1>2. Cardinality(Entry(key, val)) \in Nat
  <2>1. Entry(key, val) = {} \/ Entry(key, val) = {<<key, val>>}
    BY DEF Entry
  <2>2. Cardinality({}) = 0 /\ Cardinality({<<key, val>>}) = 1
    BY FS_EmptySet, FS_Singleton
  <2> QED BY <2>1, <2>2
<1> QED BY <1>1, <1>2, PageKinds DEF EntryPage

(* apply_record_to_pages keeps the free list sound. *)
LEMMA ApplyRecordPages ==
    ASSUME NEW ps \in Seq(Page), NEW fr, FreeListOf(fr, ps), NEW rec \in LogRecord
    PROVE  LET after == ApplyRecord([pages |-> ps, free |-> fr], rec) IN
           /\ after.pages \in Seq(Page) /\ FreeListOf(after.free, after.pages)
           /\ Len(after.pages) \in {Len(ps), Len(ps) + 1}
<1> DEFINE store == [pages |-> ps, free |-> fr]
           after == ApplyRecord(store, rec)
           data  == PagesOfType(ps, "Data")
           id    == Min(data)
           new   == AllocatedId(ps, fr)
<1>r. rec.lsn \in Nat /\ rec.key \in Key /\ rec.val \in Val
  BY DEF LogRecord
<1>t. Len(ps) \in Nat
  OBVIOUS
<1>1. CASE data = {}
  <2> DEFINE p == DataPage(rec.lsn, 0, {})
  <2>1. after.pages = WithPage(ps, new, p) /\ after.free = FreeLeft(fr)
    BY <1>1 DEF ApplyRecord
  <2>2. p \in Page
    BY <1>r, PageKinds
  <2> HIDE DEF p, after
  <2>3. /\ new \in 1 .. (Len(ps) + 1) /\ WithPage(ps, new, p) \in Seq(Page)
        /\ FreeListOf(FreeLeft(fr), WithPage(ps, new, p))
    BY <2>2, Allocate
  <2>4. Len(WithPage(ps, new, p)) \in {Len(ps), Len(ps) + 1}
    BY <2>2, <2>3, WithPageIs
  <2> QED BY <2>1, <2>3, <2>4 DEF after
<1>2. CASE data # {} /\ (ps[id].lsn >= rec.lsn \/ rec.val \in BigVals)
  <2>1. after = store
    BY <1>2 DEF ApplyRecord
  <2> QED BY <2>1
<1>3. CASE data # {} /\ ~ (ps[id].lsn >= rec.lsn \/ rec.val \in BigVals)
  <2> DEFINE p == DataPage(rec.lsn, ps[id].num + 1, {<<rec.key, rec.val>>})
  <2>1. after.pages = [ps EXCEPT ![id] = p] /\ after.free = fr
    BY <1>3 DEF ApplyRecord
  <2>2. id \in data
    <3>1. data \in SUBSET Nat
      BY DEF PagesOfType
    <3> HIDE DEF data
    <3> QED BY <1>3, <3>1, MinIn
  <2> HIDE DEF after
  <2>3. id \in 1 .. Len(ps) /\ ps[id].type = "Data"
    BY <2>2 DEF PagesOfType
  <2> HIDE DEF id
  <2>4. ps[id].num \in Nat
    <3>1. ps[id] \in Page
      BY <2>3
    <3> QED BY <3>1 DEF Page
  <2>5. p \in Page
    BY <1>r, <2>4, PageKinds
  <2> HIDE DEF p
  <2>6. /\ [ps EXCEPT ![id] = p] \in Seq(Page) /\ FreeListOf(fr, [ps EXCEPT ![id] = p])
        /\ Len([ps EXCEPT ![id] = p]) = Len(ps)
    BY <2>3, <2>5, Overwrite
  <2> QED BY <2>1, <2>6 DEF after
<1> QED BY <1>1, <1>2, <1>3

LEMMA FreedPages ==
    ASSUME NEW ps \in Seq(Page), NEW ids
    PROVE  /\ Freed(ps, ids) \in Seq(Page) /\ Len(Freed(ps, ids)) = Len(ps)
           /\ \A i \in 1 .. Len(ps) :
                 /\ i \in ids => Freed(ps, ids)[i].type = "Free"
                 /\ i \notin ids => Freed(ps, ids)[i] = ps[i]
BY PageKinds DEF Freed

(* compact: the data pages, now free, join the free list; none of them was *)
(* on it.                                                                  *)
LEMMA CompactList ==
    ASSUME NEW ps \in Seq(Page), NEW fr, FreeListOf(fr, ps)
    PROVE  LET data == PagesOfType(ps, "Data") IN
           FreeListOf(fr \o Ascending(data), Freed(ps, data))
<1> DEFINE data == PagesOfType(ps, "Data")
           a    == Ascending(data)
           qs   == Freed(ps, data)
           st   == fr \o a
<1>t. Len(ps) \in Nat /\ fr \in Seq(1 .. Len(ps)) /\ Len(fr) \in Nat
  BY DEF FreeListOf
<1>1. data \in SUBSET (1 .. Len(ps)) /\ \A i \in data : ps[i].type = "Data"
  BY DEF PagesOfType
<1>2. a \in Seq(data) /\ \A i, j \in 1 .. Len(a) : a[i] = a[j] => i = j
  <2> HIDE DEF data
  <2> QED BY <1>t, <1>1, AscendingList
<1>3. /\ qs \in Seq(Page) /\ Len(qs) = Len(ps)
      /\ \A i \in 1 .. Len(ps) : /\ i \in data => qs[i].type = "Free"
                                 /\ i \notin data => qs[i] = ps[i]
  <2> HIDE DEF data
  <2> QED BY FreedPages
<1> HIDE DEF data, a, qs
<1>4. ASSUME NEW i \in 1 .. Len(fr)
      PROVE  fr[i] \in 1 .. Len(ps) /\ fr[i] \notin data /\ ps[fr[i]].type = "Free"
  <2>1. fr[i] \in 1 .. Len(ps)
    BY <1>t
  <2>2. ps[fr[i]].type = "Free"
    BY DEF FreeListOf
  <2> QED BY <1>1, <2>1, <2>2
<1>5. ASSUME NEW i \in 1 .. Len(a)
      PROVE  a[i] \in data /\ a[i] \in 1 .. Len(ps)
  <2>1. a[i] \in data
    BY <1>2
  <2> QED BY <1>1, <2>1
<1>6. Len(a) \in Nat
  BY <1>2
<1>7. /\ Len(st) = Len(fr) + Len(a)
      /\ \A i \in 1 .. Len(st) : st[i] = IF i <= Len(fr) THEN fr[i] ELSE a[i - Len(fr)]
  BY <1>t, <1>2
<1>8. a \in Seq(1 .. Len(ps))
  BY <1>2, <1>5
<1>9. st \in Seq(1 .. Len(ps))
  BY <1>t, <1>8
<1> HIDE DEF st
<1>10. ASSUME NEW i \in 1 .. Len(st)
       PROVE  \/ i \in 1 .. Len(fr) /\ st[i] = fr[i]
              \/ i - Len(fr) \in 1 .. Len(a) /\ st[i] = a[i - Len(fr)] /\ i > Len(fr)
  BY <1>t, <1>6, <1>7
<1>11. ASSUME NEW i \in 1 .. Len(st) PROVE qs[st[i]].type = "Free"
  <2>1. CASE i \in 1 .. Len(fr) /\ st[i] = fr[i]
    BY <1>3, <1>4, <2>1
  <2>2. CASE i - Len(fr) \in 1 .. Len(a) /\ st[i] = a[i - Len(fr)]
    BY <1>3, <1>5, <2>2
  <2> QED BY <1>10, <2>1, <2>2
<1>12. ASSUME NEW i \in 1 .. Len(st), NEW j \in 1 .. Len(st), st[i] = st[j] PROVE i = j
  <2>1. CASE i \in 1 .. Len(fr) /\ st[i] = fr[i] /\ j \in 1 .. Len(fr) /\ st[j] = fr[j]
    BY <1>12, <2>1 DEF FreeListOf
  <2>2. CASE /\ i - Len(fr) \in 1 .. Len(a) /\ st[i] = a[i - Len(fr)]
             /\ j - Len(fr) \in 1 .. Len(a) /\ st[j] = a[j - Len(fr)]
    <3>1. i - Len(fr) = j - Len(fr)
      BY <1>2, <1>12, <2>2
    <3> QED BY <1>t, <1>7, <3>1
  <2>3. CASE /\ i \in 1 .. Len(fr) /\ st[i] = fr[i]
             /\ j - Len(fr) \in 1 .. Len(a) /\ st[j] = a[j - Len(fr)]
    BY <1>4, <1>5, <1>12, <2>3
  <2>4. CASE /\ j \in 1 .. Len(fr) /\ st[j] = fr[j]
             /\ i - Len(fr) \in 1 .. Len(a) /\ st[i] = a[i - Len(fr)]
    BY <1>4, <1>5, <1>12, <2>4
  <2> QED BY <1>10, <2>1, <2>2, <2>3, <2>4
<1>13. st \in Seq(1 .. Len(qs))
  BY <1>3, <1>9
<1>14. FreeListOf(st, qs)
  BY <1>11, <1>12, <1>13 DEF FreeListOf
<1> QED BY <1>14 DEF st, a, qs, data

LEMMA LiveFinite == IsFiniteSet(LiveSmall) /\ Cardinality(LiveSmall) \in Nat
<1>1. LiveSmall \subseteq Key /\ IsFiniteSet(Key)
  BY EngineConstants DEF LiveSmall
<1> QED BY <1>1, FS_Subset, FS_CardinalityType

(* A page that compact writes. *)
LEMMA CompactPages ==
    ASSUME active \in [Key -> ActiveEntry \cup {None}]
    PROVE  /\ DataPage(0, 0, {}) \in Page
           /\ \A last \in LiveSmall, n \in Nat :
                 DataPage(active[last].lsn, n, {<<last, active[last].val>>}) \in Page
<1>1. DataPage(0, 0, {}) \in Page
  BY PageKinds
<1>2. ASSUME NEW last \in LiveSmall, NEW n \in Nat
      PROVE  DataPage(active[last].lsn, n, {<<last, active[last].val>>}) \in Page
  <2>1. last \in Key /\ active[last] \in ActiveEntry
    BY DEF LiveSmall
  <2>2. active[last].lsn \in Nat /\ active[last].val \in Val
    BY <2>1 DEF ActiveEntry, Vals
  <2>3. {<<last, active[last].val>>} \in SUBSET (Key \X Val)
    BY <2>1, <2>2
  <2> QED BY <2>2, <2>3, PageKinds
<1> QED BY <1>1, <1>2

(* The page file and its free list through every step. *)
LEMMA PageStep == EngineInv /\ [EngineNext]_vars => PageInv'
<1> SUFFICES ASSUME EngineInv, [EngineNext]_vars PROVE PageInv'
  OBVIOUS
<1>t. /\ pages \in Seq(Page) /\ FreeListOf(free, pages) /\ next_lsn \in Nat
      /\ active \in [Key -> ActiveEntry \cup {None}] /\ replaying \in Seq(LogRecord)
  BY PageInvIs DEF EngineInv, MemTypes, LogInv, OrderInv, WalTypeOK
<1>p. ASSUME pages' \in Seq(Page), FreeListOf(free', pages') PROVE PageInv'
  BY <1>p DEF PageInv, FreeListOf, FreeListSound
<1>f. ASSUME pages' \in Seq(Page), free' = <<>> PROVE PageInv'
  <2>1. FreeListOf(free', pages')
    BY <1>f DEF FreeListOf
  <2> QED BY <1>f, <1>p, <2>1
<1>1. CASE OpenEngine
  <2> DEFINE S == PagesOfType(pages, "Free")
  <2>1. S \in SUBSET (1 .. Len(pages)) /\ \A i \in S : pages[i].type = "Free"
    BY DEF PagesOfType
  <2>2. pages' = pages /\ free' = Ascending(S) /\ Len(pages) \in Nat
    BY <1>t, <1>1 DEF OpenEngine
  <2> HIDE DEF S
  <2>3. /\ free' \in Seq(S)
        /\ \A i, j \in 1 .. Len(free') : free'[i] = free'[j] => i = j
    BY <2>1, <2>2, AscendingList
  <2>4. \A i \in 1 .. Len(free') : free'[i] \in S
    BY <2>3
  <2>5. \A i \in 1 .. Len(free') :
           free'[i] \in 1 .. Len(pages) /\ pages[free'[i]].type = "Free"
    BY <2>1, <2>4
  <2>6. free' \in Seq(1 .. Len(pages))
    BY <2>3, <2>5
  <2> QED BY <1>t, <1>p, <2>2, <2>3, <2>5, <2>6 DEF FreeListOf
<1>2. CASE RecoverRecord
  <2>1. Head(replaying) \in LogRecord
    BY <1>t, <1>2 DEF RecoverRecord
  <2>2. pages' = Applied(Head(replaying)).pages /\ free' = Applied(Head(replaying)).free
    BY <1>2 DEF RecoverRecord
  <2>3. /\ Applied(Head(replaying)).pages \in Seq(Page)
        /\ FreeListOf(Applied(Head(replaying)).free, Applied(Head(replaying)).pages)
    BY <1>t, <2>1, ApplyRecordPages DEF Applied
  <2> QED BY <1>p, <2>2, <2>3
<1>3. CASE UNCHANGED <<pages, free>>
  BY <1>t, <1>p, <1>3
<1>4. ASSUME NEW p \in Page, pages' = WithPage(pages, AllocatedId(pages, free), p),
             free' = FreeLeft(free)
      PROVE  PageInv'
  BY <1>t, <1>p, <1>4, Allocate
<1>5. ASSUME NEW key \in Key, NEW val \in Vals,
             Put(key, val) \/ InsertVector(key, val) \/ RestorePut(key, val)
      PROVE  PageInv'
  <2>1. ApplyPut(key, val)
    BY <1>5 DEF Put, InsertVector, RestorePut
  <2>2. EntryPage(next_lsn, key, val) \in Page
    BY <1>t, Ops, EntryPageType
  <2> QED BY <1>4, <2>1, <2>2 DEF ApplyPut
<1>6. ASSUME NEW key \in Key, NEW val \in Vals, PageWriteFails(key, val) PROVE PageInv'
  BY <1>4, <1>6, PageKinds DEF PageWriteFails
<1>7. CASE Compact
  <2> DEFINE data  == PagesOfType(pages, "Data")
             freed == Freed(pages, data)
             stack == free \o Ascending(data)
  <2>1. freed \in Seq(Page) /\ FreeListOf(stack, freed)
    BY <1>t, FreedPages, CompactList
  <2>2. PICK p \in Page : pages' = WithPage(freed, AllocatedId(freed, stack), p)
    <3>1. \/ pages' = WithPage(freed, AllocatedId(freed, stack), DataPage(0, 0, {}))
          \/ \E last \in LiveSmall :
                pages' = WithPage(freed, AllocatedId(freed, stack), CompactedPage(last))
      BY <1>7 DEF Compact
    <3> HIDE DEF data, freed, stack
    <3> QED BY <1>t, <3>1, CompactPages, LiveFinite DEF CompactedPage
  <2>3. free' = FreeLeft(stack)
    BY <1>7 DEF Compact
  <2> HIDE DEF data, freed, stack
  <2> QED BY <1>p, <2>1, <2>2, <2>3, Allocate
<1>8. CASE CrashIdle \/ CrashInBackup
  BY <1>t, <1>f, <1>8 DEF CrashIdle, CrashInBackup, Forget
<1>9. ASSUME NEW id \in 1 .. (Len(pages) + 1), NEW p \in Page, pages' = WithPage(pages, id, p),
             free' = <<>>
      PROVE  PageInv'
  BY <1>t, <1>f, <1>9, WithPageIs
<1>10. ASSUME NEW op, NEW key \in Key, NEW val \in Val, CrashInWrite(op, key, val)
       PROVE  PageInv'
  <2>1. free' = <<>>
    BY <1>10 DEF CrashInWrite, Forget
  <2>2. CASE pages' = pages
    BY <1>t, <1>f, <2>1, <2>2
  <2>3. CASE pages' # pages
    <3>1. PICK p \in {TornPage, DataPage(next_lsn, 0, {}), EntryPage(next_lsn, key, val)} :
             pages' = WithPage(pages, AllocatedId(pages, free), p)
      BY <1>10, <2>3 DEF CrashInWrite
    <3>2. p \in Page
      BY <1>t, PageKinds, EntryPageType
    <3>3. AllocatedId(pages, free) \in 1 .. (Len(pages) + 1)
      BY <1>t, AllocatedType DEF FreeListOf
    <3> QED BY <1>9, <2>1, <3>1, <3>2, <3>3
  <2> QED BY <2>2, <2>3
<1>11. CASE CrashInRecovery
  <2> DEFINE after == Applied(Head(replaying)).pages
  <2>1. Head(replaying) \in LogRecord
    BY <1>t, <1>11 DEF CrashInRecovery
  <2>2. Len(after) \in {Len(pages), Len(pages) + 1} /\ Len(pages) \in Nat
    BY <1>t, <2>1, ApplyRecordPages DEF Applied
  <2>3. PICK id \in 1 .. Len(after) : pages' = WithPage(pages, id, TornPage)
    BY <1>11 DEF CrashInRecovery
  <2> HIDE DEF after
  <2>4. id \in 1 .. (Len(pages) + 1)
    BY <2>2, <2>3
  <2>5. free' = <<>>
    BY <1>11 DEF CrashInRecovery, Forget
  <2> QED BY <1>9, <2>3, <2>4, <2>5, PageKinds
<1>12. CASE CrashInCompact
  <2> DEFINE data  == PagesOfType(pages, "Data")
             freed == Freed(pages, data)
             stack == free \o Ascending(data)
             id    == AllocatedId(freed, stack)
  <2>1. free' = <<>>
    BY <1>12 DEF CrashInCompact, Forget
  <2>2. freed \in Seq(Page) /\ FreeListOf(stack, freed)
    BY <1>t, FreedPages, CompactList
  <2>3. \/ \E i \in data : pages' = Freed(pages, data \cap 1 .. i)
        \/ \E p \in Page : pages' = WithPage(freed, id, p)
    <3>1. \/ \E i \in data : pages' = Freed(pages, data \cap 1 .. i)
          \/ pages' = WithPage(freed, id, DataPage(0, 0, {}))
          \/ \E last \in LiveSmall, n \in 1 .. Cardinality(LiveSmall) :
                pages' = WithPage(freed, id,
                           DataPage(active[last].lsn, n, {<<last, active[last].val>>}))
      BY <1>12 DEF CrashInCompact
    <3>2. \A n \in 1 .. Cardinality(LiveSmall) : n \in Nat
      BY LiveFinite
    <3> HIDE DEF data, freed, stack, id
    <3> QED BY <1>t, <3>1, <3>2, CompactPages
  <2>4. id \in 1 .. (Len(freed) + 1)
    <3> HIDE DEF freed, stack
    <3> QED BY <2>2, AllocatedType DEF FreeListOf
  <2> HIDE DEF freed, id
  <2>5. pages' \in Seq(Page)
    <3>1. \A ids : Freed(pages, ids) \in Seq(Page)
      BY <1>t, FreedPages
    <3>2. \A p \in Page : WithPage(freed, id, p) \in Seq(Page)
      BY <2>2, <2>4, WithPageIs
    <3> QED BY <2>3, <3>1, <3>2
  <2> QED BY <1>f, <2>1, <2>5
<1>13. ASSUME NEW key \in Key, Delete(key) PROVE UNCHANGED <<pages, free>>
  BY <1>13 DEF Delete
<1>14. ASSUME NEW l, RestoreBegin(l) PROVE UNCHANGED <<pages, free>>
  BY <1>14 DEF RestoreBegin
<1>15. CASE OpenReturns \/ WriteFails \/ Backup \/ UNCHANGED vars
  BY <1>3, <1>15 DEF OpenReturns, WriteFails, Backup, vars, engVars
<1>16. ASSUME NEW key \in Key
       PROVE  /\ \A val \in Vals : CrashInWrite(PutOp(key), key, val) => PageInv'
              /\ CrashInWrite("Delete", key, EmptyVal) => PageInv'
  BY <1>10, Ops
<1> QED BY <1>1, <1>2, <1>3, <1>5, <1>6, <1>7, <1>8, <1>11, <1>12, <1>13, <1>14, <1>15, <1>16
        DEF EngineNext

----------------------------------------------------------------------------
(* What holds of the engine under every fault. *)

LEMMA EngineInvInit == EngineInit => EngineInv
<1> SUFFICES ASSUME EngineInit PROVE EngineInv
  OBVIOUS
<1>1. OrderInv /\ LiveRecords
  BY OrderInvInit DEF EngineInit, WalInit, LiveRecords
<1>2. IndexMatches
  BY DEF EngineInit, IndexMatches, NoEntries
<1>m. MemTypes
  <2>1. replaying \in Seq(LogRecord) /\ restoring \subseteq Key \X Vals /\ ready = FALSE
    BY DEF EngineInit
  <2>2. active = NoEntries /\ index = NoEntries /\ vectors = NoVectors
    BY DEF EngineInit
  <2>3. active \in [Key -> ActiveEntry \cup {None}] /\ index \in [Key -> Location \cup {None}]
    BY <2>2 DEF NoEntries
  <2>4. vectors \in [VectorIds -> Vals \cup {None}]
    BY <2>2 DEF NoVectors
  <2> QED BY <2>1, <2>3, <2>4 DEF MemTypes
<1>3. SnapTypes
  BY DEF EngineInit, SnapTypes, Loadable
<1>4. FreeListOf(free, pages) /\ pages \in Seq(Page)
  BY DEF EngineInit, FreeListOf
<1> QED BY <1>1, <1>2, <1>m, <1>3, <1>4, PageInvIs DEF EngineInv, LogInv

LEMMA EngineInvStep == EngineInv /\ [EngineNext]_vars => EngineInv'
BY LogInvStep, MemStep, SnapStep, PageStep DEF EngineInv

LEMMA EngineInvAlways == EngineSpec => []EngineInv
BY EngineInvInit, EngineInvStep, PTL DEF EngineSpec

(* The types of StorageEngine: the memtable never shows the empty value of *)
(* a deletion, the free list names pages of the file, and the engine is    *)
(* only handed out with its log open, under every crash and write error.   *)
THEOREM EngineTyped == EngineSpec => []EngineTypeOK
<1>1. EngineInv => EngineTypeOK
  <2> SUFFICES ASSUME EngineInv PROVE EngineTypeOK
    OBVIOUS
  <2>1. pages \in Seq(Page) /\ free \in Seq(1 .. Len(pages)) /\ replaying \in Seq(LogRecord)
    BY DEF EngineInv, PageInv, MemTypes
  <2>2. /\ \A id \in 1 .. Len(pages) : pages[id] \in Page
        /\ \A i \in 1 .. Len(replaying) : replaying[i] \in LogRecord
    BY <2>1
  <2>3. \A i \in 1 .. Len(free) : free[i] \in 1 .. Len(pages)
    BY <2>1
  <2> QED BY <2>2, <2>3 DEF EngineInv, MemTypes, ActiveEntry, EngineTypeOK
<1> QED BY <1>1, EngineInvAlways, PTL

(* put, delete, restore and open keep the hash and B+tree indexes in step  *)
(* with the memtable, under every crash and write error.                   *)
THEOREM IndexesAlwaysMatch == EngineSpec => []IndexMatches
<1>1. EngineInv => IndexMatches
  BY DEF EngineInv
<1> QED BY <1>1, EngineInvAlways, PTL

(* allocate_page, free_page, compact, open: the free list names distinct   *)
(* pages, each of them free on disk; no page in use is ever handed out,    *)
(* whatever a crash in compact, in put or in the replay left behind.       *)
THEOREM FreeListAlwaysSound == EngineSpec => []FreeListSound
<1>1. EngineInv => FreeListSound
  BY DEF EngineInv, PageInv
<1> QED BY <1>1, EngineInvAlways, PTL

----------------------------------------------------------------------------
(* The replay of the log. *)

(* apply_record_to_pages finds a data page that makes it skip the record. *)
Skipped(ps, rec) ==
    LET data == PagesOfType(ps, "Data")
    IN  data # {} /\ (ps[Min(data)].lsn >= rec.lsn \/ rec.val \in BigVals)

(* The records not yet applied are the last of the log, and the others     *)
(* would be skipped.                                                       *)
ReplayOf(recs) ==
    /\ Len(replaying) <= Len(recs)
    /\ \A i \in 1 .. Len(replaying) : replaying[i] = recs[Len(recs) - Len(replaying) + i]
    /\ \A i \in 1 .. (Len(recs) - Len(replaying)) : Skipped(pages, recs[i])

ReplayInv == Recovering => ReplayOf(Readable(file))

LEMMA SkippedChangesNothing ==
    ASSUME NEW ps, NEW fr, NEW rec, Skipped(ps, rec)
    PROVE  ApplyRecord([pages |-> ps, free |-> fr], rec).pages = ps
BY DEF Skipped, ApplyRecord

(* Applying a record makes it one to skip, and those before it stay so. *)
LEMMA AppliedIsSkipped ==
    ASSUME NEW ps \in Seq(Page), NEW fr, FreeListOf(fr, ps), NEW rec \in LogRecord
    PROVE  LET qs == ApplyRecord([pages |-> ps, free |-> fr], rec).pages IN
           /\ Skipped(qs, rec)
           /\ \A r \in LogRecord : r.lsn < rec.lsn /\ Skipped(ps, r) => Skipped(qs, r)
<1> DEFINE qs   == ApplyRecord([pages |-> ps, free |-> fr], rec).pages
           data == PagesOfType(ps, "Data")
           id   == Min(data)
           new  == AllocatedId(ps, fr)
<1>r. rec.lsn \in Nat /\ rec.key \in Key /\ rec.val \in Val /\ Len(ps) \in Nat
      /\ \A r \in LogRecord : r.lsn \in Nat
  BY DEF LogRecord
<1>1. CASE data = {}
  <2> DEFINE p == DataPage(rec.lsn, 0, {})
  <2>1. qs = WithPage(ps, new, p)
    BY <1>1 DEF ApplyRecord
  <2>2. p \in Page /\ p.type = "Data" /\ p.lsn = rec.lsn
    BY <1>r, PageKinds DEF DataPage
  <2>3. new \in 1 .. (Len(ps) + 1)
    BY AllocatedType DEF FreeListOf
  <2> HIDE DEF qs, p, new
  <2>4. /\ qs \in Seq(Page) /\ Len(qs) = IF new > Len(ps) THEN Len(ps) + 1 ELSE Len(ps)
        /\ qs[new] = p /\ \A i \in 1 .. Len(ps) : i # new => qs[i] = ps[i]
    BY <2>1, <2>2, <2>3, WithPageIs
  <2>5. new \in 1 .. Len(qs) /\ \A i \in 1 .. Len(qs) : i # new => i \in 1 .. Len(ps)
    BY <1>r, <2>3, <2>4
  <2>6. PagesOfType(qs, "Data") = {new}
    BY <1>1, <2>2, <2>4, <2>5 DEF PagesOfType
  <2>7. Min({new}) = new
    <3>1. new \in Nat
      BY <2>3
    <3> QED BY <3>1, MinIn
  <2>8. Skipped(qs, rec)
    <3>1. qs[Min(PagesOfType(qs, "Data"))].lsn = rec.lsn
      BY <2>2, <2>4, <2>6, <2>7
    <3>2. rec.lsn >= rec.lsn
      BY <1>r
    <3>3. PagesOfType(qs, "Data") # {}
      BY <2>6, Zenon
    <3> QED BY <3>1, <3>2, <3>3 DEF Skipped
  <2>9. \A r : ~ Skipped(ps, r)
    BY <1>1 DEF Skipped
  <2> QED BY <2>8, <2>9 DEF qs
<1>2. CASE data # {} /\ (ps[id].lsn >= rec.lsn \/ rec.val \in BigVals)
  <2>1. qs = ps
    BY <1>2 DEF ApplyRecord
  <2>2. Skipped(ps, rec)
    BY <1>2 DEF Skipped
  <2> QED BY <2>1, <2>2
<1>3. CASE data # {} /\ ~ (ps[id].lsn >= rec.lsn \/ rec.val \in BigVals)
  <2> DEFINE p == DataPage(rec.lsn, ps[id].num + 1, {<<rec.key, rec.val>>})
  <2>1. qs = [ps EXCEPT ![id] = p]
    BY <1>3 DEF ApplyRecord
  <2>2. id \in data
    <3>1. data \in SUBSET Nat
      BY DEF PagesOfType
    <3> HIDE DEF data
    <3> QED BY <1>3, <3>1, MinIn
  <2>3. id \in 1 .. Len(ps) /\ ps[id].type = "Data"
    BY <2>2 DEF PagesOfType
  <2>4. p.type = "Data" /\ p.lsn = rec.lsn
    BY DEF DataPage
  <2> HIDE DEF qs, p
  <2>5. Len(qs) = Len(ps) /\ qs[id] = p /\ \A i \in 1 .. Len(ps) : i # id => qs[i] = ps[i]
    BY <2>1, <2>3
  <2>6. PagesOfType(qs, "Data") = data
    <3> HIDE DEF id
    <3> QED BY <2>3, <2>4, <2>5 DEF PagesOfType
  <2>7. qs[Min(PagesOfType(qs, "Data"))].lsn = rec.lsn /\ PagesOfType(qs, "Data") # {}
    BY <1>3, <2>4, <2>5, <2>6
  <2>8. ASSUME NEW r \in LogRecord, r.lsn <= rec.lsn PROVE Skipped(qs, r)
    <3>1. rec.lsn >= r.lsn
      BY <1>r, <2>8
    <3> QED BY <2>7, <3>1 DEF Skipped
  <2>9. \A r \in LogRecord : r.lsn < rec.lsn => r.lsn <= rec.lsn
    BY <1>r
  <2>10. rec.lsn <= rec.lsn
    BY <1>r
  <2> QED BY <2>8, <2>9, <2>10 DEF qs
<1> QED BY <1>1, <1>2, <1>3

(* What open cuts off the log is not a record. *)
LEMMA OpenReadsSame ==
    ASSUME OrderInv, Open
    PROVE  Readable(file') = Readable(file)
<1>t. file \in Seq(Cell) /\ Len(file) \in Nat
  BY DEF OrderInv, WalTypeOK
<1>b. PICK n \in 0 .. Len(file) : Boundary(file, n)
  BY DEF OrderInv, HasBoundary
<1>1. /\ file' \in Seq(Cell) /\ Len(file') \in n .. Len(file) /\ Boundary(file', n)
      /\ \A i \in 1 .. n : file'[i] = file[i]
  BY <1>t, <1>b, TruncatedFile DEF Open
<1>2. ValidCells(file) = n /\ ValidCells(file') = n
  BY <1>t, <1>b, <1>1, ValidIsBoundary
<1>3. SubSeq(file', 1, n) = SubSeq(file, 1, n)
  <2>1. Len(file') \in Nat /\ n \in Nat /\ n <= Len(file) /\ n <= Len(file')
    BY <1>t, <1>1
  <2> DEFINE a == SubSeq(file', 1, n)
             b == SubSeq(file, 1, n)
  <2>2. /\ a \in Seq(Cell) /\ Len(a) = n /\ \A i \in 1 .. n : a[i] = file'[i]
        /\ b \in Seq(Cell) /\ Len(b) = n /\ \A i \in 1 .. n : b[i] = file[i]
    BY <1>t, <1>1, <2>1
  <2> HIDE DEF a, b
  <2>3. a = b
    BY <1>1, <2>2
  <2> QED BY <2>3 DEF a, b
<1> QED BY <1>2, <1>3 DEF Readable

(* Only open and its turns act while the log is replayed. *)
LEMMA ReplaySteps ==
    ASSUME EngineInv, [EngineNext]_vars, Recovering'
    PROVE  \/ OpenEngine
           \/ RecoverRecord
           \/ UNCHANGED <<file, pages, replaying, opened, ready>>
<1>1. ready => opened
  BY DEF EngineInv, MemTypes
<1>2. CASE WriteFails
  BY <1>2 DEF WriteFails, Recovering, opening
<1>3. ASSUME NEW key \in Key, NEW val \in Vals,
             \/ Put(key, val) \/ InsertVector(key, val) \/ RestorePut(key, val)
             \/ PageWriteFails(key, val) \/ Delete(key)
      PROVE  FALSE
  BY <1>3 DEF Put, InsertVector, RestorePut, PageWriteFails, Delete, Recovering, Idle, opening
<1>4. ASSUME NEW op, NEW key, NEW val, CrashInWrite(op, key, val) PROVE FALSE
  BY <1>4 DEF CrashInWrite, CrashInAppend, Recovering
<1>5. CASE CrashIdle \/ CrashInRecovery \/ CrashInBackup \/ CrashInCompact
  BY <1>5 DEF CrashIdle, CrashInRecovery, CrashInBackup, CrashInCompact, Crash, Recovering
<1>6. CASE OpenReturns
  BY <1>6 DEF OpenReturns, Recovering
<1>7. CASE Backup \/ Compact
  BY <1>7 DEF Backup, Compact, Recovering, Idle, opening
<1>8. ASSUME NEW l, RestoreBegin(l) PROVE FALSE
  BY <1>8 DEF RestoreBegin, Recovering, Idle, opening
<1>9. CASE UNCHANGED vars
  BY <1>9 DEF vars, walVars, engVars, opening
<1>10. ASSUME NEW key \in Key, Delete(key) PROVE FALSE
  BY <1>10 DEF Delete, Recovering, Idle, opening
<1> QED BY <1>2, <1>3, <1>4, <1>5, <1>6, <1>7, <1>8, <1>9, <1>10 DEF EngineNext

(* A turn of recover's loop: the record it applies joins those that a      *)
(* second replay would skip, and the records before it stay among them,    *)
(* because their LSNs are lower.                                           *)
LEMMA ReplayTurn ==
    ASSUME EngineInv, ReplayInv, RecoverRecord
    PROVE  ReplayInv'
<1> DEFINE recs == Readable(file)
           n    == Len(recs)
           r    == Len(replaying)
           d    == n - r
           rec  == Head(replaying)
<1>0. Readable(file)' = recs
  BY DEF RecoverRecord, walVars
<1>1. replaying \in Seq(LogRecord) /\ pages \in Seq(Page) /\ FreeListOf(free, pages)
  BY PageInvIs DEF EngineInv, MemTypes
<1>2. /\ recs \in Seq(LogRecord) /\ n \in Nat /\ n <= Len(file) /\ n = ValidCells(file)
      /\ \A i \in 1 .. n : recs[i] = file[i] /\ recs[i] \in LogRecord
  BY ReadableFile DEF EngineInv, LogInv, OrderInv, WalTypeOK
<1>3. \A i, j \in 1 .. n : i < j => recs[i].lsn < recs[j].lsn
  <2> TAKE i, j \in 1 .. n
  <2>1. i \in 1 .. Len(file) /\ j \in 1 .. Len(file) /\ Len(file) \in Nat
    BY <1>2 DEF EngineInv, LogInv, OrderInv, WalTypeOK
  <2> QED BY <1>2, <2>1 DEF EngineInv, LogInv, OrderInv, RecordsOrdered
<1>4. ReplayOf(recs)
  BY DEF RecoverRecord, ReplayInv
<1>5. r \in Nat /\ r >= 1 /\ r <= n /\ d \in Nat
  BY <1>1, <1>2, <1>4 DEF RecoverRecord, ReplayOf
<1>6. rec = recs[d + 1] /\ rec \in LogRecord /\ d + 1 \in 1 .. n
  <2>1. rec = replaying[1] /\ 1 \in 1 .. r /\ d + 1 \in 1 .. n
    BY <1>1, <1>2, <1>5
  <2>2. replaying[1] = recs[n - r + 1]
    BY <1>4, <2>1 DEF ReplayOf
  <2> QED BY <1>2, <2>1, <2>2
<1>7. /\ Skipped(pages', rec)
      /\ \A q \in LogRecord : q.lsn < rec.lsn /\ Skipped(pages, q) => Skipped(pages', q)
  BY <1>1, <1>6, AppliedIsSkipped DEF RecoverRecord, Applied
<1>8. Len(replaying') = r - 1 /\ \A i \in 1 .. (r - 1) : replaying'[i] = replaying[i + 1]
  BY <1>1, <1>5 DEF RecoverRecord
<1>9. \A i \in 1 .. (r - 1) : replaying'[i] = recs[n - (r - 1) + i]
  <2> TAKE i \in 1 .. (r - 1)
  <2>1. i + 1 \in 1 .. r
    BY <1>5
  <2>2. replaying[i + 1] = recs[n - r + (i + 1)]
    BY <1>4, <2>1 DEF ReplayOf
  <2>3. n - r + (i + 1) = n - (r - 1) + i
    BY <1>2, <1>5, <2>1
  <2> QED BY <1>8, <2>2, <2>3
<1>10. \A i \in 1 .. (n - (r - 1)) : Skipped(pages', recs[i])
  <2> TAKE i \in 1 .. (n - (r - 1))
  <2>1. i \in 1 .. d \/ i = d + 1
    BY <1>2, <1>5
  <2>2. ASSUME i \in 1 .. d PROVE Skipped(pages', recs[i])
    <3>1. Skipped(pages, recs[i])
      BY <1>4, <2>2 DEF ReplayOf
    <3>2. i \in 1 .. n /\ i < d + 1
      BY <1>2, <1>5, <2>2
    <3>3. recs[i] \in LogRecord /\ recs[i].lsn < rec.lsn
      BY <1>2, <1>3, <1>6, <3>2
    <3> QED BY <1>7, <3>1, <3>3
  <2> QED BY <1>6, <1>7, <2>1, <2>2
<1> HIDE DEF recs, r
<1>11. ReplayOf(recs)'
  <2>1. recs' = recs
    BY <1>0 DEF recs
  <2>2. Len(replaying') <= n
    BY <1>2, <1>5, <1>8
  <2> QED BY <1>8, <1>9, <1>10, <2>1, <2>2 DEF ReplayOf
<1> QED BY <1>11 DEF ReplayInv, recs

LEMMA ReplayInvStep == EngineInv /\ ReplayInv /\ [EngineNext]_vars => ReplayInv'
<1> SUFFICES ASSUME EngineInv, ReplayInv, [EngineNext]_vars, Recovering' PROVE ReplayInv'
  BY DEF ReplayInv
<1>1. CASE OpenEngine
  <2>1. /\ Readable(file)' = Readable(file) /\ replaying' = Readable(file)
        /\ Len(Readable(file)) \in Nat
    BY <1>1, OpenReadsSame, ReadableFile DEF OpenEngine, EngineInv, LogInv, OrderInv, WalTypeOK
  <2> DEFINE recs == Readable(file)
  <2> HIDE DEF recs
  <2>2. replaying' = recs /\ recs' = recs /\ Len(recs) \in Nat
    BY <2>1 DEF recs
  <2>3. ReplayOf(recs)'
    <3>1. \A i \in 1 .. Len(recs) : Len(recs) - Len(recs) + i = i
      BY <2>2
    <3>2. 1 .. (Len(recs) - Len(recs)) = {} /\ Len(recs) <= Len(recs)
      BY <2>2
    <3> QED BY <2>2, <3>1, <3>2 DEF ReplayOf
  <2> QED BY <2>3 DEF ReplayInv, recs
<1>2. CASE RecoverRecord
  BY <1>2, ReplayTurn
<1>3. CASE UNCHANGED <<file, pages, replaying, opened, ready>>
  <2>1. Recovering /\ Readable(file)' = Readable(file)
    BY <1>3 DEF Recovering
  <2> QED BY <1>3, <2>1 DEF ReplayInv, ReplayOf
<1> QED BY <1>1, <1>2, <1>3, ReplaySteps

(* recover: once it is through the log no record would change a page if it *)
(* were applied again ("replay must be safe to run twice"), whatever an    *)
(* earlier crash, in recover itself too, left of the pages.                *)
THEOREM ReplayAlwaysIdempotent == EngineSpec => []ReplayTwice
<1>1. EngineInit => ReplayInv
  BY DEF EngineInit, WalInit, ReplayInv, Recovering
<1>2. EngineInv /\ ReplayInv => ReplayTwice
  <2> SUFFICES ASSUME EngineInv, ReplayInv, Recovering, replaying = <<>>,
                      NEW i \in 1 .. Len(Readable(file))
               PROVE  Applied(Readable(file)[i]).pages = pages
    BY DEF ReplayTwice
  <2>1. Len(Readable(file)) \in Nat /\ ReplayOf(Readable(file))
    BY ReadableFile DEF ReplayInv, EngineInv, LogInv, OrderInv, WalTypeOK
  <2>2. Skipped(pages, Readable(file)[i])
    BY <2>1 DEF ReplayOf
  <2> QED BY <2>2, SkippedChangesNothing DEF Applied
<1> QED BY <1>1, <1>2, EngineInvInit, EngineInvStep, ReplayInvStep, PTL DEF EngineSpec

----------------------------------------------------------------------------
(* The engine whose restore is never called (backup neither: MaxSnaps = 0). *)

NoRestore == restoring = {} /\ snaps = [l \in 0 .. MaxLsn |-> None]

LEMMA NoRestoreStep ==
    ASSUME EngineInv, NoRestore, [EngineNext]_vars, MaxSnaps = 0
    PROVE  /\ NoRestore'
           /\ ~ Backup /\ ~ CrashInBackup
           /\ \A l \in 0 .. MaxLsn : ~ RestoreBegin(l)
           /\ \A key, val : ~ RestorePut(key, val)
<1>1. ~ Backup /\ ~ CrashInBackup
  <2>1. \A l : ~ (Cardinality(SnapsWith(l)) <= 0)
    <3> TAKE l
    <3>1. SnapsWith(l) = {l}
      BY DEF NoRestore, SnapsWith
    <3>2. Cardinality({l}) = 1
      BY FS_Singleton
    <3> QED BY <3>1, <3>2
  <2> QED BY <2>1 DEF Backup, CrashInBackup
<1>2. \A l \in 0 .. MaxLsn : ~ RestoreBegin(l)
  BY DEF RestoreBegin, Loadable, NoRestore
<1>3. \A key, val : ~ RestorePut(key, val)
  BY DEF RestorePut, NoRestore
<1>4. NoRestore'
  <2>1. CASE OpenEngine \/ RecoverRecord \/ OpenReturns \/ Compact \/ WriteFails
    BY <2>1 DEF OpenEngine, RecoverRecord, OpenReturns, Compact, WriteFails, NoRestore
  <2>2. CASE CrashIdle \/ CrashInRecovery \/ CrashInCompact
    BY <2>2 DEF CrashIdle, CrashInRecovery, CrashInCompact, Forget, NoRestore
  <2>3. ASSUME NEW key, NEW val,
               \/ Put(key, val) \/ InsertVector(key, val) \/ PageWriteFails(key, val)
               \/ Delete(key)
        PROVE  NoRestore'
    BY <2>3 DEF Put, InsertVector, PageWriteFails, Delete, NoRestore
  <2>4. ASSUME NEW op, NEW key, NEW val, CrashInWrite(op, key, val) PROVE NoRestore'
    BY <2>4 DEF CrashInWrite, Forget, NoRestore
  <2>5. CASE UNCHANGED vars
    BY <2>5 DEF vars, engVars, NoRestore
  <2> QED BY <1>1, <1>2, <1>3, <2>1, <2>2, <2>3, <2>4, <2>5 DEF EngineNext
<1> QED BY <1>1, <1>2, <1>3, <1>4

(* What the rebuild shows for a vector depends on its own records. *)
LEMMA RebuiltLocal ==
    ASSUME NEW act, NEW new, NEW id \in VectorIds,
           \A k \in VecKeys : VecId[k] = id => new[k] = act[k]
    PROVE  RebuiltVectors(new)[id] = RebuiltVectors(act)[id]
<1> DEFINE ks == {k \in VecKeys : VecId[k] = id /\ act[k] # None}
           ns == {k \in VecKeys : VecId[k] = id /\ new[k] # None}
           c  == CHOOSE k \in ks : TRUE
<1>1. ns = ks
  OBVIOUS
<1>2. ks # {} => c \in ks /\ new[c] = act[c]
  OBVIOUS
<1>3. RebuiltVectors(act)[id] = IF ks = {} THEN None ELSE act[c].val
  BY DEF RebuiltVectors
<1>4. RebuiltVectors(new)[id] = IF ns = {} THEN None ELSE new[CHOOSE k \in ns : TRUE].val
  BY DEF RebuiltVectors
<1> HIDE DEF ks, ns
<1> QED BY <1>1, <1>2, <1>3, <1>4

VectorsInv == \A id \in VectorIds : vectors[id] = RebuiltVectors(active)[id]

(* insert_vector and delete change the vector of the key and no other. *)
LEMMA VectorsStep ==
    ASSUME EngineInv, NoRestore, VectorsInv, [EngineNext]_vars, MaxSnaps = 0,
           \A j, k \in Key : VecId[j] = VecId[k] => j = k
    PROVE  VectorsInv'
<1>t. active \in [Key -> ActiveEntry \cup {None}] /\ vectors \in [VectorIds -> Vals \cup {None}]
  BY DEF EngineInv, MemTypes
<1>v. VecKeys \subseteq Key
  BY EngineConstants
<1>0. RebuiltVectors(NoEntries) = NoVectors
  <2>1. \A id : {k \in VecKeys : VecId[k] = id /\ NoEntries[k] # None} = {}
    BY <1>v DEF NoEntries
  <2> QED BY <2>1 DEF RebuiltVectors, NoVectors
<1>1. CASE UNCHANGED <<active, vectors>>
  BY <1>1 DEF VectorsInv
<1>2. ASSUME active' = NoEntries, vectors' = NoVectors PROVE VectorsInv'
  BY <1>0, <1>2 DEF VectorsInv
<1>3. CASE OpenReturns
  BY <1>3 DEF OpenReturns, VectorsInv
<1>4. ASSUME NEW key \in Key, NEW val \in Vals, Put(key, val) PROVE VectorsInv'
  <2>1. \A k \in VecKeys : active'[k] = active[k]
    BY <1>t, <1>v, <1>4 DEF Put, ApplyPut
  <2>2. vectors' = vectors
    BY <1>4 DEF Put
  <2> QED BY <2>1, <2>2, RebuiltLocal, ZenonT(40) DEF VectorsInv
<1>5. ASSUME NEW key \in Key, NEW val \in Vals, InsertVector(key, val) PROVE VectorsInv'
  <2>1. /\ key \in VecKeys /\ active'[key] = [val |-> val, lsn |-> next_lsn]
        /\ \A k \in VecKeys : k # key => active'[k] = active[k]
        /\ vectors'[VecId[key]] = val
        /\ \A id \in VectorIds : id # VecId[key] => vectors'[id] = vectors[id]
    BY <1>t, <1>v, <1>5 DEF InsertVector, ApplyPut, VectorIds
  <2> SUFFICES ASSUME NEW id \in VectorIds PROVE vectors'[id] = RebuiltVectors(active')[id]
    BY DEF VectorsInv
  <2>2. CASE id # VecId[key]
    BY <2>1, <2>2, RebuiltLocal DEF VectorsInv
  <2>3. CASE id = VecId[key]
    <3> DEFINE ks == {k \in VecKeys : VecId[k] = id /\ active'[k] # None}
    <3>1. active'[key] \in ActiveEntry /\ active'[key].val = val
      BY <2>1 DEF EngineInv, LogInv, OrderInv, WalTypeOK, ActiveEntry
    <3>2. ks = {key}
      BY <1>v, <2>1, <2>3, <3>1, NoneIsNone
    <3>3. RebuiltVectors(active')[id] = IF ks = {} THEN None ELSE active'[CHOOSE k \in ks : TRUE].val
      BY DEF RebuiltVectors
    <3> HIDE DEF ks
    <3>4. (CHOOSE k \in ks : TRUE) = key
      BY <3>2
    <3> QED BY <2>1, <2>3, <3>1, <3>2, <3>3, <3>4
  <2> QED BY <2>2, <2>3
<1>6. ASSUME NEW key \in Key, Delete(key) PROVE VectorsInv'
  <2>1. /\ active'[key] = None
        /\ \A k \in Key : k # key => active'[k] = active[k]
        /\ vectors'[VecId[key]] = None
        /\ \A id \in VectorIds : id # VecId[key] => vectors'[id] = vectors[id]
    BY <1>t, <1>6 DEF Delete, VectorIds
  <2> SUFFICES ASSUME NEW id \in VectorIds PROVE vectors'[id] = RebuiltVectors(active')[id]
    BY DEF VectorsInv
  <2>2. CASE id # VecId[key]
    BY <1>v, <2>1, <2>2, RebuiltLocal DEF VectorsInv
  <2>3. CASE id = VecId[key]
    <3>1. {k \in VecKeys : VecId[k] = id /\ active'[k] # None} = {}
      BY <1>v, <2>1, <2>3
    <3> QED BY <2>1, <2>3, <3>1 DEF RebuiltVectors
  <2> QED BY <2>2, <2>3
<1>7. CASE OpenEngine \/ RecoverRecord \/ Compact \/ WriteFails \/ UNCHANGED vars
  BY <1>1, <1>7 DEF OpenEngine, RecoverRecord, Compact, WriteFails, vars, engVars
<1>8. ASSUME NEW key, NEW val, PageWriteFails(key, val) PROVE VectorsInv'
  BY <1>1, <1>8 DEF PageWriteFails
<1>9. CASE CrashIdle \/ CrashInRecovery \/ CrashInCompact
  BY <1>2, <1>9 DEF CrashIdle, CrashInRecovery, CrashInCompact, Forget
<1>10. ASSUME NEW op, NEW key, NEW val, CrashInWrite(op, key, val) PROVE VectorsInv'
  BY <1>2, <1>10 DEF CrashInWrite, Forget
<1> QED BY <1>3, <1>4, <1>5, <1>6, <1>7, <1>8, <1>9, <1>10, NoRestoreStep DEF EngineNext

(* insert_vector, delete and open: the vectors that can be searched are    *)
(* those whose record is in the memtable, as long as restore is not called *)
(* (it puts a vector's record back and not the vector) and no plain key    *)
(* has the name of a vector (delete would take the vector with the key).   *)
THEOREM VectorsAlwaysMatch ==
    ASSUME MaxSnaps = 0, \A j, k \in Key : VecId[j] = VecId[k] => j = k
    PROVE  EngineSpec => []VectorsMatch
<1> DEFINE Inv == EngineInv /\ NoRestore /\ VectorsInv
<1>1. EngineInit => Inv
  <2> SUFFICES ASSUME EngineInit PROVE NoRestore /\ VectorsInv
    BY EngineInvInit
  <2>1. \A id : {k \in VecKeys : VecId[k] = id /\ NoEntries[k] # None} = {}
    BY EngineConstants DEF NoEntries
  <2> QED BY <2>1 DEF EngineInit, NoRestore, VectorsInv, RebuiltVectors, NoVectors
<1>2. Inv /\ [EngineNext]_vars => Inv'
  BY EngineInvStep, NoRestoreStep, VectorsStep
<1>3. Inv => VectorsMatch
  BY DEF VectorsInv, VectorsMatch
<1> QED BY <1>1, <1>2, <1>3, PTL DEF EngineSpec

----------------------------------------------------------------------------
(* What a restart may show, as a function of the log file. *)

Shows(f, n, k) == ValueOf(ReplayKey(SubSeq(f, 1, n), k))

SurvivorsOf(f, s, k) == {Shows(f, n, k) : n \in {m \in s .. Len(f) : m <= ValidCells(f)}}

LEMMA SurvivorsAre ==
    ASSUME NEW f \in Seq(Cell), NEW v, Boundary(f, v), NEW s \in Nat, NEW k
    PROVE  SurvivorsOf(f, s, k) = {Shows(f, n, k) : n \in s .. v}
<1>1. ValidCells(f) = v /\ v \in 0 .. Len(f) /\ Len(f) \in Nat
  BY ValidIsBoundary DEF Boundary
<1>2. {m \in s .. Len(f) : m <= v} = s .. v
  BY <1>1
<1> QED BY <1>1, <1>2 DEF SurvivorsOf

(* Two files with the same first n cells show the same after n cells. *)
LEMMA SamePrefix ==
    ASSUME NEW f \in Seq(Cell), NEW g \in Seq(Cell), NEW v \in Nat,
           v <= Len(f), v <= Len(g), \A i \in 1 .. v : g[i] = f[i],
           NEW n \in 0 .. v
    PROVE  SubSeq(g, 1, n) = SubSeq(f, 1, n)
<1> DEFINE a == SubSeq(g, 1, n)
           b == SubSeq(f, 1, n)
<1>1. n \in Nat /\ n <= Len(f) /\ n <= Len(g) /\ Len(f) \in Nat /\ Len(g) \in Nat
      /\ \A i \in 1 .. n : i \in 1 .. v
  OBVIOUS
<1>2. /\ a \in Seq(Cell) /\ Len(a) = n /\ \A i \in 1 .. n : a[i] = g[i]
      /\ b \in Seq(Cell) /\ Len(b) = n /\ \A i \in 1 .. n : b[i] = f[i]
  BY <1>1
<1> HIDE DEF a, b
<1>3. a = b
  BY <1>1, <1>2
<1> QED BY <1>3 DEF a, b

LEMMA SameShown ==
    ASSUME NEW f \in Seq(Cell), NEW g \in Seq(Cell), NEW v \in Nat,
           v <= Len(f), v <= Len(g), \A i \in 1 .. v : g[i] = f[i], NEW k
    PROVE  \A n \in 0 .. v : Shows(g, n, k) = Shows(f, n, k)
BY SamePrefix DEF Shows

(* recover after one more record. *)
LEMMA ReplayMore ==
    ASSUME NEW f \in Seq(LogRecord), NEW r \in LogRecord, NEW k
    PROVE  ReplayKey(Append(f, r), k) =
             IF r.key = k
             THEN IF r.op = "Delete" THEN None ELSE [val |-> r.val, lsn |-> r.lsn]
             ELSE ReplayKey(f, k)
<1> DEFINE g     == Append(f, r)
           mine  == {i \in 1 .. Len(f) : f[i].key = k}
           mineg == {i \in 1 .. Len(g) : g[i].key = k}
           l     == Len(f) + 1
<1>1. /\ Len(f) \in Nat /\ Len(g) = l /\ g[l] = r /\ l \in 1 .. l
      /\ \A i \in 1 .. Len(f) : g[i] = f[i] /\ i # l /\ i \in 1 .. l
      /\ \A i \in 1 .. l : i = l \/ i \in 1 .. Len(f)
  OBVIOUS
<1>2. CASE r.key = k
  <2>1. l \in mineg /\ mineg \in SUBSET (1 .. l)
    BY <1>1, <1>2
  <2>2. Max(mineg) = l
    <3> HIDE DEF mineg
    <3>1. l \in Nat /\ mineg # {}
      BY <1>1, <2>1
    <3>2. Max(mineg) \in mineg /\ l <= Max(mineg)
      BY <2>1, <3>1, MaxIn
    <3>3. Max(mineg) \in 1 .. l
      BY <2>1, <3>2
    <3> QED BY <3>1, <3>2, <3>3
  <2>3. ReplayKey(g, k) = IF mineg = {} THEN None
                          ELSE IF g[Max(mineg)].op = "Delete" THEN None
                          ELSE [val |-> g[Max(mineg)].val, lsn |-> g[Max(mineg)].lsn]
    BY DEF ReplayKey
  <2> HIDE DEF mineg, g
  <2>4. mineg # {} /\ g[Max(mineg)] = r
    BY <1>1, <2>1, <2>2
  <2> QED BY <1>2, <2>3, <2>4 DEF g
<1>3. CASE r.key # k
  <2>1. mineg = mine
    BY <1>1, <1>3
  <2>2. ReplayKey(g, k) = IF mineg = {} THEN None
                          ELSE IF g[Max(mineg)].op = "Delete" THEN None
                          ELSE [val |-> g[Max(mineg)].val, lsn |-> g[Max(mineg)].lsn]
    BY DEF ReplayKey
  <2>3. ReplayKey(f, k) = IF mine = {} THEN None
                          ELSE IF f[Max(mine)].op = "Delete" THEN None
                          ELSE [val |-> f[Max(mine)].val, lsn |-> f[Max(mine)].lsn]
    BY DEF ReplayKey
  <2>4. mine # {} => g[Max(mine)] = f[Max(mine)]
    <3> SUFFICES ASSUME mine # {} PROVE Max(mine) \in 1 .. Len(f)
      BY <1>1
    <3>1. mine \in SUBSET (1 .. Len(f))
      OBVIOUS
    <3> HIDE DEF mine
    <3>2. Max(mine) \in mine
      BY <1>1, <3>1, MaxIn
    <3> QED BY <3>1, <3>2
  <2> HIDE DEF mine, mineg, g
  <2> QED BY <1>3, <2>1, <2>2, <2>3, <2>4 DEF g
<1> QED BY <1>2, <1>3

(* The value an append leaves for the key, and for the others. *)
Written(op, val) == IF op = "Delete" THEN None ELSE val

LEMMA ShowsMore ==
    ASSUME NEW f \in Seq(Cell), \A i \in 1 .. Len(f) : f[i] \in LogRecord,
           NEW r \in LogRecord, NEW k
    PROVE  Shows(Append(f, r), Len(f) + 1, k) =
             IF r.key = k THEN Written(r.op, r.val) ELSE Shows(f, Len(f), k)
<1>1. f \in Seq(LogRecord) /\ Append(f, r) \in Seq(LogRecord) /\ Len(Append(f, r)) = Len(f) + 1
  OBVIOUS
<1>2. SubSeq(f, 1, Len(f)) = f
  BY <1>1
<1>3. \A g \in Seq(LogRecord) : SubSeq(g, 1, Len(g)) = g
  OBVIOUS
<1>4. Shows(Append(f, r), Len(f) + 1, k) = ValueOf(ReplayKey(Append(f, r), k))
  BY <1>1, <1>3 DEF Shows
<1>5. Shows(f, Len(f), k) = ValueOf(ReplayKey(f, k))
  BY <1>2 DEF Shows
<1>6. ValueOf(None) = None /\ ValueOf([val |-> r.val, lsn |-> r.lsn]) = r.val
  <2>1. [val |-> r.val, lsn |-> r.lsn] \in [val : Val, lsn : Nat]
    BY DEF LogRecord
  <2>2. [val |-> r.val, lsn |-> r.lsn] # None
    BY <2>1, EngineConstants
  <2> QED BY <2>2 DEF ValueOf
<1> QED BY <1>1, <1>4, <1>5, <1>6, ReplayMore DEF Written

LEMMA CleanLog ==
    ASSUME DurableInv, strays = {}
    PROVE  /\ file \in Seq(Cell) /\ Len(file) \in Nat /\ synced \in Nat
           /\ ValidCells(file) \in 0 .. Len(file) /\ Boundary(file, ValidCells(file))
           /\ synced <= ValidCells(file)
           /\ opened => /\ ValidCells(file) = Len(file)
                        /\ \A i \in 1 .. Len(file) : file[i] \in LogRecord
<1>1. file \in Seq(Cell) /\ Len(file) \in Nat /\ synced \in 0 .. Len(file) /\ OrderInv /\ CleanFile
  BY DEF DurableInv, OrderInv, WalTypeOK
<1>2. ValidCells(file) \in 0 .. Len(file) /\ Boundary(file, ValidCells(file))
  BY <1>1, ReadableFile
<1> DEFINE v == ValidCells(file)
<1> HIDE DEF v
<1>3. v # Len(file) => v + 1 \in 1 .. Len(file) /\ file[v + 1] \notin LogRecord
  BY <1>1, <1>2 DEF Boundary, v
<1>4. v # Len(file) => ~opened /\ v + 1 = Len(file) /\ v + 1 > synced
  BY <1>1, <1>3 DEF CleanFile
<1>5. synced <= v
  BY <1>1, <1>2, <1>4 DEF v
<1>6. opened => v = Len(file) /\ \A i \in 1 .. Len(file) : file[i] \in LogRecord
  BY <1>1, <1>4 DEF CleanFile
<1> QED BY <1>1, <1>2, <1>5, <1>6 DEF v

(* A restart shows one of the survivors. *)
LEMMA LastSurvives ==
    ASSUME DurableInv, strays = {}, NEW k
    PROVE  Shows(file, ValidCells(file), k) \in SurvivorsOf(file, synced, k)
<1>1. SurvivorsOf(file, synced, k) = {Shows(file, n, k) : n \in synced .. ValidCells(file)}
  BY CleanLog, SurvivorsAre
<1>2. ValidCells(file) \in synced .. ValidCells(file)
  BY CleanLog
<1> QED BY <1>1, <1>2

LEMMA OpenSurvivors ==
    ASSUME DurableInv, strays = {}, Open, NEW k
    PROVE  SurvivorsOf(file', synced', k) = SurvivorsOf(file, synced, k)
<1> DEFINE v == ValidCells(file)
<1>1. /\ file \in Seq(Cell) /\ Len(file) \in Nat /\ synced \in Nat
      /\ v \in 0 .. Len(file) /\ Boundary(file, v)
  BY CleanLog
<1> HIDE DEF v
<1>2. /\ file' \in Seq(Cell) /\ Len(file') \in v .. Len(file) /\ Boundary(file', v)
      /\ \A i \in 1 .. v : file'[i] = file[i]
  BY <1>1, TruncatedFile DEF Open
<1>3. synced' = synced
  BY OpenCleans DEF Open
<1>4. v \in Nat /\ v <= Len(file) /\ v <= Len(file')
  BY <1>1, <1>2
<1>5. SurvivorsOf(file', synced, k) = {Shows(file', n, k) : n \in synced .. v}
  BY <1>1, <1>2, SurvivorsAre
<1>6. SurvivorsOf(file, synced, k) = {Shows(file, n, k) : n \in synced .. v}
  BY <1>1, SurvivorsAre
<1>7. \A n \in 0 .. v : Shows(file', n, k) = Shows(file, n, k)
  BY <1>1, <1>2, <1>4, SameShown
<1>8. \A n \in synced .. v : n \in 0 .. v
  BY <1>1, <1>4
<1> QED BY <1>3, <1>5, <1>6, <1>7, <1>8

(* After an append: what it wrote, alone when it was synced. *)
LEMMA AppendSurvivors ==
    ASSUME DurableInv, strays = {}, opened, NEW r \in LogRecord, file' = Append(file, r), NEW k
    PROVE  LET shown == IF r.key = k THEN Written(r.op, r.val) ELSE Shows(file, Len(file), k) IN
           /\ synced' = Len(file') => SurvivorsOf(file', synced', k) = {shown}
           /\ synced' = synced =>
                 SurvivorsOf(file', synced', k) = SurvivorsOf(file, synced, k) \cup {shown}
<1> DEFINE l     == Len(file)
           shown == IF r.key = k THEN Written(r.op, r.val) ELSE Shows(file, l, k)
<1>1. /\ file \in Seq(Cell) /\ l \in Nat /\ synced \in Nat /\ synced <= l
      /\ Boundary(file, l) /\ \A i \in 1 .. l : file[i] \in LogRecord
  BY CleanLog
<1>2. r \in Cell
  BY DEF Cell
<1>3. /\ file' \in Seq(Cell) /\ Len(file') = l + 1 /\ file'[l + 1] = r
      /\ \A i \in 1 .. l : file'[i] = file[i]
  BY <1>1, <1>2
<1>4. Boundary(file', l + 1)
  <2>1. \A i \in 1 .. (l + 1) : i = l + 1 \/ i \in 1 .. l
    BY <1>1
  <2> QED BY <1>1, <1>3, <2>1 DEF Boundary
<1>5. Shows(file', l + 1, k) = shown
  BY <1>1, ShowsMore
<1> HIDE DEF l, shown
<1>6. \A s \in Nat : SurvivorsOf(file', s, k) = {Shows(file', n, k) : n \in s .. (l + 1)}
  <2> TAKE s \in Nat
  <2> DEFINE m == l + 1
             g == file'
  <2>1. Boundary(g, m) /\ g \in Seq(Cell)
    BY <1>3, <1>4
  <2> HIDE DEF m, g
  <2>2. SurvivorsOf(g, s, k) = {Shows(g, n, k) : n \in s .. m}
    BY <2>1, SurvivorsAre
  <2> QED BY <2>2 DEF m, g
<1>7. ASSUME synced' = Len(file') PROVE SurvivorsOf(file', synced', k) = {shown}
  <2>1. synced' = l + 1 /\ l + 1 \in Nat /\ (l + 1) .. (l + 1) = {l + 1}
    BY <1>1, <1>3, <1>7
  <2> QED BY <1>5, <1>6, <2>1
<1>8. ASSUME synced' = synced
      PROVE  SurvivorsOf(file', synced', k) = SurvivorsOf(file, synced, k) \cup {shown}
  <2>1. SurvivorsOf(file, synced, k) = {Shows(file, n, k) : n \in synced .. l}
    BY <1>1, SurvivorsAre
  <2>2. {Shows(file', n, k) : n \in synced .. l} = {Shows(file, n, k) : n \in synced .. l}
    <3>1. l <= Len(file) /\ l <= Len(file')
      BY <1>1, <1>3 DEF l
    <3>2. \A n \in 0 .. l : Shows(file', n, k) = Shows(file, n, k)
      BY <1>1, <1>3, <3>1, SameShown, ZenonT(40)
    <3>3. \A n \in synced .. l : n \in 0 .. l
      BY <1>1
    <3> QED BY <3>2, <3>3
  <2>3. synced .. (l + 1) = (synced .. l) \cup {l + 1}
    BY <1>1
  <2> QED BY <1>1, <1>5, <1>6, <1>8, <2>1, <2>2, <2>3, ZenonT(40)
<1> QED BY <1>7, <1>8 DEF shown, l

(* A file that was cut behind the synced cells, with a torn record or      *)
(* without: the survivors are some of those there were.                    *)
LEMMA CutSurvivors ==
    ASSUME DurableInv, strays = {}, opened, synced' = synced, NEW k,
           NEW keep \in synced .. Len(file),
           \/ file' = SubSeq(file, 1, keep)
           \/ \E n \in TornSizes : file' = WithStrayBytes(SubSeq(file, 1, keep), n)
    PROVE  /\ SurvivorsOf(file', synced', k) # {}
           /\ SurvivorsOf(file', synced', k) \subseteq SurvivorsOf(file, synced, k)
<1> DEFINE cut == SubSeq(file, 1, keep)
           l   == Len(file)
<1>1. /\ file \in Seq(Cell) /\ l \in Nat /\ synced \in Nat /\ synced <= l
      /\ Boundary(file, l) /\ \A i \in 1 .. l : file[i] \in LogRecord
      /\ keep \in 0 .. l /\ synced <= keep
  BY CleanLog
<1>2. /\ cut \in Seq(Cell) /\ Len(cut) = keep /\ \A i \in 1 .. keep : cut[i] = file[i]
      /\ Boundary(cut, keep)
  <2>1. (IF l < keep THEN l ELSE keep) = keep
    BY <1>1
  <2> QED BY <1>1, <2>1, CutBoundary
<1>3. \A i \in 1 .. keep : cut[i] \in LogRecord
  BY <1>1, <1>2
<1> HIDE DEF cut, l
<1>4. /\ file' \in Seq(Cell) /\ Boundary(file', keep) /\ Len(file') \in Nat
      /\ keep <= Len(file') /\ \A i \in 1 .. keep : file'[i] = file[i]
  <2>1. CASE file' = cut
    BY <1>1, <1>2, <2>1
  <2>2. ASSUME NEW n \in TornSizes, file' = WithStrayBytes(cut, n)
        PROVE  /\ file' \in Seq(Cell) /\ Boundary(file', keep) /\ Len(file') \in Nat
               /\ keep <= Len(file') /\ \A i \in 1 .. keep : file'[i] = file[i]
    <3>1. n \in Nat
      BY WalConstants
    <3>2. /\ file' \in Seq(Cell) /\ Boundary(file', keep)
          /\ \A i \in 1 .. Len(cut) : cut[i] \in LogRecord => file'[i] = cut[i]
      BY <1>2, <2>2, <3>1, StrayBoundary
    <3>3. Len(file') \in Nat /\ keep <= Len(file')
      BY <3>2 DEF Boundary
    <3> QED BY <1>2, <1>3, <3>2, <3>3
  <2> QED BY <2>1, <2>2 DEF cut
<1>5. SurvivorsOf(file', synced', k) = {Shows(file', n, k) : n \in synced .. keep}
  BY <1>1, <1>4, SurvivorsAre
<1>6. SurvivorsOf(file, synced, k) = {Shows(file, n, k) : n \in synced .. l}
  BY <1>1, SurvivorsAre
<1>7. {Shows(file', n, k) : n \in synced .. keep} = {Shows(file, n, k) : n \in synced .. keep}
  <2>1. keep \in Nat /\ keep <= Len(file)
    BY <1>1 DEF l
  <2>2. \A n \in 0 .. keep : Shows(file', n, k) = Shows(file, n, k)
    BY <1>1, <1>4, <2>1, SameShown
  <2>3. \A n \in synced .. keep : n \in 0 .. keep
    BY <1>1, <2>1
  <2> QED BY <2>2, <2>3
<1>8. keep \in synced .. keep /\ \A n \in synced .. keep : n \in synced .. l
  BY <1>1
<1> QED BY <1>5, <1>6, <1>7, <1>8

----------------------------------------------------------------------------
(* The steps of DurableMap, seen from the engine. *)

LEMMA SurvivorsIs ==
    \A k : /\ Survivors(k) = SurvivorsOf(file, synced, k)
           /\ Survivors(k)' = SurvivorsOf(file', synced', k)
BY DEF Survivors, SurvivorsOf, Shows

LEMMA MapAcknowledged ==
    ASSUME NEW key \in Key, NEW v \in Vals \cup {None}, ready, ready' = TRUE,
           \A k \in Key : ValueOf(active[k])' = IF k = key THEN v ELSE ValueOf(active[k]),
           Survivors(key)' = {v},
           \A k \in Key : k # key => Survivors(k)' # {} /\ Survivors(k)' \subseteq Survivors(k)
    PROVE  Map!MapNext
<1>1. Map!Acknowledged(key, v)
  BY DEF Map!Acknowledged
<1> QED BY <1>1 DEF Map!MapNext

LEMMA MapUnacknowledged ==
    ASSUME NEW key \in Key, NEW v \in Vals \cup {None}, ready,
           \A k \in Key :
              /\ Survivors(k)' # {}
              /\ Survivors(k)' \subseteq Survivors(k) \cup (IF k = key THEN {v} ELSE {}),
           \/ ready' = TRUE /\ active' = active
           \/ ready' = FALSE /\ \A k \in Key : ValueOf(active[k])' = None
    PROVE  Map!MapNext
<1>1. Map!Unacknowledged(key, v)
  BY DEF Map!Unacknowledged
<1> QED BY <1>1 DEF Map!MapNext

LEMMA MapGoDown ==
    ASSUME \A k \in Key : Survivors(k)' # {} /\ Survivors(k)' \subseteq Survivors(k),
           ready' = FALSE, \A k \in Key : ValueOf(active[k])' = None
    PROVE  Map!MapNext
<1>1. Map!GoDown
  BY DEF Map!GoDown
<1> QED BY <1>1 DEF Map!MapNext

LEMMA MapComeBack ==
    ASSUME \A k \in Key : Survivors(k)' = Survivors(k), ~ready, ready' = TRUE,
           \A k \in Key : /\ ValueOf(active[k])' \in Vals \cup {None}
                          /\ ValueOf(active[k])' \in Survivors(k)
    PROVE  Map!MapNext
<1>1. Map!ComeBack
  BY DEF Map!ComeBack, Map!Contents
<1> QED BY <1>1 DEF Map!MapNext

LEMMA MapSame ==
    ASSUME \A k \in Key : Survivors(k)' = Survivors(k), ready' = ready, active' = active
    PROVE  UNCHANGED Map!mapVars
BY DEF Map!mapVars

(* An acknowledged write leaves its own value as the only survivor. *)
LEMMA AckSurvivors ==
    ASSUME DurableInv, strays = {}, policy = "SyncPerWrite",
           NEW op \in Op, NEW key \in Key, NEW val \in Val, AppendOk(op, key, val)
    PROVE  /\ Survivors(key)' = {Written(op, val)}
           /\ \A k \in Key : k # key => Survivors(k)' # {} /\ Survivors(k)' \subseteq Survivors(k)
<1> DEFINE r == NewRecord(op, key, val)
<1>1. opened /\ file' = Append(file, r) /\ synced' = Len(file')
  BY DEF AppendOk, TakeLsn
<1>2. r \in LogRecord /\ r.key = key /\ r.op = op /\ r.val = val
  BY WalConstants DEF NewRecord, LogRecord, DurableInv, OrderInv, WalTypeOK
<1> HIDE DEF r
<1>3. \A k : SurvivorsOf(file', synced', k) =
               {IF r.key = k THEN Written(r.op, r.val) ELSE Shows(file, Len(file), k)}
  BY <1>1, <1>2, AppendSurvivors
<1>4. \A k : Shows(file, Len(file), k) \in SurvivorsOf(file, synced, k)
  BY <1>1, CleanLog, LastSurvives
<1> QED BY <1>2, <1>3, <1>4, SurvivorsIs

(* A record that was written and not synced may be shown or not. *)
LEMMA UnackSurvivors ==
    ASSUME DurableInv, strays = {}, opened, synced' = synced,
           NEW op \in Op, NEW key \in Key, NEW val \in Val,
           file' = Append(file, NewRecord(op, key, val))
    PROVE  \A k \in Key :
              /\ Survivors(k)' # {}
              /\ Survivors(k)' \subseteq
                    Survivors(k) \cup (IF k = key THEN {Written(op, val)} ELSE {})
<1> DEFINE r == NewRecord(op, key, val)
<1>2. r \in LogRecord /\ r.key = key /\ r.op = op /\ r.val = val
  BY WalConstants DEF NewRecord, LogRecord, DurableInv, OrderInv, WalTypeOK
<1>0. file' = Append(file, r)
  OBVIOUS
<1> HIDE DEF r
<1>3. \A k : SurvivorsOf(file', synced', k) = SurvivorsOf(file, synced, k) \cup
               {IF r.key = k THEN Written(r.op, r.val) ELSE Shows(file, Len(file), k)}
  BY <1>0, <1>2, AppendSurvivors
<1>4. \A k : Shows(file, Len(file), k) \in SurvivorsOf(file, synced, k)
  BY CleanLog, LastSurvives
<1> QED BY <1>2, <1>3, <1>4, SurvivorsIs

LEMMA TornSurvivors ==
    ASSUME DurableInv, strays = {}, opened, synced' = synced,
           NEW n \in TornSizes, file' = WithStrayBytes(file, n)
    PROVE  \A k \in Key : Survivors(k)' # {} /\ Survivors(k)' \subseteq Survivors(k)
<1>1. file \in Seq(Cell) /\ Len(file) \in Nat /\ synced \in Nat /\ synced <= Len(file)
  BY CleanLog
<1>2. SubSeq(file, 1, Len(file)) = file /\ Len(file) \in synced .. Len(file)
  BY <1>1
<1>3. \A k : /\ SurvivorsOf(file', synced', k) # {}
             /\ SurvivorsOf(file', synced', k) \subseteq SurvivorsOf(file, synced, k)
  BY <1>2, CutSurvivors
<1> QED BY <1>3, SurvivorsIs

LEMMA CrashSurvivors ==
    ASSUME DurableInv, strays = {}, Crash
    PROVE  \A k \in Key : Survivors(k)' # {} /\ Survivors(k)' \subseteq Survivors(k)
<1>1. PICK keep \in synced .. Len(file) :
          \/ file' = SubSeq(file, 1, keep)
          \/ \E n \in TornSizes : file' = WithStrayBytes(SubSeq(file, 1, keep), n)
  BY DEF Crash
<1>2. opened /\ synced' = synced
  BY DEF Crash
<1>3. \A k : /\ SurvivorsOf(file', synced', k) # {}
             /\ SurvivorsOf(file', synced', k) \subseteq SurvivorsOf(file, synced, k)
  BY <1>1, <1>2, CutSurvivors
<1> QED BY <1>3, SurvivorsIs

LEMMA WrittenIs ==
    /\ \A k \in Key, val \in Vals : /\ Written(PutOp(k), val) = val
                                    /\ val \in Val /\ val \in Vals \cup {None}
    /\ Written("Delete", EmptyVal) = None
    /\ ValueOf(None) = None
    /\ \A val \in Vals, lsn \in Nat : ValueOf([val |-> val, lsn |-> lsn]) = val
<1>1. \A val \in Vals, lsn \in Nat : [val |-> val, lsn |-> lsn] # None
  BY NoneIsNone DEF ActiveEntry
<1> QED BY <1>1, Ops DEF Written, ValueOf

(* Every step of the engine is a step of the map, or none. *)
LEMMA MapStep ==
    ASSUME EngineInv, NoRestore, DurableInv, strays = {}, strays' = {}, [EngineNext]_vars,
           MaxSnaps = 0, SyncPolicies = {"SyncPerWrite"}
    PROVE  [Map!MapNext]_(Map!mapVars)
<1>p. policy = "SyncPerWrite" /\ next_lsn \in Nat
  BY DEF EngineInv, LogInv, OrderInv, WalTypeOK
<1>a. active \in [Key -> ActiveEntry \cup {None}]
  BY DEF EngineInv, MemTypes
<1>f. Forget => ready' = FALSE /\ \A k \in Key : ValueOf(active[k])' = None
  BY DEF Forget, NoEntries, ValueOf
<1>s. ASSUME UNCHANGED <<file, synced, ready, active>> PROVE UNCHANGED Map!mapVars
  <2>1. \A k \in Key : Survivors(k)' = Survivors(k)
    BY <1>s, SurvivorsIs
  <2> QED BY <1>s, <2>1, MapSame
<1>1. CASE OpenEngine
  <2>1. \A k \in Key : Survivors(k)' = Survivors(k)
    BY <1>1, OpenSurvivors, SurvivorsIs DEF OpenEngine
  <2>2. ready' = ready /\ active' = active
    BY <1>1 DEF OpenEngine
  <2> QED BY <2>1, <2>2, MapSame
<1>2. CASE OpenReturns
  <2>1. \A k \in Key : Survivors(k)' = Survivors(k)
    BY <1>2, SurvivorsIs DEF OpenReturns, walVars
  <2>2. ~ready /\ ready' = TRUE /\ active' = Replay(Readable(file))
    BY <1>2 DEF OpenReturns, Recovering
  <2>3. \A k \in Key : ValueOf(active'[k]) = Shows(file, ValidCells(file), k)
    BY <2>2 DEF Replay, Readable, Shows
  <2>4. \A k \in Key : Shows(file, ValidCells(file), k) \in Survivors(k)
    BY LastSurvives, SurvivorsIs
  <2>5. \A k \in Key : ValueOf(active'[k]) \in Vals \cup {None}
    <3>1. active' \in [Key -> ActiveEntry \cup {None}]
      BY <2>2, ReplayTypes DEF EngineInv
    <3>2. \A e \in ActiveEntry \cup {None} : ValueOf(e) \in Vals \cup {None}
      BY DEF ActiveEntry, ValueOf
    <3> QED BY <3>1, <3>2
  <2> QED BY <2>1, <2>2, <2>3, <2>4, <2>5, MapComeBack
<1>3. ASSUME NEW key \in Key, NEW val \in Vals, Put(key, val) \/ InsertVector(key, val)
      PROVE  Map!MapNext
  <2>1. /\ AppendOk(PutOp(key), key, val) /\ ready /\ ready' = TRUE
        /\ active' = [active EXCEPT ![key] = [val |-> val, lsn |-> next_lsn]]
    BY <1>3 DEF EngineInv, MemTypes, Put, InsertVector, Idle, opening, ApplyPut
  <2>2. \A k \in Key : ValueOf(active[k])' = IF k = key THEN val ELSE ValueOf(active[k])
    BY <1>p, <1>a, <2>1, WrittenIs
  <2>3. /\ Survivors(key)' = {Written(PutOp(key), val)}
        /\ \A k \in Key : k # key => Survivors(k)' # {} /\ Survivors(k)' \subseteq Survivors(k)
    BY <1>p, <2>1, Ops, AckSurvivors
  <2> QED BY <2>1, <2>2, <2>3, WrittenIs, MapAcknowledged
<1>4. ASSUME NEW key \in Key, Delete(key) PROVE Map!MapNext
  <2>1. /\ AppendOk("Delete", key, EmptyVal) /\ ready /\ ready' = TRUE
        /\ active' = [active EXCEPT ![key] = None]
    BY <1>4 DEF EngineInv, MemTypes, Delete, Idle, opening
  <2>2. \A k \in Key : ValueOf(active[k])' = IF k = key THEN None ELSE ValueOf(active[k])
    BY <1>a, <2>1, WrittenIs
  <2>3. /\ Survivors(key)' = {Written("Delete", EmptyVal)}
        /\ \A k \in Key : k # key => Survivors(k)' # {} /\ Survivors(k)' \subseteq Survivors(k)
    BY <1>p, <2>1, Ops, AckSurvivors
  <2> QED BY <2>1, <2>2, <2>3, WrittenIs, MapAcknowledged
<1>5. ASSUME NEW key \in Key, NEW val \in Vals, PageWriteFails(key, val) PROVE Map!MapNext
  <2>1. AppendOk(PutOp(key), key, val) /\ ready /\ ready' = TRUE /\ active' = active
    BY <1>5 DEF EngineInv, MemTypes, PageWriteFails, opening
  <2>2. /\ Survivors(key)' = {Written(PutOp(key), val)}
        /\ \A k \in Key : k # key => Survivors(k)' # {} /\ Survivors(k)' \subseteq Survivors(k)
    BY <1>p, <2>1, Ops, AckSurvivors
  <2>3. \A k \in Key :
              /\ Survivors(k)' # {}
              /\ Survivors(k)' \subseteq Survivors(k) \cup (IF k = key THEN {val} ELSE {})
    BY <2>2, WrittenIs
  <2> QED BY <2>1, <2>3, WrittenIs, MapUnacknowledged
<1>6. ASSUME NEW op \in Op, NEW key \in Key, NEW val \in Val, AppendUnsynced(op, key, val),
             WriteFails, Written(op, val) \in Vals \cup {None}
      PROVE  Map!MapNext
  <2>1. /\ opened /\ synced' = synced /\ file' = Append(file, NewRecord(op, key, val))
        /\ ready /\ ready' = TRUE /\ active' = active
    BY <1>6 DEF EngineInv, MemTypes, AppendUnsynced, TakeLsn, WriteFails, opening
  <2>2. \A k \in Key :
              /\ Survivors(k)' # {}
              /\ Survivors(k)' \subseteq
                    Survivors(k) \cup (IF k = key THEN {Written(op, val)} ELSE {})
    BY <2>1, UnackSurvivors
  <2> QED BY <1>6, <2>1, <2>2, MapUnacknowledged
<1>7. ASSUME NEW n \in ShortWrites, AppendShort(n), WriteFails PROVE UNCHANGED Map!mapVars
  <2>1. n = 0
    BY <1>7 DEF AppendShort
  <2>2. UNCHANGED <<file, synced, ready, active>>
    BY <1>7, <2>1 DEF AppendShort, WriteFails, opening
  <2> QED BY <1>s, <2>2
<1>8. CASE WriteFails
  <2>1. ASSUME NEW key \in Key, NEW val \in Vals, AppendUnsynced(PutOp(key), key, val)
        PROVE  Map!MapNext
    BY <1>6, <1>8, <2>1, Ops, WrittenIs
  <2>2. ASSUME NEW key \in Key, AppendUnsynced("Delete", key, EmptyVal) PROVE Map!MapNext
    BY <1>6, <1>8, <2>2, Ops, WrittenIs
  <2> QED BY <1>7, <1>8, <2>1, <2>2 DEF WriteFails
<1>9. ASSUME NEW op \in Op, NEW key \in Key, NEW val \in Val, CrashInWrite(op, key, val),
             Written(op, val) \in Vals \cup {None}
      PROVE  Map!MapNext
  <2>1. opened /\ synced' = synced /\ ready /\ ready' = FALSE
        /\ \A k \in Key : ValueOf(active[k])' = None
    BY <1>f, <1>9 DEF CrashInWrite, CrashInAppend
  <2>2. \A k \in Key :
              /\ Survivors(k)' # {}
              /\ Survivors(k)' \subseteq
                    Survivors(k) \cup (IF k = key THEN {Written(op, val)} ELSE {})
    <3>1. CASE file' = Append(file, NewRecord(op, key, val))
      BY <2>1, <3>1, UnackSurvivors
    <3>2. CASE \E n \in TornSizes : file' = WithStrayBytes(file, n)
      <4>1. \A k \in Key : Survivors(k)' # {} /\ Survivors(k)' \subseteq Survivors(k)
        BY <2>1, <3>2, TornSurvivors
      <4> QED BY <4>1
    <3> QED BY <1>9, <3>1, <3>2 DEF CrashInWrite, CrashInAppend
  <2> QED BY <1>9, <2>1, <2>2, MapUnacknowledged
<1>10. ASSUME NEW key \in Key
       PROVE  /\ \A val \in Vals : CrashInWrite(PutOp(key), key, val) => Map!MapNext
              /\ CrashInWrite("Delete", key, EmptyVal) => Map!MapNext
  BY <1>9, Ops, WrittenIs
<1>11. CASE CrashIdle \/ CrashInRecovery \/ CrashInCompact
  <2>1. Crash /\ Forget
    BY <1>11 DEF CrashIdle, CrashInRecovery, CrashInCompact
  <2> QED BY <1>f, <2>1, CrashSurvivors, MapGoDown
<1>12. CASE RecoverRecord \/ Compact \/ UNCHANGED vars
  BY <1>s, <1>12 DEF RecoverRecord, Compact, vars, walVars, engVars, opening
<1> QED BY <1>1, <1>2, <1>3, <1>4, <1>5, <1>8, <1>10, <1>11, <1>12, NoRestoreStep DEF EngineNext

LEMMA MapStarts == EngineInit => Map!MapInit
<1> SUFFICES ASSUME EngineInit PROVE Map!MapInit
  OBVIOUS
<1>1. file = <<>> /\ synced = 0 /\ ready = FALSE /\ active = NoEntries
  BY DEF EngineInit, WalInit
<1>2. Boundary(<<>>, 0) /\ <<>> \in Seq(Cell)
  BY DEF Boundary
<1>3. \A k \in Key : Survivors(k) = {None}
  <2> TAKE k \in Key
  <2>1. SurvivorsOf(<<>>, 0, k) = {Shows(<<>>, n, k) : n \in 0 .. 0}
    BY <1>2, SurvivorsAre
  <2>2. SubSeq(<<>>, 1, 0) = <<>>
    OBVIOUS
  <2>3. {i \in 1 .. Len(<<>>) : <<>>[i].key = k} = {}
    OBVIOUS
  <2>4. Shows(<<>>, 0, k) = None
    BY <2>2, <2>3 DEF Shows, ReplayKey, ValueOf
  <2>5. 0 .. 0 = {0}
    OBVIOUS
  <2> QED BY <1>1, <2>1, <2>4, <2>5, SurvivorsIs
<1> QED BY <1>1, <1>3, WrittenIs DEF Map!MapInit, NoEntries

(* StorageEngine implements DurableMap: every acknowledged put,            *)
(* insert_vector and delete survives any number of crashes, in open and    *)
(* compact too, and nothing but a write to the same key changes what a     *)
(* restart shows for it.  It does as long as append syncs every write,     *)
(* restore is not called, and no fragment is left that open overlooks      *)
(* (strays); failed syncs, failed page writes and torn pages are allowed.  *)
THEOREM EngineImplementsMap ==
    ASSUME MaxSnaps = 0, SyncPolicies = {"SyncPerWrite"}
    PROVE  EngineSpec /\ [](strays = {}) => ImplementsMap
<1> DEFINE Inv == EngineInv /\ NoRestore /\ DurableInv
<1>1. EngineInit => Inv
  BY EngineInvInit, DurableInvInit DEF EngineInit, NoRestore
<1>2. Inv /\ [EngineNext]_vars => Inv'
  BY EngineInvStep, NoRestoreStep, EngineLogs, DurableInvStep
<1>3. Inv /\ strays = {} /\ (strays = {})' /\ [EngineNext]_vars => [Map!MapNext]_(Map!mapVars)
  BY MapStep
<1> QED BY <1>1, <1>2, <1>3, MapStarts, PTL DEF EngineSpec, ImplementsMap, Map!MapSpec

----------------------------------------------------------------------------
(* What a reader sees and what a restart would show. *)

SameInv == ready => \A k \in Key : ValueOf(active[k]) = Shows(file, ValidCells(file), k)

(* A write that succeeds changes both in the same way. *)
LEMMA SameWrite ==
    ASSUME DurableInv, strays = {}, SameInv, ready,
           NEW op \in Op, NEW key \in Key, NEW val \in Val, AppendOk(op, key, val),
           \A k \in Key :
              ValueOf(active[k])' = IF k = key THEN Written(op, val) ELSE ValueOf(active[k])
    PROVE  SameInv'
<1> DEFINE r == NewRecord(op, key, val)
           l == Len(file)
<1>1. opened /\ file' = Append(file, r)
  BY DEF AppendOk, TakeLsn
<1>2. r \in LogRecord /\ r \in Cell /\ r.key = key /\ r.op = op /\ r.val = val
  BY WalConstants DEF NewRecord, LogRecord, Cell, DurableInv, OrderInv, WalTypeOK
<1> HIDE DEF r
<1>3. /\ file \in Seq(Cell) /\ l \in Nat /\ ValidCells(file) = l
      /\ \A i \in 1 .. l : file[i] \in LogRecord
  BY <1>1, CleanLog
<1>4. /\ file' \in Seq(Cell) /\ Len(file') = l + 1 /\ file'[l + 1] = r
      /\ \A i \in 1 .. l : file'[i] = file[i]
  BY <1>1, <1>2, <1>3
<1>5. Boundary(file', l + 1)
  <2>1. \A i \in 1 .. (l + 1) : i = l + 1 \/ i \in 1 .. l
    BY <1>3
  <2> QED BY <1>2, <1>3, <1>4, <2>1 DEF Boundary
<1>6. ValidCells(file') = l + 1
  BY <1>4, <1>5, ValidIsBoundary
<1>7. \A k : Shows(file', l + 1, k) =
               IF r.key = k THEN Written(r.op, r.val) ELSE Shows(file, l, k)
  BY <1>1, <1>2, <1>3, ShowsMore
<1> HIDE DEF l
<1>8. \A k \in Key : ValueOf(active[k]) = Shows(file, l, k)
  BY <1>3 DEF SameInv
<1> QED BY <1>2, <1>6, <1>7, <1>8 DEF SameInv

LEMMA SameStep ==
    ASSUME EngineInv, NoRestore, DurableInv, strays = {}, strays' = {}, SameInv,
           [EngineNext]_vars, MaxSnaps = 0, SyncErrors = FALSE, PageFaults = FALSE
    PROVE  SameInv'
<1>p. next_lsn \in Nat /\ active \in [Key -> ActiveEntry \cup {None}] /\ (ready => opened)
  BY DEF EngineInv, LogInv, OrderInv, WalTypeOK, MemTypes
<1>1. CASE UNCHANGED <<file, ready, active>>
  BY <1>1 DEF SameInv
<1>2. CASE OpenEngine
  <2>1. ~ready'
    BY <1>p, <1>2 DEF OpenEngine, Open
  <2> QED BY <2>1 DEF SameInv
<1>3. CASE OpenReturns
  <2>1. active' = Replay(Readable(file)) /\ file' = file
    BY <1>3 DEF OpenReturns, walVars
  <2>2. \A k \in Key : ValueOf(active'[k]) = Shows(file, ValidCells(file), k)
    BY <2>1 DEF Replay, Readable, Shows
  <2> QED BY <2>1, <2>2 DEF SameInv
<1>4. ASSUME NEW key \in Key, NEW val \in Vals, Put(key, val) \/ InsertVector(key, val)
      PROVE  SameInv'
  <2>1. /\ AppendOk(PutOp(key), key, val) /\ ready
        /\ active' = [active EXCEPT ![key] = [val |-> val, lsn |-> next_lsn]]
    BY <1>4 DEF Put, InsertVector, Idle, ApplyPut
  <2>2. \A k \in Key : ValueOf(active[k])' =
                         IF k = key THEN Written(PutOp(key), val) ELSE ValueOf(active[k])
    BY <1>p, <2>1, WrittenIs
  <2> QED BY <2>1, <2>2, Ops, SameWrite
<1>5. ASSUME NEW key \in Key, Delete(key) PROVE SameInv'
  <2>1. AppendOk("Delete", key, EmptyVal) /\ ready /\ active' = [active EXCEPT ![key] = None]
    BY <1>5 DEF Delete, Idle
  <2>2. \A k \in Key : ValueOf(active[k])' =
                         IF k = key THEN Written("Delete", EmptyVal) ELSE ValueOf(active[k])
    BY <1>p, <2>1, WrittenIs
  <2> QED BY <2>1, <2>2, Ops, SameWrite
<1>6. CASE WriteFails
  <2>1. PICK n \in ShortWrites : AppendShort(n)
    BY <1>6 DEF WriteFails, AppendUnsynced
  <2>2. n = 0
    BY <2>1 DEF AppendShort
  <2> QED BY <1>1, <1>6, <2>1, <2>2 DEF WriteFails, AppendShort, opening
<1>7. ASSUME Forget PROVE SameInv'
  BY <1>7 DEF Forget, SameInv
<1>8. CASE CrashIdle \/ CrashInRecovery \/ CrashInCompact
  BY <1>7, <1>8 DEF CrashIdle, CrashInRecovery, CrashInCompact
<1>9. ASSUME NEW op, NEW key, NEW val, CrashInWrite(op, key, val) PROVE SameInv'
  BY <1>7, <1>9 DEF CrashInWrite
<1>10. \A key, val : ~ PageWriteFails(key, val)
  BY DEF PageWriteFails
<1>11. CASE RecoverRecord \/ Compact \/ UNCHANGED vars
  BY <1>1, <1>11 DEF RecoverRecord, Compact, vars, walVars, engVars, opening
<1> QED BY <1>2, <1>3, <1>4, <1>5, <1>6, <1>8, <1>9, <1>10, <1>11, NoRestoreStep DEF EngineNext

(* put, delete, open: what a reader sees is what a restart would show, if  *)
(* restore is not called, no fragment is left that open overlooks, and no  *)
(* write fails after its record is in the log.  The run EngineRestore      *)
(* shows that restore breaks it.                                           *)
THEOREM RestartShowsTheSame ==
    ASSUME MaxSnaps = 0, SyncErrors = FALSE, PageFaults = FALSE
    PROVE  EngineSpec /\ [](strays = {}) => []RestartShowsSame
<1> DEFINE Inv == EngineInv /\ NoRestore /\ DurableInv
<1>1. EngineInit => Inv /\ SameInv
  BY EngineInvInit, DurableInvInit DEF EngineInit, NoRestore, SameInv
<1>2. Inv /\ [EngineNext]_vars => Inv'
  BY EngineInvStep, NoRestoreStep, EngineLogs, DurableInvStep
<1>3. Inv /\ SameInv /\ strays = {} /\ (strays = {})' /\ [EngineNext]_vars => SameInv'
  BY SameStep
<1>4. SameInv => RestartShowsSame
  BY DEF SameInv, RestartShowsSame, Idle, Shows, Readable
<1> QED BY <1>1, <1>2, <1>3, <1>4, PTL DEF EngineSpec
=============================================================================
