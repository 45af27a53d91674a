------------------------------ MODULE WalProofs ------------------------------
(***************************************************************************)
(* Proofs about Wal.  The first part holds under every fault the module    *)
(* knows: type correctness and the order of LSNs.  The second part is      *)
(* about durability while strays is empty: every torn write so far left at *)
(* least eight bytes, and no append failed half-way.                       *)
(***************************************************************************)
EXTENDS Wal, TLAPS

(* n is where the scan of f stops. *)
Boundary(f, n) ==
    /\ n \in 0 .. Len(f)
    /\ \A i \in 1 .. n : f[i] \in LogRecord
    /\ n < Len(f) => f[n + 1] \notin LogRecord

(* The scan stops in one place only, so any boundary is ValidCells. *)
LEMMA ValidIsBoundary ==
    ASSUME NEW f \in Seq(Cell), NEW n, Boundary(f, n)
    PROVE  ValidCells(f) = n
<1>1. \A m : Boundary(f, m) => m = n
  BY DEF Boundary
<1>2. ValidCells(f) = CHOOSE m \in 0 .. Len(f) : Boundary(f, m)
  BY DEF ValidCells, Boundary
<1> QED
  BY <1>1, <1>2 DEF Boundary

(* A fragment is not a record: they have different fields. *)
LEMMA FragmentNotRecord == \A n \in Nat : [frag |-> n] \in Cell /\ [frag |-> n] \notin LogRecord
BY DEF Cell, Fragment, LogRecord

----------------------------------------------------------------------------
(* Facts that hold under every fault. *)

HasBoundary == \E n \in 0 .. Len(file) : Boundary(file, n)

RecordsOrdered ==
    \A i, j \in 1 .. Len(file) :
        i < j /\ file[i] \in LogRecord /\ file[j] \in LogRecord => file[i].lsn < file[j].lsn

BelowNext ==
    opened => \A i \in 1 .. Len(file) : file[i] \in LogRecord => file[i].lsn < next_lsn

OrderInv == WalTypeOK /\ HasBoundary /\ RecordsOrdered /\ BelowNext

(* Appending one cell keeps a boundary. *)
LEMMA AppendBoundary ==
    ASSUME NEW f \in Seq(Cell), NEW c \in Cell, NEW n, Boundary(f, n)
    PROVE  \E m \in 0 .. Len(Append(f, c)) :
              /\ Boundary(Append(f, c), m)
              /\ n <= m
<1>1. CASE n = Len(f) /\ c \in LogRecord
  <2>1. Boundary(Append(f, c), n + 1)
    BY <1>1 DEF Boundary
  <2> QED BY <2>1 DEF Boundary
<1>2. CASE ~(n = Len(f) /\ c \in LogRecord)
  <2>1. Boundary(Append(f, c), n)
    BY <1>2 DEF Boundary
  <2> QED BY <2>1 DEF Boundary
<1> QED BY <1>1, <1>2

(* Cutting the file keeps a boundary. *)
LEMMA CutBoundary ==
    ASSUME NEW f \in Seq(Cell), NEW n, Boundary(f, n), NEW k \in 0 .. Len(f)
    PROVE  /\ SubSeq(f, 1, k) \in Seq(Cell)
           /\ Len(SubSeq(f, 1, k)) = k
           /\ \A i \in 1 .. k : SubSeq(f, 1, k)[i] = f[i]
           /\ Boundary(SubSeq(f, 1, k), IF n < k THEN n ELSE k)
<1>1. /\ SubSeq(f, 1, k) \in Seq(Cell)
      /\ Len(SubSeq(f, 1, k)) = k
      /\ \A i \in 1 .. k : SubSeq(f, 1, k)[i] = f[i]
  OBVIOUS
<1> QED BY <1>1 DEF Boundary

(* Stray bytes keep a boundary, and every record where it is. *)
LEMMA StrayBoundary ==
    ASSUME NEW f \in Seq(Cell), NEW n, Boundary(f, n), NEW b \in Nat
    PROVE  LET g == WithStrayBytes(f, b) IN
           /\ g \in Seq(Cell)
           /\ Len(g) \in {Len(f), Len(f) + 1}
           /\ \A i \in 1 .. Len(g) : g[i] \in LogRecord => i \in 1 .. Len(f) /\ g[i] = f[i]
           /\ \A i \in 1 .. Len(f) : f[i] \in LogRecord => g[i] = f[i]
           /\ Boundary(g, n)
<1> DEFINE g == WithStrayBytes(f, b)
<1>1. CASE f # <<>> /\ f[Len(f)] \notin LogRecord
  <2> DEFINE c == [frag |-> f[Len(f)].frag + b]
  <2>1. f[Len(f)].frag \in Nat
    BY <1>1 DEF Cell, Fragment
  <2>2. c \in Cell /\ c \notin LogRecord
    BY <2>1, FragmentNotRecord
  <2>3. g = [f EXCEPT ![Len(f)] = c]
    BY <1>1 DEF WithStrayBytes
  <2> HIDE DEF c, g
  <2>4. g \in Seq(Cell) /\ Len(g) = Len(f) /\ g[Len(f)] = c
    BY <1>1, <2>2, <2>3
  <2>5. \A i \in 1 .. Len(f) : i # Len(f) => g[i] = f[i]
    BY <2>3
  <2>6. Boundary(g, n)
    BY <1>1, <2>2, <2>4, <2>5 DEF Boundary
  <2> QED BY <1>1, <2>2, <2>4, <2>5, <2>6 DEF g
<1>2. CASE ~(f # <<>> /\ f[Len(f)] \notin LogRecord)
  <2> DEFINE c == [frag |-> b]
  <2>1. c \in Cell /\ c \notin LogRecord
    BY FragmentNotRecord
  <2>2. g = Append(f, c)
    BY <1>2 DEF WithStrayBytes
  <2> HIDE DEF c, g
  <2>3. g \in Seq(Cell) /\ Len(g) = Len(f) + 1 /\ g[Len(f) + 1] = c
    BY <2>1, <2>2
  <2>4. \A i \in 1 .. Len(f) : g[i] = f[i]
    BY <2>2
  <2>5. Boundary(g, n)
    BY <2>1, <2>3, <2>4 DEF Boundary
  <2> QED BY <2>1, <2>3, <2>4, <2>5 DEF g
<1> QED BY <1>1, <1>2

(* The highest LSN a scan finds is that of the last readable record. *)
LEMMA ScannedLsn ==
    ASSUME WalTypeOK, RecordsOrdered, NEW n, Boundary(file, n)
    PROVE  /\ MaxScannedLsn(file) \in Nat
           /\ \A i \in 1 .. n : file[i].lsn <= MaxScannedLsn(file)
<1> DEFINE m == IF n = 0 THEN 0 ELSE file[n].lsn
<1>1. ValidCells(file) = n
  BY ValidIsBoundary DEF WalTypeOK
<1>2. n \in 0 .. Len(file) /\ \A i \in 1 .. n : file[i] \in LogRecord /\ file[i].lsn \in Nat
  BY DEF Boundary, LogRecord
<1>3. m \in Lsns(file) \cup {0}
  BY <1>1, <1>2 DEF Lsns
<1>4. \A l \in Lsns(file) : l <= m
  <2> SUFFICES ASSUME NEW i \in 1 .. n PROVE file[i].lsn <= m
    BY <1>1 DEF Lsns
  <2>1. CASE i = n
    BY <1>2, <2>1
  <2>2. CASE i < n
    BY <1>2, <2>2 DEF RecordsOrdered
  <2> QED BY <1>2, <2>1, <2>2
<1>5. /\ MaxScannedLsn(file) \in Lsns(file) \cup {0}
      /\ \A l \in Lsns(file) : l <= MaxScannedLsn(file)
  BY <1>3, <1>4 DEF MaxScannedLsn
<1>6. Lsns(file) \subseteq Nat
  BY <1>1, <1>2 DEF Lsns
<1> QED BY <1>1, <1>5, <1>6 DEF Lsns

(* What Open leaves in the file: the readable records, and perhaps a few   *)
(* stray bytes behind them.                                                *)
LEMMA TruncatedFile ==
    ASSUME NEW f \in Seq(Cell), NEW n, Boundary(f, n)
    PROVE  LET g == Truncated(f) IN
           /\ g \in Seq(Cell)
           /\ Len(g) \in n .. Len(f)
           /\ \A i \in 1 .. n : g[i] = f[i]
           /\ \A i \in 1 .. Len(g) : g[i] \in LogRecord => i \in 1 .. n
           /\ Boundary(g, n)
<1>1. ValidCells(f) = n /\ n \in 0 .. Len(f)
  BY ValidIsBoundary DEF Boundary
<1>2. CASE EndsInEof(f)
  <2>1. Truncated(f) = f
    BY <1>2 DEF Truncated
  <2>2. n = Len(f) \/ n = Len(f) - 1
    BY <1>1, <1>2 DEF EndsInEof
  <2> QED BY <1>1, <2>1, <2>2 DEF Boundary
<1>3. CASE ~EndsInEof(f)
  <2>1. Truncated(f) = SubSeq(f, 1, n)
    BY <1>1, <1>3 DEF Truncated, Readable
  <2> QED BY <1>1, <2>1, CutBoundary
<1> QED BY <1>2, <1>3

(* Appending the next record keeps the order of LSNs. *)
LEMMA AppendOrdered ==
    ASSUME OrderInv, TakeLsn, NEW op \in OpType, NEW key \in Key, NEW val \in Val,
           file' = Append(file, NewRecord(op, key, val))
    PROVE  /\ NewRecord(op, key, val) \in LogRecord
           /\ file' \in Seq(Cell) /\ Len(file') = Len(file) + 1
           /\ \A i \in 1 .. Len(file) : file'[i] = file[i]
           /\ file'[Len(file')] = NewRecord(op, key, val)
           /\ next_lsn' \in Nat /\ opened' = TRUE
           /\ HasBoundary' /\ RecordsOrdered' /\ BelowNext'
<1> DEFINE r == NewRecord(op, key, val)
<1>1. r \in LogRecord /\ r \in Cell /\ r.lsn = next_lsn
  BY DEF NewRecord, LogRecord, Cell, OrderInv, WalTypeOK
<1> HIDE DEF r
<1>2. /\ file' \in Seq(Cell) /\ Len(file') = Len(file) + 1
      /\ \A i \in 1 .. Len(file) : file'[i] = file[i]
      /\ file'[Len(file')] = r
  BY <1>1 DEF OrderInv, WalTypeOK, r
<1>3. next_lsn \in Nat /\ next_lsn' = next_lsn + 1 /\ opened = TRUE /\ opened' = TRUE
  BY DEF TakeLsn, OrderInv, WalTypeOK
<1>4. HasBoundary'
  <2>1. PICK n \in 0 .. Len(file) : Boundary(file, n)
    BY DEF OrderInv, HasBoundary
  <2>2. file' = Append(file, r)
    BY DEF r
  <2> QED BY <1>1, <2>1, <2>2, AppendBoundary DEF HasBoundary, OrderInv, WalTypeOK
<1>5. \A i \in 1 .. Len(file) : file[i] \in LogRecord => file[i].lsn < next_lsn /\ file[i].lsn \in Nat
  BY <1>3 DEF OrderInv, BelowNext, LogRecord
<1>6. RecordsOrdered'
  <2> SUFFICES ASSUME NEW i \in 1 .. Len(file'), NEW j \in 1 .. Len(file'), i < j,
                      file'[i] \in LogRecord, file'[j] \in LogRecord
               PROVE  file'[i].lsn < file'[j].lsn
    BY DEF RecordsOrdered
  <2>0. Len(file) \in Nat
    BY DEF OrderInv, WalTypeOK
  <2>1. CASE j = Len(file')
    <3>1. i \in 1 .. Len(file)
      BY <1>2, <2>0, <2>1
    <3> QED BY <1>1, <1>2, <1>5, <2>1, <3>1
  <2>2. CASE j # Len(file')
    <3>1. i \in 1 .. Len(file) /\ j \in 1 .. Len(file)
      BY <1>2, <2>0, <2>2
    <3> QED BY <1>2, <3>1 DEF OrderInv, RecordsOrdered
  <2> QED BY <2>1, <2>2
<1>7. BelowNext'
  BY <1>1, <1>2, <1>3, <1>5 DEF BelowNext, OrderInv, WalTypeOK
<1> QED BY <1>1, <1>2, <1>3, <1>4, <1>6, <1>7 DEF r

(* A step that keeps or cuts the file, or leaves stray bytes at its end,   *)
(* keeps the order of the records in it.                                   *)
LEMMA RecordsKept ==
    ASSUME RecordsOrdered,
           Len(file) \in Nat, Len(file') \in Nat,
           \A i \in 1 .. Len(file') :
              file'[i] \in LogRecord => i \in 1 .. Len(file) /\ file'[i] = file[i]
    PROVE  RecordsOrdered'
BY DEF RecordsOrdered

(* Every step of the log, faults included, keeps OrderInv: one case per action. *)
LEMMA OrderInvStep == OrderInv /\ [WalNext]_walVars => OrderInv'
<1> SUFFICES ASSUME OrderInv, [WalNext]_walVars PROVE OrderInv'
  OBVIOUS
<1>t. /\ file \in Seq(Cell) /\ Len(file) \in Nat /\ synced \in 0 .. Len(file)
      /\ next_lsn \in Nat /\ opened \in BOOLEAN /\ promised \subseteq LogRecord
      /\ policy \in SyncPolicies /\ strays \subseteq Nat
  BY DEF OrderInv, WalTypeOK
<1>b. PICK n \in 0 .. Len(file) : Boundary(file, n)
  BY DEF OrderInv, HasBoundary
<1>1. CASE Open
  <2>1. /\ file' \in Seq(Cell)
        /\ Len(file') \in n .. Len(file)
        /\ \A i \in 1 .. n : file'[i] = file[i]
        /\ \A i \in 1 .. Len(file') : file'[i] \in LogRecord => i \in 1 .. n
        /\ Boundary(file', n)
    BY <1>1, <1>b, <1>t, TruncatedFile DEF Open
  <2>2. /\ MaxScannedLsn(file) \in Nat
        /\ \A i \in 1 .. n : file[i].lsn <= MaxScannedLsn(file)
    BY <1>b, ScannedLsn DEF OrderInv
  <2>3. WalTypeOK'
    BY <1>1, <1>t, <2>1, <2>2 DEF Open, WalTypeOK
  <2>4. HasBoundary'
    BY <2>1 DEF HasBoundary
  <2>5. RecordsOrdered'
    BY <1>t, <2>1, RecordsKept DEF OrderInv
  <2>6. \A i \in 1 .. n : file[i].lsn \in Nat
    BY <1>b DEF Boundary, LogRecord
  <2>7. BelowNext'
    BY <1>1, <2>1, <2>2, <2>6 DEF Open, BelowNext
  <2> QED BY <2>3, <2>4, <2>5, <2>7 DEF OrderInv
<1>2. ASSUME NEW op \in Op, NEW key \in Key, NEW val \in Val, AppendOk(op, key, val)
      PROVE  OrderInv'
  <2>1. TakeLsn /\ file' = Append(file, NewRecord(op, key, val)) /\ op \in OpType
    BY <1>2, WalConstants DEF AppendOk
  <2>2. /\ NewRecord(op, key, val) \in LogRecord
        /\ file' \in Seq(Cell) /\ Len(file') = Len(file) + 1
        /\ next_lsn' \in Nat /\ opened' = TRUE
        /\ HasBoundary' /\ RecordsOrdered' /\ BelowNext'
    BY <2>1, AppendOrdered
  <2>3. synced' \in 0 .. Len(file') /\ promised' \subseteq LogRecord
    BY <1>2, <1>t, <2>2 DEF AppendOk
  <2>4. policy' \in SyncPolicies /\ strays' \subseteq Nat
    BY <1>2, <1>t DEF AppendOk, TakeLsn
  <2> QED BY <2>2, <2>3, <2>4 DEF OrderInv, WalTypeOK
<1>3. ASSUME NEW op \in Op, NEW key \in Key, NEW val \in Val, AppendUnsynced(op, key, val)
      PROVE  OrderInv'
  <2>1. TakeLsn /\ file' = Append(file, NewRecord(op, key, val)) /\ op \in OpType
    BY <1>3, WalConstants DEF AppendUnsynced
  <2>2. /\ file' \in Seq(Cell) /\ Len(file') = Len(file) + 1
        /\ next_lsn' \in Nat /\ opened' = TRUE
        /\ HasBoundary' /\ RecordsOrdered' /\ BelowNext'
    BY <2>1, AppendOrdered
  <2>3. policy' \in SyncPolicies /\ strays' \subseteq Nat
    BY <1>3, <1>t DEF AppendUnsynced, TakeLsn
  <2> QED BY <1>3, <1>t, <2>2, <2>3 DEF AppendUnsynced, OrderInv, WalTypeOK
<1>4. ASSUME NEW k \in ShortWrites, AppendShort(k)
      PROVE  OrderInv'
  <2>1. k \in Nat
    BY WalConstants
  <2>2. /\ file' \in Seq(Cell)
        /\ Len(file') \in {Len(file), Len(file) + 1}
        /\ \A i \in 1 .. Len(file') :
              file'[i] \in LogRecord => i \in 1 .. Len(file) /\ file'[i] = file[i]
        /\ Boundary(file', n)
    <3>1. CASE k = 0
      BY <1>4, <1>b, <1>t, <3>1 DEF AppendShort
    <3>2. CASE k # 0
      BY <1>4, <1>b, <1>t, <2>1, <3>2, StrayBoundary DEF AppendShort
    <3> QED BY <3>1, <3>2
  <2>3. WalTypeOK'
    BY <1>4, <1>t, <2>1, <2>2 DEF AppendShort, TakeLsn, WalTypeOK
  <2>4. HasBoundary'
    BY <1>t, <1>b, <2>2 DEF HasBoundary, Boundary
  <2>5. RecordsOrdered'
    BY <1>t, <2>2, RecordsKept DEF OrderInv
  <2>6. \A i \in 1 .. Len(file) : file[i] \in LogRecord => file[i].lsn \in Nat
    BY DEF LogRecord
  <2>7. BelowNext'
    BY <1>4, <1>t, <2>2, <2>6 DEF AppendShort, TakeLsn, OrderInv, BelowNext
  <2> QED BY <2>3, <2>4, <2>5, <2>7 DEF OrderInv
<1>5. CASE Flush
  BY <1>5, <1>t DEF Flush, OrderInv, WalTypeOK, HasBoundary, Boundary, RecordsOrdered, BelowNext
<1>6. CASE Crash
  <2>1. PICK keep \in synced .. Len(file) :
          \/ file' = SubSeq(file, 1, keep)
          \/ \E k \in TornSizes : file' = WithStrayBytes(SubSeq(file, 1, keep), k)
    BY <1>6 DEF Crash
  <2> DEFINE cut == SubSeq(file, 1, keep)
             m   == IF n < keep THEN n ELSE keep
  <2>2. keep \in 0 .. Len(file)
    BY <1>t
  <2>3. /\ cut \in Seq(Cell) /\ Len(cut) = keep /\ Boundary(cut, m)
        /\ \A i \in 1 .. keep : cut[i] = file[i]
    BY <1>t, <1>b, <2>2, CutBoundary
  <2>4. m \in 0 .. keep
    BY <2>2
  <2> HIDE DEF cut, m
  <2>5. /\ file' \in Seq(Cell)
        /\ Len(file') \in {keep, keep + 1}
        /\ \A i \in 1 .. Len(file') :
              file'[i] \in LogRecord => i \in 1 .. Len(file) /\ file'[i] = file[i]
        /\ Boundary(file', m)
    <3>1. CASE file' = cut
      BY <2>2, <2>3, <3>1
    <3>2. CASE \E k \in TornSizes : file' = WithStrayBytes(cut, k)
      <4>1. PICK k \in TornSizes : file' = WithStrayBytes(cut, k)
        BY <3>2
      <4>2. k \in Nat
        BY WalConstants
      <4>3. /\ file' \in Seq(Cell)
            /\ Len(file') \in {Len(cut), Len(cut) + 1}
            /\ \A i \in 1 .. Len(file') :
                  file'[i] \in LogRecord => i \in 1 .. Len(cut) /\ file'[i] = cut[i]
            /\ Boundary(file', m)
        BY <2>3, <4>1, <4>2, StrayBoundary
      <4> QED BY <2>2, <2>3, <4>3
    <3> QED BY <2>1, <3>1, <3>2 DEF cut
  <2>o. opened' \in BOOLEAN
    BY <1>6 DEF Crash
  <2>s. policy' \in SyncPolicies /\ strays' \subseteq Nat
    BY <1>6, <1>t, WalConstants DEF Crash, Overlooked
  <2>6. WalTypeOK'
    BY <1>6, <1>t, <2>2, <2>5, <2>o, <2>s DEF Crash, WalTypeOK
  <2>7. HasBoundary'
    BY <2>2, <2>4, <2>5 DEF HasBoundary, Boundary
  <2>8. RecordsOrdered'
    BY <1>t, <2>2, <2>5, RecordsKept DEF OrderInv
  <2>9. BelowNext'
    BY <1>6 DEF Crash, BelowNext
  <2> QED BY <2>6, <2>7, <2>8, <2>9 DEF OrderInv
<1>7. ASSUME NEW op \in Op, NEW key \in Key, NEW val \in Val, CrashInAppend(op, key, val)
      PROVE  OrderInv'
  <2> DEFINE r == NewRecord(op, key, val)
  <2>0. r \in LogRecord /\ r \in Cell /\ r.lsn = next_lsn
    BY <1>t, WalConstants DEF NewRecord, LogRecord, Cell
  <2>e. opened' = FALSE /\ next_lsn' = 0 /\ synced' = synced /\ promised' = promised /\ opened
    BY <1>7 DEF CrashInAppend
  <2>o. opened' \in BOOLEAN
    BY <2>e
  <2>s. policy' \in SyncPolicies /\ strays' \subseteq Nat
    BY <1>7, <1>t, WalConstants DEF CrashInAppend, Overlooked
  <2>d. BelowNext'
    BY <2>e DEF BelowNext
  <2>1. CASE file' = Append(file, r)
    <3> HIDE DEF r
    <3>1. /\ file' \in Seq(Cell) /\ Len(file') = Len(file) + 1
          /\ \A i \in 1 .. Len(file) : file'[i] = file[i]
          /\ file'[Len(file')] = r
      BY <1>t, <2>0, <2>1
    <3>2. HasBoundary'
      BY <1>t, <1>b, <2>0, <2>1, AppendBoundary DEF HasBoundary
    <3>3. \A i \in 1 .. Len(file) : file[i] \in LogRecord => file[i].lsn < next_lsn
      BY <2>e DEF OrderInv, BelowNext
    <3>4. RecordsOrdered'
      <4> SUFFICES ASSUME NEW i \in 1 .. Len(file'), NEW j \in 1 .. Len(file'), i < j,
                          file'[i] \in LogRecord, file'[j] \in LogRecord
                   PROVE  file'[i].lsn < file'[j].lsn
        BY DEF RecordsOrdered
      <4>1. CASE j = Len(file')
        <5>1. i \in 1 .. Len(file)
          BY <1>t, <3>1, <4>1
        <5> QED BY <2>0, <3>1, <3>3, <4>1, <5>1
      <4>2. CASE j # Len(file')
        <5>1. i \in 1 .. Len(file) /\ j \in 1 .. Len(file)
          BY <1>t, <3>1, <4>2
        <5> QED BY <3>1, <5>1 DEF OrderInv, RecordsOrdered
      <4> QED BY <4>1, <4>2
    <3>5. WalTypeOK'
      BY <1>t, <2>e, <2>o, <2>s, <3>1 DEF WalTypeOK
    <3> QED BY <2>d, <3>2, <3>4, <3>5 DEF OrderInv
  <2>2. CASE \E k \in TornSizes : file' = WithStrayBytes(file, k)
    <3>1. PICK k \in TornSizes : file' = WithStrayBytes(file, k)
      BY <2>2
    <3>2. k \in Nat
      BY WalConstants
    <3>3. /\ file' \in Seq(Cell)
          /\ Len(file') \in {Len(file), Len(file) + 1}
          /\ \A i \in 1 .. Len(file') :
                file'[i] \in LogRecord => i \in 1 .. Len(file) /\ file'[i] = file[i]
          /\ Boundary(file', n)
      BY <1>t, <1>b, <3>1, <3>2, StrayBoundary
    <3>4. WalTypeOK'
      BY <1>t, <2>e, <2>o, <2>s, <3>3 DEF WalTypeOK
    <3>5. HasBoundary'
      BY <1>t, <1>b, <3>3 DEF HasBoundary, Boundary
    <3>6. RecordsOrdered'
      BY <1>t, <3>3, RecordsKept DEF OrderInv
    <3> QED BY <2>d, <3>4, <3>5, <3>6 DEF OrderInv
  <2> QED BY <1>7, <2>1, <2>2 DEF CrashInAppend
<1>8. CASE UNCHANGED walVars
  BY <1>8 DEF walVars, OrderInv, WalTypeOK, HasBoundary, Boundary, RecordsOrdered, BelowNext
<1> QED
  BY <1>1, <1>2, <1>3, <1>4, <1>5, <1>6, <1>7, <1>8 DEF WalNext

(* An empty file satisfies OrderInv. *)
LEMMA OrderInvInit == WalInit => OrderInv
<1> SUFFICES ASSUME WalInit PROVE OrderInv
  OBVIOUS
<1>1. Boundary(file, 0)
  BY DEF WalInit, Boundary
<1>2. opened \in BOOLEAN
  BY DEF WalInit
<1> QED BY <1>1, <1>2 DEF WalInit, OrderInv, WalTypeOK, HasBoundary, RecordsOrdered, BelowNext

(* WalManager keeps its types whatever faults occur; in particular open    *)
(* always computes a next_lsn.                                             *)
THEOREM WalTypeCorrect == WalSpec => []WalTypeOK
<1>1. OrderInv => WalTypeOK
  BY DEF OrderInv
<1> QED BY <1>1, OrderInvInit, OrderInvStep, PTL DEF WalSpec

(* append and open: LSNs read back by a scan are strictly increasing and   *)
(* below next_lsn, under torn writes, short writes and failed syncs alike. *)
THEOREM WalLsnOrder == WalSpec => []LsnOrder
<1>1. OrderInv => LsnOrder
  <2> SUFFICES ASSUME OrderInv PROVE LsnOrder
    OBVIOUS
  <2>1. PICK n \in 0 .. Len(file) : Boundary(file, n)
    BY DEF OrderInv, HasBoundary
  <2>2. ValidCells(file) = n
    BY <2>1, ValidIsBoundary DEF OrderInv, WalTypeOK
  <2>3. \A i \in 1 .. n : i \in 1 .. Len(file) /\ file[i] \in LogRecord
    BY <2>1 DEF Boundary
  <2> QED BY <2>2, <2>3 DEF LsnOrder, OrderInv, RecordsOrdered, BelowNext
<1> QED BY <1>1, OrderInvInit, OrderInvStep, PTL DEF WalSpec

----------------------------------------------------------------------------
(* Durability while no fragment was left that open may fail to remove.     *)

(* Only a closed log has a fragment: one, last, unsynced, and long enough  *)
(* for open to recognise it.                                               *)
CleanFile ==
    \A i \in 1 .. Len(file) :
        file[i] \notin LogRecord =>
            /\ ~opened
            /\ i = Len(file)
            /\ i > synced
            /\ file[i].frag >= LsnWidth

PromisedSynced == \A r \in promised : \E i \in 1 .. synced : file[i] = r

DurableInv == OrderInv /\ (strays = {} => CleanFile /\ PromisedSynced)

(* Open turns a clean file into one that holds records only. *)
LEMMA OpenCleans ==
    ASSUME DurableInv, strays = {}, Open
    PROVE  /\ \A i \in 1 .. Len(file') : file'[i] \in LogRecord
           /\ synced <= Len(file')
           /\ \A i \in 1 .. synced : file'[i] = file[i]
<1>t. file \in Seq(Cell) /\ Len(file) \in Nat /\ synced \in 0 .. Len(file)
  BY DEF DurableInv, OrderInv, WalTypeOK
<1>b. PICK n \in 0 .. Len(file) : Boundary(file, n)
  BY DEF DurableInv, OrderInv, HasBoundary
<1>1. /\ file' \in Seq(Cell) /\ Len(file') \in n .. Len(file)
      /\ \A i \in 1 .. n : file'[i] = file[i]
      /\ \A i \in 1 .. n : file[i] \in LogRecord
  BY <1>t, <1>b, TruncatedFile DEF Open, Boundary
<1>2. CASE n = Len(file)
  BY <1>t, <1>1, <1>2
<1>3. CASE n # Len(file)
  <2>1. file[n + 1] \notin LogRecord /\ n + 1 \in 1 .. Len(file)
    BY <1>t, <1>b, <1>3 DEF Boundary
  <2>2. n = Len(file) - 1 /\ synced <= n /\ file[Len(file)].frag >= LsnWidth
    BY <1>t, <2>1 DEF DurableInv, CleanFile
  <2>3. ValidCells(file) = n
    BY <1>t, <1>b, ValidIsBoundary
  <2>4. file[Len(file)].frag \in Nat
    BY <1>t, <2>1, <2>2 DEF Cell, Fragment
  <2>5. ~EndsInEof(file)
    BY <1>t, <2>2, <2>3, <2>4 DEF EndsInEof, LsnWidth
  <2>6. file' = SubSeq(file, 1, n)
    BY <2>3, <2>5 DEF Open, Truncated, Readable
  <2> QED BY <1>t, <1>b, <1>1, <2>2, <2>6, CutBoundary
<1> QED BY <1>2, <1>3

(* No step ever takes an element out of strays. *)
LEMMA StraysGrow == [WalNext]_walVars => strays \subseteq strays'
BY DEF WalNext, walVars, Open, AppendOk, AppendUnsynced, AppendShort, Flush, Crash, CrashInAppend

(* Every step that leaves strays empty keeps the file clean. *)
LEMMA DurableInvStep == DurableInv /\ [WalNext]_walVars => DurableInv'
<1> SUFFICES ASSUME DurableInv, [WalNext]_walVars, strays' = {}
             PROVE  CleanFile' /\ PromisedSynced'
  BY OrderInvStep DEF DurableInv
<1>s. strays = {}
  BY StraysGrow
<1>t. /\ file \in Seq(Cell) /\ Len(file) \in Nat /\ synced \in 0 .. Len(file)
      /\ next_lsn \in Nat /\ opened \in BOOLEAN /\ promised \subseteq LogRecord
      /\ policy \in SyncPolicies /\ strays \subseteq Nat
  BY DEF DurableInv, OrderInv, WalTypeOK
<1>c. opened => \A i \in 1 .. Len(file) : file[i] \in LogRecord
  BY <1>s DEF DurableInv, CleanFile
<1>p. \A r \in promised : \E i \in 1 .. synced : file[i] = r
  BY <1>s DEF DurableInv, PromisedSynced
<1>1. CASE Open
  <2>1. /\ \A i \in 1 .. Len(file') : file'[i] \in LogRecord
        /\ synced <= Len(file')
        /\ \A i \in 1 .. synced : file'[i] = file[i]
    BY <1>1, <1>s, OpenCleans
  <2>2. synced' = synced /\ promised' = promised
    BY <1>1, <2>1 DEF Open
  <2> QED BY <1>p, <2>1, <2>2 DEF CleanFile, PromisedSynced
<1>2. ASSUME NEW op \in Op, NEW key \in Key, NEW val \in Val, AppendOk(op, key, val)
      PROVE  CleanFile' /\ PromisedSynced'
  <2> DEFINE r == NewRecord(op, key, val)
  <2>1. r \in LogRecord /\ r \in Cell /\ opened /\ file' = Append(file, r)
    BY <1>2, <1>t, WalConstants DEF AppendOk, TakeLsn, NewRecord, LogRecord, Cell
  <2>2. \/ synced' = Len(file') /\ promised' = promised \cup {r}
        \/ synced' = synced /\ promised' = promised
    BY <1>2 DEF AppendOk
  <2> HIDE DEF r
  <2>3. /\ Len(file') = Len(file) + 1
        /\ \A i \in 1 .. Len(file) : file'[i] = file[i]
        /\ file'[Len(file')] = r
    BY <1>t, <2>1
  <2>4. CleanFile'
    BY <1>t, <1>c, <2>1, <2>3 DEF CleanFile
  <2>5. PromisedSynced'
    BY <1>t, <1>p, <2>2, <2>3 DEF PromisedSynced
  <2> QED BY <2>4, <2>5
<1>3. ASSUME NEW op \in Op, NEW key \in Key, NEW val \in Val, AppendUnsynced(op, key, val)
      PROVE  CleanFile' /\ PromisedSynced'
  <2> DEFINE r == NewRecord(op, key, val)
  <2>1. /\ r \in LogRecord /\ r \in Cell /\ opened /\ file' = Append(file, r)
        /\ synced' = synced /\ promised' = promised
    BY <1>3, <1>t, WalConstants DEF AppendUnsynced, TakeLsn, NewRecord, LogRecord, Cell
  <2> HIDE DEF r
  <2>2. /\ Len(file') = Len(file) + 1
        /\ \A i \in 1 .. Len(file) : file'[i] = file[i]
        /\ file'[Len(file')] = r
    BY <1>t, <2>1
  <2>3. CleanFile'
    BY <1>t, <1>c, <2>1, <2>2 DEF CleanFile
  <2>4. PromisedSynced'
    BY <1>t, <1>p, <2>1, <2>2 DEF PromisedSynced
  <2> QED BY <2>3, <2>4
<1>4. ASSUME NEW k \in ShortWrites, AppendShort(k)
      PROVE  CleanFile' /\ PromisedSynced'
  <2>1. file' = file /\ synced' = synced /\ promised' = promised /\ opened' = opened
    BY <1>4 DEF AppendShort, TakeLsn
  <2> QED BY <1>s, <2>1 DEF DurableInv, CleanFile, PromisedSynced
<1>5. CASE Flush
  <2>1. opened /\ file' = file /\ synced' = Len(file)
    BY <1>5 DEF Flush
  <2>2. promised' \subseteq promised \cup {file[i] : i \in 1 .. Len(file)}
    BY <1>5 DEF Flush
  <2>3. PromisedSynced'
    BY <1>t, <1>p, <2>1, <2>2 DEF PromisedSynced
  <2>4. CleanFile'
    BY <1>t, <1>c, <2>1 DEF CleanFile
  <2> QED BY <2>3, <2>4
<1>6. CASE Crash
  <2>1. PICK keep \in synced .. Len(file) :
          \/ file' = SubSeq(file, 1, keep)
          \/ \E k \in TornSizes : /\ file' = WithStrayBytes(SubSeq(file, 1, keep), k)
                                 /\ Overlooked(k) \subseteq strays'
    BY <1>6 DEF Crash
  <2> DEFINE cut == SubSeq(file, 1, keep)
  <2>2. keep \in 0 .. Len(file) /\ synced <= keep /\ opened
        /\ opened' = FALSE /\ synced' = synced /\ promised' = promised
    BY <1>6, <1>t, <2>1 DEF Crash
  <2>3. /\ cut \in Seq(Cell) /\ Len(cut) = keep
        /\ \A i \in 1 .. keep : cut[i] = file[i] /\ cut[i] \in LogRecord
    BY <1>t, <1>c, <2>2
  <2> HIDE DEF cut
  <2>4. CASE file' = cut
    BY <1>t, <1>p, <2>2, <2>3, <2>4 DEF CleanFile, PromisedSynced
  <2>5. CASE \E k \in TornSizes : file' = WithStrayBytes(cut, k) /\ Overlooked(k) \subseteq strays'
    <3>1. PICK k \in TornSizes : file' = WithStrayBytes(cut, k) /\ Overlooked(k) \subseteq strays'
      BY <2>5
    <3>2. k \in Nat /\ k >= LsnWidth
      BY <3>1, WalConstants DEF Overlooked, LsnWidth
    <3>3. file' = Append(cut, [frag |-> k])
      BY <2>2, <2>3, <3>1 DEF WithStrayBytes
    <3>4. [frag |-> k] \in Cell
      BY <3>2, FragmentNotRecord
    <3>5. /\ Len(file') = keep + 1
          /\ \A i \in 1 .. keep : file'[i] = cut[i]
          /\ file'[keep + 1].frag = k
      BY <2>3, <3>3, <3>4
    <3> QED BY <1>t, <1>p, <2>2, <2>3, <3>2, <3>5, SMTT(30) DEF CleanFile, PromisedSynced
  <2> QED BY <2>1, <2>4, <2>5 DEF cut
<1>7. ASSUME NEW op \in Op, NEW key \in Key, NEW val \in Val, CrashInAppend(op, key, val)
      PROVE  CleanFile' /\ PromisedSynced'
  <2> DEFINE r == NewRecord(op, key, val)
  <2>1. /\ r \in LogRecord /\ r \in Cell /\ opened
        /\ opened' = FALSE /\ synced' = synced /\ promised' = promised
    BY <1>7, <1>t, WalConstants DEF CrashInAppend, NewRecord, LogRecord, Cell
  <2>2. PICK c \in Cell :
          /\ file' = Append(file, c)
          /\ c \in LogRecord \/ c.frag >= LsnWidth
    <3>1. CASE file' = Append(file, r)
      BY <2>1, <3>1
    <3>2. CASE \E k \in TornSizes : file' = WithStrayBytes(file, k) /\ Overlooked(k) \subseteq strays'
      <4>1. PICK k \in TornSizes : file' = WithStrayBytes(file, k) /\ Overlooked(k) \subseteq strays'
        BY <3>2
      <4>2. k \in Nat /\ k >= LsnWidth
        BY <4>1, WalConstants DEF Overlooked, LsnWidth
      <4>3. file' = Append(file, [frag |-> k])
        BY <1>t, <1>c, <2>1, <4>1 DEF WithStrayBytes
      <4>4. [frag |-> k] \in Cell /\ [frag |-> k].frag >= LsnWidth
        BY <4>2, FragmentNotRecord
      <4> QED BY <4>3, <4>4
    <3> QED BY <1>7, <3>1, <3>2 DEF CrashInAppend
  <2>3. /\ Len(file') = Len(file) + 1
        /\ \A i \in 1 .. Len(file) : file'[i] = file[i]
        /\ file'[Len(file) + 1] = c
    BY <1>t, <2>2
  <2>4. CleanFile'
    BY <1>t, <1>c, <2>1, <2>2, <2>3 DEF CleanFile
  <2>5. PromisedSynced'
    BY <1>t, <1>p, <2>1, <2>3 DEF PromisedSynced
  <2> QED BY <2>4, <2>5
<1>8. CASE UNCHANGED walVars
  BY <1>8, <1>s DEF walVars, DurableInv, CleanFile, PromisedSynced
<1> QED
  BY <1>1, <1>2, <1>3, <1>4, <1>5, <1>6, <1>7, <1>8 DEF WalNext

(* An empty file has acknowledged nothing. *)
LEMMA DurableInvInit == WalInit => DurableInv
BY OrderInvInit DEF WalInit, DurableInv, CleanFile, PromisedSynced

(* Everything that was promised lies in the synced part, which holds       *)
(* records only and is therefore read back.                                *)
LEMMA DurableInvReads ==
    ASSUME DurableInv
    PROVE  /\ DurableUnlessStray
           /\ LsnNeverReused
<1> SUFFICES ASSUME strays = {}
             PROVE  Durable /\ \A r, s \in promised : r.lsn = s.lsn => r = s
  BY DEF DurableUnlessStray, LsnNeverReused
<1>t. file \in Seq(Cell) /\ Len(file) \in Nat /\ synced \in 0 .. Len(file)
  BY DEF DurableInv, OrderInv, WalTypeOK
<1>b. PICK n \in 0 .. Len(file) : Boundary(file, n)
  BY DEF DurableInv, OrderInv, HasBoundary
<1>1. ValidCells(file) = n
  BY <1>t, <1>b, ValidIsBoundary
<1>2. \A i \in 1 .. synced : file[i] \in LogRecord
  BY <1>t DEF DurableInv, CleanFile
<1>3. synced <= n
  BY <1>t, <1>b, <1>2 DEF Boundary
<1>4. Durable
  BY <1>t, <1>1, <1>3 DEF Durable, DurableInv, PromisedSynced
<1>5. \A r, s \in promised : r.lsn = s.lsn => r = s
  <2> SUFFICES ASSUME NEW r \in promised, NEW s \in promised, r.lsn = s.lsn
               PROVE  r = s
    OBVIOUS
  <2>1. PICK i \in 1 .. synced : file[i] = r
    BY DEF DurableInv, PromisedSynced
  <2>2. PICK j \in 1 .. synced : file[j] = s
    BY DEF DurableInv, PromisedSynced
  <2>3. /\ file[i] \in LogRecord /\ file[j] \in LogRecord
        /\ i \in 1 .. Len(file) /\ j \in 1 .. Len(file)
        /\ file[i].lsn \in Nat
    BY <1>t, <1>2 DEF LogRecord
  <2>4. ~(i < j) /\ ~(j < i)
    BY <2>1, <2>2, <2>3 DEF DurableInv, OrderInv, RecordsOrdered
  <2> QED BY <2>1, <2>2, <2>3, <2>4
<1> QED BY <1>4, <1>5

(* "Append to WAL (durable before ack)": while no append has stopped       *)
(* half-way and torn writes are long enough for open to recognise, a       *)
(* record reported durable is read back by every later scan, for any       *)
(* number of crashes, under either sync policy.                            *)
THEOREM WalDurability == WalSpec => []DurableUnlessStray
<1>1. DurableInv => DurableUnlessStray
  BY DurableInvReads
<1> QED BY <1>1, DurableInvStep, DurableInvInit, PTL DEF WalSpec

(* Under the same condition open never hands out again an LSN that was     *)
(* reported to a caller.                                                   *)
THEOREM WalLsnUnique == WalSpec => []LsnNeverReused
<1>1. DurableInv => LsnNeverReused
  BY DurableInvReads
<1> QED BY <1>1, DurableInvStep, DurableInvInit, PTL DEF WalSpec
=============================================================================
