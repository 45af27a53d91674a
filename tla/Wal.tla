-------------------------------- MODULE Wal --------------------------------
(***************************************************************************)
(* The write-ahead log of the node agent's storage engine: WalManager of   *)
(* services/node-agent/src/storage/wal.rs.                                 *)
(*                                                                         *)
(* The log file is a sequence of cells.  A cell is a complete record, or a *)
(* fragment: bytes that are a proper prefix of a record, left behind by a  *)
(* torn or short write; neighbouring fragments are one fragment.  Only the *)
(* length of a fragment matters: LogRecord::deserialize reports "EOF" when *)
(* fewer than eight bytes (the width of the LSN it reads first) are left   *)
(* and a corrupt record in every other case; a checksum collision is not   *)
(* modelled.                                                               *)
(*                                                                         *)
(* WalManager::open is only ever called by StorageEngine::open, which goes *)
(* on to read_all through RecoveryEngine::recover; read_all leaves the     *)
(* file's cursor at the end of the file.  Open stands for both calls, and  *)
(* every append therefore lands after the last cell.                       *)
(***************************************************************************)
EXTENDS Integers, Sequences

CONSTANTS
    Key,          \* record keys
    Val,          \* record values
    Op,           \* the operations callers append
    SyncPolicies, \* the policies the log may be opened with
    TornSizes,    \* bytes of an unfinished record a crash may leave
    ShortWrites,  \* bytes a failing write_all may have written
    SyncErrors,   \* whether sync_data may fail
    MaxLsn,       \* bound: LSNs handed out are at most MaxLsn
    MaxCells      \* bound: cells in the file

OpType == {"Insert", "Update", "Delete", "Checkpoint"}

ASSUME WalConstants ==
    /\ Op \subseteq OpType
    /\ SyncPolicies \subseteq {"SyncPerWrite", "Batched"} /\ SyncPolicies # {}
    /\ TornSizes \subseteq Nat \ {0}
    /\ ShortWrites \subseteq Nat
    /\ SyncErrors \in BOOLEAN
    /\ MaxLsn \in Nat
    /\ MaxCells \in Nat

VARIABLES
    file,      \* the cells of the log file, as the operating system sees it
    synced,    \* how many leading cells are known to be on stable storage
    next_lsn,  \* WalManager.next_lsn; 0 while no manager is open
    opened,    \* a WalManager holds the file open
    policy,    \* WalManager.sync_policy
    promised,  \* history: records whose durability was reported to a caller
    strays     \* history: lengths of the fragments open may fail to remove

walVars == <<file, synced, next_lsn, opened, policy, promised, strays>>

----------------------------------------------------------------------------
(* Records, cells and the scan of the file. *)

LogRecord == [lsn : Nat, op : OpType, key : Key, val : Val]

Fragment == [frag : Nat]

Cell == LogRecord \cup Fragment

LsnWidth == 8   \* bytes of the first field deserialize reads

(* The scan stops in front of the first cell that is not a record. *)
ValidCells(f) ==
    CHOOSE n \in 0 .. Len(f) :
        /\ \A i \in 1 .. n : f[i] \in LogRecord
        /\ n < Len(f) => f[n + 1] \notin LogRecord

Readable(f) == SubSeq(f, 1, ValidCells(f))

(* deserialize says "EOF" instead of an error when it cannot read an LSN:  *)
(* at the end of the file, or in front of fewer than eight stray bytes.  A *)
(* complete record after the stray bytes is always long enough for an LSN. *)
EndsInEof(f) ==
    \/ ValidCells(f) = Len(f)
    \/ ValidCells(f) = Len(f) - 1 /\ f[Len(f)].frag < LsnWidth

(* The file after the scan of open: cut at the last valid record, unless   *)
(* the scan ended in "EOF".                                                *)
Truncated(f) == IF EndsInEof(f) THEN f ELSE Readable(f)

(* n bytes of an unfinished record at the end of the file; they join the   *)
(* stray bytes that may already be there.                                  *)
WithStrayBytes(f, n) ==
    IF f # <<>> /\ f[Len(f)] \notin LogRecord
    THEN [f EXCEPT ![Len(f)] = [frag |-> f[Len(f)].frag + n]]
    ELSE Append(f, [frag |-> n])

(* A torn record open takes for the end of the file. *)
Overlooked(n) == IF n < LsnWidth THEN {n} ELSE {}

Lsns(f) == {f[i].lsn : i \in 1 .. ValidCells(f)}

MaxScannedLsn(f) ==
    CHOOSE m \in Lsns(f) \cup {0} : \A l \in Lsns(f) : l <= m

----------------------------------------------------------------------------
WalInit ==
    /\ file = <<>>
    /\ synced = 0
    /\ next_lsn = 0
    /\ opened = FALSE
    /\ policy \in SyncPolicies
    /\ promised = {}
    /\ strays = {}

(* Mutation of Open: numbering restarts at the highest LSN found, not after it. *)
OpenReusesLsn ==
    /\ ~opened
    /\ file' = Truncated(file)
    /\ synced' = IF synced <= Len(file') THEN synced ELSE Len(file')
    /\ next_lsn' = IF MaxScannedLsn(file) = 0 THEN 1 ELSE MaxScannedLsn(file)
    /\ opened' = TRUE
    /\ policy' \in SyncPolicies
    /\ UNCHANGED <<promised, strays>>

(* WalManager::open followed by the read_all of RecoveryEngine::recover. *)
Open ==
    /\ ~opened
    /\ file' = Truncated(file)
    /\ synced' = IF synced <= Len(file') THEN synced ELSE Len(file')
    /\ next_lsn' = MaxScannedLsn(file) + 1
    /\ opened' = TRUE
    /\ policy' \in SyncPolicies
    /\ UNCHANGED <<promised, strays>>

NewRecord(op, key, val) == [lsn |-> next_lsn, op |-> op, key |-> key, val |-> val]

(* Mutation of TakeLsn: append forgets to advance next_lsn. *)
TakeLsnKept ==
    /\ opened
    /\ next_lsn <= MaxLsn
    /\ Len(file) < MaxCells
    /\ UNCHANGED <<next_lsn, opened, policy>>

(* What append does before it writes: the LSN is consumed even when the    *)
(* write or the sync then fails.                                           *)
TakeLsn ==
    /\ opened
    /\ next_lsn <= MaxLsn
    /\ Len(file) < MaxCells
    /\ next_lsn' = next_lsn + 1
    /\ UNCHANGED <<opened, policy>>

(* Mutation of AppendOk: success is reported without sync_data. *)
AppendOkNoSync(op, key, val) ==
    /\ TakeLsn
    /\ file' = Append(file, NewRecord(op, key, val))
    /\ promised' = promised \cup {NewRecord(op, key, val)}
    /\ UNCHANGED <<synced, strays>>

(* append returns Ok(lsn). *)
AppendOk(op, key, val) ==
    /\ TakeLsn
    /\ file' = Append(file, NewRecord(op, key, val))
    /\ IF policy = "SyncPerWrite"
       THEN /\ synced' = Len(file')
            /\ promised' = promised \cup {NewRecord(op, key, val)}
       ELSE UNCHANGED <<synced, promised>>
    /\ UNCHANGED strays

(* append returns "WAL append failed": write_all wrote n bytes and gave up. *)
AppendShort(n) ==
    /\ TakeLsn
    /\ n \in ShortWrites
    /\ file' = IF n = 0 THEN file ELSE WithStrayBytes(file, n)
    /\ strays' = strays \cup ({n} \ {0})
    /\ UNCHANGED <<synced, promised>>

(* append returns "WAL sync failed": the record is written, its durability *)
(* is not reported.                                                        *)
AppendUnsynced(op, key, val) ==
    /\ TakeLsn
    /\ SyncErrors
    /\ policy = "SyncPerWrite"
    /\ file' = Append(file, NewRecord(op, key, val))
    /\ UNCHANGED <<synced, promised, strays>>

(* flush: one sync_data makes everything written so far durable. *)
Flush ==
    /\ opened
    /\ synced' = Len(file)
    /\ promised' = promised \cup
                      {file[i] : i \in {j \in 1 .. Len(file) : file[j] \in LogRecord}}
    /\ UNCHANGED <<file, next_lsn, opened, policy, strays>>

(* The process or the machine stops.  Cells that were never synced may be  *)
(* lost from the end on, the first lost one perhaps only partly.           *)
Crash ==
    /\ opened
    /\ \E keep \in synced .. Len(file) :
          \/ file' = SubSeq(file, 1, keep) /\ UNCHANGED strays
          \/ /\ keep < Len(file)
             /\ \E n \in TornSizes :
                   /\ file' = WithStrayBytes(SubSeq(file, 1, keep), n)
                   /\ strays' = strays \cup Overlooked(n)
    /\ opened' = FALSE
    /\ next_lsn' = 0
    /\ UNCHANGED <<synced, policy, promised>>

(* The crash comes in the middle of an append: some bytes of the record,   *)
(* or all of them, are in the file and nothing was reported to the caller. *)
CrashInAppend(op, key, val) ==
    /\ opened
    /\ next_lsn <= MaxLsn
    /\ Len(file) < MaxCells
    /\ \/ file' = Append(file, NewRecord(op, key, val)) /\ UNCHANGED strays
       \/ \E n \in TornSizes :
             /\ file' = WithStrayBytes(file, n)
             /\ strays' = strays \cup Overlooked(n)
    /\ opened' = FALSE
    /\ next_lsn' = 0
    /\ UNCHANGED <<synced, policy, promised>>

WalNext ==
    \/ Open
    \/ \E op \in Op, key \in Key, val \in Val :
          \/ AppendOk(op, key, val)
          \/ AppendUnsynced(op, key, val)
          \/ CrashInAppend(op, key, val)
    \/ \E n \in ShortWrites : AppendShort(n)
    \/ Flush
    \/ Crash

WalSpec == WalInit /\ [][WalNext]_walVars

----------------------------------------------------------------------------
(* Properties. *)

(* Type invariant of WalManager and its file. *)
WalTypeOK ==
    /\ file \in Seq(Cell)
    /\ synced \in 0 .. Len(file)
    /\ next_lsn \in Nat
    /\ opened \in BOOLEAN
    /\ policy \in SyncPolicies
    /\ promised \subseteq LogRecord
    /\ strays \subseteq Nat

(* "any operation reported as successful to a client will survive power    *)
(* failure or hard process crash" (docs/decisions/wal-fsync-policy.md:10): *)
(* a record whose durability append or flush reported is read back by      *)
(* every later scan of the file, whatever crashes happened since.          *)
Durable == \A r \in promised : \E i \in 1 .. ValidCells(file) : file[i] = r

(* The same, as the code keeps it: while no write has stopped part-way and *)
(* no crash has left fewer bytes of a record than an LSN takes (append,    *)
(* flush, open; deserialize's "EOF").                                      *)
DurableUnlessStray == strays = {} => Durable

(* append, open: the LSNs a scan reads are strictly increasing, and every  *)
(* LSN still to be handed out is above them.  Holds under every fault.     *)
LsnOrder ==
    /\ \A i, j \in 1 .. ValidCells(file) : i < j => file[i].lsn < file[j].lsn
    /\ opened => \A i \in 1 .. ValidCells(file) : file[i].lsn < next_lsn

(* open recomputes next_lsn from the scan: it never hands out an LSN that  *)
(* was already reported to a caller for another record, unless a fragment  *)
(* was left that open does not remove.                                     *)
LsnNeverReused == strays = {} => \A r, s \in promised : r.lsn = s.lsn => r = s
=============================================================================
