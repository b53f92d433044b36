------------------------------- MODULE Record -------------------------------
(***************************************************************************)
(* The data files of the store: the record layout of Record.cpp, the raw   *)
(* reads of File.cpp and StableFile.cpp, and the order in which a restart  *)
(* scans the files (BitcaskImpl::RestoreStableMap, RestoreActiveMap).      *)
(*                                                                         *)
(* All files together are ONE sequence, the log: every record carries the  *)
(* number of the file it lies in and its place there, and the records of   *)
(* a file appear in the log in file order.  Bytes are abstracted to        *)
(* sizes: a read that does not hit exactly the bytes of one value yields   *)
(* Garbage, a read past the end of the file yields "" (EmptyValue).        *)
(***************************************************************************)
EXTENDS FileName, FiniteSets

CONSTANTS
    Keys,        \* the keys clients use
    Vals,        \* the values clients store
    Tombstone,   \* BITCASK_TOMBSTONE_VALUE
    EmptyValue,  \* "", what ReadValueFromFile returns when the read fails
    Garbage,     \* bytes that are not the value asked for
    NotFound,    \* std::nullopt
    NoKey,       \* the key of a client that is not in a call
    KeySize,     \* key.size()
    ValueSize    \* value.size()

Stored == Vals \cup {Tombstone}

ASSUME SizeAssumption ==
    /\ KeySize \in [Keys -> Nat]
    /\ ValueSize \in [Stored -> Nat]

ASSUME SentinelAssumption ==
    /\ NoKey \notin Keys
    /\ Tombstone \notin Vals
    /\ Garbage \notin Stored \cup {EmptyValue}
    /\ NotFound \notin Stored \cup {EmptyValue, Garbage}

HeaderSize == 12    \* sizeof(RecordHeader): crc32, keySize, valueSize

(***************************************************************************)
(* A write that was requested: struct Write without its promise; id names  *)
(* the promise.                                                            *)
(***************************************************************************)
Write == [key : Keys, val : Stored, id : Nat]

(***************************************************************************)
(* A record in the log.  off is the offset of the value in file fd, end    *)
(* the offset at which the record's bytes stop: for a record a crash cut   *)
(* short, end is less than off plus the size of the value.                 *)
(***************************************************************************)
LogRecord == [key : Keys, val : Stored, id : Nat,
              fd : Nat, off : Nat, end : Nat]

(* An entry of the index.  id is a history field: which write it is for.   *)
Hint == [fd : Nat, off : Int, size : Nat, id : Nat]

(* No entry: RecordMap::Get finds nothing.  Ids of writes start at 1.      *)
NoHint == [fd |-> 0, off |-> 0, size |-> 0, id |-> 0]

-----------------------------------------------------------------------------
(* WriteRecord: where the record of w goes in a file that is size long.    *)
WriteRecord(w, fd, size) ==
    LET off == size + HeaderSize + KeySize[w.key]
    IN  [key |-> w.key, val |-> w.val, id |-> w.id,
         fd |-> fd, off |-> off, end |-> off + ValueSize[w.val]]

(* The CRC of a record matches iff all of its bytes are there.             *)
Whole(r) == r.end = r.off + ValueSize[r.val]

Latest(S) == {i \in S : \A j \in S : j <= i}

(* The length of file fd, bytes still in the stream's buffer included.     *)
FileSize(log, fd) ==
    LET last == Latest({i \in DOMAIN log : log[i].fd = fd})
    IN  IF last = {} THEN 0 ELSE log[CHOOSE i \in last : TRUE].end

(* The bytes that lie at offset off of file fd: a value, or others.        *)
ReadValue(log, fd, off, size) ==
    LET hit == {i \in DOMAIN log :
                   /\ log[i].fd = fd /\ Whole(log[i])
                   /\ log[i].off = off /\ ValueSize[log[i].val] = size}
    IN  IF hit = {} THEN Garbage ELSE log[CHOOSE i \in hit : TRUE].val

-----------------------------------------------------------------------------
(* ReadAllRecordFromFile stops at the first record whose header is short   *)
(* or whose CRC does not match: what comes after it is never seen.         *)
ScannedUnchecked(log, i) == TRUE     \* mutant: the CRC is not looked at
Scanned(log, i) ==
    \A j \in 1..i : log[j].fd = log[i].fd => Whole(log[j])

(* The order in which a restart passes the records to _recordMap.Put.      *)
ScannedBefore(log, active, i, j) ==
    IF log[i].fd = log[j].fd THEN i < j
    ELSE FileBefore(active, log[i].fd, log[j].fd)

(* The record of key k, among those in the files fds, whose callback runs  *)
(* last in a restart: a set of one, or empty when k has no readable record.*)
LastScanned(log, active, fds, k) ==
    LET found == {i \in DOMAIN log :
                     log[i].key = k /\ log[i].fd \in fds /\ Scanned(log, i)}
    IN  {i \in found : \A j \in found \ {i} : ScannedBefore(log, active, j, i)}

(* The fd in the hints of the active file: the NUMBER of stable files.     *)
CountsActive(dir, active) == Cardinality(dir)   \* mutant: off by one
StableCount(dir, active) == Cardinality(dir \ {active})

(* The hint a restart leaves in the index for key k.  Records of a stable  *)
(* file get the number in the file's name as fd.                           *)
RestoredHint(log, active, dir, k) ==
    LET last == LastScanned(log, active, dir, k)
        i == CHOOSE i \in last : TRUE
    IN  IF last = {}
        THEN NoHint
        ELSE [fd |-> IF log[i].fd = active
                     THEN StableCount(dir, active) ELSE log[i].fd,
              off |-> log[i].off, size |-> ValueSize[log[i].val],
              id |-> log[i].id]

(* The entry a restart leaves in the map of the active file's values.      *)
RestoredValue(log, active, k) ==
    LET last == LastScanned(log, active, {active}, k)
    IN  IF last = {} THEN NotFound ELSE log[CHOOSE i \in last : TRUE].val

(* getActivePathInDir: the highest file number, 0 in an empty directory.   *)
ActivePath(dir) == CHOOSE m \in dir \cup {0} : \A d \in dir : d <= m
=============================================================================
