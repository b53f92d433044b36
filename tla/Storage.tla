------------------------------- MODULE Storage -------------------------------
(***************************************************************************)
(* The file layer under failing calls: what becomes of the files and of    *)
(* the index when opening, writing or flushing a file fails and the store  *)
(* goes on, and when a start looks for the files in the wrong place.       *)
(*                                                                         *)
(* One caller that waits for every Put: a batch is one write, and no call  *)
(* overlaps another (BitcaskImpl has the interleavings).  Key, value and   *)
(* header of a record are one unit of size, the values of all writes       *)
(* differ, and a value is the number of its write.                         *)
(***************************************************************************)
EXTENDS Setting, FileName, FiniteSets

CONSTANTS
    Keys,       \* the keys
    Settings,   \* the settings a program opens the store with
    Width,      \* how many values Offset has, 2^32, in units of a record
    MaxWrites,  \* BOUND: how many writes are requested
    MaxFaults   \* BOUND: how many calls of the operating system fail

ASSUME StorageAssumption ==
    /\ Width \in Nat \ {0} /\ MaxWrites \in Nat /\ MaxFaults \in Nat
    /\ \A s \in Settings : s.dbPath \in Paths /\ s.maxFileSize \in Nat

VARIABLES
    setting,    \* _setting
    files,      \* file number -> its records, buffered ones included
    synced,     \* how many records of the active file are not in a buffer
    phase,      \* "down", "up", or where in CommitWrite: "rotate", "create"
    active,     \* the number in the name of the active file
    stream,     \* its stream: "good", "bad" (a write failed), "null"
    stable,     \* _stableFiles: file number -> "good", "closed", "null"
    recordMap, activeMap,
    hint,       \* the write CommitWrite is at, and its hint
    faults,     \* how many calls have failed
    written,    \* how many writes were requested: they are 1, 2, ...
    last        \* the last write requested for each key (history)

memory == <<active, stream, synced, stable, recordMap, activeMap, hint>>
vars == <<setting, files, phase, memory, faults, written, last>>

None == 0       \* no value, no write: writes start at 1
Dies == -1      \* a call through a null handle: the process ends

ToOffset(pos) == pos % Width

(* tellp() of a stream that failed returns -1.                             *)
TellFailedZero == 0                \* mutant: it returns 0
TellFailedSigned == -1             \* mutant: Offset is signed
TellFailed == (-1) % Width

NoHint == [key |-> None, id |-> None, fd |-> 0, off |-> 0]

-----------------------------------------------------------------------------
(* A record is whole or was cut short when a write failed.                 *)
Scanned(recs) == {i \in DOMAIN recs : \A j \in 1..i : recs[j].whole}

(* StableFile::Read: a file that is not open, or too short, reads as "".   *)
ReadAt(fd, off) ==
    IF stable[fd] = "null" THEN Dies
    ELSE IF stable[fd] = "closed" THEN None
    ELSE LET here == {i \in DOMAIN files[fd] : i - 1 = off /\ files[fd][i].whole}
         IN  IF here = {} THEN None ELSE files[fd][CHOOSE i \in here : TRUE].id

getActiveFDGood == Cardinality({fd \in DOMAIN stable : stable[fd] = "good"})
getActiveFD == Cardinality(DOMAIN stable)

(* Get, with None for nullopt and for "".                                  *)
Read(k) ==
    LET h == recordMap[k]
    IN  IF h = NoHint THEN None
        ELSE IF h.fd = getActiveFD THEN activeMap[k]
        ELSE IF h.fd \notin DOMAIN stable THEN None
        ELSE ReadAt(h.fd, h.off)

-----------------------------------------------------------------------------
(* The memory of the process is gone.                                      *)
Gone ==
    /\ phase' = "down"
    /\ active' = 0 /\ stream' = "null" /\ synced' = 0
    /\ stable' = [fd \in {} |-> "good"]
    /\ recordMap' = [k \in Keys |-> NoHint]
    /\ activeMap' = [k \in Keys |-> None]
    /\ hint' = NoHint

Init ==
    /\ setting \in Settings
    /\ files = [fd \in {} |-> <<>>]
    /\ phase = "down"
    /\ active = 0 /\ stream = "null" /\ synced = 0
    /\ stable = [fd \in {} |-> "good"]
    /\ recordMap = [k \in Keys |-> NoHint]
    /\ activeMap = [k \in Keys |-> None]
    /\ hint = NoHint
    /\ faults = 0 /\ written = 0 /\ last = [k \in Keys |-> None]

(* n calls fail.                                                           *)
Fail(n) == faults + n <= MaxFaults /\ faults' = faults + n

(* What may be left when recs should be in the active file and its buffer  *)
(* is lost or written in part: the bytes up to some point behind those     *)
(* that were out of the buffer before.                                     *)
Torn(recs, n) == Append(SubSeq(recs, 1, n), [recs[n + 1] EXCEPT !.whole = FALSE])
Remains(recs) ==
    {SubSeq(recs, 1, n) : n \in synced..Len(recs)}
    \cup {Torn(recs, n) : n \in synced..(Len(recs) - 1)}

(* The files a start finds, and the one it takes for the active file.      *)
Found == IF FindsFiles(setting) THEN DOMAIN files ELSE {}
ActivePath == CHOOSE m \in Found \cup {0} : \A fd \in Found : fd <= m

StableCountOpened(a, lost) == Cardinality((Found \ {a}) \ lost)
StableCount(a, lost) == Cardinality(Found \ {a})

(* The order in which a start with active file a passes the records to the *)
(* callbacks; a record is a file and a place in it.                        *)
ScannedBefore(a, p, q) ==
    IF p[1] = q[1] THEN p[2] < q[2] ELSE FileBefore(a, p[1], q[1])

(* The hint in the index after the files fds were scanned: for the last    *)
(* record of the key that a scan reaches.                                  *)
RestoredHint(fds, a, lost, k) ==
    LET places == {p \in UNION {{fd} \X Scanned(files[fd]) : fd \in fds} :
                      files[p[1]][p[2]].key = k}
        latest == {p \in places : \A q \in places \ {p} : ScannedBefore(a, q, p)}
        at == CHOOSE p \in latest : TRUE
    IN  IF latest = {} THEN NoHint
        ELSE [key |-> k, id |-> files[at[1]][at[2]].id,
              fd |-> IF at[1] = a THEN StableCount(a, lost) ELSE at[1],
              off |-> ToOffset(at[2] - 1)]

(* The constructor.  The stable files in lost cannot be opened: they give  *)
(* null handles.  Of the active file, the opening that creates it, the one *)
(* for the scan or the one for appending may fail; nobody notices.  A      *)
(* program may come back to its files with another maxFileSize.            *)
Open(lost, fault) ==
    /\ phase = "down"
    /\ lost \subseteq Found \ {ActivePath}
    /\ Fail(Cardinality(lost) + (IF fault = "none" THEN 0 ELSE 1))
    /\ LET a == ActivePath
           exists == a \in DOMAIN files
           scan == (Found \ ({a} \cup lost))
                   \cup (IF exists /\ fault # "scan" THEN {a} ELSE {})
       IN  /\ fault \in IF exists THEN {"none", "scan", "append"}
                                  ELSE {"none", "create"}
           /\ active' = a
           /\ stream' = IF fault = "none" THEN "good" ELSE "null"
           /\ files' = IF exists \/ fault # "none" THEN files
                       ELSE [fd \in DOMAIN files \cup {a} |->
                                IF fd = a THEN <<>> ELSE files[fd]]
           /\ synced' = IF exists THEN Len(files[a]) ELSE 0
           /\ stable' = [fd \in Found \ {a} |->
                            IF fd \in lost THEN "null" ELSE "good"]
           /\ recordMap' = [k \in Keys |-> RestoredHint(scan, a, lost, k)]
           /\ activeMap' = [k \in Keys |->
                               RestoredHint(scan \cap {a}, a, lost, k).id]
    /\ setting' \in {s \in Settings : s.dbPath = setting.dbPath}
    /\ phase' = "up"
    /\ UNCHANGED <<hint, written, last>>

-----------------------------------------------------------------------------
(* The active file with a record for the next write, of key k.             *)
Written(k) ==
    Append(files[active], [key |-> k, id |-> written + 1, whole |-> TRUE])

(* The last loop of CommitWrite, for the one write of the batch.           *)
Apply(h, rotated) ==
    /\ recordMap' = [recordMap EXCEPT ![h.key] = h]
    /\ activeMap' = IF rotated THEN [k \in Keys |-> None]
                    ELSE [activeMap EXCEPT ![h.key] = h.id]

(* CommitWrite when ActiveFile::Write has left recs in the active file and *)
(* returned off: the hint, and the comparison with maxFileSize.            *)
Commit(k, recs, off) ==
    LET h == [key |-> k, id |-> written + 1, fd |-> getActiveFD, off |-> off]
    IN  /\ files' = [files EXCEPT ![active] = recs]
        /\ IF off < setting.maxFileSize
           THEN Apply(h, FALSE) /\ UNCHANGED <<phase, hint>>
           ELSE /\ phase' = "rotate" /\ hint' = h
                /\ UNCHANGED <<recordMap, activeMap>>
        /\ written' = written + 1
        /\ last' = [last EXCEPT ![k] = written + 1]
        /\ UNCHANGED <<setting, active, synced, stable>>

Accepts == phase = "up" /\ written < MaxWrites

(* Put.  A stream that has failed before writes nothing, and tells so.     *)
Put(k) ==
    /\ Accepts
    /\ \/ /\ stream = "good"
          /\ Commit(k, Written(k), ToOffset(Len(files[active])))
       \/ /\ stream = "bad"
          /\ Commit(k, files[active], TellFailed)
    /\ UNCHANGED <<stream, faults>>

(* The write fails before or after the position of the value is asked for. *)
PutFails(k) ==
    /\ Accepts /\ stream = "good"
    /\ Fail(1)
    /\ stream' = "bad"
    /\ \E left \in Remains(Written(k)) \ {Written(k)},
          off \in {TellFailed, ToOffset(Len(files[active]))} :
            Commit(k, left, off)

(* _activeFile->Rotate(), which need not get the buffer out if the stream  *)
(* has failed before or fails now; then a stable file is opened on the     *)
(* number that the file should have.                                       *)
Rotate(opened) ==
    /\ phase = "rotate"
    /\ LET fd == getActiveFD
       IN  /\ stable' = [n \in DOMAIN stable \cup {fd} |->
                            IF n = fd THEN opened ELSE stable[n]]
           /\ \E left \in Remains(files[active]) :
                /\ Fail((IF opened = "good" THEN 0 ELSE 1)
                        + (IF stream = "good" /\ left # files[active] THEN 1 ELSE 0))
                /\ synced' = Len(left)
                /\ files' = [n \in DOMAIN files
                                \cup (IF opened = "good" THEN {fd} ELSE {}) |->
                              IF n = active THEN left
                              ELSE IF n \in DOMAIN files THEN files[n] ELSE <<>>]
    /\ phase' = "create"
    /\ UNCHANGED <<setting, active, stream, recordMap, activeMap, hint, written, last>>

(* ActiveFile::Create opens the next file, or leaves a null pointer; the   *)
(* write is applied all the same.                                          *)
Create(opened) ==
    /\ phase = "create"
    /\ Fail(IF opened = "good" THEN 0 ELSE 1)
    /\ stream' = opened
    /\ IF opened = "good"
       THEN /\ active' = getActiveFD /\ synced' = 0
            /\ files' = [n \in DOMAIN files \cup {active'} |->
                            IF n = active' THEN <<>> ELSE files[n]]
       ELSE UNCHANGED <<active, synced, files>>
    /\ Apply(hint, TRUE)
    /\ phase' = "up" /\ hint' = NoHint
    /\ UNCHANGED <<setting, stable, written, last>>

(* The process ends, and what is in the buffer of the active file is lost: *)
Vanish ==
    /\ IF stream = "null" THEN UNCHANGED files
       ELSE \E left \in Remains(files[active]) : files' = [files EXCEPT ![active] = left]
    /\ Gone
    /\ UNCHANGED <<setting, written, last>>

(* by a Put or a Get that goes through a null handle, ...                  *)
NullCall ==
    /\ phase = "up"
    /\ stream = "null" \/ \E k \in Keys : Read(k) = Dies
    /\ Vanish /\ UNCHANGED faults

(* ... or because it is killed.                                            *)
Crash == phase # "down" /\ Fail(1) /\ Vanish

(* The destructor; the flush of the active file may fail, or do nothing on *)
(* a stream that has failed before.                                        *)
Close ==
    /\ phase = "up"
    /\ \/ Fail(0) /\ UNCHANGED files
       \/ /\ stream # "null" /\ Fail(IF stream = "good" THEN 1 ELSE 0)
          /\ \E left \in Remains(files[active]) : files' = [files EXCEPT ![active] = left]
    /\ Gone
    /\ UNCHANGED <<setting, written, last>>

Next ==
    \/ \E lost \in SUBSET DOMAIN files, fault \in {"none", "create", "scan", "append"} :
         Open(lost, fault)
    \/ \E k \in Keys : Put(k) \/ PutFails(k)
    \/ \E opened \in {"good", "closed"} : Rotate(opened)
    \/ \E opened \in {"good", "null"} : Create(opened)
    \/ NullCall \/ Crash \/ Close

Spec == Init /\ [][Next]_vars

-----------------------------------------------------------------------------
(* Properties.                                                             *)

(* The type of every variable (BitcaskImpl, ActiveFile, StableFile).       *)
Records == [key : Keys, id : Nat, whole : BOOLEAN]
Hints == [key : Keys \cup {None}, id : Nat, fd : Nat, off : 0..(Width - 1)]

TypeOK ==
    /\ setting \in Settings
    /\ DOMAIN files \subseteq Nat
    /\ files \in [DOMAIN files -> Seq(Records)]
    /\ phase \in {"down", "up", "rotate", "create"}
    /\ active \in Nat /\ synced \in Nat
    /\ stream \in {"good", "bad", "null"}
    /\ stable \in [DOMAIN stable -> {"good", "closed", "null"}]
    /\ DOMAIN stable \subseteq Nat
    /\ recordMap \in [Keys -> Hints] /\ hint \in Hints
    /\ activeMap \in [Keys -> Nat]
    /\ faults \in Nat /\ written \in Nat /\ last \in [Keys -> Nat]

(* Whatever call fails, no step takes a record from a file but the ones    *)
(* that are still in the buffer of the active file: the numbers that       *)
(* CommitWrite computes from the size of _stableFiles never make it open   *)
(* an existing file for truncation, although handles may be null or closed *)
(* and the active file may be missing (CommitWrite, RestoreStableMap,      *)
(* RestoreActiveMap, ActiveFile::Create).                                  *)
Safe(fd) == IF phase # "down" /\ fd = active THEN SubSeq(files[fd], 1, synced) ELSE files[fd]

NothingTruncated ==
    [][ \A fd \in DOMAIN files :
          /\ fd \in DOMAIN files' /\ Len(Safe(fd)) <= Len(files'[fd])
          /\ SubSeq(files'[fd], 1, Len(Safe(fd))) = Safe(fd) ]_vars

(* Whatever call fails, a Get that finds something returns the value of    *)
(* the write its index entry is for, never that of another: not the bytes  *)
(* at a wrong offset, not those of a wrong file (Get, CommitWrite).        *)
ReadHonest ==
    phase = "up" => \A k \in Keys : Read(k) \in {recordMap[k].id, None, Dies}

(* Without failures a Get returns the last write, through rotations and    *)
(* restarts (README: "on restart, all existing .db files are scanned").    *)
FaultlessExact ==
    phase = "up" /\ faults = 0 => \A k \in Keys : Read(k) = last[k]
=============================================================================
