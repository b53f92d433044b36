---------------------------- MODULE BitcaskImpl ----------------------------
(***************************************************************************)
(* BitcaskImpl: client threads that call Put, PutAsync, Delete and Get,    *)
(* the commit thread (CommitWorker, CommitWrite), and the life of the      *)
(* process: open, close, crash.                                            *)
(*                                                                         *)
(* The grain of the actions is what another thread can observe.  A section *)
(* under the exclusive lock (Put, Delete) is one step, enabled when nobody *)
(* holds the lock in shared mode.  A section under the shared lock (Get,   *)
(* the insertion of new stable files) is several steps: shared holders do  *)
(* not exclude one another, and the commit thread updates the two maps     *)
(* without any lock.                                                       *)
(***************************************************************************)
EXTENDS Record

CONSTANTS
    Clients,      \* client threads
    MaxFileSize,  \* Setting::maxFileSize
    MaxWrites,    \* BOUND: how many writes are requested in a behaviour
    Ops,          \* BOUND: which of the calls in AllOps the clients make
    Flushes,      \* when a write makes the stream hand its buffer to the OS
    TellLags      \* does tellp() of a file just opened in app mode report 0

AllOps == {"put", "putAsync", "delete", "get", "close", "crash"}

ASSUME ConfigAssumption ==
    /\ MaxFileSize \in Nat
    /\ MaxWrites \in Nat
    /\ Ops \subseteq AllOps
    /\ Flushes \subseteq {"never", "early", "late"}
    /\ TellLags \in BOOLEAN

VARIABLES
    \* the files
    log,        \* the records of all files, in the order they were appended
    synced,     \* how many of them are out of the stream's buffer
    headOut,    \* header and key of record synced + 1 are out as well
    dir,        \* the numbers of the files in the directory
    \* BitcaskImpl and the maps
    active,     \* the number in the name of the file behind _activeFile
    lag,        \* how far tellp() of that file is behind its real end
    recordMap,  \* _recordMap
    activeMap,  \* _activeMap
    stableFiles,\* _stableFiles: file number -> get position of its stream
    writes,     \* _writes
    running,    \* _running
    \* the commit thread
    wpc, batch, records, newStableFiles, lastActiveWrite, applied,
    \* the promises
    issued,     \* ids handed out so far
    acked,      \* the writes whose promise was fulfilled
    \* the client threads
    pc, ckey, chint, cid, ret

diskVars    == <<log, synced, headOut, dir>>
mapVars     == <<recordMap, activeMap, stableFiles>>
storeVars   == <<active, lag, mapVars>>
workerVars  == <<batch, records, newStableFiles, lastActiveWrite, applied>>
clientVars  == <<pc, ckey, chint, cid, ret>>
promiseVars == <<issued, acked>>
vars == <<diskVars, storeVars, writes, running, wpc, workerVars,
          promiseVars, clientVars>>

(* The stream of a stable file is in a failed state: the last read hit the *)
(* end of the file.  Otherwise stableFiles[fd] is its get position.        *)
Failed == -1

ReadPCs == {"compare", "active", "find", "read"}
ClientPCs == {"idle", "putWait", "deleteWait", "deleted", "got"} \cup ReadPCs
CommitPCs == {"write", "rotate", "create", "inserting", "clear", "apply",
              "index", "ack"}
WorkerPCs == {"down", "swap", "check", "exited"} \cup CommitPCs

getActiveFDLast == Cardinality(DOMAIN stableFiles) - 1    \* mutant: off by one
getActiveFD == Cardinality(DOMAIN stableFiles)

(* The file number of the next rotation: the files this batch has already  *)
(* rotated are counted, they are not in _stableFiles yet.                  *)
NextFDForgetsBatch == getActiveFD    \* mutant: forgets them
NextFD == getActiveFD + Cardinality(newStableFiles)

(* The fd of the hints of a batch: getActiveFD() of before the batch.      *)
HintFDAhead == NextFD + 1            \* mutant: as if already rotated
HintFD == getActiveFD

(* The file is rotated when the record just written begins its value at or *)
(* after maxFileSize.                                                      *)
RollsOverLate(valueOffset) == valueOffset > MaxFileSize   \* mutant: not at
RollsOver(valueOffset) == valueOffset >= MaxFileSize

(* Is the write that is being applied in the file that is active now?      *)
AfterFirstInActive == applied > lastActiveWrite   \* mutant: off by one
InActive == applied >= lastActiveWrite

(* Nobody holds _mtx in shared mode.                                       *)
LockFree == /\ \A c \in Clients : pc[c] \notin ReadPCs
            /\ wpc # "inserting"

Init ==
    /\ log = <<>> /\ synced = 0 /\ headOut = FALSE /\ dir = {}
    /\ active = 0 /\ lag = 0
    /\ recordMap = [k \in Keys |-> NoHint]
    /\ activeMap = [k \in Keys |-> NotFound]
    /\ stableFiles = [fd \in {} |-> 0]
    /\ writes = <<>> /\ running = FALSE
    /\ wpc = "down" /\ batch = <<>> /\ records = <<>>
    /\ newStableFiles = {} /\ lastActiveWrite = 0 /\ applied = 0
    /\ issued = 0 /\ acked = {}
    /\ pc = [c \in Clients |-> "idle"]
    /\ ckey = [c \in Clients |-> NoKey]
    /\ chint = [c \in Clients |-> NoHint]
    /\ cid = [c \in Clients |-> 0]
    /\ ret = [c \in Clients |-> NotFound]

(* ~ActiveFile and Rotate flush the stream before they close it.           *)
FlushAll == synced' = Len(log) /\ headOut' = FALSE

(* How far tellp() of the active file is behind when ActiveFile::Restore   *)
(* has reopened file fd in app mode: the put position is the end of the    *)
(* file only once something has been flushed.                              *)
AppendLag(fd) == IF TellLags THEN FileSize(log, fd) ELSE 0

(* The streams after StableFile::Restore has scanned them to the end.      *)
RestoredStreams(fds) == [fd \in fds |-> Failed]

(* ReadValueFromFile on a stream at position at: "" if it cannot read size *)
(* bytes, and where the stream is afterwards.                              *)
PastEnd(fd, at, size) == at = Failed \/ at + size > FileSize(log, fd)

StreamRead(fd, at, size) ==
    IF PastEnd(fd, at, size) THEN EmptyValue ELSE ReadValue(log, fd, at, size)

StreamAfter(fd, at, size) == IF PastEnd(fd, at, size) THEN Failed ELSE at + size

-----------------------------------------------------------------------------
(* The calls of the clients.                                               *)

(* Put under the exclusive lock: append to _writes, take the future.       *)
EnqueueAtFront(k, v) ==    \* mutant: the newest write goes first
    /\ running /\ LockFree
    /\ issued < MaxWrites
    /\ issued' = issued + 1
    /\ writes' = <<[key |-> k, val |-> v, id |-> issued + 1]>> \o writes

Enqueue(k, v) ==
    /\ running /\ LockFree
    /\ issued < MaxWrites
    /\ issued' = issued + 1
    /\ writes' = Append(writes, [key |-> k, val |-> v, id |-> issued + 1])

Put(c, k, v) ==
    /\ "put" \in Ops /\ pc[c] = "idle"
    /\ Enqueue(k, v)
    /\ pc' = [pc EXCEPT ![c] = "putWait"]
    /\ cid' = [cid EXCEPT ![c] = issued + 1]
    /\ UNCHANGED <<diskVars, storeVars, running, wpc, workerVars, acked,
                   ckey, chint, ret>>

PutAsync(c, k, v) ==
    /\ "putAsync" \in Ops /\ pc[c] = "idle"
    /\ Enqueue(k, v)
    /\ UNCHANGED <<diskVars, storeVars, running, wpc, workerVars, acked,
                   clientVars>>

(* Delete asks the index, not the queue, whether the key exists.           *)
Delete(c, k) ==
    /\ "delete" \in Ops /\ pc[c] = "idle"
    /\ recordMap[k] # NoHint
    /\ Enqueue(k, Tombstone)
    /\ pc' = [pc EXCEPT ![c] = "deleteWait"]
    /\ cid' = [cid EXCEPT ![c] = issued + 1]
    /\ UNCHANGED <<diskVars, storeVars, running, wpc, workerVars, acked,
                   ckey, chint, ret>>

DeleteMiss(c, k) ==
    /\ "delete" \in Ops /\ pc[c] = "idle"
    /\ running /\ LockFree
    /\ recordMap[k] = NoHint
    /\ pc' = [pc EXCEPT ![c] = "deleted"]
    /\ ret' = [ret EXCEPT ![c] = FALSE]
    /\ UNCHANGED <<diskVars, storeVars, writes, running, wpc, workerVars,
                   promiseVars, ckey, chint, cid>>

(* future.get() of Bitcask::Put and of Delete returns.                     *)
FutureReady(c) ==
    /\ pc[c] \in {"putWait", "deleteWait"}
    /\ \E w \in acked : w.id = cid[c]
    /\ pc' = [pc EXCEPT ![c] = IF pc[c] = "putWait" THEN "idle" ELSE "deleted"]
    /\ ret' = [ret EXCEPT ![c] = IF pc[c] = "putWait" THEN @ ELSE TRUE]
    /\ cid' = [cid EXCEPT ![c] = 0]
    /\ UNCHANGED <<diskVars, storeVars, writes, running, wpc, workerVars,
                   promiseVars, ckey, chint>>

(* Get under the shared lock: the lookup in _recordMap, ...                *)
GetLookup(c, k) ==
    /\ "get" \in Ops /\ pc[c] = "idle"
    /\ running
    /\ ckey' = [ckey EXCEPT ![c] = k]
    /\ chint' = [chint EXCEPT ![c] = recordMap[k]]
    /\ pc' = [pc EXCEPT ![c] = IF recordMap[k] = NoHint THEN "got" ELSE "compare"]
    /\ UNCHANGED <<diskVars, storeVars, writes, running, wpc, workerVars,
                   promiseVars, cid, ret>>

(* ... the comparison with getActiveFD(), which reads the size of          *)
(* _stableFiles while the commit thread may be inserting into it, ...      *)
GetCompare(c) ==
    /\ pc[c] = "compare"
    /\ pc' = [pc EXCEPT ![c] = IF chint[c].fd = getActiveFD
                               THEN "active" ELSE "find"]
    /\ UNCHANGED <<diskVars, storeVars, writes, running, wpc, workerVars,
                   promiseVars, ckey, chint, cid, ret>>

(* What Get returns for a stored value: a tombstone reads as nullopt.      *)
OutcomeRaw(v) == v         \* mutant: hands the marker to the caller
Outcome(v) == IF v = Tombstone THEN NotFound ELSE v

GetReturns(c, v) ==
    /\ pc' = [pc EXCEPT ![c] = "got"]
    /\ ret' = [ret EXCEPT ![c] = v]
    /\ UNCHANGED <<diskVars, active, lag, recordMap, activeMap, writes,
                   running, wpc, workerVars, promiseVars, ckey, chint, cid>>

(* ... and either the value from _activeMap ...                            *)
GetActive(c) ==
    /\ pc[c] = "active"
    /\ GetReturns(c, Outcome(activeMap[ckey[c]]))
    /\ UNCHANGED stableFiles

(* ... or the search in _stableFiles, which during an insertion may miss   *)
(* an element that is being moved in the tree, ...                         *)
GetMiss(c) ==
    /\ pc[c] = "find"
    /\ \/ chint[c].fd \notin DOMAIN stableFiles
       \/ wpc = "inserting" /\ ~(newStableFiles \subseteq DOMAIN stableFiles)
    /\ GetReturns(c, NotFound)
    /\ UNCHANGED stableFiles

(* ... StableFile::Read: clear and seek on the stream all readers share,   *)
GetSeek(c) ==
    /\ pc[c] = "find"
    /\ chint[c].fd \in DOMAIN stableFiles
    /\ stableFiles' = [stableFiles EXCEPT ![chint[c].fd] = chint[c].off]
    /\ pc' = [pc EXCEPT ![c] = "read"]
    /\ UNCHANGED <<diskVars, active, lag, recordMap, activeMap, writes,
                   running, wpc, workerVars, promiseVars,
                   ckey, chint, cid, ret>>

(* then read at whatever position the stream has by now.                   *)
GetRead(c) ==
    /\ pc[c] = "read"
    /\ LET fd == chint[c].fd
           size == chint[c].size
       IN  /\ GetReturns(c, Outcome(StreamRead(fd, stableFiles[fd], size)))
           /\ stableFiles' = [stableFiles EXCEPT ![fd] = StreamAfter(fd, @, size)]

(* The caller has the result of a Get or of a Delete.                      *)
Return(c) ==
    /\ pc[c] \in {"got", "deleted"}
    /\ pc' = [pc EXCEPT ![c] = "idle"]
    /\ ret' = [ret EXCEPT ![c] = NotFound]
    /\ ckey' = [ckey EXCEPT ![c] = NoKey]
    /\ chint' = [chint EXCEPT ![c] = NoHint]
    /\ UNCHANGED <<diskVars, storeVars, writes, running, wpc, workerVars,
                   promiseVars, cid>>

Client(c) ==
    \/ \E k \in Keys : \/ \E v \in Vals : Put(c, k, v) \/ PutAsync(c, k, v)
                       \/ Delete(c, k) \/ DeleteMiss(c, k) \/ GetLookup(c, k)
    \/ FutureReady(c)
    \/ GetCompare(c) \/ GetActive(c) \/ GetMiss(c) \/ GetSeek(c) \/ GetRead(c)
    \/ Return(c)
-----------------------------------------------------------------------------
(* The commit thread.                                                      *)

(* CommitWorker takes all of _writes; CommitWrite starts on the batch.     *)
Swap ==
    /\ wpc = "swap"
    /\ batch' = writes /\ writes' = <<>>
    /\ records' = <<>> /\ newStableFiles' = {}
    /\ lastActiveWrite' = 0 /\ applied' = 0
    /\ wpc' = "write"
    /\ UNCHANGED <<diskVars, storeVars, running, promiseVars, clientVars>>

(* ActiveFile::Write for the next write of the batch.  tellp() is asked    *)
(* between key and value: if the header or the key pushed the buffer out   *)
(* (early) it reports the real position, else it is behind by lag.  The    *)
(* hint's fd is getActiveFD() of before the batch.                         *)
CommitRecord(flush) ==
    /\ wpc = "write"
    /\ Len(records) < Len(batch)
    /\ LET w == batch[Len(records) + 1]
           r == WriteRecord(w, active, FileSize(log, active))
           valueOffset == r.off - (IF flush = "early" THEN 0 ELSE lag)
       IN  /\ log' = Append(log, r)
           /\ records' = Append(records, [fd |-> HintFD,
                                          off |-> valueOffset,
                                          size |-> ValueSize[w.val],
                                          id |-> w.id])
           /\ wpc' = IF RollsOver(valueOffset) THEN "rotate" ELSE "write"
    /\ synced' = CASE flush = "never" -> synced
                   [] flush = "early" -> Len(log)
                   [] flush = "late"  -> Len(log) + 1
    /\ headOut' = IF flush = "never" THEN headOut ELSE flush = "early"
    /\ lag' = IF flush = "never" THEN lag ELSE 0
    /\ UNCHANGED <<dir, active, mapVars, writes, running, batch,
                   newStableFiles, lastActiveWrite, applied,
                   promiseVars, clientVars>>

(* Mutant of Rotate: the file is left open, its buffer is not flushed.     *)
RotateUnflushed ==
    /\ wpc = "rotate"
    /\ newStableFiles' = newStableFiles \cup {NextFD}
    /\ dir' = dir \cup {NextFD}
    /\ lastActiveWrite' = Len(records)
    /\ wpc' = "create"
    /\ UNCHANGED <<log, synced, headOut, storeVars, writes, running, batch,
                   records, applied, promiseVars, clientVars>>

(* _activeFile->Rotate() closes the file; a stable file is opened on it.   *)
Rotate ==
    /\ wpc = "rotate"
    /\ newStableFiles' = newStableFiles \cup {NextFD}
    /\ dir' = dir \cup {NextFD}
    /\ FlushAll
    /\ lastActiveWrite' = Len(records)
    /\ wpc' = "create"
    /\ UNCHANGED <<log, storeVars, writes, running, batch, records, applied,
                   promiseVars, clientVars>>

(* The new active file is created, or truncated if there is one.           *)
CreateActive ==
    /\ wpc = "create"
    /\ active' = NextFD
    /\ dir' = dir \cup {NextFD}
    /\ IF NextFD \in dir
       THEN LET Kept(r) == r.fd # NextFD
            IN  /\ log' = SelectSeq(log, Kept)
                /\ synced' = Len(log')
       ELSE UNCHANGED <<log, synced>>
    /\ lag' = 0
    /\ wpc' = "write"
    /\ UNCHANGED <<headOut, mapVars, writes, running, workerVars,
                   promiseVars, clientVars>>

(* The insertion into _stableFiles under the lock in SHARED mode, one file *)
(* after the other in the order of their numbers.                          *)
InsertBegin ==
    /\ wpc = "write"
    /\ Len(records) = Len(batch)
    /\ wpc' = "inserting"
    /\ UNCHANGED <<diskVars, storeVars, writes, running, workerVars,
                   promiseVars, clientVars>>

InsertStable ==
    /\ wpc = "inserting"
    /\ \E fd \in newStableFiles \ DOMAIN stableFiles :
         /\ \A other \in newStableFiles \ DOMAIN stableFiles : fd <= other
         /\ stableFiles' = [f \in DOMAIN stableFiles \cup {fd} |->
                               IF f = fd THEN 0 ELSE stableFiles[f]]
    /\ UNCHANGED <<diskVars, active, lag, recordMap, activeMap, writes,
                   running, wpc, workerVars, promiseVars, clientVars>>

InsertEnd ==
    /\ wpc = "inserting"
    /\ newStableFiles \subseteq DOMAIN stableFiles
    /\ wpc' = IF newStableFiles = {} THEN "apply" ELSE "clear"
    /\ UNCHANGED <<diskVars, storeVars, writes, running, workerVars,
                   promiseVars, clientVars>>

ClearActiveMap ==
    /\ wpc = "clear"
    /\ activeMap' = [k \in Keys |-> NotFound]
    /\ wpc' = "apply"
    /\ UNCHANGED <<diskVars, active, lag, recordMap, stableFiles, writes,
                   running, workerVars, promiseVars, clientVars>>

(* The last loop of CommitWrite, for each write of the batch: the value    *)
(* into _activeMap if the record is behind the last rotation, ...          *)
ApplyValue ==
    /\ wpc = "apply"
    /\ applied < Len(batch)
    /\ LET w == batch[applied + 1]
       IN  activeMap' = IF InActive
                        THEN [activeMap EXCEPT ![w.key] = w.val] ELSE activeMap
    /\ wpc' = "index"
    /\ UNCHANGED <<diskVars, active, lag, recordMap, stableFiles, writes,
                   running, workerVars, promiseVars, clientVars>>

(* ... the hint into _recordMap, ...                                       *)
ApplyHint ==
    /\ wpc = "index"
    /\ recordMap' = [recordMap EXCEPT ![batch[applied + 1].key] =
                                          records[applied + 1]]
    /\ wpc' = "ack"
    /\ UNCHANGED <<diskVars, active, lag, activeMap, stableFiles, writes,
                   running, workerVars, promiseVars, clientVars>>

(* Mutant of Acknowledge: the promise is forgotten.                        *)
AcknowledgeNothing ==
    /\ wpc = "ack"
    /\ applied' = applied + 1
    /\ wpc' = "apply"
    /\ UNCHANGED <<diskVars, storeVars, writes, running, batch, records,
                   newStableFiles, lastActiveWrite, promiseVars, clientVars>>

(* ... and the promise.                                                    *)
Acknowledge ==
    /\ wpc = "ack"
    /\ acked' = acked \cup {batch[applied + 1]}
    /\ applied' = applied + 1
    /\ wpc' = "apply"
    /\ UNCHANGED <<diskVars, storeVars, writes, running, batch, records,
                   newStableFiles, lastActiveWrite, issued, clientVars>>

(* Mutant of CommitDone: the last loop ends one write early.               *)
CommitDoneEarly ==
    /\ wpc = "apply"
    /\ applied + 1 >= Len(batch)
    /\ wpc' = "check"
    /\ batch' = <<>> /\ records' = <<>> /\ newStableFiles' = {}
    /\ lastActiveWrite' = 0 /\ applied' = 0
    /\ UNCHANGED <<diskVars, storeVars, writes, running, promiseVars,
                   clientVars>>

(* CommitWrite returns.                                                    *)
CommitDone ==
    /\ wpc = "apply"
    /\ applied = Len(batch)
    /\ wpc' = "check"
    /\ batch' = <<>> /\ records' = <<>> /\ newStableFiles' = {}
    /\ lastActiveWrite' = 0 /\ applied' = 0
    /\ UNCHANGED <<diskVars, storeVars, writes, running, promiseVars,
                   clientVars>>

(* Mutant of CheckRunning: _running is not looked at.                      *)
CheckNothing ==
    /\ wpc = "check"
    /\ wpc' = "swap"
    /\ UNCHANGED <<diskVars, storeVars, writes, running, workerVars,
                   promiseVars, clientVars>>

(* CommitWorker looks at _running only here, after the batch.              *)
CheckRunning ==
    /\ wpc = "check"
    /\ wpc' = IF running THEN "swap" ELSE "exited"
    /\ UNCHANGED <<diskVars, storeVars, writes, running, workerVars,
                   promiseVars, clientVars>>

Worker ==
    \/ Swap \/ (\E flush \in Flushes : CommitRecord(flush))
    \/ Rotate \/ CreateActive \/ InsertBegin \/ InsertStable \/ InsertEnd
    \/ ClearActiveMap \/ ApplyValue \/ ApplyHint \/ Acknowledge
    \/ CommitDone \/ CheckRunning

-----------------------------------------------------------------------------
(* The process.                                                            *)

(* The constructor: RestoreStableMap, RestoreActiveMap, start the thread.  *)
(* The active file is opened in app mode, or created if the directory is   *)
(* empty.  After the scan the streams of the stable files are at the end.  *)
Open ==
    /\ wpc = "down"
    /\ LET fd == ActivePath(dir)
       IN  /\ active' = fd
           /\ dir' = dir \cup {fd}
           /\ lag' = AppendLag(fd)
           /\ recordMap' = [k \in Keys |-> RestoredHint(log, fd, dir, k)]
           /\ activeMap' = [k \in Keys |-> RestoredValue(log, fd, k)]
           /\ stableFiles' = RestoredStreams(dir \ {fd})
    /\ running' = TRUE
    /\ wpc' = "swap"
    /\ UNCHANGED <<log, synced, headOut, writes, workerVars, promiseVars,
                   clientVars>>

(* The destructor asks the commit thread to stop.  No call is under way:   *)
(* a call that overlaps the destruction of its object is not a legal one.  *)
Close ==
    /\ "close" \in Ops
    /\ running
    /\ \A c \in Clients : pc[c] = "idle"
    /\ running' = FALSE
    /\ UNCHANGED <<diskVars, storeVars, writes, wpc, workerVars, promiseVars,
                   clientVars>>

(* The memory of the process is gone.                                      *)
ProcessEnds ==
    /\ wpc' = "down" /\ running' = FALSE
    /\ writes' = <<>> /\ batch' = <<>> /\ records' = <<>>
    /\ newStableFiles' = {} /\ lastActiveWrite' = 0 /\ applied' = 0
    /\ active' = 0 /\ lag' = 0
    /\ recordMap' = [k \in Keys |-> NoHint]
    /\ activeMap' = [k \in Keys |-> NotFound]
    /\ stableFiles' = [fd \in {} |-> 0]
    /\ pc' = [c \in Clients |-> "idle"]
    /\ ckey' = [c \in Clients |-> NoKey]
    /\ chint' = [c \in Clients |-> NoHint]
    /\ cid' = [c \in Clients |-> 0]
    /\ ret' = [c \in Clients |-> NotFound]
    /\ UNCHANGED promiseVars

(* Mutant of Destroy: the buffer of the active file is dropped.            *)
DestroyUnflushed ==
    /\ wpc = "exited"
    /\ log' = SubSeq(log, 1, synced)
    /\ headOut' = FALSE
    /\ UNCHANGED <<synced, dir>>
    /\ ProcessEnds

(* join() returned; the members are destroyed.  ~ActiveFile flushes.       *)
Destroy ==
    /\ wpc = "exited"
    /\ FlushAll
    /\ UNCHANGED <<log, dir>>
    /\ ProcessEnds

(* The process dies: what is in the buffer of the active file's stream is  *)
(* lost.  Of the record that was only partly out, the header alone or      *)
(* header and key are in the file.                                         *)
Crash ==
    /\ "crash" \in Ops
    /\ wpc # "down"
    /\ IF headOut
       THEN LET r == log[synced + 1]
            IN  \E cut \in {r.off - KeySize[r.key], r.off} :
                  /\ log' = Append(SubSeq(log, 1, synced), [r EXCEPT !.end = cut])
                  /\ synced' = synced + 1
       ELSE log' = SubSeq(log, 1, synced) /\ UNCHANGED synced
    /\ headOut' = FALSE
    /\ UNCHANGED dir
    /\ ProcessEnds

Next ==
    \/ \E c \in Clients : Client(c)
    \/ Worker
    \/ Open \/ Close \/ Destroy \/ Crash

Spec == Init /\ [][Next]_vars

(* The commit thread is a running thread and never blocks for long: the    *)
(* lock it takes is shared, and exclusive holders release it at once.  A   *)
(* client inside a call is a running thread or is woken by its promise;    *)
(* whether it makes another call is its own affair.                        *)
InCall(c) == \/ FutureReady(c) \/ GetCompare(c) \/ GetActive(c) \/ GetMiss(c)
             \/ GetSeek(c) \/ GetRead(c) \/ Return(c)

FairSpec == /\ Spec
            /\ WF_vars(Worker) /\ WF_vars(Destroy)
            /\ \A c \in Clients : WF_vars(InCall(c))

-----------------------------------------------------------------------------
(* Properties.                                                             *)

(* The type of every variable; the values a Get can return are the stored  *)
(* ones, "", wrong bytes and nullopt (Get, Delete of BitcaskImpl.cpp).     *)
Returned == Stored \cup {EmptyValue, Garbage, NotFound, TRUE, FALSE}

DiskType ==
    /\ log \in Seq(LogRecord)
    /\ synced \in 0..Len(log)
    /\ headOut \in BOOLEAN
    /\ dir \subseteq Nat

StoreType ==
    /\ active \in Nat /\ lag \in Nat
    /\ recordMap \in [Keys -> Hint]
    /\ activeMap \in [Keys -> Stored \cup {NotFound}]
    /\ DOMAIN stableFiles \subseteq Nat
    /\ stableFiles \in [DOMAIN stableFiles -> Int]

WorkerType ==
    /\ wpc \in WorkerPCs
    /\ batch \in Seq(Write)
    /\ records \in Seq(Hint)
    /\ newStableFiles \subseteq Nat
    /\ lastActiveWrite \in Nat /\ applied \in Nat

PromiseType ==
    /\ writes \in Seq(Write)
    /\ running \in BOOLEAN
    /\ issued \in Nat
    /\ acked \subseteq Write

ClientType ==
    /\ pc \in [Clients -> ClientPCs]
    /\ ckey \in [Clients -> Keys \cup {NoKey}]
    /\ chint \in [Clients -> Hint]
    /\ cid \in [Clients -> Nat]
    /\ ret \in [Clients -> Returned]

TypeOK == DiskType /\ StoreType /\ WorkerType /\ PromiseType /\ ClientType

(* Writes reach the files in the order of the calls: the log, then what    *)
(* CommitWrite still has to write of its batch, then _writes, never hold   *)
(* two writes out of order or the same write twice.                        *)
WritesInOrder ==
    LET unwritten == SubSeq(batch, Len(records) + 1, Len(batch))
        ids == [i \in DOMAIN log |-> log[i].id]
               \o [i \in DOMAIN unwritten |-> unwritten[i].id]
               \o [i \in DOMAIN writes |-> writes[i].id]
    IN  \A i, j \in DOMAIN ids : i < j => ids[i] < ids[j]

(* A promise that was fulfilled stays fulfilled: in this process and in    *)
(* every later one that opened the same directory, the index entry of the  *)
(* key is for that write or a later one (CommitWrite, RestoreStableMap,    *)
(* RestoreActiveMap, ~ActiveFile).                                         *)
AckedIndexed ==
    wpc # "down" => \A w \in acked : recordMap[w.key].id >= w.id

(* Every entry of the index is the place of the record it is for, so that  *)
(* "key lookup goes directly to the on-disk value offset".                 *)
IndexLocatesRecord ==
    \A k \in Keys : recordMap[k] # NoHint =>
        \E i \in DOMAIN log :
            /\ log[i].key = k /\ log[i].id = recordMap[k].id
            /\ log[i].fd = recordMap[k].fd /\ log[i].off = recordMap[k].off
            /\ ValueSize[log[i].val] = recordMap[k].size

(* maxFileSize bounds every file but for its last record, in the process   *)
(* that wrote it and in those that reopened it to append: a record has a   *)
(* successor in its file only if its value begins below the limit          *)
(* (CommitWrite, ActiveFile::Restore).                                     *)
FilesBounded ==
    \A i, j \in DOMAIN log :
        i < j /\ log[i].fd = log[j].fd => log[i].off < MaxFileSize

(* However many rotations a batch contains and however far tellp() is      *)
(* behind: a hint is for a record of its key, and file number and offset   *)
(* err only towards the past (CommitWrite's use of getActiveFD and tellp). *)
HintsNeverAhead ==
    \A k \in Keys : recordMap[k] # NoHint =>
        \E i \in DOMAIN log :
            /\ log[i].key = k /\ log[i].id = recordMap[k].id
            /\ recordMap[k].fd <= log[i].fd /\ recordMap[k].off <= log[i].off
            /\ ValueSize[log[i].val] = recordMap[k].size

(* A restart repairs the index: right after Open every entry is exact, and *)
(* is for a record whose bytes are all there (Restore*Map, ReadRecord).    *)
RestoreExact ==
    [][ wpc = "down" /\ wpc' # "down" =>
          \A k \in Keys : recordMap'[k] # NoHint =>
              \E i \in DOMAIN log :
                  /\ log[i].key = k /\ log[i].id = recordMap'[k].id
                  /\ log[i].fd = recordMap'[k].fd
                  /\ log[i].off = recordMap'[k].off
                  /\ Whole(log[i]) ]_vars

(* A hint that sends Get to _activeMap finds there the value of its write  *)
(* or of a later one of the same key: stable files are published, then the *)
(* map is cleared, then values before hints (CommitWrite).                 *)
ActiveMapServes ==
    \A k \in Keys : recordMap[k] # NoHint /\ recordMap[k].fd = getActiveFD =>
        \E i \in DOMAIN log : /\ log[i].key = k /\ log[i].id >= recordMap[k].id
                              /\ log[i].val = activeMap[k]

(* Get returns the outcome of a write of the key that is not older than    *)
(* the index entry it looked up; with AckedIndexed, not older than any     *)
(* write that was acknowledged before the call.                            *)
ReadRegular ==
    \A c \in Clients : pc[c] = "got" =>
        IF chint[c] = NoHint THEN ret[c] = NotFound
        ELSE \E i \in DOMAIN log : /\ log[i].key = ckey[c]
                                   /\ log[i].id >= chint[c].id
                                   /\ IF log[i].val = Tombstone
                                      THEN ret[c] = NotFound
                                      ELSE ret[c] = log[i].val

(* Within a process the index entry of a key never goes back to an older   *)
(* write (the last loop of CommitWrite).                                   *)
LookupMonotonic ==
    [][ wpc # "down" /\ wpc' # "down" =>
          \A k \in Keys : recordMap'[k].id >= recordMap[k].id ]_vars

(* The numbers of the files, which CommitWrite computes from the size of   *)
(* _stableFiles: the active file is the highest, a rotation never          *)
(* truncates a file that exists, and no record lies outside the directory. *)
RotationSafe ==
    /\ wpc = "create" => NextFD \notin dir
    /\ wpc # "down" => active \in dir /\ \A fd \in dir : fd <= active
    /\ wpc \notin {"down", "create"} =>
         DOMAIN stableFiles \cup newStableFiles = dir \ {active}
    /\ \A i \in DOMAIN log : log[i].fd \in dir

(* Only the active file has bytes in a buffer: what was rotated survives a *)
(* crash of the process (ActiveFile::Rotate).                              *)
RotatedFlushed ==
    wpc # "down" => \A i \in DOMAIN log : log[i].fd < active => i <= synced

(* The index never points at a record that a crash cut short (ReadRecord). *)
TornNotIndexed ==
    \A k \in Keys : \A i \in DOMAIN log :
        log[i].key = k /\ log[i].id = recordMap[k].id => Whole(log[i])

(* A write that is queued is acknowledged unless the database is closed    *)
(* first, and a write whose batch was taken is acknowledged even then      *)
(* (CommitWorker drains the queue, ~BitcaskImpl waits for the batch).      *)
Holds(q, n) == \E i \in DOMAIN q : q[i].id = n
Fulfilled(n) == \E w \in acked : w.id = n

EveryWriteAcked ==
    \A n \in 1..MaxWrites : /\ Holds(writes, n) ~> Fulfilled(n) \/ ~running
                            /\ Holds(batch, n) ~> Fulfilled(n)

(* Put, Get and Delete return.                                             *)
CallsReturn == \A c \in Clients : pc[c] # "idle" ~> pc[c] = "idle"

(* The destructor returns: join() does not wait for ever.                  *)
CloseCompletes == wpc # "down" /\ ~running ~> wpc = "down"
=============================================================================
