------------------------- MODULE BitcaskImplProofs -------------------------
(***************************************************************************)
(* Proofs about BitcaskImpl for every value of its constants: any number   *)
(* of clients, keys, values and writes, any file size, any sizes of keys   *)
(* and values, with crashes, and whether or not tellp() lags.              *)
(***************************************************************************)
EXTENDS BitcaskImpl, FiniteSetTheorems, SequenceTheorems, TLAPS

-----------------------------------------------------------------------------
(* The inductive invariant.                                                *)

(* The highest file number the running batch has used, plus one.  Between  *)
(* Rotate and CreateActive the active file is a stable file already.       *)
Top == IF wpc = "create" THEN active + 1 ELSE active

(* The numbers of the files are contiguous: the directory is 0..active,    *)
(* _stableFiles is a prefix of it, and the files this batch has rotated    *)
(* and not yet published are the rest.                                     *)
StableContiguous ==
    getActiveFD \in Nat /\ DOMAIN stableFiles = 0..(getActiveFD - 1)

DirContiguous ==
    /\ wpc # "down" => dir = 0..active
    /\ wpc = "down" => Cardinality(dir) \in Nat /\ dir = 0..(Cardinality(dir) - 1)

NewContiguous ==
    wpc # "down" =>
        /\ getActiveFD <= Top
        /\ newStableFiles \ DOMAIN stableFiles = getActiveFD..(Top - 1)
        /\ newStableFiles \subseteq 0..(Top - 1)

NewUnpublished ==
    wpc \in {"write", "rotate", "create"} =>
        newStableFiles \cap DOMAIN stableFiles = {}

AllPublished ==
    wpc \in {"swap", "clear", "apply", "index", "ack", "check", "exited"} =>
        getActiveFD = active

FilesContiguous == /\ StableContiguous /\ DirContiguous /\ NewContiguous
                   /\ NewUnpublished /\ AllPublished

(* Every record lies in a file of the directory, behind its header and key.*)
LogInFiles ==
    \A i \in DOMAIN log : log[i].fd \in dir /\ log[i].off >= KeySize[log[i].key]

(* How far CommitWrite is in its batch.                                    *)
BatchProgress ==
    /\ Len(records) <= Len(batch)
    /\ wpc \in {"inserting", "clear", "apply", "index", "ack"} =>
         Len(records) = Len(batch)
    /\ wpc \in {"index", "ack"} => applied < Len(batch)
    /\ headOut => synced < Len(log)
    /\ wpc = "down" => newStableFiles = {} /\ batch = <<>>

(* A Get that is under way has a key.                                      *)
GetHasKey == \A c \in Clients : pc[c] \in ReadPCs => ckey[c] \in Keys

IInv == TypeOK /\ FilesContiguous /\ LogInFiles /\ BatchProgress /\ GetHasKey

-----------------------------------------------------------------------------
(* Facts about intervals and about the operators of the model.             *)

(* 0..(n - 1) has n elements.                                              *)
LEMMA UpTo == ASSUME NEW n \in Nat
              PROVE  IsFiniteSet(0..(n - 1)) /\ Cardinality(0..(n - 1)) = n
BY FS_Interval

(* The length of a file is a number.                                       *)
LEMMA FileSizeType == ASSUME NEW L \in Seq(LogRecord), NEW fd
                      PROVE  FileSize(L, fd) \in Nat
<1> DEFINE last == Latest({i \in DOMAIN L : L[i].fd = fd})
<1>1. CASE last = {}
  BY <1>1 DEF FileSize
<1>2. CASE last # {}
  <2>1. PICK i \in last : i = CHOOSE j \in last : TRUE
    BY <1>2
  <2>2. i \in DOMAIN L /\ L[i] \in LogRecord
    BY <2>1, ElementOfSeq DEF Latest
  <2> QED
    BY <1>2, <2>1, <2>2 DEF FileSize, LogRecord
<1> QED
  BY <1>1, <1>2

(* The record of a write is one, and its value lies behind the header and  *)
(* the key.                                                                *)
LEMMA WriteRecordType ==
    ASSUME NEW w \in Write, NEW fd \in Nat, NEW size \in Nat
    PROVE  /\ WriteRecord(w, fd, size) \in LogRecord
           /\ WriteRecord(w, fd, size).fd = fd
           /\ WriteRecord(w, fd, size).key = w.key
           /\ WriteRecord(w, fd, size).off >= KeySize[w.key]
           /\ ValueSize[w.val] \in Nat
<1>1. w.key \in Keys /\ w.val \in Stored /\ w.id \in Nat
  BY DEF Write
<1>2. KeySize[w.key] \in Nat /\ ValueSize[w.val] \in Nat
  BY <1>1, SizeAssumption
<1> QED
  BY <1>1, <1>2 DEF WriteRecord, LogRecord, HeaderSize

(* While CommitWrite writes, the number it computes for the next rotation  *)
(* is the one after all files it has completed.                            *)
LEMMA NextFDIsTop ==
    ASSUME FilesContiguous, active \in Nat, wpc \in {"write", "rotate", "create"}
    PROVE  getActiveFD \in Nat /\ NextFD = Top
<1> DEFINE m == getActiveFD
<1>1. Top \in Nat
  BY DEF Top
<1>2. m \in Nat /\ m <= Top /\ newStableFiles = m..(Top - 1)
  BY DEF FilesContiguous, StableContiguous, NewUnpublished, NewContiguous
<1>3. Cardinality(newStableFiles) = Top - m
  <2> DEFINE a == m  b == Top - 1
  <2>1. a \in Int /\ b \in Int /\ a <= b + 1
    BY <1>1, <1>2
  <2>2. Cardinality(a..b) = IF a > b THEN 0 ELSE b - a + 1
    <3> HIDE DEF a, b
    <3> QED BY <2>1, FS_Interval
  <2> QED
    BY <1>1, <1>2, <2>1, <2>2
<1> QED
  BY <1>1, <1>2, <1>3 DEF NextFD

(* A step that leaves the files and the commit thread's place alone keeps  *)
(* the numbers contiguous.                                                 *)
LEMMA FilesUntouched ==
    ASSUME FilesContiguous, UNCHANGED <<dir, active, newStableFiles, wpc>>,
           DOMAIN stableFiles' = DOMAIN stableFiles
    PROVE  FilesContiguous'
BY DEF FilesContiguous, StableContiguous, DirContiguous, NewContiguous,
       NewUnpublished, AllPublished, getActiveFD, Top

(* A client changes neither the directory nor the set of stable files.     *)
LEMMA ClientLeavesFiles ==
    ASSUME NEW c \in Clients, Client(c)
    PROVE  /\ UNCHANGED <<diskVars, active, lag, recordMap, activeMap, running,
                          wpc, workerVars, acked>>
           /\ DOMAIN stableFiles' = DOMAIN stableFiles
<1> USE DEF storeVars, mapVars, promiseVars
<1>1. ASSUME NEW k \in Keys, NEW v \in Vals, Put(c, k, v) \/ PutAsync(c, k, v)
      PROVE  UNCHANGED <<diskVars, storeVars, running, wpc, workerVars, acked>>
  BY <1>1 DEF Put, PutAsync
<1>2. ASSUME NEW k \in Keys, Delete(c, k) \/ DeleteMiss(c, k) \/ GetLookup(c, k)
      PROVE  UNCHANGED <<diskVars, storeVars, running, wpc, workerVars, acked>>
  BY <1>2 DEF Delete, DeleteMiss, GetLookup
<1>3. CASE FutureReady(c) \/ GetCompare(c) \/ Return(c)
  BY <1>3 DEF FutureReady, GetCompare, Return
<1>4. CASE GetActive(c) \/ GetMiss(c)
  BY <1>4 DEF GetActive, GetMiss, GetReturns
<1>5. CASE GetSeek(c)
  BY <1>5 DEF GetSeek
<1>6. CASE GetRead(c)
  BY <1>6 DEF GetRead, GetReturns
<1> QED
  BY <1>1, <1>2, <1>3, <1>4, <1>5, <1>6 DEF Client

(* In a contiguous directory the active file of a start is the last one.   *)
LEMMA ActivePathIsLast ==
    ASSUME Cardinality(dir) \in Nat, dir = 0..(Cardinality(dir) - 1),
           NEW fd, fd = ActivePath(dir)
    PROVE  fd \in Nat /\ dir \cup {fd} = 0..fd /\ dir \ {fd} = 0..(fd - 1)
<1> DEFINE n == Cardinality(dir)
           Highest(m) == m \in dir \cup {0} /\ \A d \in dir : d <= m
<1>1. \E m : Highest(m)
  <2>1. CASE n = 0
    BY <2>1
  <2>2. CASE n > 0
    <3>1. Highest(n - 1)
      BY <2>2
    <3> QED BY <3>1
  <2> QED BY <2>1, <2>2
<1>2. Highest(fd)
  BY <1>1 DEF ActivePath
<1>3. CASE n = 0
  BY <1>2, <1>3
<1>4. CASE n > 0
  <2>1. dir = 0..(n - 1) /\ n \in Nat
    OBVIOUS
  <2> HIDE DEF n
  <2>2. n - 1 \in dir /\ 0 \in dir
    BY <1>4, <2>1
  <2>3. fd \in dir /\ n - 1 <= fd
    BY <1>2, <2>2
  <2> QED BY <1>4, <2>1, <2>3
<1> QED
  BY <1>3, <1>4

(* The start of the process numbers the files as it finds them.            *)
LEMMA OpenFiles == ASSUME IInv, Open
                   PROVE  FilesContiguous'
<1> DEFINE fd == ActivePath(dir)
<1>1. wpc = "down" /\ wpc' = "swap" /\ active' = fd /\ dir' = dir \cup {fd}
      /\ stableFiles' = RestoredStreams(dir \ {fd})
      /\ newStableFiles' = newStableFiles
  BY DEF Open, workerVars
<1>2. fd \in Nat /\ dir \cup {fd} = 0..fd /\ dir \ {fd} = 0..(fd - 1)
  BY <1>1, ActivePathIsLast DEF IInv, FilesContiguous, DirContiguous
<1>3. newStableFiles = {}
  BY <1>1 DEF IInv, BatchProgress
<1>4. DOMAIN stableFiles' = 0..(fd - 1) /\ (getActiveFD)' = fd
  BY <1>1, <1>2, UpTo DEF RestoredStreams, getActiveFD
<1> QED
  BY <1>1, <1>2, <1>3, <1>4
     DEF FilesContiguous, StableContiguous, DirContiguous, NewContiguous,
         NewUnpublished, AllPublished, Top

(* When the process ends the files stay where they are.                    *)
LEMMA EndFiles == ASSUME IInv, wpc # "down", ProcessEnds, dir' = dir
                  PROVE  FilesContiguous'
<1>1. wpc' = "down" /\ stableFiles' = [fd \in {} |-> 0] /\ newStableFiles' = {}
  BY DEF ProcessEnds
<1>2. (getActiveFD)' = 0
  BY <1>1, FS_EmptySet DEF getActiveFD
<1>3. dir = 0..active /\ active \in Nat
  BY DEF IInv, TypeOK, StoreType, FilesContiguous, DirContiguous
<1>4. Cardinality(dir) = active + 1
  BY <1>3, FS_Interval
<1> QED
  BY <1>1, <1>2, <1>3, <1>4
     DEF FilesContiguous, StableContiguous, DirContiguous, NewContiguous,
         NewUnpublished, AllPublished, Top

-----------------------------------------------------------------------------
(* Every step keeps the numbers of the files contiguous.                   *)
LEMMA FilesStep == ASSUME IInv, [Next]_vars
                   PROVE  FilesContiguous'
<1> USE DEF diskVars, storeVars, mapVars, workerVars, promiseVars, clientVars
<1>0. FilesContiguous /\ active \in Nat
  BY DEF IInv, TypeOK, StoreType
<1>1. ASSUME NEW c \in Clients, Client(c)
      PROVE  FilesContiguous'
  BY <1>0, <1>1, ClientLeavesFiles, FilesUntouched
<1>2. CASE Swap
  <2>1. wpc = "swap" /\ wpc' = "write" /\ newStableFiles' = {}
        /\ UNCHANGED <<dir, active, stableFiles>>
    BY <1>2 DEF Swap
  <2> QED
    BY <1>0, <2>1 DEF FilesContiguous, StableContiguous, DirContiguous,
         NewContiguous, NewUnpublished, AllPublished, getActiveFD, Top
<1>3. ASSUME NEW flush \in Flushes, CommitRecord(flush)
      PROVE  FilesContiguous'
  <2>1. wpc = "write" /\ wpc' \in {"write", "rotate"}
        /\ UNCHANGED <<dir, active, stableFiles, newStableFiles>>
    BY <1>3 DEF CommitRecord
  <2> QED
    BY <1>0, <2>1 DEF FilesContiguous, StableContiguous, DirContiguous,
         NewContiguous, NewUnpublished, AllPublished, getActiveFD, Top
<1>4. CASE Rotate
  <2>1. wpc = "rotate" /\ wpc' = "create" /\ UNCHANGED <<active, stableFiles>>
        /\ newStableFiles' = newStableFiles \cup {NextFD}
        /\ dir' = dir \cup {NextFD}
    BY <1>4 DEF Rotate
  <2>2. NextFD = active
    BY <1>0, <2>1, NextFDIsTop DEF Top
  <2> QED
    BY <1>0, <2>1, <2>2 DEF FilesContiguous, StableContiguous, DirContiguous,
         NewContiguous, NewUnpublished, AllPublished, getActiveFD, Top
<1>5. CASE CreateActive
  <2>1. wpc = "create" /\ wpc' = "write"
        /\ UNCHANGED <<stableFiles, newStableFiles>>
        /\ active' = NextFD /\ dir' = dir \cup {NextFD}
    BY <1>5 DEF CreateActive
  <2>2. NextFD = active + 1
    BY <1>0, <2>1, NextFDIsTop DEF Top
  <2> QED
    BY <1>0, <2>1, <2>2 DEF FilesContiguous, StableContiguous, DirContiguous,
         NewContiguous, NewUnpublished, AllPublished, getActiveFD, Top
<1>6. CASE InsertBegin
  <2>1. wpc = "write" /\ wpc' = "inserting"
        /\ UNCHANGED <<dir, active, stableFiles, newStableFiles>>
    BY <1>6 DEF InsertBegin
  <2> QED
    BY <1>0, <2>1 DEF FilesContiguous, StableContiguous, DirContiguous,
         NewContiguous, NewUnpublished, AllPublished, getActiveFD, Top
<1>7. CASE InsertStable
  <2> DEFINE m == getActiveFD
  <2>1. PICK fd \in newStableFiles \ DOMAIN stableFiles :
             /\ \A other \in newStableFiles \ DOMAIN stableFiles : fd <= other
             /\ DOMAIN stableFiles' = DOMAIN stableFiles \cup {fd}
    BY <1>7 DEF InsertStable
  <2>2. wpc = "inserting" /\ UNCHANGED <<dir, active, newStableFiles, wpc>>
    BY <1>7 DEF InsertStable
  <2>3. m \in Nat /\ DOMAIN stableFiles = 0..(m - 1) /\ m <= active
        /\ newStableFiles \ DOMAIN stableFiles = m..(active - 1)
    BY <1>0, <2>2 DEF FilesContiguous, StableContiguous, NewContiguous, Top
  <2>4. fd = m
    <3> HIDE DEF m
    <3> QED BY <1>0, <2>1, <2>3
  <2>5. DOMAIN stableFiles' = 0..m
    BY <2>1, <2>3, <2>4
  <2>6. (getActiveFD)' = m + 1
    BY <2>3, <2>5, FS_Interval DEF getActiveFD
  <2>7. newStableFiles' \ DOMAIN stableFiles' = (m + 1)..(active - 1)
        /\ m + 1 <= active
    BY <1>0, <2>1, <2>2, <2>3, <2>4
  <2> QED
    BY <1>0, <2>2, <2>3, <2>5, <2>6, <2>7
       DEF FilesContiguous, StableContiguous, DirContiguous, NewContiguous,
           NewUnpublished, AllPublished, Top
<1>8. CASE InsertEnd
  <2>1. wpc = "inserting" /\ wpc' \in {"apply", "clear"}
        /\ UNCHANGED <<dir, active, stableFiles, newStableFiles>>
        /\ newStableFiles \ DOMAIN stableFiles = {}
    BY <1>8 DEF InsertEnd
  <2>2. getActiveFD = active
    BY <1>0, <2>1
       DEF FilesContiguous, StableContiguous, NewContiguous, Top
  <2> QED
    BY <1>0, <2>1, <2>2 DEF FilesContiguous, StableContiguous, DirContiguous,
         NewContiguous, NewUnpublished, AllPublished, getActiveFD, Top
<1>9. CASE ClearActiveMap \/ ApplyValue \/ ApplyHint \/ Acknowledge
           \/ CheckRunning
  <2>1. wpc \in {"clear", "apply", "index", "ack", "check"}
        /\ wpc' \in {"apply", "index", "ack", "swap", "exited"}
        /\ UNCHANGED <<dir, active, stableFiles, newStableFiles>>
    BY <1>9 DEF ClearActiveMap, ApplyValue, ApplyHint, Acknowledge, CheckRunning
  <2> QED
    BY <1>0, <2>1 DEF FilesContiguous, StableContiguous, DirContiguous,
         NewContiguous, NewUnpublished, AllPublished, getActiveFD, Top
<1>10. CASE CommitDone
  <2>1. wpc = "apply" /\ wpc' = "check" /\ newStableFiles' = {}
        /\ UNCHANGED <<dir, active, stableFiles>>
    BY <1>10 DEF CommitDone
  <2> QED
    BY <1>0, <2>1 DEF FilesContiguous, StableContiguous, DirContiguous,
         NewContiguous, NewUnpublished, AllPublished, getActiveFD, Top
<1>11. CASE Open
  BY <1>11, OpenFiles
<1>12. CASE Close \/ UNCHANGED vars
  BY <1>0, <1>12, FilesUntouched DEF Close, vars
<1>13. CASE Destroy \/ Crash
  BY <1>13, EndFiles DEF Destroy, Crash
<1> QED
  BY <1>1, <1>2, <1>3, <1>4, <1>5, <1>6, <1>7, <1>8, <1>9, <1>10, <1>11, <1>12,
     <1>13 DEF Next, Worker

-----------------------------------------------------------------------------
(* What a step does to the log.                                            *)

(* CreateActive finds no file of its number: it never truncates one.       *)
LEMMA CreateTruncatesNothing ==
    ASSUME IInv, CreateActive
    PROVE  NextFD \notin dir /\ UNCHANGED <<log, synced>>
<1>1. wpc = "create" /\ FilesContiguous /\ active \in Nat
  BY DEF CreateActive, IInv, TypeOK, StoreType
<1>2. NextFD = active + 1 /\ dir = 0..active
  BY <1>1, NextFDIsTop DEF Top, FilesContiguous, DirContiguous
<1>3. NextFD \notin dir
  BY <1>1, <1>2
<1> QED
  BY <1>3 DEF CreateActive

(* CommitRecord appends the record of the next write to the active file.   *)
LEMMA CommitRecordAppends ==
    ASSUME IInv, NEW flush \in Flushes, CommitRecord(flush)
    PROVE  LET w == batch[Len(records) + 1]
               r == WriteRecord(w, active, FileSize(log, active))
           IN  /\ w \in Write
               /\ r \in LogRecord /\ r.fd = active /\ r.off >= KeySize[r.key]
               /\ log' = Append(log, r)
<1>1. Len(records) < Len(batch) /\ batch \in Seq(Write) /\ records \in Seq(Hint)
      /\ log \in Seq(LogRecord) /\ active \in Nat
  BY DEF CommitRecord, IInv, TypeOK, DiskType, StoreType, WorkerType
<1>2. Len(records) + 1 \in 1..Len(batch)
  BY <1>1
<1>3. batch[Len(records) + 1] \in Write
  BY <1>1, <1>2, ElementOfSeq
<1>4. FileSize(log, active) \in Nat
  BY <1>1, FileSizeType
<1> QED
  BY <1>1, <1>3, <1>4, WriteRecordType DEF CommitRecord

(* A crash keeps a prefix of the log, of whose last record the value may   *)
(* be cut off.                                                             *)
LEMMA CrashKeepsPrefix ==
    ASSUME IInv, Crash
    PROVE  /\ log' \in Seq(LogRecord) /\ synced' = Len(log')
           /\ DOMAIN log' \subseteq DOMAIN log
           /\ \A i \in DOMAIN log' : /\ log'[i].fd = log[i].fd
                                     /\ log'[i].off = log[i].off
                                     /\ log'[i].key = log[i].key
                                     /\ log'[i].id = log[i].id
           /\ \A i \in DOMAIN log' : \/ log'[i] = log[i]
                                     \/ /\ i = Len(log')
                                        /\ log'[i].end >= log[i].off - KeySize[log[i].key]
<1> DEFINE kept == SubSeq(log, 1, synced)
<1>1. log \in Seq(LogRecord) /\ synced \in 0..Len(log)
  BY DEF IInv, TypeOK, DiskType
<1>2. /\ kept \in Seq(LogRecord) /\ Len(kept) = synced
      /\ \A i \in 1..synced : kept[i] = log[i]
  BY <1>1, SubSeqProperties
<1>3. CASE headOut
  <2> DEFINE r == log[synced + 1]
  <2>1. synced < Len(log)
    BY <1>3 DEF IInv, BatchProgress
  <2>2. r \in LogRecord /\ r.off >= KeySize[r.key] /\ KeySize[r.key] \in Nat
        /\ r.off \in Nat
    <3>1. synced + 1 \in 1..Len(log) /\ synced + 1 \in DOMAIN log
      BY <1>1, <2>1
    <3>2. r \in LogRecord
      BY <1>1, <3>1, ElementOfSeq
    <3> QED
      BY <3>1, <3>2, SizeAssumption DEF IInv, LogInFiles, LogRecord
  <2>3. PICK cut \in {r.off - KeySize[r.key], r.off} :
             log' = Append(kept, [r EXCEPT !.end = cut]) /\ synced' = synced + 1
    BY <1>3 DEF Crash
  <2> DEFINE torn == [r EXCEPT !.end = cut]
  <2>4. cut \in Nat
    BY <2>2
  <2>5. torn \in LogRecord /\ torn.fd = r.fd /\ torn.off = r.off
        /\ torn.key = r.key /\ torn.id = r.id
        /\ torn.end >= r.off - KeySize[r.key]
    BY <2>2, <2>4 DEF LogRecord
  <2> HIDE DEF torn, kept, r
  <2>6. /\ log' \in Seq(LogRecord) /\ Len(log') = synced + 1
        /\ log'[synced + 1] = torn /\ \A i \in 1..synced : log'[i] = log[i]
    BY <1>1, <1>2, <2>3, <2>5 DEF torn
  <2>7. DOMAIN log' = 1..(synced + 1) /\ DOMAIN log = 1..Len(log)
    BY <1>1, <2>6
  <2>8. \A i \in DOMAIN log' : log'[i] = log[i] \/ i = Len(log')
    BY <1>1, <2>6, <2>7
  <2>9. Len(log') = synced + 1 /\ log[synced + 1] = r
    BY <2>6 DEF r
  <2>10. DOMAIN log' \subseteq DOMAIN log /\ synced' = Len(log')
    BY <1>1, <2>1, <2>3, <2>6, <2>7
  <2>11. log'[Len(log')] = torn /\ log[Len(log')] = r
    BY <2>6, <2>9
  <2> QED
    BY <2>5, <2>6, <2>8, <2>10, <2>11
<1>4. CASE ~headOut
  <2>1. log' = kept /\ synced' = synced
    BY <1>4 DEF Crash
  <2> HIDE DEF kept
  <2> QED
    BY <1>1, <1>2, <2>1
<1> QED
  BY <1>3, <1>4

(* All other steps leave the log alone and no file disappears.             *)
LEMMA LogUntouched ==
    ASSUME IInv, [Next]_vars, ~Crash, \A flush \in Flushes : ~CommitRecord(flush)
    PROVE  log' = log /\ dir \subseteq dir'
<1> USE DEF diskVars
<1>1. ASSUME NEW c \in Clients, Client(c)
      PROVE  log' = log /\ dir' = dir
  BY <1>1, ClientLeavesFiles
<1>2. CASE CreateActive
  BY <1>2, CreateTruncatesNothing DEF CreateActive
<1>3. CASE Rotate \/ Open \/ Destroy \/ Close
  BY <1>3 DEF Rotate, Open, Destroy, Close
<1>4. CASE \/ Swap \/ InsertBegin \/ InsertStable \/ InsertEnd \/ ClearActiveMap
           \/ ApplyValue \/ ApplyHint \/ Acknowledge \/ CommitDone
           \/ CheckRunning
  BY <1>4 DEF Swap, InsertBegin, InsertStable, InsertEnd, ClearActiveMap,
       ApplyValue, ApplyHint, Acknowledge, CommitDone, CheckRunning
<1>5. CASE UNCHANGED vars
  BY <1>5 DEF vars
<1> QED
  BY <1>1, <1>2, <1>3, <1>4, <1>5 DEF Next, Worker

(* Every step keeps the records inside the directory.                      *)
LEMMA LogStep == ASSUME IInv, [Next]_vars
                 PROVE  LogInFiles'
<1>1. LogInFiles /\ FilesContiguous /\ log \in Seq(LogRecord)
  BY DEF IInv, TypeOK, DiskType
<1>2. ASSUME NEW flush \in Flushes, CommitRecord(flush)
      PROVE  LogInFiles'
  <2> DEFINE r == WriteRecord(batch[Len(records) + 1], active, FileSize(log, active))
  <2>1. r \in LogRecord /\ r.fd = active /\ r.off >= KeySize[r.key]
        /\ log' = Append(log, r)
    BY <1>2, CommitRecordAppends
  <2>2. dir' = dir /\ active \in dir
    BY <1>1, <1>2
       DEF CommitRecord, FilesContiguous, DirContiguous, IInv, TypeOK,
           StoreType
  <2> HIDE DEF r
  <2>3. \A i \in DOMAIN log' : log'[i] = r \/ (i \in DOMAIN log /\ log'[i] = log[i])
    BY <1>1, <2>1
  <2> QED
    BY <1>1, <2>1, <2>2, <2>3 DEF LogInFiles
<1>3. CASE Crash
  <2>1. dir' = dir
    BY <1>3 DEF Crash
  <2> QED
    BY <1>1, <1>3, <2>1, CrashKeepsPrefix DEF LogInFiles
<1>4. CASE ~Crash /\ \A flush \in Flushes : ~CommitRecord(flush)
  BY <1>1, <1>4, LogUntouched DEF LogInFiles
<1> QED
  BY <1>2, <1>3, <1>4

-----------------------------------------------------------------------------
(* Every step keeps the places in batch and buffer consistent.             *)
LEMMA ProgressStep == ASSUME IInv, [Next]_vars
                      PROVE  BatchProgress'
<1> USE DEF diskVars, storeVars, mapVars, workerVars, promiseVars, clientVars
<1>0. /\ BatchProgress /\ log \in Seq(LogRecord) /\ synced \in 0..Len(log)
      /\ batch \in Seq(Write) /\ records \in Seq(Hint) /\ applied \in Nat
      /\ writes \in Seq(Write)
  BY DEF IInv, TypeOK, DiskType, WorkerType, PromiseType
<1>1. ASSUME NEW c \in Clients, Client(c)
      PROVE  BatchProgress'
  BY <1>0, <1>1, ClientLeavesFiles DEF BatchProgress
<1>2. CASE Swap
  BY <1>0, <1>2 DEF Swap, BatchProgress
<1>3. ASSUME NEW flush \in Flushes, CommitRecord(flush)
      PROVE  BatchProgress'
  <2>1. /\ Len(records) < Len(batch) /\ batch' = batch
        /\ wpc' \in {"write", "rotate"}
        /\ headOut' = IF flush = "never" THEN headOut ELSE flush = "early"
        /\ synced' = CASE flush = "never" -> synced
                       [] flush = "early" -> Len(log)
                       [] flush = "late"  -> Len(log) + 1
    BY <1>3 DEF CommitRecord
  <2>2. Len(records') = Len(records) + 1
    BY <1>0, <1>3 DEF CommitRecord
  <2>3. Len(log') = Len(log) + 1
    BY <1>0, <1>3, CommitRecordAppends
  <2>4. headOut' => synced' < Len(log')
    <3>1. CASE flush = "never"
      BY <1>0, <2>1, <2>3, <3>1 DEF BatchProgress
    <3>2. CASE flush = "early"
      BY <1>0, <2>1, <2>3, <3>2
    <3>3. CASE flush = "late"
      BY <2>1, <3>3
    <3> QED
      BY <3>1, <3>2, <3>3, ConfigAssumption
  <2>5. Len(records') <= Len(batch')
    BY <1>0, <2>1, <2>2
  <2> HIDE DEF diskVars, storeVars, mapVars, workerVars, promiseVars, clientVars
  <2> QED
    BY <2>1, <2>4, <2>5 DEF BatchProgress
<1>4. CASE Rotate
  BY <1>0, <1>4 DEF Rotate, FlushAll, BatchProgress
<1>5. CASE CreateActive
  BY <1>0, <1>5, CreateTruncatesNothing DEF CreateActive, BatchProgress
<1>6. CASE InsertBegin \/ InsertStable \/ InsertEnd \/ ClearActiveMap
  BY <1>0, <1>6
     DEF InsertBegin, InsertStable, InsertEnd, ClearActiveMap, BatchProgress
<1>7. CASE ApplyValue \/ ApplyHint \/ Acknowledge
  BY <1>0, <1>7 DEF ApplyValue, ApplyHint, Acknowledge, BatchProgress
<1>8. CASE CommitDone \/ CheckRunning
  BY <1>0, <1>8 DEF CommitDone, CheckRunning, BatchProgress
<1>9. CASE Open \/ Close \/ UNCHANGED vars
  BY <1>0, <1>9 DEF Open, Close, vars, BatchProgress
<1>10. CASE Destroy \/ Crash
  BY <1>0, <1>10 DEF Destroy, Crash, FlushAll, ProcessEnds, BatchProgress
<1> QED
  BY <1>1, <1>2, <1>3, <1>4, <1>5, <1>6, <1>7, <1>8, <1>9, <1>10
     DEF Next, Worker

-----------------------------------------------------------------------------
(* Every step keeps the types, one group of variables at a time.           *)
LEMMA DiskTypeStep == ASSUME IInv, [Next]_vars
                      PROVE  DiskType'
<1> USE DEF diskVars
<1>0. DiskType /\ FilesContiguous /\ FilesContiguous' /\ active \in Nat
  BY FilesStep DEF IInv, TypeOK, StoreType
<1>1. dir' \subseteq Nat
  <2>1. ASSUME NEW c \in Clients, Client(c)
        PROVE  dir' \subseteq Nat
    BY <1>0, <2>1, ClientLeavesFiles DEF DiskType
  <2>2. CASE Rotate \/ CreateActive
    <3>1. NextFD \in Nat
      BY <1>0, <2>2, NextFDIsTop DEF Rotate, CreateActive, Top
    <3> QED
      BY <1>0, <2>2, <3>1 DEF Rotate, CreateActive, DiskType
  <2>3. CASE Open
    <3>1. dir' = dir \cup {ActivePath(dir)} /\ wpc = "down"
      BY <2>3 DEF Open
    <3>2. ActivePath(dir) \in Nat
      BY <1>0, <3>1, ActivePathIsLast DEF FilesContiguous, DirContiguous
    <3> QED
      BY <1>0, <3>1, <3>2 DEF DiskType
  <2>4. CASE \/ Swap \/ (\E flush \in Flushes : CommitRecord(flush))
             \/ InsertBegin \/ InsertStable \/ InsertEnd \/ ClearActiveMap
             \/ ApplyValue \/ ApplyHint \/ Acknowledge \/ CommitDone
             \/ CheckRunning \/ Close \/ Destroy \/ Crash \/ UNCHANGED vars
    <3>1. dir' = dir
      BY <2>4 DEF Swap, CommitRecord, InsertBegin, InsertStable, InsertEnd,
           ClearActiveMap, ApplyValue, ApplyHint, Acknowledge, CommitDone,
           CheckRunning, Close, Destroy, Crash, vars
    <3> QED BY <1>0, <3>1 DEF DiskType
  <2> QED
    BY <2>1, <2>2, <2>3, <2>4 DEF Next, Worker
<1>2. log' \in Seq(LogRecord) /\ synced' \in 0..Len(log') /\ headOut' \in BOOLEAN
  <2>1. CASE Crash
    <3>1. log' \in Seq(LogRecord) /\ synced' = Len(log')
      BY <2>1, CrashKeepsPrefix
    <3>2. headOut' = FALSE
      BY <2>1 DEF Crash
    <3>3. synced' \in 0..Len(log')
      BY <3>1
    <3> QED
      BY <3>1, <3>2, <3>3
  <2>2. ASSUME NEW flush \in Flushes, CommitRecord(flush)
        PROVE  /\ log' \in Seq(LogRecord) /\ synced' \in 0..Len(log')
               /\ headOut' \in BOOLEAN
    <3> DEFINE r == WriteRecord(batch[Len(records) + 1], active, FileSize(log, active))
    <3>1. r \in LogRecord /\ log' = Append(log, r)
      BY <2>2, CommitRecordAppends
    <3> HIDE DEF r
    <3>2. log' \in Seq(LogRecord) /\ Len(log') = Len(log) + 1
          /\ Len(log) \in Nat /\ synced \in 0..Len(log)
      BY <1>0, <3>1 DEF DiskType
    <3>3. synced' \in {synced, Len(log), Len(log) + 1}
          /\ headOut' \in {headOut, TRUE, FALSE}
      <4>1. flush \in {"never", "early", "late"}
        BY ConfigAssumption
      <4> QED
        BY <2>2, <4>1 DEF CommitRecord
    <3>4. headOut' \in BOOLEAN
      BY <1>0, <3>3 DEF DiskType
    <3> QED BY <3>2, <3>3, <3>4
  <2>3. CASE ~Crash /\ \A flush \in Flushes : ~CommitRecord(flush)
    <3>1. log' = log
      BY <2>3, LogUntouched
    <3>2. \/ synced' = Len(log) /\ headOut' = FALSE
          \/ synced' = synced /\ headOut' = headOut
      <4>1. ASSUME NEW c \in Clients, Client(c)
            PROVE  synced' = synced /\ headOut' = headOut
        BY <4>1, ClientLeavesFiles
      <4>2. CASE CreateActive
        BY <4>2, CreateTruncatesNothing DEF CreateActive
      <4>3. CASE Rotate \/ Destroy
        BY <4>3 DEF Rotate, Destroy, FlushAll
      <4>4. CASE \/ Swap \/ InsertBegin \/ InsertStable \/ InsertEnd
                 \/ ClearActiveMap \/ ApplyValue \/ ApplyHint \/ Acknowledge
                 \/ CommitDone \/ CheckRunning \/ Close \/ Open \/ UNCHANGED vars
        BY <4>4 DEF Swap, InsertBegin, InsertStable, InsertEnd, ClearActiveMap,
             ApplyValue, ApplyHint, Acknowledge, CommitDone, CheckRunning,
             Close, Open, vars
      <4> QED BY <2>3, <4>1, <4>2, <4>3, <4>4 DEF Next, Worker
    <3>3. synced' \in 0..Len(log')
      BY <1>0, <3>1, <3>2 DEF DiskType
    <3>4. headOut' \in BOOLEAN
      BY <1>0, <3>2 DEF DiskType
    <3> QED
      BY <1>0, <3>1, <3>3, <3>4 DEF DiskType
  <2> QED BY <2>1, <2>2, <2>3
<1> QED
  BY <1>1, <1>2 DEF DiskType

(* The hint that a restart makes of a record has the type of hints.        *)
LEMMA RestoredTypes ==
    ASSUME log \in Seq(LogRecord), NEW fd, NEW k \in Keys,
           Cardinality(dir \ {fd}) \in Nat
    PROVE  /\ RestoredHint(log, fd, dir, k) \in Hint
           /\ RestoredValue(log, fd, k) \in Stored \cup {NotFound}
<1>1. ASSUME NEW fds
      PROVE  LastScanned(log, fd, fds, k) \subseteq DOMAIN log
  BY DEF LastScanned
<1>2. ASSUME NEW i \in DOMAIN log
      PROVE  /\ log[i].fd \in Nat /\ log[i].off \in Nat /\ log[i].id \in Nat
             /\ log[i].val \in Stored /\ ValueSize[log[i].val] \in Nat
  <2>1. log[i] \in LogRecord
    BY <1>2, ElementOfSeq
  <2>2. log[i].val \in Stored
    BY <2>1 DEF LogRecord
  <2> QED
    BY <2>1, <2>2, SizeAssumption DEF LogRecord
<1>3. RestoredHint(log, fd, dir, k) \in Hint
  <2> DEFINE last == LastScanned(log, fd, dir, k)
             i == CHOOSE i \in last : TRUE
  <2>1. CASE last = {}
    BY <2>1 DEF RestoredHint, Hint, NoHint
  <2>2. CASE last # {}
    <3>1. i \in DOMAIN log
      BY <1>1, <2>2
    <3> DEFINE hint == [fd |-> IF log[i].fd = fd THEN StableCount(dir, fd)
                               ELSE log[i].fd,
                        off |-> log[i].off, size |-> ValueSize[log[i].val],
                        id |-> log[i].id]
    <3>2. RestoredHint(log, fd, dir, k) = hint
      BY <2>2 DEF RestoredHint
    <3> HIDE DEF i
    <3>3. hint \in Hint
      BY <1>2, <3>1 DEF Hint, StableCount
    <3> QED BY <3>2, <3>3
  <2> QED BY <2>1, <2>2
<1>4. RestoredValue(log, fd, k) \in Stored \cup {NotFound}
  <2> DEFINE last == LastScanned(log, fd, {fd}, k)
             i == CHOOSE i \in last : TRUE
  <2>1. CASE last = {}
    BY <2>1 DEF RestoredValue
  <2>2. CASE last # {}
    <3>1. i \in DOMAIN log
      BY <1>1, <2>2
    <3>2. RestoredValue(log, fd, k) = log[i].val
      BY <2>2 DEF RestoredValue
    <3> QED BY <1>2, <3>1, <3>2
  <2> QED BY <2>1, <2>2
<1> QED
  BY <1>3, <1>4

(* Every step keeps the types of the active file and of the maps.          *)
LEMMA StoreTypeStep == ASSUME IInv, [Next]_vars
                       PROVE  StoreType'
<1> USE DEF storeVars, mapVars
<1>0. /\ DiskType /\ StoreType /\ WorkerType /\ ClientType
      /\ FilesContiguous /\ FilesContiguous' /\ BatchProgress
      /\ DOMAIN stableFiles' \subseteq Nat
  BY FilesStep DEF IInv, TypeOK, FilesContiguous, StableContiguous
<1>1. ASSUME NEW c \in Clients, Client(c)
      PROVE  StoreType'
  <2>1. UNCHANGED <<active, lag, recordMap, activeMap>>
    BY <1>1, ClientLeavesFiles
  <2>2. chint[c] \in Hint
    BY <1>0 DEF ClientType
  <2>3. CASE GetSeek(c)
    BY <1>0, <2>1, <2>2, <2>3 DEF GetSeek, StoreType, Hint
  <2>4. CASE GetRead(c)
    <3> DEFINE fd == chint[c].fd
               after == StreamAfter(fd, stableFiles[fd], chint[c].size)
    <3>1. stableFiles' = [stableFiles EXCEPT ![fd] = after]
      BY <2>4 DEF GetRead
    <3>2. fd \in DOMAIN stableFiles => after \in Int
      BY <1>0, <2>2 DEF StreamAfter, StoreType, Hint, Failed
    <3> HIDE DEF after, fd
    <3> QED BY <1>0, <2>1, <3>1, <3>2 DEF StoreType
  <2>5. CASE ~GetSeek(c) /\ ~GetRead(c)
    <3>1. stableFiles' = stableFiles
      BY <1>1, <2>5 DEF Client, Put, PutAsync, Delete, DeleteMiss, FutureReady,
         GetLookup, GetCompare, GetActive, GetMiss, Return
    <3> QED BY <1>0, <2>1, <3>1 DEF StoreType
  <2> QED BY <2>3, <2>4, <2>5
<1>2. ASSUME NEW flush \in Flushes, CommitRecord(flush)
      PROVE  StoreType'
  <2>1. UNCHANGED <<active, mapVars>> /\ lag' \in {lag, 0}
    BY <1>2 DEF CommitRecord
  <2> QED BY <1>0, <2>1 DEF StoreType
<1>3. CASE CreateActive
  <2>1. NextFD \in Nat
    BY <1>0, <1>3, NextFDIsTop DEF CreateActive, Top, StoreType
  <2> QED
    BY <1>0, <1>3, <2>1 DEF CreateActive, StoreType
<1>4. CASE InsertStable
  <2>1. PICK fd : stableFiles' = [f \in DOMAIN stableFiles \cup {fd} |->
                                    IF f = fd THEN 0 ELSE stableFiles[f]]
    BY <1>4 DEF InsertStable
  <2>2. stableFiles' \in [DOMAIN stableFiles' -> Int]
    BY <1>0, <2>1 DEF StoreType
  <2> QED
    BY <1>0, <1>4, <2>2 DEF InsertStable, StoreType
<1>5. CASE ClearActiveMap
  BY <1>0, <1>5 DEF ClearActiveMap, StoreType
<1>6. CASE ApplyValue
  <2>1. applied < Len(batch) /\ applied \in Nat /\ batch \in Seq(Write)
    BY <1>0, <1>6 DEF ApplyValue, WorkerType
  <2>2. applied + 1 \in 1..Len(batch)
    BY <2>1
  <2>3. batch[applied + 1] \in Write
    BY <2>1, <2>2, ElementOfSeq
  <2>4. batch[applied + 1].key \in Keys /\ batch[applied + 1].val \in Stored
    BY <2>3 DEF Write
  <2>5. activeMap' \in [Keys -> Stored \cup {NotFound}]
    BY <1>0, <1>6, <2>4 DEF ApplyValue, StoreType
  <2> QED
    BY <1>0, <1>6, <2>5 DEF ApplyValue, StoreType
<1>7. CASE ApplyHint
  <2>1. applied < Len(records) /\ applied \in Nat /\ records \in Seq(Hint)
    BY <1>0, <1>7 DEF ApplyHint, BatchProgress, WorkerType
  <2>2. applied + 1 \in 1..Len(records)
    BY <2>1
  <2>3. records[applied + 1] \in Hint
    BY <2>1, <2>2, ElementOfSeq
  <2>4. recordMap' \in [Keys -> Hint]
    BY <1>0, <1>7, <2>3 DEF ApplyHint, StoreType
  <2> QED
    BY <1>0, <1>7, <2>4 DEF ApplyHint, StoreType
<1>8. CASE Open
  <2> DEFINE fd == ActivePath(dir)
  <2>1. wpc = "down" /\ active' = fd /\ lag' = AppendLag(fd)
        /\ recordMap' = [k \in Keys |-> RestoredHint(log, fd, dir, k)]
        /\ activeMap' = [k \in Keys |-> RestoredValue(log, fd, k)]
        /\ stableFiles' = RestoredStreams(dir \ {fd})
    BY <1>8 DEF Open
  <2>2. fd \in Nat /\ dir \ {fd} = 0..(fd - 1)
    BY <1>0, <2>1, ActivePathIsLast DEF FilesContiguous, DirContiguous
  <2>3. Cardinality(dir \ {fd}) \in Nat
    BY <2>2, UpTo
  <2>4. lag' \in Nat
    BY <1>0, <2>1, FileSizeType DEF AppendLag, DiskType
  <2>5. recordMap' \in [Keys -> Hint]
        /\ activeMap' \in [Keys -> Stored \cup {NotFound}]
    <3> HIDE DEF fd
    <3> QED BY <1>0, <2>1, <2>3, RestoredTypes DEF DiskType
  <2>6. stableFiles' \in [DOMAIN stableFiles' -> Int]
    BY <2>1 DEF RestoredStreams, Failed
  <2> QED
    BY <1>0, <2>1, <2>2, <2>4, <2>5, <2>6 DEF StoreType
<1>9. CASE Destroy \/ Crash
  <2>1. ProcessEnds
    BY <1>9 DEF Destroy, Crash
  <2> QED
    BY <1>0, <2>1 DEF ProcessEnds, StoreType, Hint, NoHint
<1>10. CASE \/ Swap \/ Rotate \/ InsertBegin \/ InsertEnd \/ Acknowledge
            \/ CommitDone \/ CheckRunning \/ Close \/ UNCHANGED vars
  <2>1. UNCHANGED storeVars
    BY <1>10 DEF Swap, Rotate, InsertBegin, InsertEnd, Acknowledge, CommitDone,
         CheckRunning, Close, vars
  <2> QED BY <1>0, <2>1 DEF StoreType
<1> QED
  BY <1>1, <1>2, <1>3, <1>4, <1>5, <1>6, <1>7, <1>8, <1>9, <1>10
     DEF Next, Worker

(* Every step keeps the types of the commit thread's variables.            *)
LEMMA WorkerTypeStep == ASSUME IInv, [Next]_vars
                        PROVE  WorkerType'
<1> USE DEF workerVars, WorkerPCs, CommitPCs
<1>0. /\ DiskType /\ StoreType /\ WorkerType /\ PromiseType /\ FilesContiguous
  BY DEF IInv, TypeOK
<1>1. ASSUME NEW c \in Clients, Client(c)
      PROVE  WorkerType'
  BY <1>0, <1>1, ClientLeavesFiles DEF WorkerType
<1>2. CASE Swap
  BY <1>0, <1>2 DEF Swap, WorkerType, PromiseType
<1>3. ASSUME NEW flush \in Flushes, CommitRecord(flush)
      PROVE  WorkerType'
  <2> DEFINE w == batch[Len(records) + 1]
             r == WriteRecord(w, active, FileSize(log, active))
             hint == [fd |-> HintFD,
                      off |-> r.off - (IF flush = "early" THEN 0 ELSE lag),
                      size |-> ValueSize[w.val], id |-> w.id]
  <2>1. w \in Write /\ r \in LogRecord
    BY <1>3, CommitRecordAppends
  <2>2. records' = Append(records, hint) /\ wpc' \in {"write", "rotate"}
        /\ UNCHANGED <<batch, newStableFiles, lastActiveWrite, applied>>
    BY <1>3 DEF CommitRecord
  <2>3. HintFD \in Nat
    BY <1>0 DEF HintFD, FilesContiguous, StableContiguous
  <2>4. w.id \in Nat /\ ValueSize[w.val] \in Nat
    BY <2>1, SizeAssumption DEF Write
  <2>5. r.off \in Nat /\ lag \in Nat
    BY <1>0, <2>1 DEF LogRecord, StoreType
  <2> HIDE DEF r, w
  <2>6. hint \in Hint
    BY <2>3, <2>4, <2>5 DEF Hint
  <2> HIDE DEF hint
  <2> QED
    BY <1>0, <2>2, <2>6 DEF WorkerType
<1>4. CASE Rotate
  <2>1. NextFD \in Nat
    BY <1>0, <1>4, NextFDIsTop DEF Rotate, Top, StoreType
  <2> QED
    BY <1>0, <1>4, <2>1 DEF Rotate, WorkerType
<1>5. CASE \/ CreateActive \/ InsertBegin \/ InsertStable \/ InsertEnd
           \/ ClearActiveMap
  BY <1>0, <1>5 DEF CreateActive, InsertBegin, InsertStable, InsertEnd,
     ClearActiveMap, WorkerType
<1>6. CASE ApplyValue \/ ApplyHint \/ Acknowledge \/ CheckRunning
  <2>1. wpc' \in WorkerPCs /\ applied' \in {applied, applied + 1}
        /\ UNCHANGED <<batch, records, newStableFiles, lastActiveWrite>>
    BY <1>6 DEF ApplyValue, ApplyHint, Acknowledge, CheckRunning
  <2> QED
    BY <1>0, <2>1 DEF WorkerType
<1>7. CASE CommitDone
  BY <1>0, <1>7 DEF CommitDone, WorkerType
<1>8. CASE Open \/ Close \/ UNCHANGED vars
  BY <1>0, <1>8 DEF Open, Close, vars, WorkerType
<1>9. CASE Destroy \/ Crash
  <2>1. ProcessEnds
    BY <1>9 DEF Destroy, Crash
  <2> QED
    BY <2>1 DEF ProcessEnds, WorkerType
<1> QED
  BY <1>1, <1>2, <1>3, <1>4, <1>5, <1>6, <1>7, <1>8, <1>9 DEF Next, Worker

(* Every step keeps the types of the queue and of the promises.            *)
LEMMA PromiseTypeStep == ASSUME IInv, [Next]_vars
                         PROVE  PromiseType'
<1> USE DEF promiseVars
<1>0. WorkerType /\ PromiseType /\ BatchProgress
  BY DEF IInv, TypeOK
<1>1. ASSUME NEW k \in Keys, NEW v \in Stored, Enqueue(k, v), UNCHANGED <<running, acked>>
      PROVE  PromiseType'
  <2> DEFINE w == [key |-> k, val |-> v, id |-> issued + 1]
  <2>1. w \in Write
    BY <1>0 DEF PromiseType, Write
  <2>2. writes' = Append(writes, w) /\ issued' = issued + 1
    BY <1>1 DEF Enqueue
  <2> HIDE DEF w
  <2> QED
    BY <1>0, <1>1, <2>1, <2>2 DEF PromiseType
<1>2. ASSUME NEW c \in Clients, Client(c)
      PROVE  PromiseType'
  <2>1. ASSUME NEW k \in Keys, NEW v \in Vals, Put(c, k, v) \/ PutAsync(c, k, v)
        PROVE  PromiseType'
    BY <1>1, <2>1 DEF Put, PutAsync, Stored
  <2>2. ASSUME NEW k \in Keys, Delete(c, k)
        PROVE  PromiseType'
    BY <1>1, <2>2 DEF Delete, Stored
  <2>3. CASE UNCHANGED <<writes, issued>>
    BY <1>0, <1>2, <2>3, ClientLeavesFiles DEF PromiseType
  <2> QED
    BY <1>2, <2>1, <2>2, <2>3
       DEF Client, DeleteMiss, FutureReady, GetLookup, GetCompare, GetActive,
           GetMiss, GetSeek, GetRead, GetReturns, Return
<1>3. CASE Swap
  BY <1>0, <1>3 DEF Swap, PromiseType
<1>4. CASE Acknowledge
  <2>1. applied < Len(batch) /\ applied \in Nat /\ batch \in Seq(Write)
    BY <1>0, <1>4 DEF Acknowledge, BatchProgress, WorkerType
  <2>2. applied + 1 \in 1..Len(batch)
    BY <2>1
  <2>3. batch[applied + 1] \in Write
    BY <2>1, <2>2, ElementOfSeq
  <2> QED
    BY <1>0, <1>4, <2>3 DEF Acknowledge, PromiseType
<1>5. CASE Open
  BY <1>0, <1>5 DEF Open, PromiseType
<1>6. CASE Close
  BY <1>0, <1>6 DEF Close, PromiseType
<1>7. CASE Destroy \/ Crash
  <2>1. ProcessEnds
    BY <1>7 DEF Destroy, Crash
  <2>2. running' = FALSE /\ writes' = <<>> /\ UNCHANGED <<issued, acked>>
    BY <2>1 DEF ProcessEnds
  <2>3. writes' \in Seq(Write)
    BY <2>2
  <2> HIDE DEF promiseVars
  <2> QED
    BY <1>0, <2>2, <2>3 DEF PromiseType
<1>8. CASE \/ (\E flush \in Flushes : CommitRecord(flush)) \/ Rotate
           \/ CreateActive \/ InsertBegin \/ InsertStable \/ InsertEnd
           \/ ClearActiveMap \/ ApplyValue \/ ApplyHint \/ CommitDone
           \/ CheckRunning \/ UNCHANGED vars
  <2>1. UNCHANGED <<writes, running, issued, acked>>
    BY <1>8 DEF CommitRecord, Rotate, CreateActive, InsertBegin, InsertStable,
         InsertEnd, ClearActiveMap, ApplyValue, ApplyHint, CommitDone,
         CheckRunning, vars
  <2> QED BY <1>0, <2>1 DEF PromiseType
<1> QED
  BY <1>2, <1>3, <1>4, <1>5, <1>6, <1>7, <1>8 DEF Next, Worker

(* What a Get hands to its caller has the type of results.                 *)
LEMMA OutcomeType ==
    ASSUME NEW v, v \in Stored \cup {EmptyValue, Garbage, NotFound}
    PROVE  Outcome(v) \in Returned
BY DEF Outcome, Returned

(* A read of a stable file yields a stored value, "" or wrong bytes.       *)
LEMMA StreamReadType ==
    ASSUME log \in Seq(LogRecord), NEW fd, NEW at, NEW size
    PROVE  StreamRead(fd, at, size) \in Stored \cup {EmptyValue, Garbage}
<1> DEFINE hit == {i \in DOMAIN log : /\ log[i].fd = fd /\ Whole(log[i])
                                     /\ log[i].off = at
                                     /\ ValueSize[log[i].val] = size}
           i == CHOOSE i \in hit : TRUE
<1>1. CASE PastEnd(fd, at, size)
  BY <1>1 DEF StreamRead
<1>2. CASE ~PastEnd(fd, at, size) /\ hit = {}
  BY <1>2 DEF StreamRead, ReadValue
<1>3. CASE ~PastEnd(fd, at, size) /\ hit # {}
  <2>1. StreamRead(fd, at, size) = log[i].val
    BY <1>3 DEF StreamRead, ReadValue
  <2>2. i \in DOMAIN log
    BY <1>3
  <2>3. log[i] \in LogRecord
    BY <2>2, ElementOfSeq
  <2> QED BY <2>1, <2>3 DEF LogRecord
<1> QED
  BY <1>1, <1>2, <1>3

(* The variables of the clients, and that a Get under way has a key.       *)
LEMMA ClientTypeStep == ASSUME IInv, [Next]_vars
                        PROVE  ClientType' /\ GetHasKey'
<1> USE DEF ClientPCs, ReadPCs
<1> DEFINE Goal == ClientType' /\ GetHasKey'
<1>0. /\ log \in Seq(LogRecord) /\ ClientType /\ GetHasKey
      /\ recordMap \in [Keys -> Hint] /\ issued \in Nat
      /\ activeMap \in [Keys -> Stored \cup {NotFound}]
  BY DEF IInv, TypeOK, DiskType, StoreType, PromiseType
<1>1. /\ NoHint \in Hint /\ FALSE \in Returned /\ TRUE \in Returned
      /\ NotFound \in Returned
  BY DEF NoHint, Hint, Returned
<1>2. ASSUME NEW c \in Clients, NEW k \in Keys, NEW v \in Vals,
             Put(c, k, v) \/ PutAsync(c, k, v)
      PROVE  Goal
  <2>1. CASE Put(c, k, v)
    BY <1>0, <2>1 DEF Put, ClientType, GetHasKey
  <2>2. CASE PutAsync(c, k, v)
    BY <1>0, <2>2 DEF PutAsync, clientVars, ClientType, GetHasKey
  <2> QED BY <1>2, <2>1, <2>2
<1>3. ASSUME NEW c \in Clients, NEW k \in Keys,
             Delete(c, k) \/ DeleteMiss(c, k) \/ GetLookup(c, k)
      PROVE  Goal
  <2>1. CASE Delete(c, k)
    BY <1>0, <2>1 DEF Delete, ClientType, GetHasKey
  <2>2. CASE DeleteMiss(c, k)
    BY <1>0, <1>1, <2>2 DEF DeleteMiss, ClientType, GetHasKey
  <2>3. CASE GetLookup(c, k)
    BY <1>0, <2>3 DEF GetLookup, ClientType, GetHasKey
  <2> QED BY <1>3, <2>1, <2>2, <2>3
<1>4. ASSUME NEW c \in Clients, FutureReady(c)
      PROVE  Goal
  <2>1. ret[c] \in Returned
    BY <1>0 DEF ClientType
  <2>2. PICK r \in Returned : ret' = [ret EXCEPT ![c] = r]
    BY <1>1, <1>4, <2>1 DEF FutureReady
  <2>3. PICK p \in {"idle", "deleted"} : pc' = [pc EXCEPT ![c] = p]
    BY <1>4 DEF FutureReady
  <2>4. cid' = [cid EXCEPT ![c] = 0] /\ UNCHANGED <<ckey, chint>>
    BY <1>4 DEF FutureReady
  <2> QED BY <1>0, <2>2, <2>3, <2>4 DEF ClientType, GetHasKey
<1>5. ASSUME NEW c \in Clients, Return(c)
      PROVE  Goal
  BY <1>0, <1>1, <1>5 DEF Return, ClientType, GetHasKey
<1>6. ASSUME NEW c \in Clients, GetCompare(c) \/ GetSeek(c)
      PROVE  Goal
  <2>1. PICK p \in {"active", "find", "read"} : pc' = [pc EXCEPT ![c] = p]
    BY <1>6 DEF GetCompare, GetSeek
  <2>2. pc[c] \in ReadPCs /\ UNCHANGED <<ckey, chint, cid, ret>>
    BY <1>6 DEF GetCompare, GetSeek
  <2> QED BY <1>0, <2>1, <2>2 DEF ClientType, GetHasKey
<1>7. ASSUME NEW c \in Clients, NEW v \in Returned, GetReturns(c, v)
      PROVE  Goal
  BY <1>0, <1>7 DEF GetReturns, ClientType, GetHasKey
<1>8. ASSUME NEW c \in Clients, GetActive(c) \/ GetMiss(c) \/ GetRead(c)
      PROVE  Goal
  <2>1. CASE GetActive(c)
    <3>1. ckey[c] \in Keys
      BY <1>0, <2>1 DEF GetActive, GetHasKey
    <3>2. Outcome(activeMap[ckey[c]]) \in Returned
      BY <1>0, <3>1, OutcomeType
    <3> QED BY <1>7, <2>1, <3>2 DEF GetActive
  <2>2. CASE GetMiss(c)
    BY <1>1, <1>7, <2>2 DEF GetMiss
  <2>3. CASE GetRead(c)
    <3> DEFINE v == StreamRead(chint[c].fd, stableFiles[chint[c].fd], chint[c].size)
    <3>1. v \in Stored \cup {EmptyValue, Garbage, NotFound}
      BY <1>0, StreamReadType
    <3>2. GetReturns(c, Outcome(v))
      BY <2>3 DEF GetRead
    <3> HIDE DEF v
    <3> QED BY <1>7, <3>1, <3>2, OutcomeType
  <2> QED BY <1>8, <2>1, <2>2, <2>3
<1>9. CASE Destroy \/ Crash
  <2>1. ProcessEnds
    BY <1>9 DEF Destroy, Crash
  <2> QED
    BY <1>1, <2>1 DEF ProcessEnds, ClientType, GetHasKey
<1>10. CASE UNCHANGED clientVars
  BY <1>0, <1>10 DEF clientVars, ClientType, GetHasKey
<1>11. Worker \/ Open \/ Close \/ UNCHANGED vars => UNCHANGED clientVars
  BY DEF Worker, Swap, CommitRecord, Rotate, CreateActive, InsertBegin,
     InsertStable, InsertEnd, ClearActiveMap, ApplyValue, ApplyHint, Acknowledge,
     CommitDone, CheckRunning, Open, Close, vars
<1> QED
  BY <1>2, <1>3, <1>4, <1>5, <1>6, <1>8, <1>9, <1>10, <1>11 DEF Next, Client

-----------------------------------------------------------------------------
(* The theorems.                                                           *)

(* The inductive invariant holds before the first process starts, ...      *)
LEMMA InitIInv == Init => IInv
<1> SUFFICES ASSUME Init PROVE IInv
  OBVIOUS
<1> USE DEF Init
<1>1. DiskType /\ LogInFiles /\ BatchProgress
  <2>1. headOut \in BOOLEAN /\ ~headOut
    BY Zenon
  <2>2. log = <<>> /\ log \in Seq(LogRecord) /\ synced \in 0..Len(log)
    OBVIOUS
  <2>3. dir \subseteq Nat /\ LogInFiles
    BY <2>2 DEF LogInFiles
  <2>4. /\ Len(records) <= Len(batch)
        /\ wpc = "down" /\ newStableFiles = {} /\ batch = <<>>
    OBVIOUS
  <2> QED
    BY <2>1, <2>2, <2>3, <2>4 DEF DiskType, BatchProgress
<1>2. StoreType /\ WorkerType
  BY DEF StoreType, WorkerType, WorkerPCs, Hint, NoHint
<1>3. PromiseType
  <2>1. running \in BOOLEAN
    BY Zenon
  <2>2. writes \in Seq(Write) /\ issued \in Nat /\ acked \subseteq Write
    OBVIOUS
  <2> QED BY <2>1, <2>2, Zenon DEF PromiseType
<1>4. ClientType /\ GetHasKey
  BY DEF ClientType, GetHasKey, ClientPCs, ReadPCs, Hint, NoHint, Returned
<1>5. FilesContiguous
  <2>1. getActiveFD = 0 /\ Cardinality(dir) = 0
    BY FS_EmptySet DEF getActiveFD
  <2> QED
    BY <2>1 DEF FilesContiguous, StableContiguous, DirContiguous,
         NewContiguous, NewUnpublished, AllPublished
<1> QED
  BY <1>1, <1>2, <1>3, <1>4, <1>5 DEF IInv, TypeOK

(* ... every step keeps it, ...                                            *)
LEMMA StepIInv == IInv /\ [Next]_vars => IInv'
<1> SUFFICES ASSUME IInv, [Next]_vars PROVE IInv'
  OBVIOUS
<1>1. TypeOK'
  BY DiskTypeStep, StoreTypeStep, WorkerTypeStep, PromiseTypeStep, ClientTypeStep
     DEF TypeOK
<1> QED
  BY <1>1, FilesStep, LogStep, ProgressStep, ClientTypeStep DEF IInv

(* ... so it holds in every reachable state.                               *)
LEMMA InductiveInvariant == Spec => []IInv
BY InitIInv, StepIInv, PTL DEF Spec

(* Every variable keeps its type, for every number of clients, keys and    *)
(* writes (all of BitcaskImpl).                                            *)
THEOREM Typing == Spec => []TypeOK
<1>1. IInv => TypeOK
  BY DEF IInv
<1> QED
  BY <1>1, InductiveInvariant, PTL

(* The numbers that CommitWrite computes from the size of _stableFiles     *)
(* never name a file that exists, and the active file is the highest one,  *)
(* through rotations inside a batch, restarts and crashes at any point.    *)
THEOREM RotationIsSafe == Spec => []RotationSafe
<1>1. IInv => RotationSafe
  <2> SUFFICES ASSUME IInv PROVE RotationSafe
    OBVIOUS
  <2>0. FilesContiguous /\ LogInFiles /\ active \in Nat
    BY DEF IInv, TypeOK, StoreType
  <2>1. ASSUME wpc = "create" PROVE NextFD \notin dir
    <3>1. NextFD = active + 1 /\ dir = 0..active
      BY <2>0, <2>1, NextFDIsTop DEF Top, FilesContiguous, DirContiguous
    <3> QED BY <2>0, <3>1
  <2>2. ASSUME wpc # "down" PROVE active \in dir /\ \A fd \in dir : fd <= active
    BY <2>0, <2>2 DEF FilesContiguous, DirContiguous
  <2>3. ASSUME wpc \notin {"down", "create"}
        PROVE  DOMAIN stableFiles \cup newStableFiles = dir \ {active}
    <3>1. dir = 0..active /\ Top = active
      BY <2>0, <2>3 DEF FilesContiguous, DirContiguous, Top
    <3>2. /\ getActiveFD \in Nat /\ getActiveFD <= active
          /\ DOMAIN stableFiles = 0..(getActiveFD - 1)
          /\ newStableFiles \ DOMAIN stableFiles = getActiveFD..(active - 1)
      BY <2>0, <2>3, <3>1
         DEF FilesContiguous, StableContiguous, NewContiguous
    <3>3. DOMAIN stableFiles \cup newStableFiles
            = DOMAIN stableFiles \cup (newStableFiles \ DOMAIN stableFiles)
      OBVIOUS
    <3> QED BY <2>0, <3>1, <3>2, <3>3
  <2> QED
    BY <2>0, <2>1, <2>2, <2>3 DEF RotationSafe, LogInFiles
<1> QED
  BY <1>1, InductiveInvariant, PTL

(* No step but a crash removes a record: CreateActive, which opens its     *)
(* file with trunc, never opens one that holds records.                    *)
THEOREM RecordsKept ==
    Spec => [][~Crash => \A i \in DOMAIN log : log'[i] = log[i]]_vars
<1>1. IInv /\ [Next]_vars => [~Crash => \A i \in DOMAIN log : log'[i] = log[i]]_vars
  <2> SUFFICES ASSUME IInv, [Next]_vars, ~Crash, NEW i \in DOMAIN log
               PROVE  log'[i] = log[i]
    BY DEF vars
  <2>1. CASE \E flush \in Flushes : CommitRecord(flush)
    <3>1. PICK flush \in Flushes : CommitRecord(flush)
      BY <2>1
    <3>2. log \in Seq(LogRecord)
      BY DEF IInv, TypeOK, DiskType
    <3>3. PICK r \in LogRecord : log' = Append(log, r)
      BY <3>1, CommitRecordAppends
    <3> QED BY <3>2, <3>3
  <2>2. CASE \A flush \in Flushes : ~CommitRecord(flush)
    BY <2>2, LogUntouched
  <2> QED BY <2>1, <2>2
<1> QED
  BY <1>1, InductiveInvariant, PTL DEF Spec

-----------------------------------------------------------------------------
(* What has left the buffer of the active file.                            *)

(* A file is closed, which flushes it, before the next one is created, and *)
(* nothing is in a buffer when there is no process.                        *)
ClosedFlushed == wpc \in {"create", "down"} => synced = Len(log)

FlushInv == IInv /\ ClosedFlushed /\ RotatedFlushed

(* Writing a record changes nothing for the records before it, and those   *)
(* are all there is in lower files.                                        *)
LEMMA CommitRecordFlush ==
    ASSUME FlushInv, NEW flush \in Flushes, CommitRecord(flush)
    PROVE  ClosedFlushed' /\ RotatedFlushed'
<1> DEFINE r == WriteRecord(batch[Len(records) + 1], active, FileSize(log, active))
<1>1. r.fd = active /\ log' = Append(log, r)
  BY CommitRecordAppends DEF FlushInv
<1>2. log \in Seq(LogRecord) /\ synced \in 0..Len(log) /\ active \in Nat
  BY DEF FlushInv, IInv, TypeOK, DiskType, StoreType
<1>3. active' = active /\ wpc = "write" /\ wpc' \in {"rotate", "write"}
  BY DEF CommitRecord
<1>4. synced' >= synced
  <2>1. flush \in {"never", "early", "late"}
    BY ConfigAssumption
  <2>2. synced' \in {synced, Len(log), Len(log) + 1}
    BY <2>1 DEF CommitRecord
  <2> QED BY <1>2, <2>2
<1>5. synced' \in Int
  <2>1. flush \in {"never", "early", "late"}
    BY ConfigAssumption
  <2> QED BY <1>2, <2>1 DEF CommitRecord
<1> HIDE DEF r
<1>6. ASSUME NEW i \in DOMAIN log', log'[i].fd < active'
      PROVE  i <= synced'
  <2>1. i \in 1..(Len(log) + 1) /\ log'[Len(log) + 1] = r
    BY <1>1, <1>2
  <2>2. i # Len(log) + 1
    BY <1>1, <1>2, <1>3, <1>6, <2>1
  <2>3. i \in DOMAIN log /\ log'[i] = log[i]
    BY <1>1, <1>2, <2>1, <2>2
  <2>4. i <= synced
    BY <1>3, <1>6, <2>3 DEF FlushInv, RotatedFlushed
  <2> QED BY <1>2, <1>4, <1>5, <2>1, <2>4
<1> QED
  BY <1>3, <1>6 DEF ClosedFlushed, RotatedFlushed

(* Every step keeps both facts.                                            *)
LEMMA StepFlushInv == FlushInv /\ [Next]_vars => ClosedFlushed' /\ RotatedFlushed'
<1> SUFFICES ASSUME FlushInv, [Next]_vars
             PROVE  ClosedFlushed' /\ RotatedFlushed'
  OBVIOUS
<1>0. IInv /\ log \in Seq(LogRecord)
  BY DEF FlushInv, IInv, TypeOK, DiskType
<1>1. ASSUME NEW flush \in Flushes, CommitRecord(flush)
      PROVE  ClosedFlushed' /\ RotatedFlushed'
  BY <1>1, CommitRecordFlush
<1>2. CASE Crash
  BY <1>0, <1>2, CrashKeepsPrefix
     DEF Crash, ProcessEnds, ClosedFlushed, RotatedFlushed
<1>3. CASE Rotate \/ CreateActive \/ Open \/ Destroy
  <2>1. log' = log
    <3>1. CASE CreateActive
      BY <1>0, <3>1, CreateTruncatesNothing
    <3>2. CASE Rotate \/ Open \/ Destroy
      BY <3>2 DEF Rotate, Open, Destroy
    <3> QED BY <1>3, <3>1, <3>2
  <2>2. synced' = Len(log)
    <3>1. CASE Rotate \/ Destroy
      BY <3>1 DEF Rotate, Destroy, FlushAll
    <3>2. CASE CreateActive
      BY <1>0, <3>2, CreateTruncatesNothing
         DEF CreateActive, FlushInv, ClosedFlushed
    <3>3. CASE Open
      BY <3>3 DEF Open, FlushInv, ClosedFlushed
    <3> QED BY <1>3, <3>1, <3>2, <3>3
  <2> QED
    BY <1>0, <2>1, <2>2 DEF ClosedFlushed, RotatedFlushed
<1>4. ASSUME NEW c \in Clients, Client(c)
      PROVE  ClosedFlushed' /\ RotatedFlushed'
  <2>1. UNCHANGED <<log, synced, active, wpc>>
    BY <1>4, ClientLeavesFiles DEF diskVars
  <2> QED
    BY <2>1 DEF FlushInv, ClosedFlushed, RotatedFlushed
<1>5. CASE \/ Swap \/ InsertBegin \/ InsertStable \/ InsertEnd
           \/ ClearActiveMap \/ ApplyValue \/ ApplyHint \/ Acknowledge
           \/ CommitDone \/ CheckRunning \/ Close \/ UNCHANGED vars
  <2>1. /\ UNCHANGED <<log, synced, active>>
        /\ wpc' \in {"create", "down"} => wpc' = wpc
    <3> USE DEF diskVars, storeVars
    <3>1. CASE UNCHANGED vars
      BY <3>1 DEF vars
    <3>2. CASE Close
      BY <3>2 DEF Close
    <3>3. CASE InsertBegin \/ InsertStable \/ InsertEnd \/ ClearActiveMap
      BY <3>3 DEF InsertBegin, InsertStable, InsertEnd, ClearActiveMap
    <3>4. CASE Swap \/ ApplyValue \/ ApplyHint \/ Acknowledge
      BY <3>4 DEF Swap, ApplyValue, ApplyHint, Acknowledge
    <3>5. CASE CommitDone \/ CheckRunning
      BY <3>5 DEF CommitDone, CheckRunning
    <3> QED BY <1>5, <3>1, <3>2, <3>3, <3>4, <3>5
  <2> QED
    BY <2>1 DEF FlushInv, ClosedFlushed, RotatedFlushed
<1> QED
  BY <1>1, <1>2, <1>3, <1>4, <1>5 DEF Next, Worker

(* A record that lies in a file other than the active one is out of every  *)
(* buffer: a crash, at whatever point, cannot take it away                 *)
(* (ActiveFile::Rotate and CommitWrite's order of close and create).       *)
THEOREM RotatedIsFlushed == Spec => []RotatedFlushed
<1>1. Init => ClosedFlushed /\ RotatedFlushed
  BY DEF Init, ClosedFlushed, RotatedFlushed
<1>2. FlushInv /\ [Next]_vars => FlushInv'
  BY StepIInv, StepFlushInv DEF FlushInv
<1>3. Init => FlushInv
  BY <1>1, InitIInv DEF FlushInv
<1>4. FlushInv => RotatedFlushed
  BY DEF FlushInv
<1> QED
  BY <1>2, <1>3, <1>4, PTL DEF Spec

-----------------------------------------------------------------------------
(* How long files get.                                                     *)

(* Unless it is about to be rotated, the last file of the directory has    *)
(* room: all its values begin below the limit.                             *)
Room ==
    wpc \notin {"rotate", "create"} =>
        \A i \in DOMAIN log :
            (\A fd \in dir : fd <= log[i].fd) => log[i].off < MaxFileSize

BoundInv == lag = 0 /\ Room /\ FilesBounded

LEMMA CommitRecordBound ==
    ASSUME IInv, BoundInv, NEW flush \in Flushes, CommitRecord(flush)
    PROVE  BoundInv'
<1> DEFINE r == WriteRecord(batch[Len(records) + 1], active, FileSize(log, active))
<1>1. r \in LogRecord /\ r.fd = active /\ log' = Append(log, r)
  BY CommitRecordAppends
<1>2. /\ wpc = "write" /\ lag = 0 /\ lag' = 0 /\ UNCHANGED <<dir, active>>
      /\ wpc' = IF RollsOver(r.off) THEN "rotate" ELSE "write"
  <2>1. r.off - (IF flush = "early" THEN 0 ELSE lag) = r.off
    BY <1>1 DEF BoundInv, LogRecord
  <2> QED
    BY <2>1 DEF CommitRecord, BoundInv
<1>3. log \in Seq(LogRecord) /\ active \in Nat /\ dir = 0..active /\ r.off \in Nat
  BY <1>1, <1>2 DEF IInv, TypeOK, DiskType, StoreType, FilesContiguous,
     DirContiguous, LogRecord
<1> HIDE DEF r
<1>4. /\ DOMAIN log = 1..Len(log) /\ DOMAIN log' = 1..(Len(log) + 1)
      /\ Len(log) \in Nat /\ log'[Len(log) + 1] = r
      /\ \A i \in DOMAIN log : log'[i] = log[i]
  BY <1>1, <1>3
<1>5. \A i \in DOMAIN log : log[i].fd = active => log[i].off < MaxFileSize
  BY <1>2, <1>3 DEF BoundInv, Room
<1>6. FilesBounded'
  BY <1>1, <1>4, <1>5 DEF FilesBounded, BoundInv
<1>7. Room'
  <2> SUFFICES ASSUME wpc' = "write", NEW i \in DOMAIN log',
                      \A fd \in dir : fd <= log'[i].fd
               PROVE  log'[i].off < MaxFileSize
    BY <1>2 DEF Room
  <2>1. CASE i = Len(log) + 1
    BY <1>2, <1>3, <1>4, <2>1, ConfigAssumption DEF RollsOver
  <2>2. CASE i \in DOMAIN log
    BY <1>2, <1>4, <2>2 DEF BoundInv, Room
  <2> QED BY <1>4, <2>1, <2>2
<1> QED
  BY <1>2, <1>6, <1>7 DEF BoundInv

(* If tellp() is exact and no process is killed, maxFileSize bounds every  *)
(* file but for its last record, through any number of restarts            *)
(* (CommitWrite, ActiveFile::Restore).                                     *)
THEOREM FilesAreBounded ==
    ASSUME TellLags = FALSE, "crash" \notin Ops
    PROVE  Spec => []FilesBounded
<1> USE DEF diskVars, storeVars, mapVars, workerVars, promiseVars, clientVars
<1>1. Init => BoundInv
  BY DEF Init, BoundInv, Room, FilesBounded
<1>2. IInv /\ BoundInv /\ [Next]_vars => BoundInv'
  <2> SUFFICES ASSUME IInv, BoundInv, [Next]_vars PROVE BoundInv'
    OBVIOUS
  <2>1. ASSUME UNCHANGED <<log, lag, dir>>,
               wpc' \in {"rotate", "create"} \/ wpc \notin {"rotate", "create"}
        PROVE  BoundInv'
    BY <2>1 DEF BoundInv, Room, FilesBounded
  <2>2. ASSUME NEW c \in Clients, Client(c)
        PROVE  BoundInv'
    <3>1. UNCHANGED <<log, lag, dir, wpc>>
      BY <2>2, ClientLeavesFiles
    <3> QED BY <2>1, <3>1
  <2>3. CASE Swap \/ Rotate \/ InsertBegin \/ InsertStable \/ InsertEnd
    <3>1. CASE Rotate
      <4>1. log' = log /\ lag' = lag /\ wpc' = "create"
        BY <3>1 DEF Rotate
      <4> QED BY <4>1 DEF BoundInv, Room, FilesBounded
    <3>2. CASE Swap \/ InsertBegin \/ InsertStable \/ InsertEnd
      BY <2>1, <3>2 DEF Swap, InsertBegin, InsertStable, InsertEnd
    <3> QED BY <2>3, <3>1, <3>2
  <2>4. CASE ClearActiveMap \/ ApplyValue \/ ApplyHint \/ Acknowledge
    BY <2>1, <2>4 DEF ClearActiveMap, ApplyValue, ApplyHint, Acknowledge
  <2>5. CASE CommitDone \/ CheckRunning \/ Close \/ UNCHANGED vars
    BY <2>1, <2>5 DEF CommitDone, CheckRunning, Close, vars
  <2>6. CASE CreateActive
    <3>1. log' = log /\ lag' = 0 /\ dir' = dir \cup {NextFD} /\ NextFD \notin dir
      BY <2>6, CreateTruncatesNothing DEF CreateActive
    <3>2. wpc = "create" /\ dir = 0..active /\ NextFD = active + 1 /\ active \in Nat
      BY <2>6, NextFDIsTop DEF CreateActive, IInv, TypeOK, StoreType,
         FilesContiguous, DirContiguous, Top
    <3>3. \A i \in DOMAIN log : log[i].fd \in dir /\ ~(NextFD <= log[i].fd)
      BY <3>2 DEF IInv, LogInFiles
    <3> QED
      BY <3>1, <3>3 DEF BoundInv, Room, FilesBounded
  <2>7. CASE Open
    <3>1. wpc = "down" /\ log' = log /\ lag' = 0 /\ dir \subseteq dir'
      BY <2>7 DEF Open, AppendLag
    <3> QED
      BY <3>1 DEF BoundInv, Room, FilesBounded
  <2>8. CASE Destroy
    <3>1. log' = log /\ lag' = 0 /\ dir' = dir /\ wpc = "exited"
      BY <2>8 DEF Destroy, ProcessEnds
    <3> QED
      BY <3>1 DEF BoundInv, Room, FilesBounded
  <2>9. ~Crash
    BY DEF Crash
  <2> QED
    BY <2>2, <2>3, <2>4, <2>5, <2>6, <2>7, <2>8, <2>9, CommitRecordBound
       DEF Next, Worker
<1>3. BoundInv => FilesBounded
  BY DEF BoundInv
<1> QED
  BY <1>1, <1>2, <1>3, InductiveInvariant, PTL DEF Spec
=============================================================================
