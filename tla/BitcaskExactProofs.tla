------------------------ MODULE BitcaskExactProofs ------------------------
(***************************************************************************)
(* Proofs that the index of BitcaskImpl is complete, and that it is exact  *)
(* where no batch goes on behind a rotation, for every value of the        *)
(* constants.                                                              *)
(***************************************************************************)
EXTENDS BitcaskIndexProofs, WellFoundedInduction

-----------------------------------------------------------------------------
(* A set of places in a sequence has a last one.                           *)
LEMMA MinimalIn ==
    ASSUME NEW R, NEW T, T \subseteq Nat, T # {}, IsWellFoundedOn(R, Nat)
    PROVE  \E d \in T : \A e \in T : ~ (<<e, d>> \in R)
BY WFMin

LEMMA LastOf ==
    ASSUME NEW n \in Nat, NEW S \in SUBSET (1..n), S # {}
    PROVE  \E m \in S : \A i \in S : i <= m
<1> DEFINE R == {ss \in Nat \X Nat : ss[1] < ss[2]}
           T == {d \in Nat : n - d \in S}
<1>1. IsWellFoundedOn(R, Nat)
  BY NatLessThanWellFounded DEF OpToRel
<1>2. T \subseteq Nat /\ T # {}
  <2>1. PICK i \in S : TRUE
    OBVIOUS
  <2>2. n - i \in T
    BY <2>1
  <2> QED BY <2>2
<1>3. PICK d \in T : \A e \in T : ~ (<<e, d>> \in R)
  <2> HIDE DEF R, T
  <2> QED BY <1>1, <1>2, MinimalIn
<1>4. ASSUME NEW i \in S
      PROVE  i <= n - d
  <2>1. n - i \in T /\ n - i \in Nat
    BY <1>4
  <2>2. ~ (<<n - i, d>> \in R) /\ d \in Nat
    BY <1>3, <2>1
  <2>3. ~ (n - i < d)
    BY <2>1, <2>2
  <2> QED BY <2>1, <2>2, <2>3
<1> QED
  BY <1>3, <1>4

-----------------------------------------------------------------------------
(* How far CommitWrite is, in more detail than BatchProgress.              *)
BatchPlace ==
    /\ wpc \in {"swap", "check", "exited", "down"} =>
         batch = <<>> /\ records = <<>> /\ applied = 0
    /\ wpc \in {"write", "rotate", "create", "inserting", "clear"} => applied = 0
    /\ wpc = "apply" => applied <= Len(batch)

(* Every step keeps it.                                                    *)
LEMMA BatchPlaceStep == ASSUME IInv, BatchPlace, [Next]_vars
                        PROVE  BatchPlace'
<1> USE DEF diskVars, storeVars, mapVars, workerVars, promiseVars, clientVars,
        BatchPlace
<1>0. applied \in Nat
  BY TypesOf
<1>1. ASSUME NEW c \in Clients, Client(c)
      PROVE  BatchPlace'
  BY <1>0, <1>1, ClientLeavesFiles
<1>2. ASSUME NEW flush \in Flushes, CommitRecord(flush)
      PROVE  BatchPlace'
  <2>1. wpc' \in {"write", "rotate"} /\ wpc = "write" /\ applied' = applied
    BY <1>2 DEF CommitRecord
  <2> QED BY <1>0, <2>1
<1>3. CASE Swap \/ Rotate \/ CreateActive \/ InsertBegin \/ InsertStable \/ InsertEnd
  <2>1. CASE Swap
    BY <2>1 DEF Swap
  <2>2. CASE InsertBegin
    BY <1>0, <2>2 DEF InsertBegin
  <2>3. CASE InsertEnd
    <3>1. /\ wpc' \in {"apply", "clear"} /\ applied' = 0 /\ batch' = batch
          /\ Len(batch) \in Nat
      BY <2>3, TypesOf DEF InsertEnd
    <3> QED BY <3>1
  <2>4. CASE Rotate \/ CreateActive \/ InsertStable
    BY <1>0, <2>4 DEF Rotate, CreateActive, InsertStable
  <2> QED BY <1>3, <2>1, <2>2, <2>3, <2>4
<1>4. CASE ClearActiveMap \/ ApplyValue \/ ApplyHint \/ CheckRunning
  <2>1. CASE ApplyValue
    BY <2>1 DEF ApplyValue
  <2>2. CASE ApplyHint
    BY <2>2 DEF ApplyHint
  <2>3. CASE CheckRunning
    BY <1>0, <2>3 DEF CheckRunning
  <2>4. CASE ClearActiveMap
    <3>1. wpc' = "apply" /\ applied' = 0 /\ batch' = batch /\ Len(batch) \in Nat
      BY <2>4, TypesOf DEF ClearActiveMap
    <3> QED BY <3>1
  <2> QED BY <1>4, <2>1, <2>2, <2>3, <2>4
<1>5. CASE Acknowledge
  <2>1. wpc = "ack" /\ wpc' = "apply" /\ applied' = applied + 1 /\ batch' = batch
    BY <1>5 DEF Acknowledge
  <2>2. applied < Len(batch) /\ Len(batch) \in Nat
    BY <1>0, <2>1, TypesOf DEF IInv, BatchProgress
  <2> QED BY <1>0, <2>1, <2>2
<1>6. CASE CommitDone
  BY <1>6 DEF CommitDone
<1>7. CASE Open
  <2>1. wpc = "down" /\ wpc' = "swap" /\ UNCHANGED <<batch, records, applied>>
    BY <1>7 DEF Open
  <2> QED BY <1>0, <2>1
<1>8. CASE Destroy \/ Crash
  <2>1. wpc' = "down" /\ batch' = <<>> /\ records' = <<>> /\ applied' = 0
    BY <1>8 DEF Destroy, Crash, ProcessEnds
  <2> QED BY <2>1
<1>9. CASE Close \/ UNCHANGED vars
  BY <1>0, <1>9 DEF Close, vars
<1> QED
  BY <1>1, <1>2, <1>3, <1>4, <1>5, <1>6, <1>7, <1>8, <1>9
     DEF Next, Worker


-----------------------------------------------------------------------------
(* The order in which a restart scans the files.                           *)

(* The names of the first ten files are in the order of their numbers.     *)
LEMMA NamesOfDigits ==
    ASSUME NEW a \in 0..9, NEW b \in 0..9
    PROVE  NameLess(a, b) <=> a < b
<1>1. ASSUME NEW n \in 0..9
      PROVE  Digits(n) = 1
  <2>1. PowersOf10[1] = 1 /\ PowersOf10[2] = 10
    BY DEF PowersOf10
  <2>2. ASSUME NEW d \in 1..9, d # 1
        PROVE  PowersOf10[d] >= 10
    <3>1. d = 2 \/ d = 3 \/ d = 4 \/ d = 5 \/ d = 6 \/ d = 7 \/ d = 8 \/ d = 9
      BY <2>2
    <3> QED BY <3>1 DEF PowersOf10
  <2>3. \A d \in 1..9 : n < PowersOf10[d + 1] /\ (d = 1 \/ PowersOf10[d] <= n) <=> d = 1
    <3>1. ASSUME NEW d \in 1..9, d # 1, PowersOf10[d] <= n
          PROVE  FALSE
      <4>1. PowersOf10[d] \in Nat
        BY DEF PowersOf10
      <4> QED BY <2>2, <3>1, <4>1
    <3> QED BY <2>1, <3>1
  <2> QED BY <2>3 DEF Digits
<1>2. ASSUME NEW n \in 0..9
      PROVE  Digit(n, 1) = n
  <2>1. PowersOf10[Digits(n) - 1 + 1] = 1
    BY <1>1 DEF PowersOf10
  <2>2. (n \div 1) % 10 = n
    OBVIOUS
  <2> QED BY <2>1, <2>2 DEF Digit
<1>3. NameLess(a, b) <=> Digit(a, 1) < Digit(b, 1)
  BY <1>1 DEF NameLess
<1> QED
  BY <1>2, <1>3

(* The log holds the files one after the other.                            *)
FilesInOrder == \A i, j \in DOMAIN log : i <= j => log[i].fd <= log[j].fd

NothingTorn == \A i \in DOMAIN log : Whole(log[i])

LEMMA InScanOrder ==
    ASSUME IInv, FilesInOrder, wpc = "down", NEW fd, fd = ActivePath(dir), fd <= 10,
           NEW i \in DOMAIN log, NEW j \in DOMAIN log
    PROVE  ScannedBefore(log, fd, i, j) <=> i < j
<1>1. fd \in Nat /\ dir \cup {fd} = 0..fd
  BY ActivePathIsLast DEF IInv, FilesContiguous, DirContiguous
<1>2. DOMAIN log \subseteq Nat
  BY TypesOf
<1>3. log[i].fd \in 0..fd /\ log[j].fd \in 0..fd
  BY <1>1 DEF IInv, LogInFiles
<1>4. /\ i <= j => log[i].fd <= log[j].fd
      /\ j <= i => log[j].fd <= log[i].fd
  BY DEF FilesInOrder
<1>5. CASE log[i].fd = log[j].fd
  BY <1>5 DEF ScannedBefore
<1>6. CASE log[i].fd # log[j].fd
  <2>1. log[i].fd < log[j].fd <=> i < j
    BY <1>2, <1>3, <1>4, <1>6
  <2>2. log[i].fd # fd /\ log[j].fd # fd =>
          (NameLess(log[i].fd, log[j].fd) <=> log[i].fd < log[j].fd)
    <3>1. ASSUME NEW a, NEW b, a \in 0..fd, b \in 0..fd, a # fd, b # fd
          PROVE  a \in 0..9 /\ b \in 0..9
      BY <1>1, <3>1
    <3> QED BY <1>3, <3>1, NamesOfDigits
  <2>3. log[j].fd = fd => log[i].fd < log[j].fd
    BY <1>1, <1>3, <1>6
  <2>4. log[i].fd = fd => ~ (log[i].fd < log[j].fd)
    BY <1>1, <1>3
  <2> QED BY <1>6, <2>1, <2>2, <2>3, <2>4 DEF ScannedBefore, FileBefore
<1> QED
  BY <1>5, <1>6

(* So the hint that a restart leaves for a key is that of its last record. *)
LEMMA RestoredIsLast ==
    ASSUME IInv, FilesInOrder, NothingTorn, wpc = "down",
           NEW fd, fd = ActivePath(dir), fd <= 10,
           NEW k \in Keys, NEW e \in DOMAIN log, log[e].key = k
    PROVE  \E m \in DOMAIN log :
             /\ log[m].key = k /\ e <= m
             /\ RestoredHint(log, fd, dir, k).id = log[m].id
<1> DEFINE S == {i \in DOMAIN log : log[i].key = k}
           found == {i \in DOMAIN log :
                        log[i].key = k /\ log[i].fd \in dir /\ Scanned(log, i)}
<1>1. DOMAIN log = 1..Len(log) /\ Len(log) \in Nat
  BY TypesOf
<1>2. found = S
  <2>1. ASSUME NEW i \in DOMAIN log
        PROVE  log[i].fd \in dir /\ Scanned(log, i)
    <3>1. \A j \in 1..i : j \in DOMAIN log
      BY <1>1
    <3> QED BY <3>1 DEF Scanned, NothingTorn, IInv, LogInFiles
  <2> QED BY <2>1
<1>3. PICK m \in S : \A i \in S : i <= m
  <2>1. S \in SUBSET (1..Len(log)) /\ S # {} /\ Len(log) \in Nat
    BY <1>1
  <2> HIDE DEF S
  <2> QED BY <2>1, LastOf
<1>4. LastScanned(log, fd, dir, k) = {m}
  <2>1. LastScanned(log, fd, dir, k) =
          {i \in S : \A j \in S \ {i} : ScannedBefore(log, fd, j, i)}
    BY <1>2 DEF LastScanned
  <2>2. \A i, j \in S : ScannedBefore(log, fd, i, j) <=> i < j
    BY InScanOrder
  <2>3. S \subseteq Nat
    BY <1>1
  <2> HIDE DEF S
  <2>4. ASSUME NEW i \in S
        PROVE  (\A j \in S \ {i} : ScannedBefore(log, fd, j, i)) <=> i = m
    <3>1. CASE i = m
      BY <1>3, <2>2, <2>3, <3>1
    <3>2. CASE i # m
      BY <1>3, <2>2, <2>3, <3>2
    <3> QED BY <3>1, <3>2
  <2> QED BY <1>3, <2>1, <2>4
<1>5. (CHOOSE i \in {m} : TRUE) = m
  OBVIOUS
<1>6. RestoredHint(log, fd, dir, k).id = log[m].id
  BY <1>4, <1>5 DEF RestoredHint
<1>7. e <= m
  BY <1>3
<1> QED
  BY <1>3, <1>6, <1>7

-----------------------------------------------------------------------------
(* Without crashes the log only grows, by whole records, file after file.  *)
LEMMA LogGrows ==
    ASSUME IInv, [Next]_vars, ~Crash
    PROVE  \A i \in DOMAIN log : i \in DOMAIN log' /\ log'[i] = log[i]
<1>1. ASSUME NEW flush \in Flushes, CommitRecord(flush)
      PROVE  \A i \in DOMAIN log : i \in DOMAIN log' /\ log'[i] = log[i]
  <2>1. DOMAIN log = 1..Len(log) /\ Len(log) \in Nat
    BY TypesOf
  <2> QED BY <1>1, <2>1, CommitRecordAppends, TypesOf
<1> QED
  BY <1>1, LogUntouched

LEMMA FilesInOrderStep == ASSUME IInv, FilesInOrder, [Next]_vars
                          PROVE  FilesInOrder'
<1>1. ASSUME NEW flush \in Flushes, CommitRecord(flush)
      PROVE  FilesInOrder'
  <2> DEFINE r == WriteRecord(batch[Len(records) + 1], active, FileSize(log, active))
  <2>1. r \in LogRecord /\ r.fd = active /\ log' = Append(log, r)
    BY <1>1, CommitRecordAppends
  <2> HIDE DEF r
  <2>2. log \in Seq(LogRecord) /\ active \in Nat
    BY TypesOf
  <2>3. \A i \in DOMAIN log : log[i].fd <= active
    BY <1>1 DEF CommitRecord, IInv, LogInFiles, FilesContiguous, DirContiguous
  <2>4. \A i, j \in DOMAIN log' : i <= j => log'[i].fd <= log'[j].fd
    <3> SUFFICES ASSUME NEW i \in DOMAIN log', NEW j \in DOMAIN log', i <= j
                 PROVE  log'[i].fd <= log'[j].fd
      OBVIOUS
    <3>1. CASE j \in DOMAIN log
      BY <2>1, <2>2, <3>1 DEF FilesInOrder
    <3>2. CASE j \notin DOMAIN log
      <4>1. log'[j] = r
        BY <2>1, <2>2, <3>2
      <4>2. log'[i] = r \/ (i \in DOMAIN log /\ log'[i] = log[i])
        BY <2>1, <2>2
      <4> QED BY <2>1, <2>2, <2>3, <4>1, <4>2
    <3> QED BY <3>1, <3>2
  <2> QED BY <2>4 DEF FilesInOrder
<1>2. CASE Crash
  BY <1>2, CrashKeepsPrefix DEF FilesInOrder
<1>3. CASE ~Crash /\ \A flush \in Flushes : ~CommitRecord(flush)
  BY <1>3, LogUntouched DEF FilesInOrder
<1> QED
  BY <1>1, <1>2, <1>3

LEMMA NothingTornStep == ASSUME IInv, NothingTorn, [Next]_vars, ~Crash
                         PROVE  NothingTorn'
<1>1. ASSUME NEW flush \in Flushes, CommitRecord(flush)
      PROVE  NothingTorn'
  <2> DEFINE r == WriteRecord(batch[Len(records) + 1], active, FileSize(log, active))
  <2>1. r \in LogRecord /\ log' = Append(log, r) /\ log \in Seq(LogRecord)
    BY <1>1, CommitRecordAppends, TypesOf
  <2>2. Whole(r)
    BY DEF Whole, WriteRecord
  <2> HIDE DEF r
  <2> QED BY <2>1, <2>2 DEF NothingTorn
<1> QED
  BY <1>1, LogUntouched DEF NothingTorn

-----------------------------------------------------------------------------
(* Up to where the log is indexed.                                         *)
LEMMA IndexedIs ==
    ASSUME IInv, BatchLogged, BatchPlace
    PROVE  /\ Indexed \in Nat /\ Indexed <= Len(log)
           /\ DOMAIN log = 1..Len(log) /\ Len(log) \in Nat
           /\ wpc \in {"swap", "check", "exited", "down"} => Indexed = Len(log)
           /\ wpc = "apply" /\ applied = Len(batch) => Indexed = Len(log)
           /\ wpc = "ack" => /\ Indexed = Base + (applied + 1)
                             /\ applied + 1 \in DOMAIN records
                             /\ applied + 1 \in DOMAIN batch
<1>1. /\ Len(records) \in Nat /\ Len(log) \in Nat /\ Base \in Nat
      /\ DOMAIN log = 1..Len(log) /\ applied \in Nat /\ Len(batch) \in Nat
      /\ DOMAIN records = 1..Len(records) /\ DOMAIN batch = 1..Len(batch)
  BY TypesOf DEF Base, BatchLogged
<1>2. Base + Len(records) = Len(log) /\ Len(records) <= Len(batch)
  BY <1>1, TypesOf DEF Base
<1>3. wpc \in {"apply", "index", "ack"} => Len(records) = Len(batch)
  BY DEF IInv, BatchProgress
<1>4. /\ wpc = "ack" => Indexed = Base + (applied + 1)
      /\ wpc # "ack" => Indexed = Base + applied
  BY <1>1 DEF Indexed
<1>5. wpc \in {"swap", "check", "exited", "down"} => applied = 0 /\ Len(records) = 0
  BY DEF BatchPlace
<1>6. wpc \in {"write", "rotate", "create", "inserting", "clear"} => applied = 0
  BY DEF BatchPlace
<1>7. wpc = "apply" => applied <= Len(records)
  BY <1>3 DEF BatchPlace
<1>8. wpc \in {"index", "ack"} => applied + 1 <= Len(records)
  <2> SUFFICES ASSUME wpc \in {"index", "ack"}
               PROVE  applied + 1 <= Len(records)
    OBVIOUS
  <2>1. applied < Len(batch) /\ Len(records) = Len(batch)
    BY <1>3 DEF IInv, BatchProgress
  <2> QED BY <1>1, <2>1
<1>9. wpc \in WorkerPCs
  BY DEF IInv, TypeOK, WorkerType
<1>10. Indexed \in Nat /\ Indexed <= Len(log)
  <2>1. applied <= Len(records) /\ (wpc = "ack" => applied + 1 <= Len(records))
    BY <1>1, <1>5, <1>6, <1>7, <1>8, <1>9 DEF WorkerPCs, CommitPCs
  <2> QED BY <1>1, <1>2, <1>4, <2>1
<1>11. wpc \in {"swap", "check", "exited", "down"} => Indexed = Len(log)
  BY <1>1, <1>2, <1>4, <1>5
<1>12. wpc = "apply" /\ applied = Len(batch) => Indexed = Len(log)
  BY <1>1, <1>2, <1>3, <1>4
<1>13. wpc = "ack" => applied + 1 \in DOMAIN records /\ applied + 1 \in DOMAIN batch
  BY <1>1, <1>2, <1>8
<1> QED
  BY <1>1, <1>4, <1>10, <1>11, <1>12, <1>13

(* Only ApplyHint and the ends of a process move that place.               *)
LEMMA IndexedKept ==
    ASSUME IInv, BatchLogged, BatchPlace, [Next]_vars, ~ApplyHint, ~Destroy, ~Crash
    PROVE  Indexed' = Indexed
<1> USE DEF diskVars, storeVars, mapVars, workerVars, promiseVars, clientVars
<1>0. /\ Len(records) \in Nat /\ Len(log) \in Nat /\ Base \in Nat
      /\ applied \in Nat
  BY TypesOf DEF Base, BatchLogged
<1>1. CASE UNCHANGED <<log, records, applied>> /\ (wpc = "ack" <=> wpc' = "ack")
  BY <1>0, <1>1 DEF Indexed, Base
<1>2. ASSUME NEW c \in Clients, Client(c)
      PROVE  UNCHANGED <<log, records, applied, wpc>>
  BY <1>2, ClientLeavesFiles
<1>3. ASSUME NEW flush \in Flushes, CommitRecord(flush)
      PROVE  Indexed' = Indexed
  <2>1. applied' = applied /\ wpc # "ack" /\ wpc' # "ack"
    BY <1>3 DEF CommitRecord
  <2>2. Base' = Base
    BY <1>3, CommitRecordLogged
  <2> QED BY <2>1, <2>2 DEF Indexed
<1>4. CASE Swap \/ CommitDone
  <2>1. Indexed = Len(log)
    BY <1>4, IndexedIs DEF Swap, CommitDone
  <2>2. log' = log /\ records' = <<>> /\ applied' = 0 /\ wpc' # "ack"
    BY <1>4 DEF Swap, CommitDone
  <2> QED BY <1>0, <2>1, <2>2 DEF Indexed, Base
<1>5. CASE Acknowledge
  <2>1. /\ UNCHANGED <<log, records>> /\ applied' = applied + 1
        /\ wpc = "ack" /\ wpc' = "apply"
    BY <1>5 DEF Acknowledge
  <2> QED BY <1>0, <2>1 DEF Indexed, Base
<1>6. CASE CreateActive
  <2>1. UNCHANGED <<records, applied>> /\ wpc # "ack" /\ wpc' # "ack"
    BY <1>6 DEF CreateActive
  <2> QED BY <1>1, <1>6, <2>1, CreateTruncatesNothing
<1>7. CASE \/ Rotate \/ InsertBegin \/ InsertStable \/ InsertEnd \/ ClearActiveMap
           \/ ApplyValue \/ CheckRunning
  BY <1>1, <1>7 DEF Rotate, InsertBegin, InsertStable, InsertEnd,
     ClearActiveMap, ApplyValue, CheckRunning
<1>8. CASE Open \/ Close \/ UNCHANGED vars
  BY <1>1, <1>8 DEF Open, Close, vars
<1> QED
  BY <1>1, <1>2, <1>3, <1>4, <1>5, <1>6, <1>7, <1>8 DEF Next, Worker

-----------------------------------------------------------------------------
(* The index is complete.                                                  *)

(* Every record up to the last one indexed has its entry, or a later write *)
(* of its key has.                                                         *)
IndexComplete ==
    wpc # "down" => \A i \in DOMAIN log :
        i <= Indexed => recordMap[log[i].key].id >= log[i].id

(* Every write whose promise was fulfilled is in the log, and indexed.     *)
AckedLogged ==
    \A w \in acked : \E i \in DOMAIN log :
        i <= Indexed /\ log[i].key = w.key /\ log[i].id = w.id

AckInv == /\ PlaceInv /\ BatchPlace /\ FilesInOrder /\ NothingTorn
          /\ IndexComplete /\ AckedLogged

LEMMA StaysDown ==
    ASSUME wpc = "down", [Next]_vars, ~Open
    PROVE  wpc' = "down"
<1>1. ASSUME NEW c \in Clients, Client(c)
      PROVE  wpc' = wpc
  BY <1>1, ClientLeavesFiles
<1>2. ~Worker /\ ~Destroy /\ ~Crash
  BY DEF Worker, Swap, CommitRecord, Rotate, CreateActive, InsertBegin, InsertStable,
     InsertEnd, ClearActiveMap, ApplyValue, ApplyHint, Acknowledge, CommitDone,
     CheckRunning, Destroy, Crash
<1>3. CASE Close \/ UNCHANGED vars
  BY <1>3 DEF Close, vars
<1> QED
  BY <1>1, <1>2, <1>3 DEF Next

LEMMA IndexCompleteStep ==
    ASSUME AckInv, [Next]_vars, ~Crash, active' <= 10
    PROVE  IndexComplete'
<1>0. /\ IInv /\ OrderInv /\ BatchLogged /\ BatchPlace /\ FilesInOrder /\ NothingTorn
      /\ IInv'
  BY StepIInv DEF AckInv, PlaceInv
<1>1. /\ Indexed \in Nat /\ Indexed <= Len(log)
      /\ DOMAIN log = 1..Len(log) /\ Len(log) \in Nat
      /\ wpc \in {"swap", "check", "exited", "down"} => Indexed = Len(log)
  BY <1>0, IndexedIs
<1>2. /\ \A i \in DOMAIN log : log[i].id \in Nat /\ log[i].key \in Keys
      /\ recordMap \in [Keys -> Hint]
  BY <1>0, ElementTypes, TypesOf DEF LogRecord
<1>3. CASE ~Open /\ ~ApplyHint /\ ~Destroy
  <2>1. Indexed' = Indexed /\ recordMap' = recordMap
    BY <1>0, <1>3, IndexedKept, PlacesKept
  <2>2. \A i \in DOMAIN log : i \in DOMAIN log' /\ log'[i] = log[i]
    BY <1>0, LogGrows
  <2>3. ASSUME NEW i \in DOMAIN log', i <= Indexed
        PROVE  i \in DOMAIN log
    <3>1. DOMAIN log' = 1..Len(log') /\ Len(log') \in Nat
      BY <1>0 DEF IInv, TypeOK, DiskType
    <3>2. DOMAIN log = 1..Len(log) /\ Len(log) \in Nat /\ Indexed \in Nat /\ Indexed <= Len(log)
      BY <1>1
    <3> QED BY <2>3, <3>1, <3>2
  <2>4. wpc' # "down" => wpc # "down"
    BY <1>0, <1>3, StaysDown
  <2> QED BY <2>1, <2>2, <2>3, <2>4 DEF IndexComplete, AckInv
<1>4. CASE ApplyHint
  <2> DEFINE n == applied + 1
             key == batch[n].key
  <2>1. /\ Base + n \in DOMAIN log /\ Indexed' = Base + n /\ key \in Keys
        /\ Base + n = Indexed + 1 /\ n \in DOMAIN records
        /\ recordMap' = [recordMap EXCEPT ![key] = records[n]]
        /\ IsFor(log, records[n], key, Base + n) /\ log' = log
    BY <1>0, <1>4, ApplyHintIsFor DEF ApplyHint, diskVars
  <2>2. wpc # "down" /\ records[n].id \in Nat
    BY <1>0, <1>4, <2>1, ElementTypes DEF ApplyHint
  <2> HIDE DEF n, key
  <2> SUFFICES ASSUME NEW i \in DOMAIN log, i <= Indexed + 1
               PROVE  recordMap'[log[i].key].id >= log[i].id
    BY <2>1 DEF IndexComplete
  <2>3. CASE log[i].key = key
    <3>1. log[i].id <= log[Base + n].id
      BY <1>0, <2>1, IdsDiffer
    <3>2. recordMap'[key] = records[n] /\ records[n].id = log[Base + n].id
      BY <1>2, <2>1 DEF IsFor
    <3> QED BY <1>2, <2>1, <2>3, <3>1, <3>2
  <2>4. CASE log[i].key # key
    <3>1. i # Indexed + 1
      BY <2>1, <2>4 DEF IsFor
    <3>2. recordMap[log[i].key].id >= log[i].id
      BY <1>1, <2>2, <3>1 DEF IndexComplete, AckInv
    <3> QED BY <1>2, <2>1, <2>4, <3>2
  <2> QED BY <2>3, <2>4
<1>5. CASE Open
  <2> DEFINE fd == ActivePath(dir)
  <2>1. /\ wpc = "down" /\ log' = log /\ active' = fd
        /\ recordMap' = [k \in Keys |-> RestoredHint(log, fd, dir, k)]
    BY <1>5 DEF Open
  <2> SUFFICES ASSUME NEW i \in DOMAIN log
               PROVE  recordMap'[log[i].key].id >= log[i].id
    BY <2>1 DEF IndexComplete
  <2> HIDE DEF fd
  <2>2. PICK m \in DOMAIN log :
          /\ log[m].key = log[i].key /\ i <= m
          /\ RestoredHint(log, fd, dir, log[i].key).id = log[m].id
    BY <1>0, <1>2, <2>1, RestoredIsLast DEF fd
  <2>3. log[i].id <= log[m].id
    BY <1>0, <2>2, IdsDiffer
  <2> QED BY <1>2, <2>1, <2>2, <2>3
<1>6. CASE Destroy
  BY <1>6 DEF Destroy, ProcessEnds, IndexComplete
<1> QED
  BY <1>3, <1>4, <1>5, <1>6

LEMMA AckedLoggedStep ==
    ASSUME AckInv, [Next]_vars, ~Crash
    PROVE  AckedLogged'
<1> USE DEF diskVars, storeVars, mapVars, workerVars, promiseVars, clientVars
<1>0. IInv /\ BatchLogged /\ BatchPlace
  BY DEF AckInv, PlaceInv
<1>1. /\ Indexed \in Nat /\ DOMAIN log = 1..Len(log) /\ Len(log) \in Nat
      /\ wpc \in {"swap", "check", "exited", "down"} => Indexed = Len(log)
      /\ wpc = "ack" => /\ Indexed = Base + (applied + 1)
                        /\ applied + 1 \in DOMAIN records
  BY <1>0, IndexedIs
<1>2. Indexed \in Nat /\ DOMAIN log = 1..Len(log) /\ Len(log) \in Nat
  BY <1>1
<1>3. \A i \in DOMAIN log : i \in DOMAIN log' /\ log'[i] = log[i]
  BY <1>0, LogGrows
<1>4. CASE acked' = acked /\ \A i \in DOMAIN log : i <= Indexed => i <= Indexed'
  BY <1>3, <1>4 DEF AckInv, AckedLogged
<1>5. CASE Acknowledge
  <2> DEFINE w == batch[applied + 1]
             i == Base + (applied + 1)
  <2>1. acked' = acked \cup {w} /\ wpc = "ack"
    BY <1>5 DEF Acknowledge
  <2>2. Indexed' = Indexed
    BY <1>0, <1>5, IndexedKept DEF Acknowledge, ApplyHint, Destroy
  <2>3. i = Indexed /\ i \in DOMAIN log /\ log[i].key = w.key /\ log[i].id = w.id
    <3>1. i \in DOMAIN log
      <4>1. Len(records) \in Nat /\ DOMAIN records = 1..Len(records) /\ Base \in Nat
        BY <1>0, TypesOf DEF Base, BatchLogged
      <4> QED BY <1>1, <2>1, <4>1 DEF Base
    <3> QED BY <1>0, <1>1, <2>1, <3>1 DEF BatchLogged, IsFor
  <2> HIDE DEF w, i
  <2> QED BY <1>2, <1>3, <2>1, <2>2, <2>3 DEF AckInv, AckedLogged
<1>6. CASE ~Acknowledge /\ ~ApplyHint /\ ~Destroy
  <2>1. Indexed' = Indexed
    BY <1>0, <1>6, IndexedKept
  <2>2. acked' = acked
    <3>1. ASSUME NEW c \in Clients, Client(c)
          PROVE  acked' = acked
      BY <3>1, ClientLeavesFiles
    <3>2. CASE Worker
      BY <1>6, <3>2 DEF Worker, Swap, CommitRecord, Rotate, CreateActive, InsertBegin,
         InsertStable, InsertEnd, ClearActiveMap, ApplyValue, CommitDone, CheckRunning
    <3>3. CASE Open \/ Close \/ UNCHANGED vars
      BY <3>3 DEF Open, Close, vars
    <3> QED BY <1>6, <3>1, <3>2, <3>3 DEF Next
  <2> QED BY <1>4, <2>1, <2>2
<1>7. CASE ApplyHint
  <2>1. acked' = acked
    BY <1>7 DEF ApplyHint
  <2>2. Indexed' = Indexed + 1
    BY <1>0, <1>7, ApplyHintIsFor
  <2>3. \A i \in DOMAIN log : i <= Indexed => i <= Indexed'
    BY <1>2, <2>2
  <2> QED BY <1>4, <2>1, <2>3
<1>8. CASE Destroy
  <2>1. acked' = acked /\ log' = log /\ records' = <<>> /\ applied' = 0 /\ wpc' # "ack"
    BY <1>8 DEF Destroy, ProcessEnds
  <2>2. Indexed' = Len(log)
    BY <1>1, <2>1 DEF Indexed, Base
  <2>3. \A i \in DOMAIN log : i <= Indexed => i <= Indexed'
    BY <1>2, <2>2
  <2> QED BY <1>4, <2>1, <2>3
<1> QED
  BY <1>5, <1>6, <1>7, <1>8

(* A promise that was fulfilled stays fulfilled through any number of      *)
(* batches, rotations and restarts, as long as there are at most eleven    *)
(* files, ten of them stable, and no process is killed: the entry of the   *)
(* key is for that write or a later one (CommitWrite, RestoreStableMap,    *)
(* RestoreActiveMap, ~ActiveFile).                                         *)
ElevenFiles == active <= 10

THEOREM AcknowledgedIsIndexed ==
    ASSUME "crash" \notin Ops
    PROVE  Spec /\ []ElevenFiles => []AckedIndexed
<1>1. Init => AckInv
  <2> SUFFICES ASSUME Init PROVE AckInv
    OBVIOUS
  <2>1. PlaceInv
    BY PlaceInvariant
  <2>2. DOMAIN log = {} /\ acked = {} /\ wpc = "down" /\ batch = <<>>
        /\ records = <<>> /\ applied = 0
    BY DEF Init
  <2> QED BY <2>1, <2>2 DEF AckInv, BatchPlace, FilesInOrder, NothingTorn,
             IndexComplete, AckedLogged
<1>2. AckInv /\ [Next]_vars /\ ElevenFiles' => AckInv'
  <2> SUFFICES ASSUME AckInv, [Next]_vars, active' <= 10
               PROVE  AckInv'
    BY DEF ElevenFiles
  <2>1. ~Crash /\ IInv /\ PlaceInv
    BY DEF Crash, AckInv, PlaceInv
  <2>2. PlaceInv' /\ BatchPlace' /\ FilesInOrder' /\ NothingTorn'
    BY <2>1, PlaceInvariant, BatchPlaceStep, FilesInOrderStep, NothingTornStep DEF AckInv
  <2> QED BY <2>1, <2>2, IndexCompleteStep, AckedLoggedStep DEF AckInv
<1>3. AckInv => AckedIndexed
  <2> SUFFICES ASSUME AckInv, wpc # "down", NEW w \in acked
               PROVE  recordMap[w.key].id >= w.id
    BY DEF AckedIndexed
  <2>1. PICK i \in DOMAIN log : i <= Indexed /\ log[i].key = w.key /\ log[i].id = w.id
    BY DEF AckInv, AckedLogged
  <2> QED BY <2>1 DEF AckInv, IndexComplete
<1> QED
  BY <1>1, <1>2, <1>3, PTL DEF Spec

-----------------------------------------------------------------------------
(* The index is exact if no batch goes on behind a rotation.               *)

(* Hint h of key k names the place of record i of the log L.               *)
IsPlaceOf(L, h, k, i) ==
    IsFor(L, h, k, i) /\ h.fd = L[i].fd /\ h.off = L[i].off

RotatedLast ==
    /\ wpc = "write" /\ Len(records) < Len(batch) => newStableFiles = {}
    /\ wpc = "create" => Len(records) = Len(batch)

BatchExact ==
    \A j \in DOMAIN records : IsPlaceOf(log, records[j], batch[j].key, Base + j)

IndexExact ==
    \A k \in Keys : recordMap[k] # NoHint =>
        \E i \in DOMAIN log : i <= Indexed /\ IsPlaceOf(log, recordMap[k], k, i)

ExactInv == PlaceInv /\ lag = 0 /\ RotatedLast /\ BatchExact /\ IndexExact

LEMMA LagStep == ASSUME TellLags = FALSE, lag = 0, [Next]_vars
                 PROVE  lag' = 0
<1> USE DEF storeVars
<1>1. ASSUME NEW c \in Clients, Client(c)
      PROVE  lag' = lag
  BY <1>1, ClientLeavesFiles
<1>2. ASSUME NEW flush \in Flushes, CommitRecord(flush)
      PROVE  lag' = 0
  BY <1>2 DEF CommitRecord
<1>3. CASE Worker /\ \A flush \in Flushes : ~CommitRecord(flush)
  BY <1>3 DEF Worker, Swap, Rotate, CreateActive, InsertBegin, InsertStable, InsertEnd,
     ClearActiveMap, ApplyValue, ApplyHint, Acknowledge, CommitDone, CheckRunning
<1>4. CASE Open \/ Close \/ Destroy \/ Crash \/ UNCHANGED vars
  BY <1>4 DEF Open, AppendLag, Close, Destroy, Crash, ProcessEnds, vars
<1> QED
  BY <1>1, <1>2, <1>3, <1>4 DEF Next, Worker

LEMMA RotatedLastStep ==
    ASSUME IInv, RotatedLast, [Next]_vars, wpc = "rotate" => Len(records) = Len(batch)
    PROVE  RotatedLast'
<1> USE DEF diskVars, storeVars, workerVars
<1>0. Len(records) \in Nat /\ Len(batch) \in Nat /\ Len(records) <= Len(batch)
  BY TypesOf
<1>1. CASE UNCHANGED <<records, batch, newStableFiles>> /\ (wpc' = wpc \/ wpc' \notin {"write", "create"})
  BY <1>1 DEF RotatedLast
<1>2. ASSUME NEW c \in Clients, Client(c)
      PROVE  UNCHANGED <<records, batch, newStableFiles, wpc>>
  BY <1>2, ClientLeavesFiles
<1>3. ASSUME NEW flush \in Flushes, CommitRecord(flush)
      PROVE  RotatedLast'
  BY <1>3 DEF CommitRecord, RotatedLast
<1>4. CASE Swap \/ CommitDone \/ Destroy \/ Crash
  BY <1>4 DEF Swap, CommitDone, Destroy, Crash, ProcessEnds, RotatedLast
<1>5. CASE Rotate
  BY <1>5 DEF Rotate, RotatedLast
<1>6. CASE CreateActive
  BY <1>0, <1>6 DEF CreateActive, RotatedLast
<1>7. CASE \/ InsertBegin \/ InsertStable \/ InsertEnd \/ ClearActiveMap
           \/ ApplyValue \/ ApplyHint \/ Acknowledge \/ CheckRunning
  BY <1>1, <1>7 DEF InsertBegin, InsertStable, InsertEnd, ClearActiveMap, ApplyValue,
     ApplyHint, Acknowledge, CheckRunning
<1>8. CASE Open \/ Close \/ UNCHANGED vars
  BY <1>1, <1>8 DEF Open, Close, vars
<1> QED
  BY <1>1, <1>2, <1>3, <1>4, <1>5, <1>6, <1>7, <1>8 DEF Next, Worker

(* Before the rotation that ends a batch the number that hints get is that *)
(* of the active file.                                                     *)
LEMMA CommitRecordExact ==
    ASSUME ExactInv, NEW flush \in Flushes, CommitRecord(flush)
    PROVE  BatchExact'
<1> DEFINE n == Len(records) + 1
           w == batch[n]
           r == WriteRecord(w, active, FileSize(log, active))
           h == [fd |-> HintFD, off |-> r.off - (IF flush = "early" THEN 0 ELSE lag),
                 size |-> ValueSize[w.val], id |-> w.id]
<1>0. IInv /\ BatchLogged /\ lag = 0
  BY DEF ExactInv, PlaceInv
<1>1. /\ n \in Nat /\ Len(records) \in Nat /\ Len(log) \in Nat
      /\ DOMAIN records = 1..Len(records) /\ DOMAIN log = 1..Len(log)
      /\ active \in Nat /\ records \in Seq(Hint) /\ log \in Seq(LogRecord)
  BY <1>0, TypesOf
<1>2. r \in LogRecord /\ r.fd = active /\ log' = Append(log, r) /\ r.off \in Nat
  BY <1>0, CommitRecordAppends DEF LogRecord
<1>3. records' = Append(records, h) /\ wpc = "write" /\ Len(records) < Len(batch)
      /\ batch' = batch
  BY DEF CommitRecord
<1>4. HintFD = active
  <2>1. getActiveFD \in Nat /\ NextFD = active
    BY <1>0, <1>1, <1>3, NextFDIsTop DEF IInv, Top
  <2>2. newStableFiles = {}
    BY <1>3 DEF ExactInv, RotatedLast
  <2>3. Cardinality(newStableFiles) = 0
    BY <2>2, FS_EmptySet
  <2> QED BY <2>1, <2>3 DEF NextFD, HintFD
<1>5. h.fd = r.fd /\ h.off = r.off
  BY <1>0, <1>2, <1>4
<1> HIDE DEF r, h
<1>6. /\ records'[n] = h /\ log'[Len(log) + 1] = r /\ DOMAIN records' = 1..n
      /\ \A j \in DOMAIN records : records'[j] = records[j]
      /\ \A i \in DOMAIN log : log'[i] = log[i]
  BY <1>1, <1>2, <1>3
<1>7. Base' = Base /\ Base \in Nat /\ Base + n = Len(log) + 1 /\ BatchLogged'
  <2>1. Base' = Base /\ BatchLogged'
    BY <1>0, CommitRecordLogged
  <2> QED BY <1>0, <1>1, <2>1 DEF Base, BatchLogged
<1>8. ASSUME NEW j \in DOMAIN records'
      PROVE  IsPlaceOf(log', records'[j], batch'[j].key, Base' + j)
  <2>1. IsFor(log', records'[j], batch'[j].key, Base' + j)
    BY <1>7, <1>8 DEF BatchLogged
  <2>2. records'[j].fd = log'[Base + j].fd /\ records'[j].off = log'[Base + j].off
    <3>1. CASE j = n
      BY <1>5, <1>6, <1>7, <3>1
    <3>2. CASE j # n
      <4>1. j \in DOMAIN records /\ Base + j \in DOMAIN log
        BY <1>1, <1>6, <1>7, <3>2
      <4>2. records[j].fd = log[Base + j].fd /\ records[j].off = log[Base + j].off
        BY <4>1 DEF ExactInv, BatchExact, IsPlaceOf
      <4> QED BY <1>6, <4>1, <4>2
    <3> QED BY <3>1, <3>2
  <2> QED BY <1>7, <2>1, <2>2 DEF IsPlaceOf
<1> QED
  BY <1>8 DEF BatchExact

LEMMA BatchExactStep == ASSUME ExactInv, [Next]_vars
                        PROVE  BatchExact'
<1>1. CASE UNCHANGED <<log, batch, records>>
  BY <1>1 DEF ExactInv, BatchExact, Base
<1>2. CASE Swap \/ CommitDone \/ Destroy \/ Crash
  <2>1. records' = <<>>
    BY <1>2 DEF Swap, CommitDone, Destroy, Crash, ProcessEnds
  <2> QED
    BY <2>1 DEF BatchExact
<1> QED
  BY <1>1, <1>2, QueueSteps, CommitRecordExact DEF QueueVars, ExactInv, PlaceInv

LEMMA IndexExactStep == ASSUME ExactInv, [Next]_vars
                        PROVE  IndexExact'
<1>0. IInv /\ BatchLogged
  BY DEF ExactInv, PlaceInv
<1>1. DOMAIN log = 1..Len(log) /\ Len(log) \in Nat /\ recordMap \in [Keys -> Hint]
      /\ Indexed \in Int
  BY <1>0, TypesOf DEF Indexed, Base
<1>2. CASE Open
  <2> DEFINE fd == ActivePath(dir)
  <2>1. /\ wpc = "down" /\ wpc' = "swap" /\ UNCHANGED <<log, records, applied>>
        /\ recordMap' = [k \in Keys |-> RestoredHint(log, fd, dir, k)]
    BY <1>2 DEF Open, workerVars
  <2>2. Indexed' >= Len(log)
    BY <1>0, <1>1, <2>1, TypesOf DEF Indexed, Base
  <2> SUFFICES ASSUME NEW k \in Keys, recordMap'[k] # NoHint
               PROVE  \E i \in DOMAIN log :
                         i <= Indexed' /\ IsPlaceOf(log, recordMap'[k], k, i)
    BY <2>1 DEF IndexExact
  <2>3. PICK i \in DOMAIN log :
          /\ IsFor(log, RestoredHint(log, fd, dir, k), k, i)
          /\ RestoredHint(log, fd, dir, k).fd = log[i].fd
          /\ RestoredHint(log, fd, dir, k).off = log[i].off
    BY <1>0, <2>1, RestoredIsFor
  <2>4. i <= Indexed'
    <3>1. Indexed' \in Int
      BY <1>0, <2>1, TypesOf DEF Indexed, Base
    <3> QED BY <1>1, <2>2, <3>1
  <2>5. IsPlaceOf(log, recordMap'[k], k, i)
    BY <2>1, <2>3 DEF IsPlaceOf
  <2> QED
    BY <2>4, <2>5
<1>3. CASE ApplyHint
  <2> DEFINE n == applied + 1
             key == batch[n].key
  <2>1. /\ Base + n \in DOMAIN log /\ Indexed' = Base + n /\ key \in Keys
        /\ Base + n = Indexed + 1 /\ n \in DOMAIN records
        /\ recordMap' = [recordMap EXCEPT ![key] = records[n]] /\ log' = log
    BY <1>0, <1>3, ApplyHintIsFor DEF ApplyHint, diskVars
  <2>2. IsPlaceOf(log, records[n], key, Base + n)
    BY <2>1 DEF ExactInv, BatchExact
  <2> HIDE DEF n, key
  <2> SUFFICES ASSUME NEW k \in Keys, recordMap'[k] # NoHint
               PROVE  \E i \in DOMAIN log :
                         i <= Indexed' /\ IsPlaceOf(log, recordMap'[k], k, i)
    BY <2>1 DEF IndexExact
  <2>3. CASE k = key
    BY <1>1, <2>1, <2>2, <2>3
  <2>4. CASE k # key
    <3>1. PICK i \in DOMAIN log : i <= Indexed /\ IsPlaceOf(log, recordMap[k], k, i)
      BY <1>1, <2>1, <2>4 DEF ExactInv, IndexExact
    <3>2. i <= Indexed'
      BY <1>1, <2>1, <3>1
    <3> QED BY <1>1, <2>1, <2>4, <3>1, <3>2
  <2> QED BY <2>3, <2>4
<1>4. CASE Destroy \/ Crash
  <2>1. recordMap' = [k \in Keys |-> NoHint]
    BY <1>4 DEF Destroy, Crash, ProcessEnds
  <2> QED BY <2>1 DEF IndexExact
<1>5. CASE ~Open /\ ~ApplyHint /\ ~Destroy /\ ~Crash
  BY <1>0, <1>5, PlacesKept DEF ExactInv, IndexExact, IsPlaceOf, IsFor
<1> QED
  BY <1>2, <1>3, <1>4, <1>5

(* With an exact tellp() every entry of the index is the place of its      *)
(* record in every reachable state, crashes and restarts included, if a    *)
(* file is only ever rotated by the last write of a batch (CommitWrite).   *)
RotationEndsBatch == wpc = "rotate" => Len(records) = Len(batch)

LEMMA ExactFacts ==
    ASSUME TellLags = FALSE
    PROVE  /\ Init => ExactInv
           /\ ExactInv /\ RotationEndsBatch /\ [Next]_vars => ExactInv'
           /\ ExactInv => IndexLocatesRecord
<1>1. Init => ExactInv
  <2> SUFFICES ASSUME Init PROVE ExactInv
    OBVIOUS
  <2>1. /\ PlaceInv /\ lag = 0 /\ wpc = "down" /\ DOMAIN records = {}
        /\ recordMap = [k \in Keys |-> NoHint]
    BY PlaceInvariant DEF Init
  <2> QED BY <2>1 DEF ExactInv, RotatedLast, BatchExact, IndexExact
<1>2. ExactInv /\ RotationEndsBatch /\ [Next]_vars => ExactInv'
  BY PlaceInvariant, LagStep, RotatedLastStep, BatchExactStep, IndexExactStep
     DEF ExactInv, PlaceInv, RotationEndsBatch
<1>3. ExactInv => IndexLocatesRecord
  BY DEF ExactInv, IndexExact, IsPlaceOf, IsFor, IndexLocatesRecord
<1> QED
  BY <1>1, <1>2, <1>3

THEOREM IndexIsExact ==
    ASSUME TellLags = FALSE
    PROVE  Spec /\ []RotationEndsBatch => []IndexLocatesRecord
BY ExactFacts, PTL DEF Spec

-----------------------------------------------------------------------------
(* A single caller that waits for each of its writes.                      *)
Waiting(c) == pc[c] \in {"putWait", "deleteWait"}

(* At most one write is not acknowledged, and the caller waits for it.     *)
OneWrite(c) ==
    /\ Len(writes) <= 1 /\ Len(batch) <= 1
    /\ applied < Len(batch) => writes = <<>>
    /\ applied < Len(batch) \/ writes # <<>> =>
         Waiting(c) /\ \A w \in acked : w.id < issued
    /\ Waiting(c) => cid[c] = issued
    /\ \A w \in acked : w.id <= issued
    /\ wpc = "rotate" => Len(records) > 0

LEMMA OneWriteClient ==
    ASSUME IInv, "putAsync" \notin Ops, NEW c \in Clients, OneWrite(c), Client(c)
    PROVE  OneWrite(c)'
<1> USE DEF Waiting
<1>0. UNCHANGED <<batch, applied, acked, wpc, records>>
  BY ClientLeavesFiles DEF workerVars
<1>1. issued \in Nat /\ Len(batch) \in Nat /\ applied \in Nat /\ writes \in Seq(Write)
      /\ \A w \in acked : w.id \in Nat
  BY TypesOf DEF IInv, TypeOK, PromiseType, Write
<1>2. pc \in [Clients -> ClientPCs] /\ cid \in [Clients -> Nat]
  BY DEF IInv, TypeOK, ClientType
<1>3. ASSUME NEW k \in Keys, NEW v \in Stored, Enqueue(k, v), pc[c] = "idle",
             Waiting(c)', cid'[c] = issued + 1
      PROVE  OneWrite(c)'
  <2>1. ~ (applied < Len(batch)) /\ writes = <<>>
    BY <1>3 DEF OneWrite
  <2>2. issued' = issued + 1 /\ Len(writes') = 1
    BY <1>3, <2>1 DEF Enqueue
  <2>3. \A w \in acked : w.id < issued'
    BY <1>1, <2>2 DEF OneWrite
  <2> QED BY <1>0, <1>1, <1>3, <2>1, <2>2, <2>3 DEF OneWrite
<1>4. ASSUME NEW k \in Keys, NEW v \in Vals, Put(c, k, v)
      PROVE  OneWrite(c)'
  BY <1>2, <1>3, <1>4 DEF Put, Stored
<1>5. ASSUME NEW k \in Keys, Delete(c, k)
      PROVE  OneWrite(c)'
  BY <1>2, <1>3, <1>5 DEF Delete, Stored
<1>6. CASE FutureReady(c)
  <2>1. PICK w \in acked : w.id = cid[c]
    BY <1>6 DEF FutureReady
  <2>2. cid[c] = issued /\ issued' = issued /\ writes' = writes /\ ~Waiting(c)'
    BY <1>2, <1>6 DEF FutureReady, OneWrite, promiseVars
  <2>3. ~ (applied < Len(batch)) /\ writes = <<>>
    BY <1>1, <2>1, <2>2 DEF OneWrite
  <2> QED BY <1>0, <2>2, <2>3 DEF OneWrite
<1>7. ASSUME UNCHANGED <<writes, issued, cid>>, Waiting(c)' = Waiting(c)
      PROVE  OneWrite(c)'
  BY <1>0, <1>7 DEF OneWrite
<1>8. CASE \E k \in Keys : DeleteMiss(c, k) \/ GetLookup(c, k)
  BY <1>2, <1>7, <1>8 DEF DeleteMiss, GetLookup, promiseVars
<1>9. CASE \/ GetCompare(c) \/ GetActive(c) \/ GetMiss(c) \/ GetSeek(c) \/ GetRead(c)
           \/ Return(c)
  BY <1>2, <1>7, <1>9 DEF GetCompare, GetActive, GetMiss, GetSeek, GetRead,
     GetReturns, Return, promiseVars
<1>10. \A k \in Keys, v \in Vals : ~PutAsync(c, k, v)
  BY DEF PutAsync
<1> QED
  BY <1>4, <1>5, <1>6, <1>8, <1>9, <1>10 DEF Client

LEMMA OneWriteStep ==
    ASSUME IInv, OrderInv, BatchPlace, "putAsync" \notin Ops,
           NEW c, Clients = {c}, OneWrite(c), [Next]_vars
    PROVE  OneWrite(c)'
<1> USE DEF diskVars, storeVars, mapVars, workerVars, promiseVars, clientVars, Waiting
<1>0. /\ issued \in Nat /\ Len(batch) \in Nat /\ applied \in Nat /\ c \in Clients
      /\ writes \in Seq(Write) /\ batch \in Seq(Write)
      /\ records \in Seq(Hint) /\ Len(records) \in Nat
      /\ \A w \in acked : w.id \in Nat
  BY TypesOf DEF IInv, TypeOK, PromiseType, Write
<1>1. ASSUME NEW d \in Clients, Client(d)
      PROVE  OneWrite(c)'
  <2>1. d = c
    BY <1>1
  <2> QED BY <1>0, <1>1, <2>1, OneWriteClient
<1>2. CASE UNCHANGED <<writes, batch, applied, issued, acked, pc, cid, records>>
           /\ wpc' # "rotate"
  BY <1>2 DEF OneWrite
<1>3. CASE Swap
  <2>1. Len(batch) = 0 /\ applied = 0
    BY <1>3 DEF Swap, BatchPlace
  <2>2. /\ batch' = writes /\ writes' = <<>> /\ applied' = 0 /\ wpc' = "write"
        /\ UNCHANGED <<issued, acked, pc, cid>>
    BY <1>3 DEF Swap
  <2>3. 0 < Len(writes) => writes # <<>>
    OBVIOUS
  <2>4. Len(writes') = 0
    BY <2>2
  <2> QED BY <2>2, <2>3, <2>4 DEF OneWrite
<1>4. ASSUME NEW flush \in Flushes, CommitRecord(flush)
      PROVE  OneWrite(c)'
  <2>1. UNCHANGED <<writes, batch, applied, issued, acked, pc, cid>>
    BY <1>4 DEF CommitRecord
  <2>2. Len(records') > 0
    BY <1>0, <1>4 DEF CommitRecord
  <2> QED BY <2>1, <2>2 DEF OneWrite
<1>5. CASE Acknowledge
  <2>1. /\ acked' = acked \cup {batch[applied + 1]} /\ applied' = applied + 1
        /\ wpc' = "apply" /\ UNCHANGED <<writes, batch, issued, pc, cid>>
    BY <1>5 DEF Acknowledge
  <2>2. applied < Len(batch)
    BY <1>5 DEF Acknowledge, IInv, BatchProgress
  <2>3. applied + 1 \in DOMAIN batch /\ applied + 1 = Len(batch) /\ writes = <<>>
    BY <1>0, <2>2 DEF OneWrite
  <2>4. batch[applied + 1].id <= issued
    BY <2>3 DEF OrderInv, Numbered
  <2> QED BY <1>0, <2>1, <2>3, <2>4 DEF OneWrite
<1>6. CASE CommitDone
  <2>1. /\ batch' = <<>> /\ applied' = 0 /\ wpc' = "check" /\ applied = Len(batch)
        /\ UNCHANGED <<writes, issued, acked, pc, cid>>
    BY <1>6 DEF CommitDone
  <2>2. Len(batch') = 0
    BY <2>1
  <2> QED BY <2>1, <2>2 DEF OneWrite
<1>7. CASE Destroy \/ Crash
  <2>1. /\ batch' = <<>> /\ writes' = <<>> /\ applied' = 0 /\ wpc' = "down"
        /\ UNCHANGED <<issued, acked>> /\ pc' = [d \in Clients |-> "idle"]
    BY <1>7 DEF Destroy, Crash, ProcessEnds
  <2>2. Len(batch') = 0 /\ Len(writes') = 0 /\ ~Waiting(c)'
    BY <1>0, <2>1
  <2> QED BY <2>1, <2>2 DEF OneWrite
<1>8. CASE \/ Rotate \/ CreateActive \/ InsertBegin \/ InsertStable \/ InsertEnd
           \/ ClearActiveMap \/ ApplyValue \/ ApplyHint \/ CheckRunning \/ Open
  BY <1>2, <1>8 DEF Rotate, CreateActive, InsertBegin, InsertStable, InsertEnd,
     ClearActiveMap, ApplyValue, ApplyHint, CheckRunning, Open
<1>9. CASE Close \/ UNCHANGED vars
  BY <1>9 DEF Close, vars, OneWrite
<1> QED
  BY <1>1, <1>3, <1>4, <1>5, <1>6, <1>7, <1>8, <1>9 DEF Next, Worker

LoneInv(c) == ExactInv /\ BatchPlace /\ OneWrite(c)

LEMMA LoneFacts ==
    ASSUME TellLags = FALSE, "putAsync" \notin Ops, NEW c, Clients = {c}
    PROVE  /\ Init => LoneInv(c)
           /\ LoneInv(c) /\ [Next]_vars => LoneInv(c)'
<1> USE DEF LoneInv
<1>1. Init => LoneInv(c)
  <2> SUFFICES ASSUME Init PROVE BatchPlace /\ OneWrite(c)
    BY ExactFacts
  <2>1. /\ wpc = "down" /\ batch = <<>> /\ records = <<>> /\ applied = 0
        /\ writes = <<>> /\ acked = {} /\ ~Waiting(c)
    BY DEF Init, Waiting
  <2>2. Len(batch) = 0 /\ Len(writes) = 0
    BY <2>1
  <2> QED BY <2>1, <2>2 DEF BatchPlace, OneWrite
<1>2. LoneInv(c) => RotationEndsBatch
  <2> SUFFICES ASSUME LoneInv(c), wpc = "rotate" PROVE Len(records) = Len(batch)
    BY DEF RotationEndsBatch
  <2>1. /\ Len(records) > 0 /\ Len(batch) <= 1 /\ Len(records) <= Len(batch)
        /\ Len(records) \in Nat /\ Len(batch) \in Nat
    BY TypesOf DEF OneWrite, ExactInv, PlaceInv
  <2> QED BY <2>1
<1>3. LoneInv(c) /\ [Next]_vars => LoneInv(c)'
  <2> SUFFICES ASSUME LoneInv(c), [Next]_vars PROVE LoneInv(c)'
    OBVIOUS
  <2>1. IInv /\ OrderInv /\ BatchPlace /\ OneWrite(c) /\ ExactInv
    BY DEF ExactInv, PlaceInv
  <2>2. ExactInv'
    BY <1>2, <2>1, ExactFacts
  <2>3. BatchPlace' /\ OneWrite(c)'
    BY <2>1, BatchPlaceStep, OneWriteStep
  <2> QED BY <2>2, <2>3
<1> QED
  BY <1>1, <1>3

(* With an exact tellp() a single caller that waits for each of its writes *)
(* always finds an exact index, through rotations, restarts and crashes at *)
(* any point: its batches have one write, so that a rotation ends them     *)
(* (Put, Delete, CommitWorker, CommitWrite).                               *)
THEOREM LoneCallerIndexIsExact ==
    ASSUME TellLags = FALSE, "putAsync" \notin Ops, NEW c, Clients = {c}
    PROVE  Spec => []IndexLocatesRecord
<1>1. LoneInv(c) => IndexLocatesRecord
  BY ExactFacts DEF LoneInv
<1> QED
  BY <1>1, LoneFacts, PTL DEF Spec
=============================================================================
