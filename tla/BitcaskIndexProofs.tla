------------------------ MODULE BitcaskIndexProofs ------------------------
(***************************************************************************)
(* Proofs about the order of the writes and about the index of             *)
(* BitcaskImpl, for every value of the constants: rotations anywhere in a  *)
(* batch, crashes and restarts, any number of clients, lagging tellp().    *)
(***************************************************************************)
EXTENDS BitcaskImplProofs

-----------------------------------------------------------------------------
(* The order of the writes.                                                *)

(* Promises are numbered in the order of the calls, from 1.                *)
InOrder(s) == \A i, j \in DOMAIN s : i < j => s[i].id < s[j].id
Numbered(s) == \A i \in DOMAIN s : 0 < s[i].id /\ s[i].id <= issued
Before(s, from, t) ==
    \A i \in DOMAIN s, j \in DOMAIN t : from <= j => s[i].id < t[j].id

(* The log, the part of the batch that is not written yet, and the queue   *)
(* follow one another in the order of the calls.                           *)
OrderInv ==
    /\ InOrder(log) /\ InOrder(batch) /\ InOrder(writes)
    /\ Numbered(log) /\ Numbered(batch) /\ Numbered(writes)
    /\ Before(log, Len(records) + 1, batch)
    /\ Before(log, 1, writes) /\ Before(batch, 1, writes)

(* The types that the proofs below start from.                             *)
LEMMA TypesOf ==
    ASSUME IInv
    PROVE  /\ log \in Seq(LogRecord) /\ batch \in Seq(Write)
           /\ writes \in Seq(Write) /\ records \in Seq(Hint)
           /\ applied \in Nat /\ issued \in Nat /\ active \in Nat
           /\ lag \in Nat /\ recordMap \in [Keys -> Hint]
           /\ activeMap \in [Keys -> Stored \cup {NotFound}]
           /\ Len(records) <= Len(batch)
           /\ wpc = "down" => newStableFiles = {} /\ batch = <<>> /\ records = <<>>
<1>1. /\ log \in Seq(LogRecord) /\ batch \in Seq(Write)
      /\ writes \in Seq(Write) /\ records \in Seq(Hint)
      /\ applied \in Nat /\ issued \in Nat /\ active \in Nat
      /\ lag \in Nat /\ recordMap \in [Keys -> Hint]
      /\ activeMap \in [Keys -> Stored \cup {NotFound}]
  BY DEF IInv, TypeOK, DiskType, StoreType, WorkerType, PromiseType
<1>2. /\ Len(records) <= Len(batch)
      /\ wpc = "down" => newStableFiles = {} /\ batch = <<>>
  BY DEF IInv, BatchProgress
<1> QED
  BY <1>1, <1>2

LEMMA ElementTypes ==
    ASSUME IInv
    PROVE  /\ \A i \in DOMAIN log : log[i] \in LogRecord /\ log[i].id \in Nat
           /\ \A i \in DOMAIN batch : batch[i] \in Write /\ batch[i].id \in Nat
           /\ \A i \in DOMAIN writes : writes[i].id \in Nat
           /\ \A i \in DOMAIN records : records[i] \in Hint /\ records[i].id \in Nat
<1>1. \A i \in DOMAIN log : log[i] \in LogRecord
  BY TypesOf, ElementOfSeq
<1>2. \A i \in DOMAIN batch : batch[i] \in Write
  BY TypesOf, ElementOfSeq
<1>3. \A i \in DOMAIN writes : writes[i] \in Write
  BY TypesOf, ElementOfSeq
<1>4. \A i \in DOMAIN records : records[i] \in Hint
  BY TypesOf, ElementOfSeq
<1> QED
  BY <1>1, <1>2, <1>3, <1>4 DEF LogRecord, Write, Hint

(* What every step does to the queues.  Most do nothing.                   *)
QueueVars == <<log, batch, records, writes, issued>>

LEMMA QueueSteps ==
    ASSUME IInv, [Next]_vars
    PROVE  \/ UNCHANGED QueueVars
           \/ /\ \E k \in Keys, v \in Stored : Enqueue(k, v)
              /\ UNCHANGED <<log, batch, records>>
           \/ Swap \/ \E flush \in Flushes : CommitRecord(flush)
           \/ CommitDone \/ Destroy \/ Crash
<1> USE DEF QueueVars, diskVars, storeVars, mapVars, workerVars, promiseVars,
        clientVars
<1>1. ASSUME NEW c \in Clients, NEW k \in Keys, NEW v \in Vals,
             Put(c, k, v) \/ PutAsync(c, k, v)
      PROVE  Enqueue(k, v) /\ v \in Stored /\ UNCHANGED <<log, batch, records>>
  BY <1>1 DEF Put, PutAsync, Stored
<1>2. ASSUME NEW c \in Clients, NEW k \in Keys, Delete(c, k)
      PROVE  Enqueue(k, Tombstone) /\ Tombstone \in Stored
             /\ UNCHANGED <<log, batch, records>>
  BY <1>2 DEF Delete, Stored
<1>3. ASSUME NEW c \in Clients, NEW k \in Keys, DeleteMiss(c, k) \/ GetLookup(c, k)
      PROVE  UNCHANGED QueueVars
  BY <1>3 DEF DeleteMiss, GetLookup
<1>4. ASSUME NEW c \in Clients, \/ FutureReady(c) \/ GetCompare(c) \/ GetActive(c)
                                \/ GetMiss(c) \/ GetSeek(c) \/ GetRead(c) \/ Return(c)
      PROVE  UNCHANGED QueueVars
  <2>1. CASE FutureReady(c) \/ GetCompare(c) \/ Return(c)
    BY <2>1 DEF FutureReady, GetCompare, Return
  <2>2. CASE GetActive(c) \/ GetMiss(c) \/ GetSeek(c) \/ GetRead(c)
    BY <2>2 DEF GetActive, GetMiss, GetSeek, GetRead, GetReturns
  <2> QED BY <1>4, <2>1, <2>2
<1>5. CASE CreateActive
  <2>1. UNCHANGED <<batch, records, writes, issued>>
    BY <1>5 DEF CreateActive
  <2> QED BY <1>5, <2>1, CreateTruncatesNothing
<1>6. CASE Rotate \/ InsertBegin \/ InsertStable \/ InsertEnd \/ ClearActiveMap
  BY <1>6 DEF Rotate, InsertBegin, InsertStable, InsertEnd, ClearActiveMap
<1>7. CASE ApplyValue \/ ApplyHint \/ Acknowledge \/ CheckRunning
  BY <1>7 DEF ApplyValue, ApplyHint, Acknowledge, CheckRunning
<1>8. CASE Open \/ Close \/ UNCHANGED vars
  BY <1>8 DEF Open, Close, vars
<1> QED
  BY <1>1, <1>2, <1>3, <1>4, <1>5, <1>6, <1>7, <1>8 DEF Next, Worker, Client

(* Calls append to the queue, and take the next number.                    *)
LEMMA EnqueueOrder ==
    ASSUME IInv, OrderInv, NEW k \in Keys, NEW v \in Stored, Enqueue(k, v),
           UNCHANGED <<log, batch, records>>
    PROVE  OrderInv'
<1> DEFINE w == [key |-> k, val |-> v, id |-> issued + 1]
<1>1. issued' = issued + 1 /\ writes' = Append(writes, w)
  BY DEF Enqueue
<1>2. w.id = issued + 1
  OBVIOUS
<1> HIDE DEF w
<1>3. \A i \in DOMAIN writes' : \/ i \in DOMAIN writes /\ writes'[i] = writes[i]
                                \/ i = Len(writes) + 1 /\ writes'[i] = w
  BY <1>1, TypesOf
<1>4. DOMAIN writes = 1..Len(writes) /\ issued \in Nat /\ Len(writes) \in Nat
  BY TypesOf
<1>5. Numbered(log)' /\ Numbered(batch)' /\ Numbered(writes)'
  BY <1>1, <1>2, <1>3, <1>4, ElementTypes DEF OrderInv, Numbered
<1>6. InOrder(writes)'
  BY <1>2, <1>3, <1>4, ElementTypes DEF OrderInv, InOrder, Numbered
<1>7. Before(log, 1, writes)' /\ Before(batch, 1, writes)'
  <2>1. ASSUME NEW i \in DOMAIN log', NEW j \in DOMAIN writes'
        PROVE  log'[i].id < writes'[j].id
    BY <1>2, <1>3, <1>4, ElementTypes DEF OrderInv, Before, Numbered
  <2>2. ASSUME NEW i \in DOMAIN batch', NEW j \in DOMAIN writes'
        PROVE  batch'[i].id < writes'[j].id
    BY <1>2, <1>3, <1>4, ElementTypes DEF OrderInv, Before, Numbered
  <2> QED BY <2>1, <2>2 DEF Before
<1>8. InOrder(log)' /\ InOrder(batch)' /\ Before(log, Len(records) + 1, batch)'
  BY DEF OrderInv, InOrder, Before
<1> QED
  BY <1>5, <1>6, <1>7, <1>8 DEF OrderInv

(* CommitRecord moves the first unwritten write of the batch to the log.   *)
LEMMA CommitRecordOrder ==
    ASSUME IInv, OrderInv, NEW flush \in Flushes, CommitRecord(flush)
    PROVE  OrderInv'
<1> DEFINE n == Len(records) + 1
           w == batch[n]
           r == WriteRecord(w, active, FileSize(log, active))
<1>1. /\ n \in DOMAIN batch /\ n \in Nat /\ Len(records') = n
      /\ log' = Append(log, r) /\ UNCHANGED <<batch, writes, issued>>
  <2>1. n \in DOMAIN batch /\ n \in Nat /\ UNCHANGED <<batch, writes, issued>>
    BY TypesOf DEF CommitRecord, promiseVars
  <2>2. Len(records') = n
    BY TypesOf DEF CommitRecord
  <2> QED BY <2>1, <2>2, CommitRecordAppends
<1>2. r.id = w.id
  BY DEF WriteRecord
<1> HIDE DEF r, w, n
<1>3. \A i \in DOMAIN log' : \/ i \in DOMAIN log /\ log'[i] = log[i]
                             \/ i = Len(log) + 1 /\ log'[i].id = w.id
  BY <1>1, <1>2, TypesOf
<1>4. DOMAIN log = 1..Len(log) /\ Len(log) \in Nat /\ DOMAIN batch \subseteq Nat
  BY TypesOf
<1>5. w.id \in Nat /\ \A i \in DOMAIN log : log[i].id < w.id
  BY <1>1, ElementTypes DEF OrderInv, Before, n, w
<1>6. InOrder(log)'
  BY <1>3, <1>4, <1>5, ElementTypes DEF OrderInv, InOrder
<1>7. Numbered(log)'
  BY <1>1, <1>3 DEF OrderInv, Numbered, w
<1>8. Before(log, Len(records) + 1, batch)'
  <2> SUFFICES ASSUME NEW i \in DOMAIN log', NEW j \in DOMAIN batch, n + 1 <= j
               PROVE  log'[i].id < batch[j].id
    BY <1>1 DEF Before
  <2>1. w.id < batch[j].id
    BY <1>1, <1>4 DEF OrderInv, InOrder, w
  <2>2. CASE i \in DOMAIN log /\ log'[i] = log[i]
    BY <1>1, <1>4, <2>2 DEF OrderInv, Before, n
  <2> QED BY <1>3, <2>1, <2>2
<1>9. Before(log, 1, writes)'
  BY <1>1, <1>3 DEF OrderInv, Before, w
<1> QED
  BY <1>1, <1>6, <1>7, <1>8, <1>9 DEF OrderInv, InOrder, Numbered, Before

(* Every step keeps the order.                                             *)
LEMMA OrderStep == ASSUME IInv, OrderInv, [Next]_vars
                   PROVE  OrderInv'
<1>1. CASE UNCHANGED QueueVars
  BY <1>1 DEF QueueVars, OrderInv, InOrder, Numbered, Before
<1>2. CASE Swap
  <2>1. /\ batch' = writes /\ writes' = <<>> /\ records' = <<>>
        /\ UNCHANGED <<log, issued>>
    BY <1>2 DEF Swap, diskVars, promiseVars
  <2>2. DOMAIN writes' = {} /\ Len(records') = 0
    BY <2>1
  <2> QED
    BY <2>1, <2>2 DEF OrderInv, InOrder, Numbered, Before
<1>3. CASE CommitDone
  <2>1. /\ batch' = <<>> /\ records' = <<>> /\ UNCHANGED <<log, issued, writes>>
    BY <1>3 DEF CommitDone, diskVars, promiseVars
  <2>2. DOMAIN batch' = {}
    BY <2>1
  <2> QED
    BY <2>1, <2>2 DEF OrderInv, InOrder, Numbered, Before
<1>4. CASE Destroy \/ Crash
  <2>1. /\ batch' = <<>> /\ writes' = <<>> /\ issued' = issued
    BY <1>4 DEF Destroy, Crash, ProcessEnds, promiseVars
  <2>2. DOMAIN batch' = {} /\ DOMAIN writes' = {}
    BY <2>1
  <2>3. /\ DOMAIN log' \subseteq DOMAIN log
        /\ \A i \in DOMAIN log' : log'[i].id = log[i].id
    BY <1>4, CrashKeepsPrefix DEF Destroy
  <2> QED
    BY <2>1, <2>2, <2>3 DEF OrderInv, InOrder, Numbered, Before
<1> QED
  BY <1>1, <1>2, <1>3, <1>4, QueueSteps, EnqueueOrder, CommitRecordOrder

(* Sequences that are in order one by one and one before the other are in  *)
(* order when they are joined.                                             *)
Increasing(ids) == \A i, j \in DOMAIN ids : i < j => ids[i] < ids[j]

LEMMA JoinIncreasing ==
    ASSUME NEW S \in Seq(Nat), NEW T \in Seq(Nat), Increasing(S), Increasing(T),
           \A i \in DOMAIN S, j \in DOMAIN T : S[i] < T[j]
    PROVE  /\ S \o T \in Seq(Nat) /\ Increasing(S \o T)
           /\ \A n \in Nat : /\ \A i \in DOMAIN S : S[i] < n
                             /\ \A j \in DOMAIN T : T[j] < n
                             => \A i \in DOMAIN (S \o T) : (S \o T)[i] < n
<1> DEFINE U == S \o T
<1>1. /\ U \in Seq(Nat) /\ Len(U) = Len(S) + Len(T)
      /\ \A i \in 1..Len(S) : U[i] = S[i]
      /\ \A i \in (Len(S) + 1)..Len(U) : U[i] = T[i - Len(S)]
  BY ConcatProperties
<1>2. /\ Len(S) \in Nat /\ Len(T) \in Nat
      /\ DOMAIN S = 1..Len(S) /\ DOMAIN T = 1..Len(T) /\ DOMAIN U = 1..Len(U)
  BY <1>1
<1> HIDE DEF U
<1>3. \A i \in DOMAIN U : \/ i \in DOMAIN S /\ U[i] = S[i]
                          \/ i - Len(S) \in DOMAIN T /\ U[i] = T[i - Len(S)]
                             /\ i > Len(S)
  BY <1>1, <1>2
<1>4. Increasing(U)
  BY <1>2, <1>3 DEF Increasing
<1> QED
  BY <1>1, <1>3, <1>4 DEF U

(* The sequence of the ids of a sequence.                                  *)
Ids(s) == [i \in DOMAIN s |-> s[i].id]

LEMMA IdsType ==
    ASSUME NEW S, NEW s \in Seq(S), \A i \in DOMAIN s : s[i].id \in Nat
    PROVE  /\ Ids(s) \in Seq(Nat) /\ DOMAIN Ids(s) = DOMAIN s
           /\ \A i \in DOMAIN s : Ids(s)[i] = s[i].id
           /\ InOrder(s) => Increasing(Ids(s))
<1>1. DOMAIN s = 1..Len(s) /\ Len(s) \in Nat
  OBVIOUS
<1>2. Ids(s) \in [1..Len(s) -> Nat]
  BY <1>1 DEF Ids
<1>3. Ids(s) \in Seq(Nat)
  BY <1>1, <1>2
<1> QED
  BY <1>1, <1>3 DEF Ids, InOrder, Increasing

(* The writes reach the files in the order of the calls, none twice and    *)
(* none overtaken, through the queue, the batch and the log (PutAsync,     *)
(* Delete, CommitWorker, CommitWrite).                                     *)
THEOREM WritesAreInOrder == Spec => []WritesInOrder
<1>1. Init => OrderInv
  <2> SUFFICES ASSUME Init PROVE OrderInv
    OBVIOUS
  <2>1. DOMAIN log = {} /\ DOMAIN batch = {} /\ DOMAIN writes = {}
    BY DEF Init
  <2> QED
    BY <2>1 DEF OrderInv, InOrder, Numbered, Before
<1>2. IInv /\ OrderInv => WritesInOrder
  <2> SUFFICES ASSUME IInv, OrderInv PROVE WritesInOrder
    OBVIOUS
  <2> DEFINE n == Len(records)
             unwritten == SubSeq(batch, n + 1, Len(batch))
             A == Ids(log)  B == Ids(unwritten)  C == Ids(writes)
  <2>1. /\ n \in Nat /\ n <= Len(batch) /\ Len(batch) \in Nat
        /\ DOMAIN batch = 1..Len(batch)
    BY TypesOf
  <2>2. /\ unwritten \in Seq(Write) /\ Len(unwritten) = Len(batch) - n
        /\ \A i \in 1..(Len(batch) - n) : unwritten[i] = batch[n + i]
    <3>1. SubSeq(batch, n + 1, Len(batch)) \in Seq(Write)
      BY <2>1, TypesOf, SubSeqProperties
    <3>2. Len(SubSeq(batch, n + 1, Len(batch))) = Len(batch) - n
      BY <2>1, TypesOf, SubSeqProperties
    <3> QED BY <2>1, <3>1, <3>2, TypesOf
  <2> HIDE DEF n, unwritten
  <2>3. DOMAIN unwritten = 1..(Len(batch) - n)
    BY <2>2
  <2>4. \A i \in DOMAIN unwritten :
            n + i \in DOMAIN batch /\ unwritten[i] = batch[n + i] /\ n + 1 <= n + i
            /\ n + i \in Nat
    BY <2>1, <2>2, <2>3
  <2>5. \A i \in DOMAIN unwritten : unwritten[i].id \in Nat
    BY <2>4, ElementTypes
  <2>6. /\ A \in Seq(Nat) /\ Increasing(A) /\ DOMAIN A = DOMAIN log
        /\ \A i \in DOMAIN log : A[i] = log[i].id
    BY TypesOf, ElementTypes, IdsType DEF OrderInv
  <2>7. InOrder(unwritten)
    BY <2>1, <2>3, <2>4, <2>5 DEF OrderInv, InOrder
  <2>8. /\ B \in Seq(Nat) /\ Increasing(B) /\ DOMAIN B = DOMAIN unwritten
        /\ \A i \in DOMAIN unwritten : B[i] = unwritten[i].id
    BY <2>2, <2>5, <2>7, IdsType
  <2>9. /\ C \in Seq(Nat) /\ Increasing(C) /\ DOMAIN C = DOMAIN writes
        /\ \A i \in DOMAIN writes : C[i] = writes[i].id
    BY TypesOf, ElementTypes, IdsType DEF OrderInv
  <2>10. WritesInOrder = Increasing(A \o B \o C)
    BY DEF WritesInOrder, Increasing, n, unwritten, Ids
  <2> HIDE DEF A, B, C
  <2>11. \A i \in DOMAIN A, j \in DOMAIN B : A[i] < B[j]
    BY <2>4, <2>6, <2>8 DEF OrderInv, Before, n
  <2>12. DOMAIN writes \subseteq {j \in Nat : 1 <= j}
    BY TypesOf
  <2>13. \A i \in DOMAIN A, j \in DOMAIN C : A[i] < C[j]
    BY <2>6, <2>9, <2>12 DEF OrderInv, Before
  <2>14. \A i \in DOMAIN B, j \in DOMAIN C : B[i] < C[j]
    BY <2>4, <2>8, <2>9, <2>12 DEF OrderInv, Before
  <2>15. A \o B \in Seq(Nat) /\ Increasing(A \o B)
    BY <2>6, <2>8, <2>11, JoinIncreasing
  <2>16. \A j \in DOMAIN C : C[j] \in Nat
    BY <2>9
  <2>17. \A i \in DOMAIN (A \o B), j \in DOMAIN C : (A \o B)[i] < C[j]
    BY <2>6, <2>8, <2>11, <2>13, <2>14, <2>16, JoinIncreasing
  <2> QED
    BY <2>9, <2>10, <2>15, <2>17, JoinIncreasing
<1>3. IInv /\ OrderInv /\ [Next]_vars => OrderInv'
  BY OrderStep
<1> QED
  BY <1>1, <1>2, <1>3, InductiveInvariant, PTL DEF Spec

-----------------------------------------------------------------------------
(* The index.                                                              *)

(* The record at place i of the log L is the one that hint h of key k is   *)
(* for; file number and offset of the hint may be too small.               *)
IsFor(L, h, k, i) ==
    /\ L[i].key = k /\ L[i].id = h.id /\ Whole(L[i])
    /\ h.fd <= L[i].fd /\ h.off <= L[i].off
    /\ h.size = ValueSize[L[i].val]

(* The records of the running batch are the last ones of the log.          *)
Base == Len(log) - Len(records)

BatchLogged ==
    /\ Len(records) <= Len(log)
    /\ \A j \in DOMAIN records :
         /\ IsFor(log, records[j], batch[j].key, Base + j)
         /\ log[Base + j].val = batch[j].val /\ log[Base + j].id = batch[j].id

(* Entries of the index are for records up to the last write applied.      *)
Indexed == Base + applied + (IF wpc = "ack" THEN 1 ELSE 0)

IndexInv ==
    \A k \in Keys : recordMap[k] # NoHint =>
        \E i \in DOMAIN log : i <= Indexed /\ IsFor(log, recordMap[k], k, i)

(* Each hint of a batch is for its record.                                 *)
LEMMA CommitRecordLogged ==
    ASSUME IInv, BatchLogged, NEW flush \in Flushes, CommitRecord(flush)
    PROVE  BatchLogged' /\ Base' = Base
<1> DEFINE n == Len(records) + 1
           w == batch[n]
           r == WriteRecord(w, active, FileSize(log, active))
           h == [fd |-> HintFD, off |-> r.off - (IF flush = "early" THEN 0 ELSE lag),
                 size |-> ValueSize[w.val], id |-> w.id]
<1>1. /\ n \in Nat /\ Len(records) \in Nat /\ Len(log) \in Nat
      /\ DOMAIN records = 1..Len(records) /\ DOMAIN log = 1..Len(log)
      /\ lag \in Nat /\ active \in Nat
  BY TypesOf
<1>2. w \in Write /\ r \in LogRecord /\ r.fd = active /\ log' = Append(log, r)
  BY CommitRecordAppends
<1>3. records' = Append(records, h) /\ batch' = batch /\ wpc = "write"
  BY DEF CommitRecord
<1>4. HintFD <= active
  BY <1>1, <1>3, NextFDIsTop DEF IInv, FilesContiguous, NewContiguous, Top, HintFD
<1>5. r.off \in Nat /\ r.val = w.val /\ r.key = w.key /\ r.id = w.id /\ Whole(r)
  BY <1>2 DEF WriteRecord, Whole, LogRecord
<1>6. h.fd = HintFD /\ h.off <= r.off /\ h.size = ValueSize[r.val] /\ h.id = r.id
  <2>1. h.off = r.off - (IF flush = "early" THEN 0 ELSE lag)
    OBVIOUS
  <2>2. h.off <= r.off
    BY <1>1, <1>5, <2>1
  <2> QED BY <1>5, <2>2
<1> HIDE DEF r, h
<1>7. /\ Len(records') = n /\ Len(log') = Len(log) + 1
      /\ records'[n] = h /\ log'[Len(log) + 1] = r
      /\ \A j \in DOMAIN records : records'[j] = records[j]
      /\ \A i \in DOMAIN log : log'[i] = log[i]
      /\ DOMAIN records' = 1..n
  BY <1>1, <1>2, <1>3, TypesOf
<1>8. Base' = Base /\ Base \in Nat /\ Base + n = Len(log) + 1
  BY <1>1, <1>7 DEF Base, BatchLogged
<1>9. ASSUME NEW j \in DOMAIN records'
      PROVE  /\ IsFor(log', records'[j], batch[j].key, Base + j)
             /\ log'[Base + j].val = batch[j].val /\ log'[Base + j].id = batch[j].id
  <2>1. CASE j = n
    BY <1>2, <1>4, <1>5, <1>6, <1>7, <1>8, <2>1 DEF IsFor
  <2>2. CASE j # n
    <3>1. j \in DOMAIN records /\ Base + j \in DOMAIN log
      BY <1>1, <1>7, <1>8, <2>2
    <3> QED BY <1>7, <3>1 DEF BatchLogged, IsFor
  <2> QED BY <2>1, <2>2
<1> QED
  BY <1>1, <1>3, <1>7, <1>8, <1>9 DEF BatchLogged

LEMMA LoggedStep == ASSUME IInv, BatchLogged, [Next]_vars
                    PROVE  BatchLogged'
<1>1. CASE UNCHANGED <<log, batch, records>>
  BY <1>1 DEF BatchLogged, Base
<1>2. CASE Swap \/ CommitDone \/ Destroy \/ Crash
  <2>1. records' = <<>> /\ log' \in Seq(LogRecord)
    BY <1>2, TypesOf, CrashKeepsPrefix
       DEF Swap, CommitDone, Destroy, Crash, ProcessEnds, diskVars
  <2>2. DOMAIN records' = {} /\ Len(records') = 0
    BY <2>1
  <2> QED
    BY <2>1, <2>2 DEF BatchLogged
<1> QED
  BY <1>1, <1>2, QueueSteps, CommitRecordLogged DEF QueueVars

(* What a restart makes of a record: a hint that is exact, and its value   *)
(* in _activeMap if the hint leads there.                                  *)
LEMMA RestoredIsFor ==
    ASSUME IInv, wpc = "down", NEW k \in Keys, NEW fd, fd = ActivePath(dir),
           RestoredHint(log, fd, dir, k) # NoHint
    PROVE  LET h == RestoredHint(log, fd, dir, k)
           IN  /\ h.fd <= Cardinality(dir \ {fd})
               /\ \E i \in DOMAIN log :
                    /\ IsFor(log, h, k, i)
                    /\ h.fd = log[i].fd /\ h.off = log[i].off
                    /\ h.fd = Cardinality(dir \ {fd}) =>
                         RestoredValue(log, fd, k) = log[i].val
<1> DEFINE last == LastScanned(log, fd, dir, k)
           h == RestoredHint(log, fd, dir, k)
<1>1. fd \in Nat /\ dir \cup {fd} = 0..fd /\ dir \ {fd} = 0..(fd - 1)
  BY ActivePathIsLast DEF IInv, FilesContiguous, DirContiguous
<1>2. StableCount(dir, fd) = fd /\ Cardinality(dir \ {fd}) = fd
  BY <1>1, UpTo DEF StableCount
<1>3. PICK i \in last :
          h = [fd |-> IF log[i].fd = fd THEN StableCount(dir, fd) ELSE log[i].fd,
               off |-> log[i].off, size |-> ValueSize[log[i].val],
               id |-> log[i].id]
  BY DEF RestoredHint
<1>4. /\ i \in DOMAIN log /\ log[i].key = k /\ Scanned(log, i)
      /\ log[i].fd \in dir
      /\ \A j \in DOMAIN log : /\ log[j].key = k /\ log[j].fd \in dir
                               /\ Scanned(log, j) /\ j # i
                               => ScannedBefore(log, fd, j, i)
  BY <1>3 DEF LastScanned
<1>5. DOMAIN log = 1..Len(log) /\ Len(log) \in Nat
  BY TypesOf
<1>6. log[i] \in LogRecord /\ log[i].fd \in Nat /\ log[i].off \in Nat
  BY <1>4, ElementTypes DEF LogRecord
<1>7. h.fd = log[i].fd /\ h.off = log[i].off /\ h.id = log[i].id
      /\ h.size = ValueSize[log[i].val]
  BY <1>2, <1>3
<1>8. Whole(log[i])
  BY <1>4, <1>5 DEF Scanned
<1>9. h.fd <= fd
  BY <1>1, <1>4, <1>6, <1>7
<1>10. ASSUME h.fd = fd
       PROVE  RestoredValue(log, fd, k) = log[i].val
  <2> DEFINE here == LastScanned(log, fd, {fd}, k)
  <2>1. i \in here
    BY <1>4, <1>7, <1>10 DEF LastScanned
  <2>2. ASSUME NEW j \in here
        PROVE  j = i
    <3>1. j \in DOMAIN log /\ log[j].fd = fd /\ log[i].fd = fd
      BY <1>7, <1>10 DEF LastScanned
    <3>2. j # i => ScannedBefore(log, fd, j, i) /\ ScannedBefore(log, fd, i, j)
      BY <2>1 DEF LastScanned
    <3> QED BY <1>4, <1>5, <3>1, <3>2 DEF ScannedBefore
  <2>3. (CHOOSE j \in here : TRUE) = i
    BY <2>1, <2>2
  <2> QED
    BY <2>1, <2>3 DEF RestoredValue
<1>11. IsFor(log, h, k, i)
  BY <1>4, <1>6, <1>7, <1>8 DEF IsFor
<1> QED
  BY <1>2, <1>4, <1>7, <1>9, <1>10, <1>11

(* Steps that do not change the index leave the places it refers to.       *)
LEMMA PlacesKept ==
    ASSUME IInv, BatchLogged, [Next]_vars,
           ~Open, ~ApplyHint, ~Destroy, ~Crash
    PROVE  /\ recordMap' = recordMap
           /\ \A i \in DOMAIN log : i <= Indexed =>
                i \in DOMAIN log' /\ log'[i] = log[i] /\ i <= Indexed'
<1> USE DEF diskVars, storeVars, mapVars, workerVars, promiseVars, clientVars
<1>0. /\ Len(records) \in Nat /\ Len(log) \in Nat /\ Base \in Nat
      /\ DOMAIN log = 1..Len(log) /\ applied \in Nat
  BY TypesOf DEF Base, BatchLogged
<1>1. CASE UNCHANGED <<log, records, applied, recordMap>> /\ (wpc = "ack" <=> wpc' = "ack")
  BY <1>0, <1>1 DEF Indexed, Base
<1>2. ASSUME NEW c \in Clients, Client(c)
      PROVE  UNCHANGED <<log, records, applied, recordMap, wpc>>
  BY <1>2, ClientLeavesFiles
<1>3. ASSUME NEW flush \in Flushes, CommitRecord(flush)
      PROVE  /\ recordMap' = recordMap
             /\ \A i \in DOMAIN log : i <= Indexed =>
                  i \in DOMAIN log' /\ log'[i] = log[i] /\ i <= Indexed'
  <2>1. recordMap' = recordMap /\ applied' = applied /\ wpc # "ack" /\ wpc' # "ack"
    BY <1>3 DEF CommitRecord
  <2>2. Base' = Base
    BY <1>3, CommitRecordLogged
  <2>3. \A i \in DOMAIN log : i \in DOMAIN log' /\ log'[i] = log[i]
    BY <1>0, <1>3, CommitRecordAppends, TypesOf
  <2> QED BY <2>1, <2>2, <2>3 DEF Indexed
<1>4. CASE Swap \/ CommitDone
  <2>1. /\ UNCHANGED <<log, recordMap>> /\ records' = <<>> /\ applied' = 0
        /\ wpc' # "ack"
    BY <1>4 DEF Swap, CommitDone
  <2>2. Indexed' = Len(log)
    BY <1>0, <2>1 DEF Indexed, Base
  <2> QED BY <1>0, <2>1, <2>2
<1>5. CASE Acknowledge
  <2>1. /\ UNCHANGED <<log, recordMap, records>> /\ applied' = applied + 1
        /\ wpc = "ack" /\ wpc' = "apply"
    BY <1>5 DEF Acknowledge
  <2>2. Indexed' = Indexed
    BY <1>0, <2>1 DEF Indexed, Base
  <2> QED BY <2>1, <2>2
<1>6. CASE CreateActive
  <2>1. UNCHANGED <<records, applied, recordMap>> /\ wpc # "ack" /\ wpc' # "ack"
    BY <1>6 DEF CreateActive
  <2> QED BY <1>1, <1>6, <2>1, CreateTruncatesNothing
<1>7. CASE \/ Rotate \/ InsertBegin \/ InsertStable \/ InsertEnd \/ ClearActiveMap
           \/ ApplyValue \/ CheckRunning
  BY <1>1, <1>7 DEF Rotate, InsertBegin, InsertStable, InsertEnd,
     ClearActiveMap, ApplyValue, CheckRunning
<1>8. CASE Close \/ UNCHANGED vars
  BY <1>1, <1>8 DEF Close, vars
<1> QED
  BY <1>1, <1>2, <1>3, <1>4, <1>5, <1>6, <1>7, <1>8 DEF Next, Worker

(* What ApplyHint enters is for the record after those indexed before.     *)
LEMMA ApplyHintIsFor ==
    ASSUME IInv, BatchLogged, ApplyHint
    PROVE  LET n == applied + 1
               k == batch[n].key
           IN  /\ n \in DOMAIN records /\ n \in DOMAIN batch /\ k \in Keys
               /\ Base + n \in DOMAIN log /\ Indexed' = Base + n
               /\ Base + n = Indexed + 1
               /\ recordMap' = [recordMap EXCEPT ![k] = records[n]]
               /\ IsFor(log, records[n], k, Base + n)
               /\ log[Base + n].val = batch[n].val
<1> DEFINE n == applied + 1
           k == batch[n].key
<1>1. /\ Len(records) \in Nat /\ Len(log) \in Nat /\ Base \in Nat
      /\ DOMAIN log = 1..Len(log) /\ DOMAIN records = 1..Len(records)
      /\ DOMAIN batch = 1..Len(batch) /\ applied \in Nat
  BY TypesOf DEF Base, BatchLogged
<1>2. wpc = "index" /\ wpc' = "ack" /\ UNCHANGED <<log, records, applied>>
      /\ recordMap' = [recordMap EXCEPT ![k] = records[n]]
  BY DEF ApplyHint, diskVars, workerVars
<1>3. Len(records) = Len(batch) /\ applied < Len(batch)
  BY <1>2 DEF IInv, BatchProgress
<1>4. n \in DOMAIN records /\ n \in DOMAIN batch
  BY <1>1, <1>3
<1>5. k \in Keys
  BY <1>4, ElementTypes DEF Write
<1>6. Base + n \in DOMAIN log
  BY <1>1, <1>4 DEF Base
<1>7. Indexed' = Base + n /\ Base + n = Indexed + 1
  BY <1>1, <1>2 DEF Indexed, Base
<1> QED
  BY <1>2, <1>4, <1>5, <1>6, <1>7 DEF BatchLogged

LEMMA IndexStep == ASSUME IInv, BatchLogged, IndexInv, [Next]_vars
                   PROVE  IndexInv'
<1>1. CASE Open
  <2> DEFINE fd == ActivePath(dir)
  <2>1. /\ wpc = "down" /\ wpc' = "swap" /\ UNCHANGED <<log, records, applied>>
        /\ recordMap' = [k \in Keys |-> RestoredHint(log, fd, dir, k)]
    BY <1>1 DEF Open, workerVars
  <2>2. Indexed' >= Len(log) /\ DOMAIN log = 1..Len(log) /\ Len(log) \in Nat
        /\ Indexed' \in Int
    BY <2>1, TypesOf DEF Indexed, Base
  <2> SUFFICES ASSUME NEW k \in Keys, recordMap'[k] # NoHint
               PROVE  \E i \in DOMAIN log : i <= Indexed' /\ IsFor(log, recordMap'[k], k, i)
    BY <2>1 DEF IndexInv
  <2>3. PICK i \in DOMAIN log : IsFor(log, RestoredHint(log, fd, dir, k), k, i)
    BY <2>1, RestoredIsFor
  <2> QED
    BY <2>1, <2>2, <2>3
<1>2. CASE ApplyHint
  <2> DEFINE n == applied + 1
             key == batch[n].key
  <2>1. /\ Base + n \in DOMAIN log /\ Indexed' = Base + n /\ key \in Keys
        /\ Base + n = Indexed + 1
        /\ recordMap' = [recordMap EXCEPT ![key] = records[n]]
        /\ IsFor(log, records[n], key, Base + n) /\ log' = log
    BY <1>2, ApplyHintIsFor DEF ApplyHint, diskVars
  <2>2. DOMAIN log \subseteq Nat /\ recordMap \in [Keys -> Hint]
    BY TypesOf
  <2> HIDE DEF n, key
  <2> SUFFICES ASSUME NEW k \in Keys, recordMap'[k] # NoHint
               PROVE  \E i \in DOMAIN log : i <= Indexed' /\ IsFor(log, recordMap'[k], k, i)
    BY <2>1 DEF IndexInv
  <2>3. CASE k = key
    BY <2>1, <2>2, <2>3
  <2>4. CASE k # key
    <3>1. PICK i \in DOMAIN log : i <= Indexed /\ IsFor(log, recordMap[k], k, i)
      BY <2>1, <2>2, <2>4 DEF IndexInv
    <3>2. Indexed \in Int
      BY TypesOf DEF Indexed, Base
    <3>3. i <= Indexed'
      BY <2>1, <2>2, <3>1, <3>2
    <3> QED BY <2>1, <2>2, <2>4, <3>1, <3>3
  <2> QED BY <2>3, <2>4
<1>3. CASE Destroy \/ Crash
  <2>1. recordMap' = [k \in Keys |-> NoHint]
    BY <1>3 DEF Destroy, Crash, ProcessEnds
  <2> QED BY <2>1 DEF IndexInv
<1>4. CASE ~Open /\ ~ApplyHint /\ ~Destroy /\ ~Crash
  BY <1>4, PlacesKept DEF IndexInv, IsFor
<1> QED
  BY <1>1, <1>2, <1>3, <1>4

-----------------------------------------------------------------------------
(* The theorems about the index that need no more.                         *)
PlaceInv == IInv /\ OrderInv /\ BatchLogged /\ IndexInv

LEMMA PlaceInvariant ==
    /\ Init => PlaceInv
    /\ PlaceInv /\ [Next]_vars => PlaceInv'
<1>1. ASSUME Init PROVE OrderInv /\ BatchLogged /\ IndexInv
  <2>1. DOMAIN log = {} /\ DOMAIN batch = {} /\ DOMAIN writes = {}
        /\ DOMAIN records = {} /\ Len(records) = 0 /\ Len(log) = 0
        /\ recordMap = [k \in Keys |-> NoHint]
    BY <1>1 DEF Init
  <2> QED
    BY <2>1 DEF OrderInv, InOrder, Numbered, Before, BatchLogged, IndexInv
<1> QED
  BY <1>1, InitIInv, StepIInv, OrderStep, LoggedStep, IndexStep DEF PlaceInv

(* However many rotations a batch contains and however far tellp() is      *)
(* behind, every entry of the index is for a record of its key, and its    *)
(* file number and offset err only towards the past (CommitWrite).         *)
THEOREM HintsAreNeverAhead == Spec => []HintsNeverAhead
<1>1. PlaceInv => HintsNeverAhead
  BY DEF PlaceInv, IndexInv, IsFor, HintsNeverAhead
<1> QED
  BY <1>1, PlaceInvariant, PTL DEF Spec

(* Two records with the same id are the same.                              *)
LEMMA IdsDiffer ==
    ASSUME IInv, OrderInv, NEW i \in DOMAIN log, NEW j \in DOMAIN log
    PROVE  /\ log[i].id <= log[j].id => i <= j
           /\ i <= j => log[i].id <= log[j].id
           /\ log[i].id = log[j].id => i = j
<1>1. i \in Nat /\ j \in Nat /\ log[i].id \in Nat /\ log[j].id \in Nat
  BY TypesOf, ElementTypes
<1> QED
  BY <1>1 DEF OrderInv, InOrder

(* No entry of the index is for a record that a crash cut short, in this   *)
(* process or in an earlier one (ReadRecord, Restore*Map).                 *)
THEOREM TornIsNotIndexed == Spec => []TornNotIndexed
<1>1. PlaceInv => TornNotIndexed
  <2> SUFFICES ASSUME PlaceInv, NEW k \in Keys, NEW i \in DOMAIN log,
                      log[i].key = k, log[i].id = recordMap[k].id
               PROVE  Whole(log[i])
    BY DEF TornNotIndexed
  <2>1. log[i].id > 0
    BY DEF PlaceInv, OrderInv, Numbered
  <2>2. recordMap[k] # NoHint
    BY <2>1 DEF NoHint
  <2>3. PICK j \in DOMAIN log : IsFor(log, recordMap[k], k, j)
    BY <2>2 DEF PlaceInv, IndexInv
  <2>4. j = i
    BY <2>3, IdsDiffer DEF PlaceInv, IsFor
  <2> QED BY <2>3, <2>4 DEF IsFor
<1> QED
  BY <1>1, PlaceInvariant, PTL DEF Spec

(* A restart leaves exact entries, for whole records only.                 *)
THEOREM RestoreIsExact == Spec => RestoreExact
<1>1. ASSUME PlaceInv, [Next]_vars, wpc = "down", wpc' # "down", NEW k \in Keys,
             recordMap'[k] # NoHint
      PROVE  \E i \in DOMAIN log :
                  /\ log[i].key = k /\ log[i].id = recordMap'[k].id
                  /\ log[i].fd = recordMap'[k].fd
                  /\ log[i].off = recordMap'[k].off
                  /\ Whole(log[i])
  <2>1. Open
    <3>1. ASSUME NEW c \in Clients, Client(c) PROVE FALSE
      BY <1>1, <3>1, ClientLeavesFiles
    <3>2. ~Close
      BY <1>1 DEF Close
    <3>3. CASE UNCHANGED vars
      BY <1>1, <3>3 DEF vars
    <3>4. ~Worker /\ ~Destroy /\ ~Crash
      BY <1>1 DEF Worker, Swap, CommitRecord, Rotate, CreateActive, InsertBegin,
         InsertStable, InsertEnd, ClearActiveMap, ApplyValue, ApplyHint,
         Acknowledge, CommitDone, CheckRunning, Destroy, Crash
    <3> QED BY <1>1, <3>1, <3>2, <3>3, <3>4 DEF Next
  <2> DEFINE fd == ActivePath(dir)
             h == RestoredHint(log, fd, dir, k)
  <2>2. recordMap'[k] = h
    BY <2>1 DEF Open
  <2>3. PICK i \in DOMAIN log : /\ IsFor(log, h, k, i)
                                /\ h.fd = log[i].fd /\ h.off = log[i].off
    BY <1>1, <2>2, RestoredIsFor DEF PlaceInv
  <2> QED
    BY <2>2, <2>3 DEF IsFor
<1>2. PlaceInv /\ [Next]_vars =>
        [ wpc = "down" /\ wpc' # "down" =>
          \A k \in Keys : recordMap'[k] # NoHint =>
              \E i \in DOMAIN log :
                  /\ log[i].key = k /\ log[i].id = recordMap'[k].id
                  /\ log[i].fd = recordMap'[k].fd
                  /\ log[i].off = recordMap'[k].off
                  /\ Whole(log[i]) ]_vars
  BY <1>1
<1> QED
  BY <1>2, PlaceInvariant, PTL DEF Spec, RestoreExact

(* While a process runs, no step moves an entry back to an older write.    *)
LEMMA MonotonicStep ==
    ASSUME PlaceInv, [Next]_vars, wpc # "down", wpc' # "down", NEW k \in Keys
    PROVE  recordMap'[k].id >= recordMap[k].id
<1>1. ~Open /\ ~Destroy /\ ~Crash
  BY DEF Open, Destroy, Crash, ProcessEnds
<1>2. recordMap \in [Keys -> Hint] /\ recordMap[k].id \in Nat
  BY TypesOf DEF PlaceInv, Hint
<1>3. CASE ~ApplyHint
  BY <1>1, <1>2, <1>3, PlacesKept DEF PlaceInv
<1>4. CASE ApplyHint
  <2> DEFINE n == applied + 1
             key == batch[n].key
  <2>1. /\ Base + n \in DOMAIN log /\ Base + n = Indexed + 1
        /\ recordMap' = [recordMap EXCEPT ![key] = records[n]]
        /\ IsFor(log, records[n], key, Base + n)
    BY <1>4, ApplyHintIsFor DEF PlaceInv
  <2> HIDE DEF n, key
  <2>2. CASE k # key
    BY <1>2, <2>1, <2>2
  <2>3. CASE k = key /\ recordMap[k] = NoHint
    <3>1. recordMap'[k].id = log[Base + n].id /\ log[Base + n].id \in Nat
      BY <1>2, <2>1, <2>3, ElementTypes DEF PlaceInv, IsFor
    <3> QED BY <2>3, <3>1 DEF NoHint
  <2>4. CASE k = key /\ recordMap[k] # NoHint
    <3>1. PICK i \in DOMAIN log : i <= Indexed /\ log[i].id = recordMap[k].id
      BY <2>4 DEF PlaceInv, IndexInv, IsFor
    <3>2. i <= Base + n
      <4>1. i \in Nat /\ Indexed \in Int
        BY TypesOf DEF PlaceInv, Indexed, Base
      <4> QED BY <2>1, <3>1, <4>1
    <3>3. log[i].id <= log[Base + n].id
      BY <2>1, <3>2, IdsDiffer DEF PlaceInv
    <3>4. recordMap'[k].id = log[Base + n].id /\ log[Base + n].id \in Nat
      BY <1>2, <2>1, <2>4, ElementTypes DEF PlaceInv, IsFor
    <3> QED BY <1>2, <3>1, <3>3, <3>4
  <2> QED BY <2>2, <2>3, <2>4
<1> QED BY <1>3, <1>4

(* Within a process the entry of a key never goes back to an older write   *)
(* (the last loop of CommitWrite).                                         *)
THEOREM LookupIsMonotonic == Spec => LookupMonotonic
<1>1. PlaceInv /\ [Next]_vars =>
        [ wpc # "down" /\ wpc' # "down" =>
          \A k \in Keys : recordMap'[k].id >= recordMap[k].id ]_vars
  BY MonotonicStep
<1> QED
  BY <1>1, PlaceInvariant, PTL DEF Spec, LookupMonotonic

-----------------------------------------------------------------------------
(* The values of the active file.                                          *)

(* The file number of h is not above the number of stable files, nor above *)
(* that of any file that the running batch has rotated.                    *)
Recent(h, new, n) == h.fd <= n /\ \A fd \in new : h.fd <= fd

(* While a process runs, files are only added to those known.              *)
LEMMA NumbersGrow ==
    ASSUME IInv, [Next]_vars, ~Open, ~Destroy, ~Crash
    PROVE  /\ getActiveFD \in Nat /\ (getActiveFD)' \in Nat
           /\ getActiveFD <= (getActiveFD)'
           /\ DOMAIN stableFiles # DOMAIN stableFiles' => getActiveFD < (getActiveFD)'
           /\ \A fd \in newStableFiles' : fd \in newStableFiles \/ getActiveFD <= fd
<1> USE DEF diskVars, storeVars, mapVars, workerVars, promiseVars, clientVars
<1>0. /\ getActiveFD \in Nat /\ DOMAIN stableFiles = 0..(getActiveFD - 1)
      /\ (getActiveFD)' \in Nat
      /\ DOMAIN stableFiles' = 0..((getActiveFD)' - 1)
  BY FilesStep DEF IInv, FilesContiguous, StableContiguous
<1>1. CASE UNCHANGED <<stableFiles, newStableFiles>>
  BY <1>0, <1>1 DEF getActiveFD
<1>2. ASSUME NEW c \in Clients, Client(c)
      PROVE  DOMAIN stableFiles' = DOMAIN stableFiles /\ newStableFiles' = newStableFiles
  BY <1>2, ClientLeavesFiles
<1>3. CASE Swap \/ CommitDone
  <2>1. newStableFiles' = {} /\ stableFiles' = stableFiles
    BY <1>3 DEF Swap, CommitDone
  <2> QED BY <1>0, <2>1 DEF getActiveFD
<1>4. CASE Rotate
  <2>1. /\ wpc = "rotate" /\ newStableFiles' = newStableFiles \cup {NextFD}
        /\ stableFiles' = stableFiles
    BY <1>4 DEF Rotate
  <2>2. getActiveFD <= NextFD
    BY <2>1, NextFDIsTop DEF IInv, TypeOK, StoreType, FilesContiguous, NewContiguous
  <2>3. getActiveFD' = getActiveFD
    BY <2>1 DEF getActiveFD
  <2> QED BY <1>0, <2>1, <2>2, <2>3
<1>5. CASE InsertStable
  <2>1. PICK fd \in newStableFiles \ DOMAIN stableFiles :
             DOMAIN stableFiles' = DOMAIN stableFiles \cup {fd}
    BY <1>5 DEF InsertStable
  <2>2. newStableFiles' = newStableFiles
    BY <1>5 DEF InsertStable
  <2>3. getActiveFD < (getActiveFD)'
    <3> DEFINE m == getActiveFD  n == (getActiveFD)'
    <3>1. m \in Nat /\ n \in Nat /\ 0..(n - 1) = 0..(m - 1) \cup {fd}
          /\ fd \notin 0..(m - 1)
      BY <1>0, <2>1
    <3> HIDE DEF m, n
    <3>2. fd \in 0..(n - 1)
      BY <3>1
    <3>3. m < n
      BY <3>1, <3>2
    <3> QED BY <3>3 DEF m, n
  <2> QED BY <1>0, <2>2, <2>3
<1>6. CASE \E flush \in Flushes : CommitRecord(flush)
  BY <1>1, <1>6 DEF CommitRecord
<1>7. CASE CreateActive \/ InsertBegin \/ InsertEnd \/ ClearActiveMap
  BY <1>1, <1>7 DEF CreateActive, InsertBegin, InsertEnd, ClearActiveMap
<1>8. CASE ApplyValue \/ ApplyHint \/ Acknowledge \/ CheckRunning
  BY <1>1, <1>8 DEF ApplyValue, ApplyHint, Acknowledge, CheckRunning
<1>9. CASE Close \/ UNCHANGED vars
  BY <1>1, <1>9 DEF Close, vars
<1>10. ASSUME DOMAIN stableFiles' = DOMAIN stableFiles
       PROVE  (getActiveFD)' = getActiveFD
  BY <1>10 DEF getActiveFD
<1> QED
  BY <1>0, <1>2, <1>3, <1>4, <1>5, <1>6, <1>7, <1>8, <1>9, <1>10
     DEF Next, Worker

(* So what was recent stays recent.                                        *)
LEMMA RecentKept ==
    ASSUME IInv, [Next]_vars, ~Open, ~Destroy, ~Crash, NEW h \in Hint,
           Recent(h, newStableFiles, getActiveFD)
    PROVE  Recent(h, newStableFiles', (getActiveFD)')
<1>1. h.fd \in Nat
  BY DEF Hint
<1>2. newStableFiles' \subseteq Nat
  BY StepIInv DEF IInv, TypeOK, WorkerType
<1> QED
  BY <1>1, <1>2, NumbersGrow DEF Recent

(* After a batch with a rotation no hint leads to the active file.         *)
LEMMA RotatedBatch ==
    ASSUME IInv, wpc \in {"clear", "apply", "index", "ack"}, newStableFiles # {},
           NEW h \in Hint, Recent(h, newStableFiles, getActiveFD)
    PROVE  h.fd < getActiveFD
<1>1. /\ getActiveFD = active /\ active \in Nat /\ newStableFiles \subseteq 0..(active - 1)
  BY DEF IInv, TypeOK, StoreType, FilesContiguous, AllPublished, NewContiguous, Top
<1>2. PICK fd \in newStableFiles : h.fd <= fd
  BY DEF Recent
<1>3. h.fd \in Nat
  BY DEF Hint
<1> QED
  BY <1>1, <1>2, <1>3

(* A batch without rotation has lastActiveWrite 0, so that its values all  *)
(* go to _activeMap, each before its hint.                                 *)
BatchValue ==
    /\ newStableFiles = {} => lastActiveWrite = 0
    /\ wpc = "clear" => newStableFiles # {}
    /\ wpc = "index" /\ InActive =>
         activeMap[batch[applied + 1].key] = batch[applied + 1].val

LEMMA BatchValueStep == ASSUME IInv, BatchValue, [Next]_vars
                        PROVE  BatchValue'
<1> USE DEF BatchValue, InActive, diskVars, storeVars, mapVars, workerVars,
        promiseVars, clientVars
<1>1. ASSUME NEW c \in Clients, Client(c)
      PROVE  BatchValue'
  BY <1>1, ClientLeavesFiles
<1>2. CASE Swap \/ CommitDone
  BY <1>2 DEF Swap, CommitDone
<1>3. ASSUME NEW flush \in Flushes, CommitRecord(flush)
      PROVE  BatchValue'
  <2>1. /\ UNCHANGED <<newStableFiles, lastActiveWrite>>
        /\ wpc' \in {"write", "rotate"}
    BY <1>3 DEF CommitRecord
  <2> QED BY <2>1
<1>4. CASE Rotate \/ CreateActive
  <2>1. CASE Rotate
    BY <2>1 DEF Rotate
  <2>2. CASE CreateActive
    BY <2>2 DEF CreateActive
  <2> QED BY <1>4, <2>1, <2>2
<1>5. CASE InsertBegin \/ InsertStable \/ InsertEnd \/ ClearActiveMap
  BY <1>5 DEF InsertBegin, InsertStable, InsertEnd, ClearActiveMap
<1>6. CASE ApplyValue
  <2> DEFINE w == batch[applied + 1]
  <2>1. /\ wpc' = "index"
        /\ activeMap' = IF InActive THEN [activeMap EXCEPT ![w.key] = w.val]
                        ELSE activeMap
        /\ UNCHANGED <<batch, applied, lastActiveWrite, newStableFiles>>
        /\ applied < Len(batch)
    BY <1>6 DEF ApplyValue
  <2>2. w.key \in Keys
    <3>1. applied + 1 \in DOMAIN batch
      BY <2>1, TypesOf
    <3> QED BY <3>1, ElementTypes DEF Write
  <2> HIDE DEF w
  <2>3. InActive => activeMap'[w.key] = w.val
    BY <2>1, <2>2, TypesOf
  <2> QED
    BY <2>1, <2>3 DEF w
<1>7. CASE ApplyHint \/ Acknowledge \/ CheckRunning \/ Open
  BY <1>7 DEF ApplyHint, Acknowledge, CheckRunning, Open
<1>8. CASE Destroy \/ Crash
  <2>1. newStableFiles' = {} /\ lastActiveWrite' = 0 /\ wpc' = "down"
    BY <1>8 DEF Destroy, Crash, ProcessEnds
  <2> QED BY <2>1
<1>9. CASE Close \/ UNCHANGED vars
  BY <1>9 DEF Close, vars
<1> QED
  BY <1>1, <1>2, <1>3, <1>4, <1>5, <1>6, <1>7, <1>8, <1>9 DEF Next, Worker

(* All hints, in the batch and in the index, are recent.                   *)
HintsRecent ==
    /\ \A j \in DOMAIN records : Recent(records[j], newStableFiles, getActiveFD)
    /\ \A k \in Keys : recordMap[k] # NoHint =>
         Recent(recordMap[k], newStableFiles, getActiveFD)

LEMMA HintsRecentStep == ASSUME PlaceInv, HintsRecent, [Next]_vars
                         PROVE  HintsRecent'
<1>0. IInv /\ BatchLogged
  BY DEF PlaceInv
<1>1. CASE Open
  <2> DEFINE fd == ActivePath(dir)
  <2>1. /\ wpc = "down" /\ newStableFiles' = newStableFiles /\ records' = records
        /\ recordMap' = [k \in Keys |-> RestoredHint(log, fd, dir, k)]
        /\ stableFiles' = RestoredStreams(dir \ {fd})
    BY <1>1 DEF Open, workerVars
  <2>2. (getActiveFD)' = Cardinality(dir \ {fd})
    BY <2>1 DEF getActiveFD, RestoredStreams
  <2>3. newStableFiles = {} /\ DOMAIN records = {}
    BY <1>0, <2>1, TypesOf
  <2>4. ASSUME NEW k \in Keys, recordMap'[k] # NoHint
        PROVE  Recent(recordMap'[k], newStableFiles', (getActiveFD)')
    BY <1>0, <2>1, <2>2, <2>3, <2>4, RestoredIsFor DEF Recent
  <2> QED
    BY <2>1, <2>3, <2>4 DEF HintsRecent
<1>2. CASE Destroy \/ Crash
  <2>1. records' = <<>> /\ recordMap' = [k \in Keys |-> NoHint]
    BY <1>2 DEF Destroy, Crash, ProcessEnds
  <2>2. DOMAIN records' = {}
    BY <2>1
  <2> QED BY <2>1, <2>2 DEF HintsRecent
<1>3. CASE ~Open /\ ~Destroy /\ ~Crash
  <2>1. ASSUME NEW h \in Hint, Recent(h, newStableFiles, getActiveFD)
        PROVE  Recent(h, newStableFiles', (getActiveFD)')
    BY <1>0, <1>3, <2>1, RecentKept
  <2>2. \A j \in DOMAIN records : records[j] \in Hint
    BY <1>0, ElementTypes
  <2>3. \A j \in DOMAIN records' : Recent(records'[j], newStableFiles', (getActiveFD)')
    <3>1. CASE records' = records
      BY <2>1, <2>2, <3>1 DEF HintsRecent
    <3>2. CASE Swap \/ CommitDone
      <4>1. DOMAIN records' = {}
        BY <3>2 DEF Swap, CommitDone
      <4> QED BY <4>1
    <3>3. ASSUME NEW flush \in Flushes, CommitRecord(flush)
          PROVE  \A j \in DOMAIN records' :
                    Recent(records'[j], newStableFiles', (getActiveFD)')
      <4> DEFINE h == records'[Len(records) + 1]
      <4>1. /\ h.fd = HintFD
            /\ \A j \in DOMAIN records' :
                 \/ j \in DOMAIN records /\ records'[j] = records[j]
                 \/ j = Len(records) + 1
        BY <1>0, <3>3, TypesOf DEF CommitRecord
      <4>2. wpc = "write" /\ UNCHANGED <<newStableFiles, stableFiles>>
        BY <3>3 DEF CommitRecord, mapVars
      <4>3. /\ getActiveFD \in Nat /\ DOMAIN stableFiles = 0..(getActiveFD - 1)
            /\ newStableFiles \subseteq Nat
            /\ newStableFiles \cap DOMAIN stableFiles = {}
        BY <1>0, <4>2 DEF IInv, TypeOK, WorkerType, FilesContiguous,
           StableContiguous, NewUnpublished
      <4>4. \A fd \in newStableFiles : getActiveFD <= fd
        BY <4>3
      <4>5. (getActiveFD)' = getActiveFD
        BY <4>2 DEF getActiveFD
      <4>6. Recent(h, newStableFiles', (getActiveFD)')
        BY <4>1, <4>2, <4>3, <4>4, <4>5 DEF Recent, HintFD
      <4> QED
        BY <2>1, <2>2, <4>1, <4>6 DEF HintsRecent
    <3> QED
      BY <1>0, <1>3, <3>1, <3>2, <3>3, QueueSteps DEF QueueVars
  <2>4. ASSUME NEW k \in Keys, recordMap'[k] # NoHint
        PROVE  Recent(recordMap'[k], newStableFiles', (getActiveFD)')
    <3>1. recordMap \in [Keys -> Hint] /\ recordMap[k] \in Hint
      BY <1>0, TypesOf
    <3>2. CASE recordMap'[k] = recordMap[k]
      BY <2>1, <2>4, <3>1, <3>2 DEF HintsRecent
    <3>3. CASE ApplyHint
      <4>1. /\ applied + 1 \in DOMAIN records
            /\ recordMap'[k] = recordMap[k] \/ recordMap'[k] = records[applied + 1]
        BY <1>0, <3>1, <3>3, ApplyHintIsFor
      <4> QED BY <2>1, <2>2, <3>2, <4>1 DEF HintsRecent
    <3>4. CASE ~ApplyHint
      BY <1>0, <1>3, <3>2, <3>4, PlacesKept
    <3> QED BY <3>3, <3>4
  <2> QED
    BY <2>3, <2>4 DEF HintsRecent
<1> QED
  BY <1>1, <1>2, <1>3

ValueInv == PlaceInv /\ BatchValue /\ HintsRecent

(* The value that ApplyValue puts is that of a later write than the one    *)
(* the index has for the key.                                              *)
LEMMA ApplyValueServes ==
    ASSUME ValueInv, ActiveMapServes, ApplyValue
    PROVE  ActiveMapServes'
<1> DEFINE n == applied + 1
           w == batch[n]
<1>0. IInv /\ OrderInv /\ BatchLogged
  BY DEF ValueInv, PlaceInv
<1>1. /\ wpc = "apply" /\ applied < Len(batch)
      /\ activeMap' = IF InActive THEN [activeMap EXCEPT ![w.key] = w.val]
                      ELSE activeMap
      /\ UNCHANGED <<log, recordMap, stableFiles>>
  BY DEF ApplyValue, diskVars
<1>2. (getActiveFD)' = getActiveFD
  BY <1>1 DEF getActiveFD
<1>3. n \in DOMAIN batch /\ w.key \in Keys
  <2>1. n \in DOMAIN batch
    BY <1>0, <1>1, TypesOf
  <2> QED BY <1>0, <2>1, ElementTypes DEF Write
<1>4. n \in DOMAIN records
  BY <1>0, <1>1, TypesOf DEF IInv, BatchProgress
<1>5. /\ Base + n \in DOMAIN log /\ Base + n = Indexed + 1 /\ Indexed \in Int
      /\ log[Base + n].key = w.key /\ log[Base + n].val = w.val
  <2>1. Base + n \in DOMAIN log /\ Base + n = Indexed + 1 /\ Indexed \in Int
    BY <1>0, <1>1, <1>4, TypesOf DEF Base, BatchLogged, Indexed
  <2> QED BY <1>4, <1>0, <2>1 DEF BatchLogged, IsFor
<1> HIDE DEF n, w
<1> SUFFICES ASSUME NEW k \in Keys, recordMap[k] # NoHint, recordMap[k].fd = getActiveFD
             PROVE  \E i \in DOMAIN log : /\ log[i].key = k
                                          /\ log[i].id >= recordMap[k].id
                                          /\ log[i].val = activeMap'[k]
  BY <1>1, <1>2 DEF ActiveMapServes
<1>6. CASE activeMap'[k] = activeMap[k]
  BY <1>6 DEF ActiveMapServes
<1>7. CASE k = w.key
  <2>1. recordMap[k] \in Hint /\ recordMap[k].fd \in Nat /\ recordMap[k].id \in Nat
    BY <1>0, TypesOf DEF Hint
  <2>2. newStableFiles = {}
    <3>1. newStableFiles # {} => recordMap[k].fd < getActiveFD
      BY <1>0, <1>1, <2>1, RotatedBatch DEF ValueInv, HintsRecent
    <3> QED BY <2>1, <3>1
  <2>3. InActive
    BY <1>0, <2>2, TypesOf DEF ValueInv, BatchValue, InActive
  <2>4. activeMap'[k] = w.val
    BY <1>0, <1>1, <1>3, <1>7, <2>3, TypesOf
  <2>5. PICK i \in DOMAIN log : i <= Indexed /\ log[i].id = recordMap[k].id
    BY DEF ValueInv, PlaceInv, IndexInv, IsFor
  <2>6. i <= Base + n
    BY <1>0, <1>5, <2>5, TypesOf
  <2>7. log[i].id <= log[Base + n].id /\ log[Base + n].id \in Nat
    BY <1>0, <1>5, <2>6, IdsDiffer, ElementTypes
  <2> QED
    BY <1>5, <1>7, <2>1, <2>4, <2>5, <2>7
<1> QED
  BY <1>0, <1>1, <1>3, <1>6, <1>7, TypesOf

(* The hint that ApplyHint enters finds its value in the map.              *)
LEMMA ApplyHintServes ==
    ASSUME ValueInv, ActiveMapServes, ApplyHint
    PROVE  ActiveMapServes'
<1> DEFINE n == applied + 1
           key == batch[n].key
<1>0. IInv /\ BatchLogged
  BY DEF ValueInv, PlaceInv
<1>1. /\ wpc = "index" /\ UNCHANGED <<log, activeMap, stableFiles>>
  BY DEF ApplyHint, diskVars
<1>2. (getActiveFD)' = getActiveFD
  BY <1>1 DEF getActiveFD
<1>3. /\ n \in DOMAIN records /\ key \in Keys /\ Base + n \in DOMAIN log
      /\ recordMap' = [recordMap EXCEPT ![key] = records[n]]
      /\ log[Base + n].key = key /\ log[Base + n].id = records[n].id
      /\ log[Base + n].val = batch[n].val
  BY <1>0, ApplyHintIsFor DEF IsFor
<1>4. /\ records[n] \in Hint /\ records[n].fd \in Nat /\ records[n].id \in Nat
      /\ recordMap \in [Keys -> Hint]
  BY <1>0, <1>3, ElementTypes, TypesOf DEF Hint
<1> SUFFICES ASSUME NEW k \in Keys, recordMap'[k] # NoHint,
                    recordMap'[k].fd = getActiveFD
             PROVE  \E i \in DOMAIN log : /\ log[i].key = k
                                          /\ log[i].id >= recordMap'[k].id
                                          /\ log[i].val = activeMap[k]
  BY <1>1, <1>2 DEF ActiveMapServes
<1>5. CASE k # key
  <2>1. recordMap'[k] = recordMap[k]
    BY <1>3, <1>4, <1>5
  <2> QED BY <2>1 DEF ActiveMapServes
<1>6. CASE k = key
  <2>1. recordMap'[k] = records[n]
    BY <1>3, <1>4, <1>6
  <2>2. newStableFiles = {}
    <3>1. newStableFiles # {} => records[n].fd < getActiveFD
      BY <1>0, <1>1, <1>3, <1>4, RotatedBatch DEF ValueInv, HintsRecent
    <3> QED BY <1>4, <2>1, <3>1
  <2>3. InActive
    BY <1>0, <2>2, TypesOf DEF ValueInv, BatchValue, InActive
  <2>4. activeMap[key] = batch[n].val
    BY <1>1, <2>3 DEF ValueInv, BatchValue
  <2> QED
    BY <1>3, <1>4, <1>6, <2>1, <2>4
<1> QED
  BY <1>5, <1>6

LEMMA ServesStep == ASSUME ValueInv, ActiveMapServes, [Next]_vars
                    PROVE  ActiveMapServes'
<1> USE DEF diskVars, storeVars, mapVars, workerVars, promiseVars, clientVars
<1>0. IInv /\ BatchLogged
  BY DEF ValueInv, PlaceInv
<1>1. ASSUME UNCHANGED <<recordMap, activeMap>>, DOMAIN stableFiles' = DOMAIN stableFiles,
             \A i \in DOMAIN log : i \in DOMAIN log' /\ log'[i] = log[i]
      PROVE  ActiveMapServes'
  <2>1. (getActiveFD)' = getActiveFD
    BY <1>1 DEF getActiveFD
  <2> QED BY <1>1, <2>1 DEF ActiveMapServes
<1>2. ASSUME NEW c \in Clients, Client(c)
      PROVE  ActiveMapServes'
  BY <1>1, <1>2, ClientLeavesFiles
<1>3. ASSUME NEW flush \in Flushes, CommitRecord(flush)
      PROVE  ActiveMapServes'
  <2>1. UNCHANGED <<recordMap, activeMap, stableFiles>>
    BY <1>3 DEF CommitRecord
  <2>2. \E r : log' = Append(log, r)
    BY <1>0, <1>3, CommitRecordAppends
  <2>3. \A i \in DOMAIN log : i \in DOMAIN log' /\ log'[i] = log[i]
    BY <1>0, <2>2, TypesOf
  <2> QED BY <1>1, <2>1, <2>3
<1>4. CASE CreateActive
  <2>1. UNCHANGED <<recordMap, activeMap, stableFiles>>
    BY <1>4 DEF CreateActive
  <2> QED BY <1>0, <1>1, <1>4, <2>1, CreateTruncatesNothing
<1>5. CASE \/ Swap \/ Rotate \/ InsertBegin \/ InsertEnd \/ Acknowledge
           \/ CommitDone \/ CheckRunning \/ Close \/ UNCHANGED vars
  <2>1. UNCHANGED <<log, recordMap, activeMap, stableFiles>>
    <3>1. CASE Swap \/ Rotate \/ InsertBegin \/ InsertEnd
      BY <3>1 DEF Swap, Rotate, InsertBegin, InsertEnd
    <3>2. CASE Acknowledge \/ CommitDone \/ CheckRunning
      BY <3>2 DEF Acknowledge, CommitDone, CheckRunning
    <3>3. CASE Close \/ UNCHANGED vars
      BY <3>3 DEF Close, vars
    <3> QED BY <1>5, <3>1, <3>2, <3>3
  <2> QED BY <1>1, <2>1
<1>6. CASE InsertStable
  <2>1. /\ recordMap' = recordMap /\ DOMAIN stableFiles # DOMAIN stableFiles'
        /\ wpc = "inserting" /\ wpc' = "inserting"
    BY <1>6 DEF InsertStable
  <2>2. /\ ~Open /\ ~Destroy /\ ~Crash
    BY <2>1 DEF Open, Destroy, Crash, ProcessEnds
  <2>3. getActiveFD < (getActiveFD)' /\ getActiveFD \in Nat /\ (getActiveFD)' \in Nat
    BY <1>0, <2>1, <2>2, NumbersGrow
  <2>4. \A k \in Keys : recordMap[k] # NoHint => recordMap[k].fd <= getActiveFD
                                                /\ recordMap[k].fd \in Nat
    BY <1>0, TypesOf DEF ValueInv, HintsRecent, Recent, Hint
  <2> QED
    BY <2>1, <2>3, <2>4 DEF ActiveMapServes
<1>7. CASE ClearActiveMap
  <2>1. wpc = "clear" /\ UNCHANGED <<recordMap, stableFiles>>
    BY <1>7 DEF ClearActiveMap
  <2>2. newStableFiles # {} /\ (getActiveFD)' = getActiveFD
    BY <2>1 DEF ValueInv, BatchValue, getActiveFD
  <2>3. \A k \in Keys : recordMap[k] # NoHint => recordMap[k].fd < getActiveFD
                                                /\ recordMap[k].fd \in Nat
    BY <1>0, <2>1, <2>2, TypesOf, RotatedBatch DEF ValueInv, HintsRecent, Hint
  <2>4. getActiveFD \in Nat
    BY <1>0 DEF IInv, FilesContiguous, StableContiguous
  <2> QED
    BY <2>1, <2>2, <2>3, <2>4 DEF ActiveMapServes
<1>8. CASE Open
  <2> DEFINE fd == ActivePath(dir)
  <2>1. /\ wpc = "down" /\ log' = log
        /\ recordMap' = [k \in Keys |-> RestoredHint(log, fd, dir, k)]
        /\ activeMap' = [k \in Keys |-> RestoredValue(log, fd, k)]
        /\ stableFiles' = RestoredStreams(dir \ {fd})
    BY <1>8 DEF Open
  <2>2. (getActiveFD)' = Cardinality(dir \ {fd})
    BY <2>1 DEF getActiveFD, RestoredStreams
  <2> SUFFICES ASSUME NEW k \in Keys, recordMap'[k] # NoHint,
                      recordMap'[k].fd = (getActiveFD)'
               PROVE  \E i \in DOMAIN log : /\ log[i].key = k
                                            /\ log[i].id >= recordMap'[k].id
                                            /\ log[i].val = activeMap'[k]
    BY <2>1 DEF ActiveMapServes
  <2>3. PICK i \in DOMAIN log :
            /\ IsFor(log, recordMap'[k], k, i) /\ RestoredValue(log, fd, k) = log[i].val
    BY <1>0, <2>1, <2>2, RestoredIsFor
  <2>4. log[i].id \in Nat
    BY <1>0, ElementTypes
  <2> QED
    BY <2>1, <2>3, <2>4 DEF IsFor
<1>9. CASE Destroy \/ Crash
  <2>1. recordMap' = [k \in Keys |-> NoHint]
    BY <1>9 DEF Destroy, Crash, ProcessEnds
  <2> QED BY <2>1 DEF ActiveMapServes
<1> QED
  BY <1>2, <1>3, <1>4, <1>5, <1>6, <1>7, <1>8, <1>9, ApplyValueServes,
     ApplyHintServes DEF Next, Worker

(* A hint that sends Get to _activeMap finds there the value of its write  *)
(* or of a later one of the same key, whatever the commit thread is doing  *)
(* and wherever a batch was rotated (CommitWrite, Get, RestoreActiveMap).  *)
THEOREM ActiveMapAlwaysServes == Spec => []ActiveMapServes
<1>1. Init => BatchValue /\ HintsRecent /\ ActiveMapServes
  <2> SUFFICES ASSUME Init PROVE BatchValue /\ HintsRecent /\ ActiveMapServes
    OBVIOUS
  <2>1. DOMAIN records = {} /\ recordMap = [k \in Keys |-> NoHint]
        /\ lastActiveWrite = 0 /\ wpc = "down"
    BY DEF Init
  <2> QED
    BY <2>1 DEF BatchValue, HintsRecent, ActiveMapServes
<1>2. ValueInv /\ [Next]_vars => ValueInv'
  BY PlaceInvariant, BatchValueStep, HintsRecentStep DEF ValueInv, PlaceInv
<1>3. Init => ValueInv /\ ActiveMapServes
  BY <1>1, PlaceInvariant DEF ValueInv
<1>4. ValueInv /\ ActiveMapServes /\ [Next]_vars => ActiveMapServes'
  BY ServesStep
<1> QED
  BY <1>2, <1>3, <1>4, PTL DEF Spec
=============================================================================
