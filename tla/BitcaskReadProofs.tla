------------------------- MODULE BitcaskReadProofs --------------------------
(***************************************************************************)
(* Proofs about BitcaskImpl, continued: what a Get returns.                *)
(*                                                                         *)
(* As long as no file is rotated every Get ends in _activeMap, and any     *)
(* number of callers read what they should.  With rotations a Get may also *)
(* end in a stable file, on a stream that all readers share: that is right *)
(* for a caller that is alone.                                             *)
(***************************************************************************)
EXTENDS BitcaskExactProofs

-----------------------------------------------------------------------------
(* As long as no file is rotated.                                          *)
NoRotation ==
    /\ wpc \notin {"rotate", "create"}
    /\ dir \subseteq {0} /\ newStableFiles = {}

(* What follows about that file.                                           *)
LEMMA OnlyFile ==
    ASSUME ValueInv, NoRotation
    PROVE  /\ wpc # "down" => getActiveFD = 0 /\ active = 0 /\ stableFiles = [fd \in {} |-> 0]
           /\ lastActiveWrite = 0 /\ wpc # "clear"
           /\ \A i \in DOMAIN log : log[i].fd = 0
<1>1. /\ wpc # "down" => dir = 0..active /\ getActiveFD <= Top
      /\ getActiveFD \in Nat /\ DOMAIN stableFiles = 0..(getActiveFD - 1)
      /\ active \in Nat /\ \A i \in DOMAIN log : log[i].fd \in dir
      /\ stableFiles \in [DOMAIN stableFiles -> Int]
  BY DEF ValueInv, PlaceInv, IInv, TypeOK, StoreType, FilesContiguous, DirContiguous,
     NewContiguous, StableContiguous, LogInFiles
<1>2. Top = active
  BY DEF NoRotation, Top
<1>3. ASSUME wpc # "down"
      PROVE  getActiveFD = 0 /\ active = 0 /\ stableFiles = [fd \in {} |-> 0]
  <2>1. active \in dir
    BY <1>1, <1>3
  <2>2. active = 0
    BY <2>1 DEF NoRotation
  <2>3. getActiveFD = 0
    BY <1>1, <1>2, <1>3, <2>2
  <2>4. DOMAIN stableFiles = {}
    BY <1>1, <2>3
  <2> QED BY <1>1, <2>2, <2>3, <2>4
<1>4. lastActiveWrite = 0 /\ wpc # "clear"
  BY DEF NoRotation, ValueInv, BatchValue
<1>5. \A i \in DOMAIN log : log[i].fd = 0
  BY <1>1 DEF NoRotation
<1> QED
  BY <1>3, <1>4, <1>5

(* The commit thread's steps that cannot be taken.                         *)
LEMMA NeverTaken ==
    ASSUME ValueInv, NoRotation
    PROVE  ~Rotate /\ ~CreateActive /\ ~InsertStable /\ ~ClearActiveMap
<1>1. wpc \notin {"rotate", "create", "clear"} /\ newStableFiles = {}
  BY OnlyFile DEF NoRotation
<1> QED
  BY <1>1 DEF Rotate, CreateActive, InsertStable, ClearActiveMap

LEMMA NoRotationStep == ASSUME ValueInv, NoRotation, [Next]_vars, wpc' # "rotate"
                        PROVE  NoRotation'
<1> USE DEF diskVars, storeVars, mapVars, workerVars, promiseVars, clientVars
<1>1. ASSUME dir' = dir, wpc' \notin {"rotate", "create"},
             newStableFiles' = newStableFiles \/ newStableFiles' = {}
      PROVE  NoRotation'
  BY <1>1 DEF NoRotation
<1>2. ASSUME NEW c \in Clients, Client(c)
      PROVE  NoRotation'
  BY <1>2, ClientLeavesFiles DEF NoRotation
<1>3. ASSUME NEW flush \in Flushes, CommitRecord(flush)
      PROVE  NoRotation'
  BY <1>3 DEF CommitRecord, NoRotation
<1>4. CASE \/ Swap \/ InsertBegin \/ InsertEnd \/ ApplyValue \/ ApplyHint
           \/ Acknowledge \/ CommitDone \/ CheckRunning
  BY <1>1, <1>4 DEF Swap, InsertBegin, InsertEnd, ApplyValue, ApplyHint, Acknowledge,
     CommitDone, CheckRunning
<1>5. CASE Open
  <2>1. dir' = dir \cup {ActivePath(dir)} /\ wpc' = "swap"
        /\ newStableFiles' = newStableFiles
    BY <1>5 DEF Open
  <2>2. ActivePath(dir) = 0
    <3>1. dir \subseteq {0}
      BY DEF NoRotation
    <3>2. dir \cup {0} = {0}
      BY <3>1
    <3>3. \A d \in dir : d <= 0
      BY <3>1
    <3> QED BY <3>2, <3>3 DEF ActivePath
  <2> QED
    BY <2>1, <2>2 DEF NoRotation
<1>6. CASE Destroy \/ Crash
  BY <1>1, <1>6 DEF Destroy, Crash, ProcessEnds
<1>7. CASE Close \/ UNCHANGED vars
  BY <1>7 DEF Close, vars, NoRotation
<1> QED
  BY <1>2, <1>3, <1>4, <1>5, <1>6, <1>7, NeverTaken DEF Next, Worker

(* Every hint leads to _activeMap.                                         *)
LEMMA HintLeadsHere ==
    ASSUME ValueInv, NoRotation, wpc # "down", NEW k \in Keys, recordMap[k] # NoHint
    PROVE  recordMap[k].fd = 0
<1>1. IInv /\ HintsRecent
  BY DEF ValueInv, PlaceInv
<1>2. recordMap[k].fd \in Nat
  BY <1>1, TypesOf DEF Hint
<1>3. recordMap[k].fd <= getActiveFD
  BY <1>1 DEF HintsRecent, Recent
<1>4. getActiveFD = 0
  BY OnlyFile
<1> QED
  BY <1>2, <1>3, <1>4
-----------------------------------------------------------------------------
(* The callers.                                                            *)
(* A step of one caller leaves the others alone.                           *)
LEMMA OtherCallers ==
    ASSUME IInv, NEW c \in Clients, Client(c), NEW d \in Clients, d # c
    PROVE  /\ pc'[d] = pc[d] /\ ckey'[d] = ckey[d] /\ chint'[d] = chint[d]
           /\ cid'[d] = cid[d] /\ ret'[d] = ret[d]
<1>0. /\ pc \in [Clients -> ClientPCs] /\ ckey \in [Clients -> Keys \cup {NoKey}]
      /\ chint \in [Clients -> Hint] /\ cid \in [Clients -> Nat]
      /\ ret \in [Clients -> Returned]
  BY DEF IInv, TypeOK, ClientType
<1>1. ASSUME NEW k \in Keys, NEW v \in Vals, Put(c, k, v) \/ PutAsync(c, k, v)
      PROVE  /\ pc'[d] = pc[d] /\ UNCHANGED <<ckey, chint, ret>>
             /\ cid'[d] = cid[d]
  BY <1>0, <1>1 DEF Put, PutAsync, clientVars
<1>2. ASSUME NEW k \in Keys, Delete(c, k) \/ DeleteMiss(c, k)
      PROVE  /\ pc'[d] = pc[d] /\ UNCHANGED <<ckey, chint>>
             /\ cid'[d] = cid[d] /\ ret'[d] = ret[d]
  BY <1>0, <1>2 DEF Delete, DeleteMiss
<1>3. ASSUME NEW k \in Keys, GetLookup(c, k)
      PROVE  /\ pc'[d] = pc[d] /\ UNCHANGED <<cid, ret>>
             /\ ckey'[d] = ckey[d] /\ chint'[d] = chint[d]
  BY <1>0, <1>3 DEF GetLookup
<1>4. CASE FutureReady(c) \/ GetCompare(c) \/ Return(c)
  BY <1>0, <1>4 DEF FutureReady, GetCompare, Return
<1>5. CASE GetActive(c) \/ GetMiss(c) \/ GetSeek(c) \/ GetRead(c)
  BY <1>0, <1>5 DEF GetActive, GetMiss, GetSeek, GetRead, GetReturns
<1> QED
  BY <1>1, <1>2, <1>3, <1>4, <1>5 DEF Client

(* What Get returned is the outcome of a write as late as the hint.        *)
Regular(c) ==
    IF chint[c] = NoHint THEN ret[c] = NotFound
    ELSE \E i \in DOMAIN log : /\ log[i].key = ckey[c] /\ log[i].id >= chint[c].id
                               /\ IF log[i].val = Tombstone
                                  THEN ret[c] = NotFound ELSE ret[c] = log[i].val

LEMMA RegularKept ==
    ASSUME NEW c \in Clients, Regular(c), chint'[c] = chint[c], ckey'[c] = ckey[c],
           ret'[c] = ret[c], \A i \in DOMAIN log : i \in DOMAIN log' /\ log'[i] = log[i]
    PROVE  Regular(c)'
BY DEF Regular

(* A key that has a hint keeps one while the process runs.                 *)
LEMMA HintStays ==
    ASSUME PlaceInv, [Next]_vars, wpc # "down", wpc' # "down", NEW k \in Keys,
           recordMap[k] # NoHint
    PROVE  recordMap'[k] # NoHint /\ recordMap[k].id <= recordMap'[k].id
<1>1. recordMap[k].id > 0
  BY ElementTypes DEF PlaceInv, IndexInv, IsFor, OrderInv, Numbered
<1>2. recordMap[k].id \in Nat /\ recordMap'[k].id >= recordMap[k].id
  BY TypesOf, MonotonicStep DEF PlaceInv, Hint
<1>3. recordMap'[k].id \in Nat
  <2>1. PlaceInv'
    BY PlaceInvariant
  <2>2. recordMap' \in [Keys -> Hint]
    BY <2>1 DEF PlaceInv, IInv, TypeOK, StoreType
  <2> QED BY <2>2 DEF Hint
<1> QED
  BY <1>1, <1>2, <1>3 DEF NoHint

(* A process that runs goes on until it is destroyed or crashes.           *)
LEMMA RunningStep ==
    ASSUME running => wpc # "down", [Next]_vars, ~Destroy, ~Crash
    PROVE  (wpc # "down" => wpc' # "down") /\ (running' => wpc' # "down")
<1> USE DEF diskVars, storeVars, mapVars, workerVars, promiseVars, clientVars
<1>1. wpc # "down" => wpc' # "down"
  <2>1. ASSUME NEW c \in Clients, Client(c) PROVE wpc' = wpc
    BY <2>1, ClientLeavesFiles
  <2>2. CASE Swap \/ (\E flush \in Flushes : CommitRecord(flush)) \/ Rotate
             \/ CreateActive \/ InsertBegin \/ InsertStable \/ InsertEnd
    BY <2>2 DEF Swap, CommitRecord, Rotate, CreateActive, InsertBegin, InsertStable,
       InsertEnd
  <2>3. CASE ClearActiveMap \/ ApplyValue \/ ApplyHint \/ Acknowledge \/ CommitDone
             \/ CheckRunning
    BY <2>3 DEF ClearActiveMap, ApplyValue, ApplyHint, Acknowledge, CommitDone,
       CheckRunning
  <2>4. CASE Open \/ Close \/ UNCHANGED vars
    BY <2>4 DEF Open, Close, vars
  <2> QED BY <2>1, <2>2, <2>3, <2>4 DEF Next, Worker
<1>2. running' => wpc' # "down"
  <2>1. CASE Open
    BY <2>1 DEF Open
  <2>2. CASE ~Open
    <3>1. running' => running
      <4>1. ASSUME NEW c \in Clients, Client(c) PROVE running' = running
        BY <4>1, ClientLeavesFiles
      <4>2. CASE Worker
        BY <4>2 DEF Worker, Swap, CommitRecord, Rotate, CreateActive, InsertBegin,
           InsertStable, InsertEnd, ClearActiveMap, ApplyValue, ApplyHint,
           Acknowledge, CommitDone, CheckRunning
      <4>3. CASE Close \/ UNCHANGED vars
        BY <4>3 DEF Close, vars
      <4> QED BY <2>2, <4>1, <4>2, <4>3 DEF Next
    <3> QED BY <1>1, <3>1
  <2> QED BY <2>1, <2>2
<1> QED BY <1>1, <1>2

-----------------------------------------------------------------------------
(* Reads while no file is rotated.                                         *)
ReaderInv(c) ==
    /\ pc[c] \notin {"got", "deleted"} => ret[c] = NotFound
    /\ pc[c] \in ReadPCs =>
         /\ pc[c] \in {"compare", "active"} /\ wpc # "down"
         /\ chint[c] # NoHint /\ chint[c].fd = 0
         /\ recordMap[ckey[c]] # NoHint /\ chint[c].id <= recordMap[ckey[c]].id
    /\ pc[c] = "got" => Regular(c)

ReadInv == /\ ValueInv /\ ActiveMapServes /\ NoRotation
           /\ running => wpc # "down"
           /\ \A c \in Clients : ReaderInv(c)

LEMMA ReaderSteps ==
    ASSUME ReadInv, NEW c \in Clients, Client(c)
    PROVE  ReaderInv(c)'
<1> USE DEF promiseVars, storeVars, mapVars, ReaderInv, ReadPCs
<1>0. /\ ReaderInv(c) /\ (running => wpc # "down") /\ ValueInv /\ NoRotation
      /\ pc \in [Clients -> ClientPCs] /\ ckey \in [Clients -> Keys \cup {NoKey}]
      /\ chint \in [Clients -> Hint] /\ cid \in [Clients -> Nat]
      /\ ret \in [Clients -> Returned] /\ recordMap \in [Keys -> Hint]
      /\ pc[c] \in ReadPCs => ckey[c] \in Keys
  BY TypesOf DEF ReadInv, ValueInv, PlaceInv, IInv, TypeOK, ClientType, GetHasKey
<1>1. UNCHANGED <<recordMap, running, wpc, log>>
  BY ClientLeavesFiles DEF diskVars
<1>2. ASSUME NEW k \in Keys, NEW v \in Vals, Put(c, k, v)
      PROVE  ReaderInv(c)'
  BY <1>0, <1>1, <1>2 DEF Put
<1>3. ASSUME NEW k \in Keys, NEW v \in Vals, PutAsync(c, k, v)
      PROVE  ReaderInv(c)'
  BY <1>0, <1>1, <1>3 DEF PutAsync, clientVars
<1>4. ASSUME NEW k \in Keys, Delete(c, k) \/ DeleteMiss(c, k)
      PROVE  ReaderInv(c)'
  <2>1. CASE Delete(c, k)
    BY <1>0, <1>1, <2>1 DEF Delete
  <2>2. CASE DeleteMiss(c, k)
    BY <1>0, <1>1, <2>2 DEF DeleteMiss
  <2> QED BY <1>4, <2>1, <2>2
<1>5. ASSUME NEW k \in Keys, GetLookup(c, k)
      PROVE  ReaderInv(c)'
  <2>1. /\ pc[c] = "idle" /\ running /\ ret' = ret
        /\ pc'[c] = IF recordMap[k] = NoHint THEN "got" ELSE "compare"
        /\ ckey'[c] = k /\ chint'[c] = recordMap[k]
    BY <1>0, <1>5 DEF GetLookup
  <2>2. recordMap[k] # NoHint => recordMap[k].fd = 0
    BY <1>0, <2>1, HintLeadsHere
  <2>3. recordMap[k].id \in Nat
    BY <1>0 DEF Hint
  <2>4. CASE recordMap[k] = NoHint
    BY <1>0, <2>1, <2>4 DEF Regular
  <2>5. CASE recordMap[k] # NoHint
    BY <1>0, <1>1, <2>1, <2>2, <2>3, <2>5
  <2> QED BY <2>4, <2>5
<1>6. CASE GetCompare(c)
  <2>1. /\ pc[c] = "compare" /\ UNCHANGED <<ckey, chint, ret>>
        /\ pc'[c] = IF chint[c].fd = getActiveFD THEN "active" ELSE "find"
    BY <1>0, <1>6 DEF GetCompare
  <2>2. getActiveFD = 0
    BY <1>0, <2>1, OnlyFile
  <2> QED BY <1>0, <1>1, <2>1, <2>2
<1>7. CASE GetActive(c)
  <2>1. /\ pc[c] = "active" /\ pc'[c] = "got" /\ UNCHANGED <<ckey, chint>>
        /\ ret'[c] = Outcome(activeMap[ckey[c]])
    BY <1>0, <1>7 DEF GetActive, GetReturns
  <2>2. recordMap[ckey[c]].fd = getActiveFD
    BY <1>0, <2>1, OnlyFile, HintLeadsHere
  <2>3. PICK i \in DOMAIN log : /\ log[i].key = ckey[c]
                                /\ log[i].id >= recordMap[ckey[c]].id
                                /\ log[i].val = activeMap[ckey[c]]
    BY <1>0, <2>1, <2>2 DEF ReadInv, ActiveMapServes
  <2>4. log[i].id \in Nat /\ recordMap[ckey[c]].id \in Nat /\ chint[c].id \in Nat
    BY <1>0, <2>1, ElementTypes DEF ValueInv, PlaceInv, Hint
  <2>5. log[i].id >= chint[c].id
    BY <1>0, <2>1, <2>3, <2>4
  <2>6. Regular(c)'
    BY <1>0, <1>1, <2>1, <2>3, <2>5 DEF Regular, Outcome
  <2> QED BY <2>1, <2>6
<1>8. ~GetMiss(c) /\ ~GetSeek(c) /\ ~GetRead(c)
  BY <1>0 DEF GetMiss, GetSeek, GetRead
<1>9. CASE FutureReady(c)
  <2>1. /\ pc[c] \in {"putWait", "deleteWait"}
        /\ pc'[c] = IF pc[c] = "putWait" THEN "idle" ELSE "deleted"
        /\ ret'[c] = IF pc[c] = "putWait" THEN ret[c] ELSE TRUE
    BY <1>0, <1>9 DEF FutureReady
  <2> QED BY <1>0, <2>1
<1>10. CASE Return(c)
  BY <1>0, <1>10 DEF Return
<1> QED
  BY <1>2, <1>3, <1>4, <1>5, <1>6, <1>7, <1>8, <1>9, <1>10 DEF Client

LEMMA ReadStep == ASSUME ReadInv, [Next]_vars, wpc' # "rotate"
                  PROVE  ReadInv'
<1> USE DEF diskVars, storeVars, mapVars, workerVars, promiseVars, clientVars
<1>0. /\ ValueInv /\ PlaceInv /\ IInv /\ ActiveMapServes /\ NoRotation
      /\ running => wpc # "down"
      /\ \A c \in Clients : ReaderInv(c) /\ (pc[c] \in ReadPCs => ckey[c] \in Keys)
  BY DEF ReadInv, ValueInv, PlaceInv, IInv, GetHasKey
<1>1. ValueInv' /\ ActiveMapServes' /\ NoRotation'
  <2>1. PlaceInv' /\ BatchValue' /\ HintsRecent'
    BY <1>0, PlaceInvariant, BatchValueStep, HintsRecentStep DEF ValueInv
  <2> QED BY <1>0, <2>1, ServesStep, NoRotationStep DEF ValueInv
<1>2. CASE Destroy \/ Crash
  <2>1. /\ ~running'
        /\ \A c \in Clients : pc'[c] = "idle" /\ ret'[c] = NotFound
    BY <1>2 DEF Destroy, Crash, ProcessEnds
  <2> QED BY <1>1, <2>1 DEF ReadInv, ReaderInv, ReadPCs
<1>3. ASSUME ~Destroy, ~Crash
      PROVE  ReadInv'
  <2>1. \A i \in DOMAIN log : i \in DOMAIN log' /\ log'[i] = log[i]
    BY <1>0, <1>3, LogGrows
  <2>2. (wpc # "down" => wpc' # "down") /\ (running' => wpc' # "down")
    BY <1>0, <1>3, RunningStep
  <2>4. ASSUME NEW c \in Clients, pc'[c] = pc[c], ckey'[c] = ckey[c],
               chint'[c] = chint[c], ret'[c] = ret[c]
        PROVE  ReaderInv(c)'
    <3>1. pc[c] = "got" => Regular(c)'
      BY <1>0, <2>1, <2>4, RegularKept DEF ReaderInv
    <3>2. CASE pc[c] \in ReadPCs
      <4>1. /\ wpc # "down" /\ ckey[c] \in Keys /\ recordMap[ckey[c]] # NoHint
            /\ chint[c].id <= recordMap[ckey[c]].id
        BY <1>0, <3>2 DEF ReaderInv
      <4>2. /\ recordMap'[ckey[c]] # NoHint
            /\ recordMap[ckey[c]].id <= recordMap'[ckey[c]].id
        BY <1>0, <2>2, <4>1, HintStays
      <4>3. /\ chint[c].id \in Nat /\ recordMap[ckey[c]].id \in Nat
            /\ recordMap'[ckey[c]].id \in Nat
        <5>1. chint \in [Clients -> Hint] /\ recordMap \in [Keys -> Hint]
          BY <1>0 DEF IInv, TypeOK, ClientType, StoreType
        <5>2. recordMap' \in [Keys -> Hint]
          BY <1>1 DEF ValueInv, PlaceInv, IInv, TypeOK, StoreType
        <5> QED BY <4>1, <5>1, <5>2 DEF Hint
      <4>4. chint'[c].id <= recordMap'[ckey'[c]].id
        BY <2>4, <4>1, <4>2, <4>3
      <4> QED BY <1>0, <2>2, <2>4, <3>1, <4>1, <4>2, <4>4 DEF ReaderInv
    <3>3. CASE pc[c] \notin ReadPCs
      BY <1>0, <2>4, <3>1, <3>3 DEF ReaderInv
    <3> QED BY <3>2, <3>3
  <2>5. \A c \in Clients : ReaderInv(c)'
    <3>1. CASE UNCHANGED clientVars
      BY <2>4, <3>1
    <3>2. ASSUME NEW d \in Clients, Client(d), NEW c \in Clients
          PROVE  ReaderInv(c)'
      <4>1. CASE c = d
        BY <3>2, <4>1, ReaderSteps
      <4>2. CASE c # d
        BY <1>0, <2>4, <3>2, <4>2, OtherCallers
      <4> QED BY <4>1, <4>2
    <3>3. CASE Worker
      BY <3>1, <3>3 DEF Worker, Swap, CommitRecord, Rotate, CreateActive, InsertBegin,
         InsertStable, InsertEnd, ClearActiveMap, ApplyValue, ApplyHint, Acknowledge,
         CommitDone, CheckRunning
    <3>4. CASE Open \/ Close \/ UNCHANGED vars
      BY <3>1, <3>4 DEF Open, Close, vars
    <3> QED BY <1>3, <3>2, <3>3, <3>4 DEF Next
  <2> QED BY <1>1, <2>2, <2>5 DEF ReadInv
<1> QED
  BY <1>2, <1>3

(* The active file has not reached its limit.                              *)
NotFull == wpc # "rotate"

(* As long as the active file does not reach its limit, a Get returns the  *)
(* outcome of a write that is not older than the index entry it looked up, *)
(* whatever the other callers and the commit thread do in between, and     *)
(* through restarts and crashes (Get, CommitWrite, RestoreActiveMap).      *)
THEOREM ReadsAreRegular == Spec /\ []NotFull => []ReadRegular
<1>1. Init => ReadInv
  <2> SUFFICES ASSUME Init PROVE ReadInv
    OBVIOUS
  <2>1. /\ PlaceInv /\ DOMAIN records = {} /\ recordMap = [k \in Keys |-> NoHint]
        /\ lastActiveWrite = 0 /\ wpc = "down" /\ dir = {} /\ newStableFiles = {}
        /\ ~running
        /\ \A c \in Clients : pc[c] = "idle" /\ ret[c] = NotFound
    BY PlaceInvariant DEF Init
  <2> QED
    BY <2>1 DEF ReadInv, ValueInv, BatchValue, HintsRecent, ActiveMapServes, NoRotation,
       ReaderInv, ReadPCs
<1>2. ReadInv /\ [Next]_vars /\ NotFull' => ReadInv'
  BY ReadStep DEF NotFull
<1>3. ReadInv => ReadRegular
  BY DEF ReadInv, ReaderInv, Regular, ReadRegular
<1> QED
  BY <1>1, <1>2, <1>3, PTL DEF Spec

-----------------------------------------------------------------------------
(* Where the records of a file lie.                                        *)

(* A record begins behind the end of those before it in its file, and a    *)
(* crash cuts it no sooner than behind its header.                         *)
Layout ==
    \A j \in DOMAIN log :
        /\ log[j].end >= log[j].off - KeySize[log[j].key]
        /\ \A i \in DOMAIN log : i < j /\ log[i].fd = log[j].fd =>
             log[i].end + HeaderSize + KeySize[log[j].key] <= log[j].off

LEMMA PlaceTypes ==
    ASSUME IInv, NEW i \in DOMAIN log
    PROVE  /\ log[i].off \in Nat /\ log[i].end \in Nat /\ log[i].fd \in Nat
           /\ KeySize[log[i].key] \in Nat /\ ValueSize[log[i].val] \in Nat
           /\ log[i].val \in Stored /\ i \in Nat
<1>1. log[i] \in LogRecord /\ i \in Nat
  BY TypesOf, ElementTypes
<1> QED
  BY <1>1, SizeAssumption DEF LogRecord

(* No record ends behind the end of its file.                              *)
LEMMA EndsInFile ==
    ASSUME IInv, Layout, NEW i \in DOMAIN log
    PROVE  log[i].end <= FileSize(log, log[i].fd)
<1> DEFINE S == {j \in DOMAIN log : log[j].fd = log[i].fd}
           last == Latest(S)
<1>1. DOMAIN log = 1..Len(log) /\ Len(log) \in Nat
  BY TypesOf
<1>2. PICK m \in S : \A j \in S : j <= m
  BY <1>1, LastOf
<1>3. last = {m}
  <2>1. \A j \in S : j \in Nat
    BY <1>1
  <2>2. m \in last
    BY <1>2 DEF Latest
  <2>3. ASSUME NEW j \in last PROVE j = m
    <3>1. j \in S /\ m <= j
      BY <1>2, <2>3 DEF Latest
    <3>2. j <= m
      BY <1>2, <3>1
    <3> QED BY <1>2, <2>1, <3>1, <3>2
  <2> QED BY <2>2, <2>3
<1>4. FileSize(log, log[i].fd) = log[m].end
  <2>1. (CHOOSE j \in last : TRUE) = m
    BY <1>3
  <2> QED BY <1>3, <2>1 DEF FileSize
<1>5. log[i].end <= log[m].end
  <2>1. m \in DOMAIN log /\ log[m].fd = log[i].fd /\ i <= m
    BY <1>2
  <2>2. CASE i = m
    BY <2>2, PlaceTypes
  <2>3. CASE i # m
    <3>1. i < m
      BY <2>1, <2>3, PlaceTypes
    <3>2. /\ log[i].end + HeaderSize + KeySize[log[m].key] <= log[m].off
          /\ log[m].end >= log[m].off - KeySize[log[m].key]
      BY <2>1, <3>1 DEF Layout
    <3>3. /\ log[i].end \in Nat /\ log[m].end \in Nat /\ log[m].off \in Nat
          /\ KeySize[log[m].key] \in Nat
      BY <2>1, PlaceTypes
    <3> QED BY <3>2, <3>3 DEF HeaderSize
  <2> QED BY <2>2, <2>3
<1> QED
  BY <1>4, <1>5

LEMMA LayoutStep == ASSUME IInv, Layout, [Next]_vars
                    PROVE  Layout'
<1>1. ASSUME NEW flush \in Flushes, CommitRecord(flush)
      PROVE  Layout'
  <2> DEFINE w == batch[Len(records) + 1]
             size == FileSize(log, active)
             r == WriteRecord(w, active, size)
  <2>1. w \in Write /\ r \in LogRecord /\ log' = Append(log, r)
    BY <1>1, CommitRecordAppends
  <2>2. /\ r.fd = active /\ r.off = size + HeaderSize + KeySize[r.key]
        /\ r.end = r.off + ValueSize[w.val]
    BY DEF WriteRecord
  <2>3. size \in Nat /\ KeySize[r.key] \in Nat /\ ValueSize[w.val] \in Nat
    <3>1. r.key = w.key
      BY DEF WriteRecord
    <3> QED BY <2>1, <3>1, TypesOf, FileSizeType, SizeAssumption DEF Write
  <2> HIDE DEF w, size, r
  <2>4. r.end >= r.off - KeySize[r.key] /\ r.off \in Nat
    BY <2>2, <2>3 DEF HeaderSize
  <2>5. \A i \in DOMAIN log : log[i].fd = r.fd =>
            log[i].end + HeaderSize + KeySize[r.key] <= r.off
    <3> SUFFICES ASSUME NEW i \in DOMAIN log, log[i].fd = active
                 PROVE  log[i].end + HeaderSize + KeySize[r.key] <= r.off
      BY <2>2
    <3>1. log[i].end <= size /\ log[i].end \in Nat
      BY EndsInFile, PlaceTypes DEF size
    <3> QED BY <2>2, <2>3, <3>1 DEF HeaderSize
  <2>6. /\ DOMAIN log' = DOMAIN log \cup {Len(log) + 1}
        /\ log'[Len(log) + 1] = r /\ \A i \in DOMAIN log : log'[i] = log[i]
        /\ \A i \in DOMAIN log : i < Len(log) + 1 /\ ~ (Len(log) + 1 < i)
    BY <2>1, TypesOf
  <2>7. ASSUME NEW j \in DOMAIN log', NEW i \in DOMAIN log', i < j,
               log'[i].fd = log'[j].fd
        PROVE  log'[i].end + HeaderSize + KeySize[log'[j].key] <= log'[j].off
    <3>1. i \in DOMAIN log
      BY <2>6, <2>7, TypesOf
    <3>2. CASE j \in DOMAIN log
      BY <2>6, <2>7, <3>1, <3>2 DEF Layout
    <3>3. CASE j = Len(log) + 1
      BY <2>5, <2>6, <2>7, <3>1, <3>3
    <3> QED BY <2>6, <3>2, <3>3
  <2>8. \A j \in DOMAIN log' : log'[j].end >= log'[j].off - KeySize[log'[j].key]
    BY <2>4, <2>6 DEF Layout
  <2> QED BY <2>7, <2>8 DEF Layout
<1>2. CASE Crash
  <2>1. /\ DOMAIN log' \subseteq DOMAIN log
        /\ \A i \in DOMAIN log' : /\ log'[i].fd = log[i].fd /\ log'[i].off = log[i].off
                                  /\ log'[i].key = log[i].key
        /\ \A i \in DOMAIN log' : \/ log'[i] = log[i]
                                  \/ /\ i = Len(log')
                                     /\ log'[i].end >= log[i].off - KeySize[log[i].key]
        /\ log' \in Seq(LogRecord)
    BY <1>2, CrashKeepsPrefix
  <2>2. ASSUME NEW j \in DOMAIN log', NEW i \in DOMAIN log', i < j
        PROVE  log'[i] = log[i]
    <3>1. i # Len(log')
      BY <2>1, <2>2
    <3> QED BY <2>1, <3>1
  <2>3. \A j \in DOMAIN log', i \in DOMAIN log' : i < j /\ log'[i].fd = log'[j].fd =>
            log'[i].end + HeaderSize + KeySize[log'[j].key] <= log'[j].off
    BY <2>1, <2>2 DEF Layout
  <2>4. \A j \in DOMAIN log' : log'[j].end >= log'[j].off - KeySize[log'[j].key]
    BY <2>1 DEF Layout
  <2> QED BY <2>3, <2>4 DEF Layout
<1>3. CASE ~Crash /\ \A flush \in Flushes : ~CommitRecord(flush)
  BY <1>3, LogUntouched DEF Layout
<1> QED
  BY <1>1, <1>2, <1>3

(* A read at the place of a record that is whole gives its value.          *)
LEMMA ReadsRecord ==
    ASSUME IInv, Layout, NEW i \in DOMAIN log, Whole(log[i])
    PROVE  StreamRead(log[i].fd, log[i].off, ValueSize[log[i].val]) = log[i].val
<1> DEFINE fd == log[i].fd
           off == log[i].off
           size == ValueSize[log[i].val]
           hit == {j \in DOMAIN log : /\ log[j].fd = fd /\ Whole(log[j])
                                      /\ log[j].off = off
                                      /\ ValueSize[log[j].val] = size}
<1>1. ~PastEnd(fd, off, size)
  <2>1. off \in Nat /\ off + size <= FileSize(log, fd) /\ size \in Nat
    BY EndsInFile, PlaceTypes DEF Whole
  <2>2. FileSize(log, fd) \in Nat
    BY TypesOf, FileSizeType
  <2> HIDE DEF fd, off, size
  <2> QED BY <2>1, <2>2 DEF PastEnd, Failed
<1>2. ASSUME NEW j \in DOMAIN log, NEW l \in DOMAIN log, j < l,
             log[j].fd = log[l].fd, Whole(log[j])
      PROVE  log[j].off # log[l].off
  <2>1. log[j].end + HeaderSize + KeySize[log[l].key] <= log[l].off
    BY <1>2 DEF Layout
  <2>2. /\ log[j].end = log[j].off + ValueSize[log[j].val]
        /\ log[j].off \in Nat /\ ValueSize[log[j].val] \in Nat
        /\ log[l].off \in Nat /\ KeySize[log[l].key] \in Nat
    BY <1>2, PlaceTypes DEF Whole
  <2> QED BY <2>1, <2>2 DEF HeaderSize
<1>3. hit = {i}
  <2>1. i \in hit
    OBVIOUS
  <2>2. ASSUME NEW j \in hit PROVE j = i
    <3>1. j \in Nat /\ i \in Nat
      BY PlaceTypes
    <3>2. ~ (j < i) /\ ~ (i < j)
      BY <1>2
    <3> QED BY <3>1, <3>2
  <2> HIDE DEF hit
  <2> QED BY <2>1, <2>2
<1>4. ReadValue(log, fd, off, size) = log[i].val
  <2>1. hit # {} /\ (CHOOSE j \in hit : TRUE) = i
    BY <1>3
  <2> QED BY <2>1 DEF ReadValue
<1> QED
  BY <1>1, <1>4 DEF StreamRead

-----------------------------------------------------------------------------
(* Reads of a single caller.                                               *)

(* A batch that has rotated a file has a write.                            *)
NewInBatch == newStableFiles # {} => Len(batch) > 0

(* During a Get the index, the maps and the log stand still, so that what  *)
(* was looked up stays true.                                               *)
LoneReader(c) ==
    /\ pc[c] \notin {"got", "deleted"} => ret[c] = NotFound
    /\ pc[c] \in ReadPCs =>
         wpc # "down" /\ chint[c] = recordMap[ckey[c]] /\ chint[c] # NoHint
    /\ pc[c] = "active" => chint[c].fd = getActiveFD
    /\ pc[c] \in {"find", "read"} => chint[c].fd \in DOMAIN stableFiles
    /\ pc[c] = "read" => stableFiles[chint[c].fd] = chint[c].off
    /\ pc[c] = "got" => Regular(c)

LoneReadInv(c) ==
    /\ LoneInv(c) /\ ValueInv /\ ActiveMapServes /\ Layout /\ NewInBatch
    /\ running => wpc # "down"
    /\ LoneReader(c)

LEMMA NewInBatchStep ==
    ASSUME IInv, BatchPlace, NewInBatch, wpc = "rotate" => Len(records) > 0, [Next]_vars
    PROVE  NewInBatch'
<1> USE DEF diskVars, storeVars, mapVars, workerVars, promiseVars, clientVars, NewInBatch
<1>1. ASSUME NEW c \in Clients, Client(c)
      PROVE  NewInBatch'
  BY <1>1, ClientLeavesFiles
<1>2. CASE Swap \/ CommitDone
  BY <1>2 DEF Swap, CommitDone
<1>3. CASE Rotate
  <2>1. Len(records) > 0 /\ Len(records) <= Len(batch) /\ batch' = batch
    BY <1>3, TypesOf DEF Rotate
  <2>2. Len(records) \in Nat /\ Len(batch) \in Nat
    BY TypesOf
  <2> QED BY <2>1, <2>2
<1>4. CASE (\E flush \in Flushes : CommitRecord(flush)) \/ CreateActive \/ InsertBegin
           \/ InsertStable \/ InsertEnd \/ ClearActiveMap
  BY <1>4 DEF CommitRecord, CreateActive, InsertBegin, InsertStable, InsertEnd,
     ClearActiveMap
<1>5. CASE ApplyValue \/ ApplyHint \/ Acknowledge \/ CheckRunning
  BY <1>5 DEF ApplyValue, ApplyHint, Acknowledge, CheckRunning
<1>6. CASE Open \/ Close \/ UNCHANGED vars
  BY <1>6 DEF Open, Close, vars
<1>7. CASE Destroy \/ Crash
  BY <1>7 DEF Destroy, Crash, ProcessEnds
<1> QED
  BY <1>1, <1>2, <1>3, <1>4, <1>5, <1>6, <1>7 DEF Next, Worker

(* When the caller does not wait for a write, the commit thread has none.  *)
LEMMA NothingToCommit ==
    ASSUME NEW c \in Clients, LoneReadInv(c), ~Waiting(c)
    PROVE  /\ wpc = "inserting" => newStableFiles = {}
           /\ \A flush \in Flushes : ~CommitRecord(flush)
           /\ ~InsertStable /\ ~ClearActiveMap /\ ~ApplyValue /\ ~ApplyHint
<1>1. /\ ~ (applied < Len(batch)) /\ applied \in Nat /\ Len(batch) \in Nat
      /\ Len(records) \in Nat /\ Len(records) <= Len(batch)
      /\ wpc \in {"index", "ack"} => applied < Len(batch)
      /\ wpc \in {"write", "rotate", "create", "inserting", "clear"} => applied = 0
  BY TypesOf DEF LoneReadInv, LoneInv, ExactInv, PlaceInv, IInv, BatchProgress,
     OneWrite, BatchPlace
<1>2. wpc \in {"write", "inserting", "clear"} => Len(batch) = 0 /\ newStableFiles = {}
  BY <1>1 DEF LoneReadInv, NewInBatch
<1>3. wpc # "clear" /\ wpc # "index"
  BY <1>1, <1>2 DEF LoneReadInv, ValueInv, BatchValue
<1>4. ASSUME NEW flush \in Flushes PROVE ~CommitRecord(flush)
  BY <1>1, <1>2 DEF CommitRecord
<1> QED
  BY <1>1, <1>2, <1>3, <1>4 DEF InsertStable, ClearActiveMap, ApplyValue, ApplyHint

(* The steps of the caller.                                                *)
LEMMA LoneReaderSteps ==
    ASSUME NEW c \in Clients, LoneReadInv(c), Client(c)
    PROVE  LoneReader(c)'
<1> USE DEF promiseVars, storeVars, mapVars, LoneReader, ReadPCs
<1>0. /\ LoneReader(c) /\ (running => wpc # "down") /\ ValueInv /\ IInv
      /\ PlaceInv /\ Layout /\ IndexExact
      /\ pc \in [Clients -> ClientPCs] /\ ckey \in [Clients -> Keys \cup {NoKey}]
      /\ chint \in [Clients -> Hint] /\ cid \in [Clients -> Nat]
      /\ ret \in [Clients -> Returned] /\ recordMap \in [Keys -> Hint]
      /\ pc[c] \in ReadPCs => ckey[c] \in Keys
  BY TypesOf DEF LoneReadInv, LoneInv, ExactInv, ValueInv, PlaceInv, IInv, TypeOK,
     ClientType, GetHasKey
<1>1. /\ UNCHANGED <<recordMap, running, wpc, log, activeMap>>
      /\ DOMAIN stableFiles' = DOMAIN stableFiles
  BY ClientLeavesFiles DEF diskVars
<1>2. ASSUME NEW k \in Keys, NEW v \in Vals, Put(c, k, v) \/ PutAsync(c, k, v)
      PROVE  LoneReader(c)'
  <2>1. CASE Put(c, k, v)
    BY <1>0, <1>1, <2>1 DEF Put
  <2>2. CASE PutAsync(c, k, v)
    <3>1. UNCHANGED <<pc, ckey, chint, ret, stableFiles>>
      BY <2>2 DEF PutAsync, clientVars
    <3> QED BY <1>0, <1>1, <3>1 DEF getActiveFD, Regular
  <2> QED BY <1>2, <2>1, <2>2
<1>3. ASSUME NEW k \in Keys, Delete(c, k) \/ DeleteMiss(c, k)
      PROVE  LoneReader(c)'
  <2>1. CASE Delete(c, k)
    BY <1>0, <1>1, <2>1 DEF Delete
  <2>2. CASE DeleteMiss(c, k)
    BY <1>0, <1>1, <2>2 DEF DeleteMiss
  <2> QED BY <1>3, <2>1, <2>2
<1>4. ASSUME NEW k \in Keys, GetLookup(c, k)
      PROVE  LoneReader(c)'
  <2>1. /\ pc[c] = "idle" /\ running /\ ret' = ret
        /\ pc'[c] = IF recordMap[k] = NoHint THEN "got" ELSE "compare"
        /\ ckey'[c] = k /\ chint'[c] = recordMap[k]
    BY <1>0, <1>4 DEF GetLookup
  <2>2. CASE recordMap[k] = NoHint
    BY <1>0, <2>1, <2>2 DEF Regular
  <2>3. CASE recordMap[k] # NoHint
    BY <1>0, <1>1, <2>1, <2>3
  <2> QED BY <2>2, <2>3
<1>5. CASE GetCompare(c)
  <2>1. /\ pc[c] = "compare" /\ UNCHANGED <<ckey, chint, ret, stableFiles>>
        /\ pc'[c] = IF chint[c].fd = getActiveFD THEN "active" ELSE "find"
    BY <1>0, <1>5 DEF GetCompare
  <2>2. (getActiveFD)' = getActiveFD
    BY <2>1 DEF getActiveFD
  <2>3. chint[c].fd # getActiveFD => chint[c].fd \in DOMAIN stableFiles
    <3>1. chint[c].fd <= getActiveFD
      BY <1>0, <2>1 DEF ValueInv, HintsRecent, Recent
    <3>2. chint[c].fd \in Nat
      BY <1>0 DEF Hint
    <3>3. getActiveFD \in Nat /\ DOMAIN stableFiles = 0..(getActiveFD - 1)
      BY <1>0 DEF IInv, FilesContiguous, StableContiguous
    <3> QED BY <3>1, <3>2, <3>3
  <2> QED BY <1>0, <1>1, <2>1, <2>2, <2>3
<1>6. CASE GetActive(c)
  <2>1. /\ pc[c] = "active" /\ pc'[c] = "got" /\ UNCHANGED <<ckey, chint>>
        /\ ret'[c] = Outcome(activeMap[ckey[c]])
    BY <1>0, <1>6 DEF GetActive, GetReturns
  <2>2. PICK i \in DOMAIN log : /\ log[i].key = ckey[c] /\ log[i].id >= chint[c].id
                                /\ log[i].val = activeMap[ckey[c]]
    BY <1>0, <2>1 DEF LoneReadInv, ActiveMapServes
  <2>3. Regular(c)'
    BY <1>0, <1>1, <2>1, <2>2 DEF Regular, Outcome
  <2> QED BY <2>1, <2>3
<1>7. ~GetMiss(c)
  <2> SUFFICES ASSUME GetMiss(c) PROVE FALSE
    OBVIOUS
  <2>1. pc[c] = "find" /\ wpc = "inserting" /\ ~ (newStableFiles \subseteq DOMAIN stableFiles)
    BY <1>0 DEF GetMiss
  <2>2. newStableFiles = {}
    BY <2>1, NothingToCommit DEF Waiting
  <2> QED BY <2>1, <2>2
<1>8. CASE GetSeek(c)
  <2>1. /\ pc[c] = "find" /\ pc'[c] = "read" /\ UNCHANGED <<ckey, chint, ret>>
        /\ chint[c].fd \in DOMAIN stableFiles
        /\ stableFiles' = [stableFiles EXCEPT ![chint[c].fd] = chint[c].off]
    BY <1>0, <1>8 DEF GetSeek
  <2>2. stableFiles'[chint[c].fd] = chint[c].off
    BY <1>0, <2>1 DEF IInv, TypeOK, StoreType
  <2> QED BY <1>0, <1>1, <2>1, <2>2
<1>9. CASE GetRead(c)
  <2>1. /\ pc[c] = "read" /\ pc'[c] = "got" /\ UNCHANGED <<ckey, chint>>
        /\ ret'[c] = Outcome(StreamRead(chint[c].fd, stableFiles[chint[c].fd],
                                        chint[c].size))
    BY <1>0, <1>9 DEF GetRead, GetReturns
  <2>2. PICK i \in DOMAIN log : IsPlaceOf(log, chint[c], ckey[c], i)
    BY <1>0, <2>1 DEF IndexExact
  <2>3. /\ chint[c].fd = log[i].fd /\ chint[c].off = log[i].off
        /\ chint[c].size = ValueSize[log[i].val] /\ Whole(log[i])
        /\ log[i].key = ckey[c] /\ log[i].id = chint[c].id
    BY <2>2 DEF IsPlaceOf, IsFor
  <2>4. ret'[c] = Outcome(log[i].val)
    BY <1>0, <2>1, <2>3, ReadsRecord
  <2>5. log[i].id >= chint[c].id
    BY <1>0, <2>3 DEF Hint
  <2>6. Regular(c)'
    BY <1>0, <1>1, <2>1, <2>3, <2>4, <2>5 DEF Regular, Outcome
  <2> QED BY <2>1, <2>6
<1>10. CASE FutureReady(c)
  <2>1. /\ pc[c] \in {"putWait", "deleteWait"}
        /\ pc'[c] = IF pc[c] = "putWait" THEN "idle" ELSE "deleted"
        /\ ret'[c] = IF pc[c] = "putWait" THEN ret[c] ELSE TRUE
    BY <1>0, <1>10 DEF FutureReady
  <2> QED BY <1>0, <2>1
<1>11. CASE Return(c)
  BY <1>0, <1>11 DEF Return
<1> QED
  BY <1>2, <1>3, <1>4, <1>5, <1>6, <1>7, <1>8, <1>9, <1>10, <1>11 DEF Client

LEMMA LoneReadStep ==
    ASSUME TellLags = FALSE, "putAsync" \notin Ops, NEW c, Clients = {c},
           LoneReadInv(c), [Next]_vars
    PROVE  LoneReadInv(c)'
<1> USE DEF diskVars, storeVars, mapVars, workerVars, promiseVars, clientVars
<1>0. /\ LoneInv(c) /\ ValueInv /\ PlaceInv /\ IInv /\ BatchPlace /\ OneWrite(c)
      /\ ActiveMapServes /\ Layout /\ NewInBatch /\ LoneReader(c)
      /\ (running => wpc # "down") /\ c \in Clients
  BY DEF LoneReadInv, LoneInv, ValueInv, PlaceInv
<1>1. LoneInv(c)'
  BY <1>0, LoneFacts
<1>2. ValueInv' /\ ActiveMapServes'
  <2>1. PlaceInv' /\ BatchValue' /\ HintsRecent'
    BY <1>0, PlaceInvariant, BatchValueStep, HintsRecentStep DEF ValueInv
  <2> QED BY <1>0, <2>1, ServesStep DEF ValueInv
<1>3. Layout' /\ NewInBatch'
  BY <1>0, LayoutStep, NewInBatchStep DEF OneWrite
<1>4. CASE Destroy \/ Crash
  <2>1. ~running' /\ pc'[c] = "idle" /\ ret'[c] = NotFound
    BY <1>0, <1>4 DEF Destroy, Crash, ProcessEnds
  <2> QED BY <1>1, <1>2, <1>3, <2>1 DEF LoneReadInv, LoneReader, ReadPCs
<1>5. ASSUME ~Destroy, ~Crash
      PROVE  LoneReadInv(c)'
  <2>1. \A i \in DOMAIN log : i \in DOMAIN log' /\ log'[i] = log[i]
    BY <1>0, <1>5, LogGrows
  <2>2. (wpc # "down" => wpc' # "down") /\ (running' => wpc' # "down")
    BY <1>0, <1>5, RunningStep
  <2>3. CASE Client(c)
    BY <1>0, <1>1, <1>2, <1>3, <2>2, <2>3, LoneReaderSteps DEF LoneReadInv
  <2>4. CASE ~Client(c)
    <3>1. UNCHANGED clientVars
      <4>1. CASE Worker
        BY <4>1 DEF Worker, Swap, CommitRecord, Rotate, CreateActive, InsertBegin,
           InsertStable, InsertEnd, ClearActiveMap, ApplyValue, ApplyHint,
           Acknowledge, CommitDone, CheckRunning
      <4>2. CASE Open \/ Close \/ UNCHANGED vars
        BY <4>2 DEF Open, Close, vars
      <4>3. ~ \E d \in Clients : Client(d)
        BY <2>4
      <4> QED BY <1>5, <4>1, <4>2, <4>3 DEF Next
    <3>2. CASE pc[c] \in ReadPCs
      <4>1. wpc # "down" /\ ~Waiting(c)
        BY <1>0, <3>2 DEF LoneReader, ReadPCs, Waiting
      <4>2. /\ \A flush \in Flushes : ~CommitRecord(flush)
            /\ ~InsertStable /\ ~ClearActiveMap /\ ~ApplyValue /\ ~ApplyHint /\ ~Open
        BY <1>0, <4>1, NothingToCommit DEF Open
      <4>3. UNCHANGED <<recordMap, stableFiles>>
        <5>1. CASE Worker
          BY <4>2, <5>1 DEF Worker, Swap, Rotate, CreateActive, InsertBegin, InsertEnd,
             Acknowledge, CommitDone, CheckRunning
        <5>2. CASE Close \/ UNCHANGED vars
          BY <5>2 DEF Close, vars
        <5> QED BY <1>5, <2>4, <4>2, <5>1, <5>2 DEF Next
      <4> QED
        BY <1>0, <1>1, <1>2, <1>3, <2>2, <3>1, <3>2, <4>1, <4>3
           DEF LoneReadInv, LoneReader, getActiveFD, ReadPCs
    <3>3. CASE pc[c] \notin ReadPCs
      <4>1. pc[c] = "got" => Regular(c)'
        BY <1>0, <2>1, <3>1, RegularKept DEF LoneReader
      <4> QED
        BY <1>0, <1>1, <1>2, <1>3, <2>2, <3>1, <3>3, <4>1
           DEF LoneReadInv, LoneReader, ReadPCs
    <3> QED BY <3>2, <3>3
  <2> QED BY <2>3, <2>4
<1> QED
  BY <1>4, <1>5

(* A single caller that waits for each of its writes reads what it should, *)
(* through rotations, restarts and crashes, from _activeMap and from the   *)
(* stable files: with an exact tellp() a Get returns the outcome of a      *)
(* write that is not older than the index entry it looked up, never wrong  *)
(* bytes and never nullopt for a value (Get, StableFile::Read,             *)
(* CommitWrite).                                                           *)
THEOREM LoneCallerReadsAreRegular ==
    ASSUME TellLags = FALSE, "putAsync" \notin Ops, NEW c, Clients = {c}
    PROVE  Spec => []ReadRegular
<1>1. Init => LoneReadInv(c)
  <2> SUFFICES ASSUME Init PROVE LoneReadInv(c)
    OBVIOUS
  <2>1. LoneInv(c) /\ PlaceInv
    BY LoneFacts DEF LoneInv, ExactInv
  <2>2. /\ DOMAIN records = {} /\ recordMap = [k \in Keys |-> NoHint]
        /\ lastActiveWrite = 0 /\ wpc = "down" /\ newStableFiles = {}
        /\ ~running /\ DOMAIN log = {} /\ pc[c] = "idle" /\ ret[c] = NotFound
    BY DEF Init
  <2>3. ValueInv /\ ActiveMapServes /\ Layout /\ NewInBatch
    BY <2>1, <2>2
       DEF ValueInv, BatchValue, HintsRecent, ActiveMapServes, Layout, NewInBatch
  <2> QED
    BY <2>1, <2>2, <2>3 DEF LoneReadInv, LoneReader, ReadPCs
<1>2. LoneReadInv(c) /\ [Next]_vars => LoneReadInv(c)'
  BY LoneReadStep
<1>3. LoneReadInv(c) => ReadRegular
  BY DEF LoneReadInv, LoneReader, Regular, ReadRegular
<1> QED
  BY <1>1, <1>2, <1>3, PTL DEF Spec
=============================================================================
