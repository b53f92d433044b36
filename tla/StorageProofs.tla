--------------------------- MODULE StorageProofs ---------------------------
(***************************************************************************)
(* Proofs about Storage for every value of its constants: any keys, any    *)
(* settings, any width of Offset, any number of writes and of failures.    *)
(***************************************************************************)
EXTENDS Storage, FiniteSetTheorems, SequenceTheorems, TLAPS

-----------------------------------------------------------------------------
(* The inductive invariant.                                                *)

(* An open stream is that of a file, and that file holds at least what has *)
(* left the stream's buffer.                                               *)
StreamOfFile ==
    /\ phase \in {"rotate", "create"} => stream # "null"
    /\ phase # "down" /\ stream # "null" => active \in DOMAIN files
    /\ phase # "down" /\ active \in DOMAIN files => synced <= Len(files[active])

(* The numbers of n files: contiguous, and the file that CommitWrite writes*)
(* to is the highest.  Nothing is said of the active file when its handle  *)
(* is null: no write reaches it.                                           *)
NumberedTo(n) ==
    /\ DOMAIN files = 0..(n - 1)
    /\ phase = "rotate" \/ (phase = "up" /\ stream # "null") =>
         active = n - 1 /\ DOMAIN stable = 0..(n - 2)
    /\ phase = "create" => active = n - 1 /\ DOMAIN stable = 0..(n - 1)

Numbered == FindsFiles(setting) => \E n \in Nat : NumberedTo(n)

IInv == TypeOK /\ IsFiniteSet(DOMAIN stable) /\ StreamOfFile /\ Numbered

(* What NothingTruncated says of a step.                                   *)
Keeps ==
    \A fd \in DOMAIN files :
        /\ fd \in DOMAIN files' /\ Len(Safe(fd)) <= Len(files'[fd])
        /\ SubSeq(files'[fd], 1, Len(Safe(fd))) = Safe(fd)

-----------------------------------------------------------------------------
(* Facts about the operators of the model.                                 *)

(* 0..(n - 1) has n elements.                                              *)
LEMMA UpTo == ASSUME NEW n \in Nat
              PROVE  IsFiniteSet(0..(n - 1)) /\ Cardinality(0..(n - 1)) = n
BY FS_Interval

(* An Offset is a number below Width, also the one of a failed tellp().    *)
LEMMA OffsetType == ASSUME NEW n \in Int
                    PROVE  ToOffset(n) \in 0..(Width - 1)
BY StorageAssumption DEF ToOffset

LEMMA TellFailedType == TellFailed \in 0..(Width - 1)
BY StorageAssumption DEF TellFailed

(* A prefix of a prefix.                                                   *)
LEMMA Prefixes ==
    ASSUME NEW S, NEW s \in Seq(S), NEW m \in 0..Len(s), NEW n \in 0..m
    PROVE  /\ SubSeq(s, 1, m) \in Seq(S) /\ Len(SubSeq(s, 1, m)) = m
           /\ SubSeq(SubSeq(s, 1, m), 1, n) = SubSeq(s, 1, n)
OBVIOUS

(* What may be left of a file is a sequence of records and begins with all *)
(* that was out of the buffer.                                             *)
LEMMA RemainsType ==
    ASSUME NEW recs \in Seq(Records), synced \in 0..Len(recs),
           NEW left \in Remains(recs)
    PROVE  /\ left \in Seq(Records) /\ synced <= Len(left)
           /\ SubSeq(left, 1, synced) = SubSeq(recs, 1, synced)
<1>1. CASE \E n \in synced..Len(recs) : left = SubSeq(recs, 1, n)
  BY <1>1, Prefixes
<1>2. CASE \E n \in synced..(Len(recs) - 1) : left = Torn(recs, n)
  <2>1. PICK n \in synced..(Len(recs) - 1) : left = Torn(recs, n)
    BY <1>2
  <2> DEFINE p == SubSeq(recs, 1, n)
             r == [recs[n + 1] EXCEPT !.whole = FALSE]
  <2>2. p \in Seq(Records) /\ Len(p) = n /\ SubSeq(p, 1, synced) = SubSeq(recs, 1, synced)
    BY <2>1, Prefixes
  <2>3. r \in Records
    <3>1. n + 1 \in 1..Len(recs)
      BY <2>1
    <3>2. recs[n + 1] \in Records
      BY <3>1, ElementOfSeq
    <3> QED
      BY <3>2 DEF Records
  <2>4. left = Append(p, r)
    BY <2>1 DEF Torn
  <2> HIDE DEF p, r
  <2>5. left \in Seq(Records) /\ Len(left) = n + 1
    BY <2>2, <2>3, <2>4
  <2>6. SubSeq(left, 1, synced) = SubSeq(p, 1, synced)
    BY <2>1, <2>2, <2>3, <2>4
  <2> QED
    BY <2>1, <2>2, <2>5, <2>6
<1> QED
  BY <1>1, <1>2 DEF Remains

(* The files that a start finds are finitely many.                         *)
LEMMA FoundFinite == ASSUME Numbered
                     PROVE  IsFiniteSet(Found) /\ Found \subseteq DOMAIN files
<1>1. CASE FindsFiles(setting)
  BY <1>1, UpTo DEF Numbered, NumberedTo, Found
<1>2. CASE ~FindsFiles(setting)
  BY <1>2, FS_EmptySet DEF Found
<1> QED
  BY <1>1, <1>2

(* A start takes the file with the highest number for the active one, or   *)
(* number 0 if it finds none.                                              *)
LEMMA ActivePathIs ==
    /\ Found = {} => ActivePath = 0
    /\ \A n \in Nat \ {0} : Found = 0..(n - 1) => ActivePath = n - 1
<1>1. ASSUME Found = {} PROVE ActivePath = 0
  BY <1>1 DEF ActivePath
<1>2. ASSUME NEW n \in Nat \ {0}, Found = 0..(n - 1) PROVE ActivePath = n - 1
  <2>1. Found \cup {0} = 0..(n - 1)
    BY <1>2
  <2>2. n - 1 \in 0..(n - 1) /\ \A fd \in 0..(n - 1) : fd <= n - 1
    OBVIOUS
  <2>3. \A m \in 0..(n - 1) : (\A fd \in 0..(n - 1) : fd <= m) => m = n - 1
    BY <2>2
  <2> QED
    BY <1>2, <2>1, <2>2, <2>3 DEF ActivePath
<1> QED
  BY <1>1, <1>2

LEMMA ActivePathType == ASSUME Numbered PROVE ActivePath \in Nat
<1>1. CASE Found = {}
  BY <1>1, ActivePathIs
<1>2. CASE Found # {}
  <2>1. PICK n \in Nat : Found = 0..(n - 1)
    BY <1>2 DEF Numbered, NumberedTo, Found
  <2>2. n # 0
    BY <1>2, <2>1
  <2> QED
    BY <2>1, <2>2, ActivePathIs
<1> QED
  BY <1>1, <1>2

(* A restart makes hints of the right type.                                *)
LEMMA RestoredHintType ==
    ASSUME TypeOK, Numbered, NEW fds \in SUBSET DOMAIN files, NEW a, NEW lost,
           NEW k \in Keys
    PROVE  RestoredHint(fds, a, lost, k) \in Hints
<1> DEFINE places == {p \in UNION {{fd} \X Scanned(files[fd]) : fd \in fds} :
                         files[p[1]][p[2]].key = k}
           latest == {p \in places : \A q \in places \ {p} : ScannedBefore(a, q, p)}
           at == CHOOSE p \in latest : TRUE
<1>1. StableCount(a, lost) \in Nat
  <2>1. IsFiniteSet(Found \ {a})
    BY FoundFinite, FS_Subset
  <2> QED
    BY <2>1, FS_CardinalityType DEF StableCount
<1>2. CASE latest = {}
  <2>1. RestoredHint(fds, a, lost, k) = NoHint
    BY <1>2 DEF RestoredHint
  <2> QED
    BY <2>1, StorageAssumption DEF NoHint, None, Hints
<1>3. CASE latest # {}
  <2>1. at \in latest
    BY <1>3
  <2>2. PICK fd \in fds : at \in {fd} \X Scanned(files[fd])
    BY <2>1
  <2> HIDE DEF at
  <2>3. at[1] = fd /\ at[2] \in DOMAIN files[fd] /\ fd \in Nat
    BY <2>2 DEF Scanned, TypeOK
  <2>4. files[fd] \in Seq(Records)
    BY <2>2 DEF TypeOK
  <2>5. files[at[1]][at[2]] \in Records /\ at[2] \in Nat
    BY <2>3, <2>4, ElementOfSeq
  <2>6. ToOffset(at[2] - 1) \in 0..(Width - 1)
    BY <2>5, OffsetType
  <2>7. RestoredHint(fds, a, lost, k) =
          [key |-> k, id |-> files[at[1]][at[2]].id,
           fd |-> IF at[1] = a THEN StableCount(a, lost) ELSE at[1],
           off |-> ToOffset(at[2] - 1)]
    BY <1>3 DEF RestoredHint, at
  <2> QED
    BY <1>1, <2>3, <2>5, <2>6, <2>7 DEF Records, Hints
<1> QED
  BY <1>2, <1>3

-----------------------------------------------------------------------------
(* Steps.                                                                  *)

(* A change of the active file that spares what was out of the buffer.     *)
LEMMA ActiveFileChange ==
    ASSUME IInv, phase # "down", stream # "null", NEW recs \in Seq(Records),
           synced <= Len(recs),
           SubSeq(recs, 1, synced) = SubSeq(files[active], 1, synced),
           files' = [files EXCEPT ![active] = recs]
    PROVE  /\ files' \in [DOMAIN files -> Seq(Records)]
           /\ files'[active] = recs /\ active \in DOMAIN files
           /\ Keeps
<1>1. /\ active \in DOMAIN files /\ synced \in Nat /\ synced <= Len(files[active])
      /\ files \in [DOMAIN files -> Seq(Records)]
  BY DEF IInv, TypeOK, StreamOfFile
<1>2. files' \in [DOMAIN files -> Seq(Records)] /\ files'[active] = recs
  BY <1>1
<1>3. ASSUME NEW fd \in DOMAIN files
      PROVE  Len(Safe(fd)) <= Len(files'[fd]) /\ SubSeq(files'[fd], 1, Len(Safe(fd))) = Safe(fd)
  <2>1. CASE fd = active
    <3>1. files[active] \in Seq(Records) /\ synced \in 0..Len(files[active])
      BY <1>1
    <3>2. Len(SubSeq(files[active], 1, synced)) = synced
      BY <3>1, Prefixes
    <3>3. Safe(fd) = SubSeq(files[active], 1, synced)
      BY <2>1 DEF Safe
    <3> QED
      BY <1>2, <2>1, <3>2, <3>3
  <2>2. CASE fd # active
    <3>1. Safe(fd) = files[fd] /\ files'[fd] = files[fd] /\ files[fd] \in Seq(Records)
      BY <1>1, <2>2 DEF Safe
    <3>2. SubSeq(files[fd], 1, Len(files[fd])) = files[fd] /\ Len(files[fd]) \in Nat
      BY <3>1
    <3> QED
      BY <3>1, <3>2
  <2> QED
    BY <2>1, <2>2
<1> QED
  BY <1>1, <1>2, <1>3 DEF Keeps

(* A step that leaves all files, or only adds some.                        *)
LEMMA FilesAdded ==
    ASSUME IInv, DOMAIN files \subseteq DOMAIN files',
           \A fd \in DOMAIN files : files'[fd] = files[fd]
    PROVE  Keeps
<1>1. ASSUME NEW fd \in DOMAIN files
      PROVE  Len(Safe(fd)) <= Len(files'[fd]) /\ SubSeq(files'[fd], 1, Len(Safe(fd))) = Safe(fd)
  <2>1. files[fd] \in Seq(Records) /\ files'[fd] = files[fd]
    BY DEF IInv, TypeOK
  <2>2. CASE phase # "down" /\ fd = active
    <3>1. synced \in 0..Len(files[fd])
      BY <2>1, <2>2 DEF IInv, TypeOK, StreamOfFile
    <3>2. Len(SubSeq(files[fd], 1, synced)) = synced
      BY <2>1, <3>1, Prefixes
    <3>3. Safe(fd) = SubSeq(files[fd], 1, synced)
      BY <2>2 DEF Safe
    <3> QED
      BY <2>1, <3>1, <3>2, <3>3
  <2>3. CASE ~(phase # "down" /\ fd = active)
    <3>1. Safe(fd) = files[fd]
      BY <2>3 DEF Safe
    <3>2. SubSeq(files[fd], 1, Len(files[fd])) = files[fd] /\ Len(files[fd]) \in Nat
      BY <2>1
    <3> QED
      BY <2>1, <3>1, <3>2
  <2> QED
    BY <2>2, <2>3
<1> QED
  BY <1>1 DEF Keeps

(* The end of a process, with the files of the same numbers.               *)
LEMMA GoneStep ==
    ASSUME IInv, Gone, UNCHANGED <<setting, written, last>>, faults' \in Nat,
           files' \in [DOMAIN files -> Seq(Records)]
    PROVE  IInv'
<1>1. DOMAIN files' = DOMAIN files /\ DOMAIN stable' = {}
  BY DEF Gone
<1>2. TypeOK'
  <2>1. NoHint \in Hints
    BY StorageAssumption DEF NoHint, None, Hints
  <2>2. /\ phase' = "down" /\ active' = 0 /\ synced' = 0 /\ stream' = "null"
        /\ stable' \in [DOMAIN stable' -> {"good", "closed", "null"}]
        /\ hint' \in Hints /\ recordMap' \in [Keys -> Hints] /\ activeMap' \in [Keys -> Nat]
    BY <2>1 DEF Gone, None
  <2>3. /\ setting' \in Settings /\ DOMAIN files' \subseteq Nat
        /\ written' \in Nat /\ last' \in [Keys -> Nat]
    BY <1>1 DEF IInv, TypeOK
  <2> QED
    BY <1>1, <2>2, <2>3 DEF TypeOK
<1>3. IsFiniteSet(DOMAIN stable')
  BY <1>1, FS_EmptySet
<1>4. StreamOfFile'
  BY DEF StreamOfFile, Gone
<1>5. Numbered'
  <2>1. FindsFiles(setting)' => \E n \in Nat : DOMAIN files' = 0..(n - 1)
    BY <1>1 DEF IInv, Numbered, NumberedTo, FindsFiles
  <2>2. phase' = "down"
    BY DEF Gone
  <2> QED
    BY <2>1, <2>2 DEF Numbered, NumberedTo
<1> QED
  BY <1>2, <1>3, <1>4, <1>5 DEF IInv

(* The same when some of the buffer is lost.                               *)
LEMMA LossStep ==
    ASSUME IInv, phase # "down", stream # "null", Gone,
           UNCHANGED <<setting, written, last>>, faults' \in Nat,
           NEW left \in Remains(files[active]),
           files' = [files EXCEPT ![active] = left]
    PROVE  IInv' /\ Keeps
<1>1. files[active] \in Seq(Records) /\ synced \in 0..Len(files[active])
  BY DEF IInv, TypeOK, StreamOfFile
<1>2. /\ left \in Seq(Records) /\ synced <= Len(left)
      /\ SubSeq(left, 1, synced) = SubSeq(files[active], 1, synced)
  BY <1>1, RemainsType
<1>3. files' \in [DOMAIN files -> Seq(Records)] /\ Keeps
  BY <1>2, ActiveFileChange
<1> QED
  BY <1>3, GoneStep

LEMMA UntouchedStep ==
    ASSUME IInv, Gone, UNCHANGED <<setting, written, last, files>>, faults' \in Nat
    PROVE  IInv' /\ Keeps
<1>1. files' \in [DOMAIN files -> Seq(Records)]
  BY DEF IInv, TypeOK
<1> QED
  BY <1>1, GoneStep, FilesAdded

(* How many calls have failed is a number.                                 *)
LEMMA FailType == ASSUME TypeOK, NEW n \in Nat, Fail(n) PROVE faults' \in Nat
BY DEF TypeOK, Fail

LEMMA VanishStep == ASSUME IInv, phase # "down", Vanish, faults' \in Nat
                    PROVE  IInv' /\ Keeps
<1>1. Gone /\ UNCHANGED <<setting, written, last>>
  BY DEF Vanish
<1>2. CASE stream = "null"
  BY <1>1, <1>2, UntouchedStep DEF Vanish
<1>3. CASE stream # "null"
  <2>1. PICK left \in Remains(files[active]) : files' = [files EXCEPT ![active] = left]
    BY <1>3 DEF Vanish
  <2> QED
    BY <1>1, <1>3, <2>1, LossStep
<1> QED
  BY <1>2, <1>3

LEMMA CloseStep == ASSUME IInv, Close PROVE IInv' /\ Keeps
<1>1. phase # "down" /\ Gone /\ UNCHANGED <<setting, written, last>>
  BY DEF Close
<1>2. CASE Fail(0) /\ UNCHANGED files
  <2>1. faults' \in Nat
    BY <1>2, FailType DEF IInv
  <2> QED
    BY <1>1, <1>2, <2>1, UntouchedStep
<1>3. CASE /\ stream # "null" /\ Fail(IF stream = "good" THEN 1 ELSE 0)
           /\ \E left \in Remains(files[active]) : files' = [files EXCEPT ![active] = left]
  <2>1. PICK left \in Remains(files[active]) : files' = [files EXCEPT ![active] = left]
    BY <1>3
  <2>2. faults' \in Nat
    BY <1>3, FailType DEF IInv
  <2> QED
    BY <1>1, <1>3, <2>1, <2>2, LossStep
<1> QED
  BY <1>2, <1>3 DEF Close

(* CommitWrite up to the comparison with maxFileSize.                      *)
LEMMA CommitStep ==
    ASSUME IInv, phase = "up", stream # "null", NEW k \in Keys,
           NEW recs \in Seq(Records), synced <= Len(recs),
           SubSeq(recs, 1, synced) = SubSeq(files[active], 1, synced),
           NEW off \in 0..(Width - 1), Commit(k, recs, off),
           stream' \in {"good", "bad"}, faults' \in Nat
    PROVE  IInv' /\ Keeps
<1> DEFINE h == [key |-> k, id |-> written + 1, fd |-> getActiveFD, off |-> off]
<1>1. /\ files' = [files EXCEPT ![active] = recs]
      /\ written' = written + 1 /\ last' = [last EXCEPT ![k] = written + 1]
      /\ UNCHANGED <<setting, active, synced, stable>>
  BY DEF Commit
<1>2. /\ files' \in [DOMAIN files -> Seq(Records)] /\ files'[active] = recs
      /\ active \in DOMAIN files /\ Keeps
  BY <1>1, ActiveFileChange
<1>3. h \in Hints
  <2>1. getActiveFD \in Nat
    BY FS_CardinalityType DEF IInv, getActiveFD
  <2> QED
    BY <2>1 DEF IInv, TypeOK, Hints
<1>4. \/ Apply(h, FALSE) /\ UNCHANGED <<phase, hint>>
      \/ phase' = "rotate" /\ hint' = h /\ UNCHANGED <<recordMap, activeMap>>
  BY DEF Commit
<1>5. /\ recordMap' \in [Keys -> Hints] /\ activeMap' \in [Keys -> Nat]
      /\ hint' \in Hints /\ phase' \in {"up", "rotate"}
  <2> HIDE DEF h
  <2>1. recordMap \in [Keys -> Hints] /\ activeMap \in [Keys -> Nat] /\ hint \in Hints
    BY DEF IInv, TypeOK
  <2>2. h.id \in Nat
    BY <1>3 DEF Hints
  <2> QED
    BY <1>3, <1>4, <2>1, <2>2 DEF Apply
<1>6. TypeOK'
  <2>1. written' \in Nat /\ last' \in [Keys -> Nat]
    BY <1>1 DEF IInv, TypeOK
  <2>2. /\ setting' \in Settings /\ DOMAIN files' \subseteq Nat /\ active' \in Nat
        /\ synced' \in Nat /\ stream' \in {"good", "bad", "null"}
        /\ stable' \in [DOMAIN stable' -> {"good", "closed", "null"}]
        /\ DOMAIN stable' \subseteq Nat
    BY <1>1, <1>2 DEF IInv, TypeOK
  <2> QED
    BY <1>2, <1>5, <2>1, <2>2 DEF TypeOK
<1>7. StreamOfFile'
  BY <1>1, <1>2 DEF StreamOfFile
<1>8. Numbered'
  <2>1. ASSUME NEW n \in Nat, NumberedTo(n) PROVE NumberedTo(n)'
    BY <1>1, <1>2, <1>5, <2>1 DEF NumberedTo
  <2> QED
    BY <1>1, <2>1 DEF IInv, Numbered, FindsFiles
<1> QED
  BY <1>1, <1>2, <1>6, <1>7, <1>8 DEF IInv

(* The file with one more record.                                          *)
LEMMA WrittenType ==
    ASSUME IInv, phase = "up", stream # "null", NEW k \in Keys
    PROVE  /\ files[active] \in Seq(Records) /\ synced \in 0..Len(files[active])
           /\ Written(k) \in Seq(Records) /\ synced \in 0..Len(Written(k))
           /\ SubSeq(Written(k), 1, synced) = SubSeq(files[active], 1, synced)
<1> DEFINE r == [key |-> k, id |-> written + 1, whole |-> TRUE]
<1>1. files[active] \in Seq(Records) /\ synced \in 0..Len(files[active])
  BY DEF IInv, TypeOK, StreamOfFile
<1>2. r \in Records
  BY DEF IInv, TypeOK, Records
<1>3. Written(k) = Append(files[active], r)
  BY DEF Written
<1> HIDE DEF r
<1>4. Written(k) \in Seq(Records) /\ Len(Written(k)) = Len(files[active]) + 1
  BY <1>1, <1>2, <1>3
<1>5. SubSeq(Written(k), 1, synced) = SubSeq(files[active], 1, synced)
  BY <1>1, <1>2, <1>3
<1> QED
  BY <1>1, <1>4, <1>5

LEMMA PutStep == ASSUME IInv, NEW k \in Keys, Put(k) PROVE IInv' /\ Keeps
<1>1. phase = "up" /\ stream # "null" /\ stream' \in {"good", "bad"} /\ faults' \in Nat
  BY DEF Put, Accepts, IInv, TypeOK
<1>2. /\ files[active] \in Seq(Records) /\ synced \in 0..Len(files[active])
      /\ Written(k) \in Seq(Records) /\ synced \in 0..Len(Written(k))
      /\ SubSeq(Written(k), 1, synced) = SubSeq(files[active], 1, synced)
  BY <1>1, WrittenType
<1>3. CASE Commit(k, Written(k), ToOffset(Len(files[active])))
  <2>1. Len(files[active]) \in Int
    BY <1>2
  <2>2. ToOffset(Len(files[active])) \in 0..(Width - 1)
    BY <2>1, OffsetType
  <2> QED
    BY <1>1, <1>2, <1>3, <2>2, CommitStep
<1>4. CASE Commit(k, files[active], TellFailed)
  BY <1>1, <1>2, <1>4, TellFailedType, CommitStep
<1> QED
  BY <1>3, <1>4 DEF Put

LEMMA PutFailsStep == ASSUME IInv, NEW k \in Keys, PutFails(k) PROVE IInv' /\ Keeps
<1>1. phase = "up" /\ stream # "null" /\ stream' \in {"good", "bad"} /\ Fail(1)
  BY DEF PutFails, Accepts
<1>2. faults' \in Nat
  BY <1>1, FailType DEF IInv
<1>3. /\ files[active] \in Seq(Records) /\ synced \in 0..Len(files[active])
      /\ Written(k) \in Seq(Records) /\ synced \in 0..Len(Written(k))
      /\ SubSeq(Written(k), 1, synced) = SubSeq(files[active], 1, synced)
  BY <1>1, WrittenType
<1>4. PICK left \in Remains(Written(k)),
           off \in {TellFailed, ToOffset(Len(files[active]))} : Commit(k, left, off)
  BY DEF PutFails
<1>5. off \in 0..(Width - 1)
  <2>1. Len(files[active]) \in Int
    BY <1>3
  <2>2. ToOffset(Len(files[active])) \in 0..(Width - 1)
    BY <2>1, OffsetType
  <2> QED
    BY <1>4, <2>2, TellFailedType
<1>6. /\ left \in Seq(Records) /\ synced <= Len(left)
      /\ SubSeq(left, 1, synced) = SubSeq(files[active], 1, synced)
  BY <1>3, RemainsType
<1> QED
  BY <1>1, <1>2, <1>4, <1>5, <1>6, CommitStep

(* Rotate adds the number of the active file to the stable ones.           *)
LEMMA RotateStep ==
    ASSUME IInv, NEW opened \in {"good", "closed"}, Rotate(opened)
    PROVE  IInv' /\ Keeps
<1> DEFINE fd == getActiveFD
<1>1. /\ phase = "rotate" /\ phase' = "create" /\ stream # "null"
      /\ UNCHANGED <<setting, active, stream, recordMap, activeMap, hint, written, last>>
      /\ stable' = [n \in DOMAIN stable \cup {fd} |-> IF n = fd THEN opened ELSE stable[n]]
  BY DEF Rotate, IInv, StreamOfFile
<1>2. PICK left \in Remains(files[active]) :
        /\ Fail((IF opened = "good" THEN 0 ELSE 1)
                + (IF stream = "good" /\ left # files[active] THEN 1 ELSE 0))
        /\ synced' = Len(left)
        /\ files' = [n \in DOMAIN files \cup (IF opened = "good" THEN {fd} ELSE {}) |->
                        IF n = active THEN left
                        ELSE IF n \in DOMAIN files THEN files[n] ELSE <<>>]
  BY DEF Rotate
<1>3. /\ active \in DOMAIN files /\ files[active] \in Seq(Records)
      /\ synced \in 0..Len(files[active]) /\ files \in [DOMAIN files -> Seq(Records)]
  BY <1>1 DEF IInv, TypeOK, StreamOfFile
<1>4. /\ left \in Seq(Records) /\ synced <= Len(left)
      /\ SubSeq(left, 1, synced) = SubSeq(files[active], 1, synced)
  BY <1>3, RemainsType
<1>5. fd \in Nat
  BY FS_CardinalityType DEF IInv, getActiveFD
<1> HIDE DEF fd
<1>6. /\ files' \in [DOMAIN files' -> Seq(Records)] /\ DOMAIN files \subseteq DOMAIN files'
      /\ DOMAIN files' \subseteq DOMAIN files \cup {fd} /\ files'[active] = left
      /\ \A n \in DOMAIN files \ {active} : files'[n] = files[n]
  <2>1. <<>> \in Seq(Records)
    OBVIOUS
  <2> QED
    BY <1>2, <1>3, <1>4, <2>1
<1>7. Keeps
  <2>1. ASSUME NEW n \in DOMAIN files
        PROVE  Len(Safe(n)) <= Len(files'[n]) /\ SubSeq(files'[n], 1, Len(Safe(n))) = Safe(n)
    <3>1. CASE n = active
      <4>1. Len(SubSeq(files[active], 1, synced)) = synced
        BY <1>3, Prefixes
      <4>2. Safe(n) = SubSeq(files[active], 1, synced)
        BY <1>1, <3>1 DEF Safe
      <4> QED
        BY <1>4, <1>6, <3>1, <4>1, <4>2
    <3>2. CASE n # active
      <4>1. Safe(n) = files[n] /\ files'[n] = files[n] /\ files[n] \in Seq(Records)
        BY <1>3, <1>6, <3>2 DEF Safe
      <4>2. SubSeq(files[n], 1, Len(files[n])) = files[n] /\ Len(files[n]) \in Nat
        BY <4>1
      <4> QED
        BY <4>1, <4>2
    <3> QED
      BY <3>1, <3>2
  <2> QED
    BY <1>6, <2>1 DEF Keeps
<1>8. TypeOK'
  <2>1. faults' \in Nat
    <3> DEFINE m == (IF opened = "good" THEN 0 ELSE 1)
                    + (IF stream = "good" /\ left # files[active] THEN 1 ELSE 0)
    <3>1. m \in Nat /\ Fail(m)
      BY <1>2
    <3> QED
      BY <3>1, FailType DEF IInv
  <2>2. /\ stable' \in [DOMAIN stable' -> {"good", "closed", "null"}]
        /\ DOMAIN stable' \subseteq Nat /\ DOMAIN files' \subseteq Nat
    BY <1>1, <1>5, <1>6 DEF IInv, TypeOK
  <2>3. /\ setting' \in Settings /\ active' \in Nat /\ synced' \in Nat
        /\ stream' \in {"good", "bad", "null"} /\ recordMap' \in [Keys -> Hints]
        /\ hint' \in Hints /\ activeMap' \in [Keys -> Nat]
        /\ written' \in Nat /\ last' \in [Keys -> Nat]
    BY <1>1, <1>2, <1>4 DEF IInv, TypeOK
  <2> QED
    BY <1>1, <1>6, <2>1, <2>2, <2>3 DEF TypeOK
<1>9. IsFiniteSet(DOMAIN stable')
  <2>1. DOMAIN stable' = DOMAIN stable \cup {fd}
    BY <1>1
  <2> QED
    BY <2>1, FS_AddElement DEF IInv
<1>10. StreamOfFile'
  BY <1>1, <1>2, <1>3, <1>4, <1>6 DEF StreamOfFile
<1>11. Numbered'
  <2>1. ASSUME NEW n \in Nat, NumberedTo(n) PROVE NumberedTo(n)'
    <3>1. DOMAIN files = 0..(n - 1) /\ active = n - 1 /\ DOMAIN stable = 0..(n - 2)
      BY <1>1, <2>1 DEF NumberedTo
    <3>2. n - 1 \in Nat
      BY <1>3, <3>1
    <3>3. fd = n - 1
      <4> DEFINE m == n - 1
      <4>1. m \in Nat /\ DOMAIN stable = 0..(m - 1)
        BY <3>1, <3>2
      <4> HIDE DEF m
      <4>2. Cardinality(DOMAIN stable) = m
        BY <4>1, UpTo
      <4> QED
        BY <4>2 DEF m, fd, getActiveFD
    <3>4. DOMAIN files' = 0..(n - 1)
      BY <1>6, <3>1, <3>2, <3>3
    <3>5. DOMAIN stable' = 0..(n - 2) \cup {n - 1}
      BY <1>1, <3>1, <3>3
    <3>6. 0..(n - 2) \cup {n - 1} = 0..(n - 1)
      BY <3>2
    <3> QED
      BY <1>1, <3>1, <3>4, <3>5, <3>6 DEF NumberedTo
  <2> QED
    BY <1>1, <2>1 DEF IInv, Numbered, FindsFiles
<1> QED
  BY <1>7, <1>8, <1>9, <1>10, <1>11 DEF IInv

(* Create opens a file that does not exist yet, if the store looks for its *)
(* files in the right place.                                               *)
LEMMA CreateStep ==
    ASSUME IInv, NEW opened \in {"good", "null"}, Create(opened)
    PROVE  IInv' /\ (FindsFiles(setting) => Keeps)
<1>1. /\ phase = "create" /\ phase' = "up" /\ stream' = opened /\ hint' = NoHint
      /\ Fail(IF opened = "good" THEN 0 ELSE 1) /\ Apply(hint, TRUE)
      /\ UNCHANGED <<setting, stable, written, last>>
  BY DEF Create
<1> DEFINE fd == getActiveFD
<1>2. fd \in Nat
  BY FS_CardinalityType DEF IInv, getActiveFD
<1>3. /\ files \in [DOMAIN files -> Seq(Records)] /\ DOMAIN files \subseteq Nat
      /\ active \in Nat /\ synced \in Nat
      /\ active \in DOMAIN files => synced <= Len(files[active])
  BY <1>1 DEF IInv, TypeOK, StreamOfFile
<1>4. ASSUME NEW n \in Nat, NumberedTo(n)
      PROVE  /\ DOMAIN files = 0..(n - 1) /\ active = n - 1
             /\ DOMAIN stable = 0..(n - 1) /\ fd = n
  BY <1>1, <1>4, UpTo DEF NumberedTo, getActiveFD
<1>5. opened = "good" =>
        /\ active' = fd /\ synced' = 0
        /\ files' = [m \in DOMAIN files \cup {fd} |-> IF m = fd THEN <<>> ELSE files[m]]
  <2> SUFFICES ASSUME opened = "good"
               PROVE  /\ active' = fd /\ synced' = 0
                      /\ files' = [m \in DOMAIN files \cup {fd} |->
                                      IF m = fd THEN <<>> ELSE files[m]]
    OBVIOUS
  <2> QED
    BY DEF Create
<1>6. opened = "null" => UNCHANGED <<active, synced, files>>
  BY DEF Create
<1> HIDE DEF fd
<1>7. /\ files' \in [DOMAIN files' -> Seq(Records)] /\ DOMAIN files' \subseteq Nat
      /\ active' \in Nat /\ synced' \in Nat
  <2>1. <<>> \in Seq(Records)
    OBVIOUS
  <2>2. CASE opened = "good"
    <3>1. active' \in Nat /\ synced' \in Nat
      BY <1>2, <1>5, <2>2
    <3>2. /\ DOMAIN files' = DOMAIN files \cup {fd}
          /\ files' \in [DOMAIN files \cup {fd} -> Seq(Records)]
      BY <1>3, <1>5, <2>1, <2>2
    <3> QED
      BY <1>2, <1>3, <3>1, <3>2
  <2>3. CASE opened = "null"
    BY <1>3, <1>6, <2>3
  <2> QED
    BY <2>2, <2>3
<1>8. StreamOfFile'
  <2>1. CASE opened = "good"
    BY <1>1, <1>5, <2>1 DEF StreamOfFile
  <2>2. CASE opened = "null"
    BY <1>1, <1>3, <1>6, <2>2 DEF StreamOfFile
  <2> QED
    BY <2>1, <2>2
<1>9. ASSUME NEW n \in Nat, NumberedTo(n) PROVE Keeps /\ \E m \in Nat : NumberedTo(m)'
  <2>1. DOMAIN files = 0..(n - 1) /\ active = n - 1 /\ DOMAIN stable = 0..(n - 1) /\ fd = n
    BY <1>4, <1>9
  <2>2. CASE opened = "good"
    <3>1. DOMAIN files' = 0..n /\ \A f \in DOMAIN files : files'[f] = files[f]
      BY <1>5, <2>1, <2>2
    <3>2. NumberedTo(n + 1)'
      BY <1>1, <1>5, <2>1, <2>2, <3>1 DEF NumberedTo
    <3>3. Keeps
      BY <2>1, <3>1, FilesAdded
    <3> QED
      BY <3>2, <3>3
  <2>3. CASE opened = "null"
    <3>1. NumberedTo(n)'
      BY <1>1, <1>6, <2>1, <2>3 DEF NumberedTo
    <3>2. Keeps
      BY <1>6, <2>3, FilesAdded
    <3> QED
      BY <3>1, <3>2
  <2> QED
    BY <2>2, <2>3
<1>10. /\ recordMap' \in [Keys -> Hints] /\ activeMap' \in [Keys -> Nat] /\ hint' \in Hints
  <2>1. recordMap \in [Keys -> Hints] /\ hint \in Hints /\ NoHint \in Hints
    BY StorageAssumption DEF IInv, TypeOK, NoHint, None, Hints
  <2> QED
    BY <1>1, <2>1 DEF Apply, None
<1>11. TypeOK'
  <2>1. faults' \in Nat
    <3>1. (IF opened = "good" THEN 0 ELSE 1) \in Nat
      OBVIOUS
    <3> QED
      BY <1>1, <3>1, FailType DEF IInv
  <2>2. /\ setting' \in Settings /\ stream' \in {"good", "bad", "null"}
        /\ stable' \in [DOMAIN stable' -> {"good", "closed", "null"}]
        /\ DOMAIN stable' \subseteq Nat /\ written' \in Nat /\ last' \in [Keys -> Nat]
    BY <1>1 DEF IInv, TypeOK
  <2> QED
    BY <1>1, <1>7, <1>10, <2>1, <2>2 DEF TypeOK
<1>12. IsFiniteSet(DOMAIN stable')
  BY <1>1 DEF IInv
<1> QED
  BY <1>1, <1>8, <1>9, <1>11, <1>12 DEF IInv, Numbered, FindsFiles

(* A start, from files of which no process has a part in a buffer.         *)
LEMMA OpenStep ==
    ASSUME IInv, NEW lost, NEW fault, Open(lost, fault)
    PROVE  IInv' /\ Keeps
<1> DEFINE a == ActivePath
           exists == a \in DOMAIN files
           scan == (Found \ ({a} \cup lost))
                   \cup (IF exists /\ fault # "scan" THEN {a} ELSE {})
<1>1. /\ phase = "down" /\ phase' = "up" /\ UNCHANGED <<hint, written, last>>
      /\ lost \subseteq Found \ {a}
      /\ Fail(Cardinality(lost) + (IF fault = "none" THEN 0 ELSE 1))
      /\ setting' \in Settings /\ setting'.dbPath = setting.dbPath
  BY DEF Open
<1>2. /\ active' = a
      /\ fault \in IF exists THEN {"none", "scan", "append"} ELSE {"none", "create"}
      /\ stream' = IF fault = "none" THEN "good" ELSE "null"
      /\ files' = IF exists \/ fault # "none" THEN files
                  ELSE [fd \in DOMAIN files \cup {a} |->
                           IF fd = a THEN <<>> ELSE files[fd]]
      /\ synced' = IF exists THEN Len(files[a]) ELSE 0
      /\ stable' = [fd \in Found \ {a} |-> IF fd \in lost THEN "null" ELSE "good"]
      /\ recordMap' = [k \in Keys |-> RestoredHint(scan, a, lost, k)]
      /\ activeMap' = [k \in Keys |-> RestoredHint(scan \cap {a}, a, lost, k).id]
  BY DEF Open
<1>3. /\ files \in [DOMAIN files -> Seq(Records)] /\ DOMAIN files \subseteq Nat
      /\ IsFiniteSet(Found) /\ Found \subseteq DOMAIN files /\ a \in Nat
  BY FoundFinite, ActivePathType DEF IInv, TypeOK
<1>4. scan \in SUBSET DOMAIN files /\ scan \cap {a} \in SUBSET DOMAIN files
  BY <1>3
<1>5. \A k \in Keys : /\ RestoredHint(scan, a, lost, k) \in Hints
                      /\ RestoredHint(scan \cap {a}, a, lost, k) \in Hints
  <2> HIDE DEF a, scan
  <2> QED
    BY <1>4, RestoredHintType DEF IInv
<1> HIDE DEF a, scan
<1>6. recordMap' \in [Keys -> Hints] /\ activeMap' \in [Keys -> Nat]
  BY <1>2, <1>5 DEF Hints
<1>7. /\ files' \in [DOMAIN files' -> Seq(Records)] /\ DOMAIN files' \subseteq Nat
      /\ DOMAIN files \subseteq DOMAIN files'
      /\ \A fd \in DOMAIN files : files'[fd] = files[fd]
  <2>1. <<>> \in Seq(Records)
    OBVIOUS
  <2> QED
    BY <1>2, <1>3, <2>1
<1>8. TypeOK'
  <2>1. faults' \in Nat
    <3>1. IsFiniteSet(lost)
      BY <1>1, <1>3, FS_Subset
    <3>2. Cardinality(lost) + (IF fault = "none" THEN 0 ELSE 1) \in Nat
      BY <3>1, FS_CardinalityType
    <3> QED
      BY <1>1, <3>2, FailType DEF IInv
  <2>2. synced' \in Nat
    BY <1>2, <1>3
  <2>3. /\ stable' \in [DOMAIN stable' -> {"good", "closed", "null"}]
        /\ DOMAIN stable' \subseteq Nat /\ stream' \in {"good", "bad", "null"}
    BY <1>2, <1>3
  <2>4. hint' \in Hints /\ written' \in Nat /\ last' \in [Keys -> Nat]
    BY <1>1 DEF IInv, TypeOK
  <2> QED
    BY <1>1, <1>2, <1>3, <1>6, <1>7, <2>1, <2>2, <2>3, <2>4 DEF TypeOK
<1>9. IsFiniteSet(DOMAIN stable')
  <2>1. DOMAIN stable' = Found \ {a}
    BY <1>2
  <2> QED
    BY <1>3, <2>1, FS_Subset
<1>10. StreamOfFile'
  <2>1. CASE exists
    BY <1>1, <1>2, <1>3, <1>7, <2>1 DEF StreamOfFile
  <2>2. CASE ~exists
    <3>1. fault = "none" => a \in DOMAIN files' /\ files'[a] = <<>>
      BY <1>2, <2>2
    <3>2. fault # "none" => a \notin DOMAIN files'
      BY <1>2, <2>2
    <3> QED
      BY <1>1, <1>2, <2>2, <3>1, <3>2 DEF StreamOfFile
  <2> QED
    BY <2>1, <2>2
<1>11. Numbered'
  <2> SUFFICES ASSUME FindsFiles(setting)
               PROVE  \E m \in Nat : NumberedTo(m)'
    BY <1>1 DEF Numbered, FindsFiles
  <2>1. PICK n \in Nat : DOMAIN files = 0..(n - 1)
    BY DEF IInv, Numbered, NumberedTo
  <2>2. Found = 0..(n - 1)
    BY <2>1 DEF Found
  <2>3. CASE n = 0
    <3>1. Found = {} /\ DOMAIN files = {} /\ a = 0
      BY <2>1, <2>2, <2>3, ActivePathIs DEF a
    <3>2. CASE fault = "none"
      <4>1. DOMAIN files' = 0..0 /\ DOMAIN stable' = 0..(-1)
        BY <1>2, <3>1, <3>2
      <4>2. NumberedTo(1)'
        BY <1>1, <1>2, <3>1, <4>1 DEF NumberedTo
      <4> QED
        BY <4>2
    <3>3. CASE fault # "none"
      <4>1. DOMAIN files' = 0..(0 - 1) /\ stream' = "null"
        BY <1>2, <3>1, <3>3
      <4>2. NumberedTo(0)'
        BY <1>1, <4>1 DEF NumberedTo
      <4> QED
        BY <4>2
    <3> QED
      BY <3>2, <3>3
  <2>4. CASE n # 0
    <3>1. a = n - 1 /\ exists
      BY <2>1, <2>2, <2>4, ActivePathIs DEF a
    <3>2. files' = files /\ DOMAIN stable' = 0..(n - 2)
      BY <1>2, <2>2, <3>1
    <3>3. NumberedTo(n)'
      BY <1>1, <1>2, <2>1, <3>1, <3>2 DEF NumberedTo
    <3> QED
      BY <3>3
  <2> QED
    BY <2>3, <2>4
<1>12. Keeps
  BY <1>7, FilesAdded
<1> QED
  BY <1>8, <1>9, <1>10, <1>11, <1>12 DEF IInv

-----------------------------------------------------------------------------
(* The invariant.                                                          *)

LEMMA InitIInv == Init => IInv
<1> SUFFICES ASSUME Init PROVE IInv
  OBVIOUS
<1>1. DOMAIN files = {} /\ DOMAIN stable = {} /\ phase = "down"
  BY DEF Init
<1>2. TypeOK
  <2>1. NoHint \in Hints
    BY StorageAssumption DEF NoHint, None, Hints
  <2>2. recordMap \in [Keys -> Hints] /\ hint \in Hints
    BY <2>1 DEF Init
  <2>3. activeMap \in [Keys -> Nat] /\ last \in [Keys -> Nat]
    BY DEF Init, None
  <2>4. files \in [DOMAIN files -> Seq(Records)] /\ DOMAIN files \subseteq Nat
    BY <1>1 DEF Init
  <2>5. /\ stable \in [DOMAIN stable -> {"good", "closed", "null"}]
        /\ DOMAIN stable \subseteq Nat
    BY <1>1 DEF Init
  <2> QED
    BY <2>2, <2>3, <2>4, <2>5 DEF Init, TypeOK
<1>3. NumberedTo(0)
  BY <1>1 DEF NumberedTo
<1> QED
  BY <1>1, <1>2, <1>3, FS_EmptySet DEF IInv, StreamOfFile, Numbered

LEMMA StepIInv == IInv /\ [Next]_vars => IInv' /\ (FindsFiles(setting) => Keeps)
<1> SUFFICES ASSUME IInv, [Next]_vars PROVE IInv' /\ (FindsFiles(setting) => Keeps)
  OBVIOUS
<1>1. ASSUME NEW lost, NEW fault, Open(lost, fault) PROVE IInv' /\ Keeps
  BY <1>1, OpenStep
<1>2. ASSUME NEW k \in Keys, Put(k) \/ PutFails(k) PROVE IInv' /\ Keeps
  BY <1>2, PutStep, PutFailsStep
<1>3. ASSUME NEW opened \in {"good", "closed"}, Rotate(opened) PROVE IInv' /\ Keeps
  BY <1>3, RotateStep
<1>4. ASSUME NEW opened \in {"good", "null"}, Create(opened)
      PROVE  IInv' /\ (FindsFiles(setting) => Keeps)
  BY <1>4, CreateStep
<1>5. ASSUME NullCall PROVE IInv' /\ Keeps
  <2>1. phase # "down" /\ Vanish /\ faults' = faults
    BY <1>5 DEF NullCall
  <2>2. faults' \in Nat
    BY <2>1 DEF IInv, TypeOK
  <2> QED
    BY <2>1, <2>2, VanishStep
<1>6. ASSUME Crash PROVE IInv' /\ Keeps
  <2>1. phase # "down" /\ Vanish /\ Fail(1)
    BY <1>6 DEF Crash
  <2>2. faults' \in Nat
    BY <2>1, FailType DEF IInv
  <2> QED
    BY <2>1, <2>2, VanishStep
<1>7. ASSUME Close PROVE IInv' /\ Keeps
  BY <1>7, CloseStep
<1>8. ASSUME UNCHANGED vars PROVE IInv' /\ Keeps
  <2>1. UNCHANGED <<setting, files, phase, active, stream, synced, stable,
                    recordMap, activeMap, hint, faults, written, last>>
    BY <1>8 DEF vars, memory
  <2>2. Keeps
    BY <2>1, FilesAdded
  <2>3. TypeOK' /\ IsFiniteSet(DOMAIN stable)' /\ StreamOfFile'
    BY <2>1 DEF IInv, TypeOK, StreamOfFile, Records, Hints
  <2>4. Numbered'
    BY <2>1 DEF IInv, Numbered, NumberedTo, FindsFiles
  <2> QED
    BY <2>2, <2>3, <2>4 DEF IInv
<1> QED
  BY <1>1, <1>2, <1>3, <1>4, <1>5, <1>6, <1>7, <1>8 DEF Next

(* Every variable keeps its type, whatever call fails and wherever the     *)
(* store looks for its files.                                              *)
THEOREM Typing == Spec => []TypeOK
<1>1. Spec => []IInv
  BY InitIInv, StepIInv, PTL DEF Spec
<1>2. IInv => TypeOK
  BY DEF IInv
<1> QED
  BY <1>1, <1>2, PTL

(* If all settings name the directory with a slash, as SetDbPath makes     *)
(* them, no step takes a record from a file that has left the buffer,      *)
(* whatever calls fail and whenever the process dies: CommitWrite never    *)
(* opens an existing file for truncation.                                  *)
THEOREM FilesKept ==
    ASSUME \A s \in Settings : FindsFiles(s)
    PROVE  Spec => NothingTruncated
<1>1. IInv /\ [Next]_vars => Keeps
  <2>1. IInv => FindsFiles(setting)
    BY DEF IInv, TypeOK
  <2> QED
    BY <2>1, StepIInv
<1>2. IInv /\ [Next]_vars => IInv'
  BY StepIInv
<1>3. Spec => [][IInv /\ Keeps]_vars
  BY <1>1, <1>2, InitIInv, PTL DEF Spec
<1>4. IInv /\ Keeps =>
        \A fd \in DOMAIN files :
          /\ fd \in DOMAIN files' /\ Len(Safe(fd)) <= Len(files'[fd])
          /\ SubSeq(files'[fd], 1, Len(Safe(fd))) = Safe(fd)
  BY DEF Keeps
<1> QED
  BY <1>3, <1>4, PTL DEF NothingTruncated
=============================================================================
