-------------------------- MODULE StorageReadProofs --------------------------
(***************************************************************************)
(* Proofs about what a Get of Storage returns, for every value of its      *)
(* constants, in behaviours in which offsets do not wrap: whatever fails,  *)
(* never the value of another write; and while nothing has failed, the     *)
(* last one.                                                               *)
(***************************************************************************)
EXTENDS StorageProofs

(* The offset of every record, and of a record more, fits into Offset and  *)
(* differs from what a failed tellp() returns.                             *)
OffsetsFit == \A fd \in DOMAIN files : Len(files[fd]) < Width

(* Of at most eleven files the last is the active one and the names of the *)
(* others have one digit.                                                  *)
ElevenFiles == \A fd \in DOMAIN files : fd <= 10

-----------------------------------------------------------------------------
(* The inductive invariant.                                                *)

(* The numbers of the handles, whatever state they are in, are those below *)
(* the active file's.                                                      *)
HandlesNumbered ==
    /\ phase = "rotate" \/ (phase = "up" /\ stream # "null") =>
         DOMAIN stable = 0..(active - 1)
    /\ phase = "create" => DOMAIN stable = 0..active
    /\ DOMAIN stable \subseteq DOMAIN files

(* If there is a whole record at offset off it is that of the write id.    *)
Right(recs, off, id) ==
    off + 1 \in DOMAIN recs /\ recs[off + 1].whole => recs[off + 1].id = id

(* A hint is for a file the process knows, and where it points there is    *)
(* no record of another write; as long as records can be appended they do  *)
(* not come to lie there.                                                  *)
HintHonest(h) ==
    /\ h.fd \in DOMAIN files /\ h.fd \in DOMAIN stable \cup {active}
    /\ Right(files[h.fd], h.off, h.id)
    /\ phase # "create" /\ stream = "good" /\ h.fd = active =>
         h.off < Len(files[active])

IndexHonest ==
    phase # "down" => \A k \in Keys : recordMap[k] # NoHint =>
        /\ HintHonest(recordMap[k])
        /\ recordMap[k].fd = getActiveFD => activeMap[k] \in {recordMap[k].id, None}

PendingHonest == phase \in {"rotate", "create"} => HintHonest(hint)

ReadInv == HandlesNumbered /\ IndexHonest /\ PendingHonest

(* The last record of key k, in the order of the files, is the i-th one of *)
(* file fd, and it is that of the last write of k.                         *)
IsLast(k, fd, i) ==
    /\ fd \in DOMAIN files /\ i \in DOMAIN files[fd]
    /\ files[fd][i].key = k /\ files[fd][i].id = last[k] /\ last[k] # None
    /\ \A g \in DOMAIN files : \A j \in DOMAIN files[g] :
         files[g][j].key = k => g < fd \/ (g = fd /\ j <= i)

NoRecord(k) ==
    /\ last[k] = None
    /\ \A g \in DOMAIN files : \A j \in DOMAIN files[g] : files[g][j].key # k

Exact(k, h) == IF h = NoHint THEN NoRecord(k)
               ELSE IsLast(k, h.fd, h.off + 1) /\ h.id = last[k]

(* The hint of k when CommitWrite is done with the write it is at.         *)
NewHint(k) == IF phase \in {"rotate", "create"} /\ k = hint.key
              THEN hint ELSE recordMap[k]

(* What holds as long as nothing has failed.                               *)
AllWhole == \A fd \in DOMAIN files : \A i \in DOMAIN files[fd] : files[fd][i].whole

LastKnown == \A k \in Keys : NoRecord(k) \/ \E fd \in Nat, i \in Nat : IsLast(k, fd, i)

AllGood == phase # "down" => /\ stream = "good"
                             /\ \A fd \in DOMAIN stable : stable[fd] = "good"

IndexExact ==
    phase # "down" => \A k \in Keys :
        /\ Exact(k, NewHint(k))
        /\ recordMap[k] # NoHint /\ recordMap[k].fd = getActiveFD =>
             activeMap[k] = recordMap[k].id

Faultless == faults = 0 => AllWhole /\ LastKnown /\ AllGood /\ IndexExact

-----------------------------------------------------------------------------
(* Offsets, and numbers of handles.                                        *)

LEMMA OffsetIs == ASSUME NEW n \in 0..(Width - 1) PROVE ToOffset(n) = n
BY StorageAssumption DEF ToOffset

LEMMA TellFailedIs == TellFailed = Width - 1
<1>1. Width \in Nat \ {0}
  BY StorageAssumption
<1>2. (-1) % Width \in 0..(Width - 1)
  BY <1>1
<1>3. -1 = ((-1) \div Width) * Width + ((-1) % Width) /\ (-1) \div Width \in Int
  BY <1>1
<1>4. (-1) \div Width = -1
  BY <1>1, <1>2, <1>3
<1> QED
  BY <1>1, <1>3, <1>4 DEF TellFailed

(* The next number is that of the active file, or the one behind it.       *)
LEMMA ActiveNumber ==
    ASSUME IInv, HandlesNumbered
    PROVE  /\ phase = "rotate" \/ (phase = "up" /\ stream # "null") =>
                getActiveFD = active
           /\ phase = "create" => getActiveFD = active + 1
<1>1. active \in Nat /\ active + 1 \in Nat
  BY DEF IInv, TypeOK
<1>2. ASSUME DOMAIN stable = 0..(active - 1) PROVE getActiveFD = active
  BY <1>1, <1>2, UpTo DEF getActiveFD
<1>3. ASSUME DOMAIN stable = 0..active PROVE getActiveFD = active + 1
  <2>1. DOMAIN stable = 0..((active + 1) - 1)
    BY <1>1, <1>3
  <2> QED
    BY <1>1, <2>1, UpTo DEF getActiveFD
<1> QED
  BY <1>2, <1>3 DEF HandlesNumbered

(* No part of a buffer that gets out holds anything that was not in it: a  *)
(* whole record of what remains is the one that lay at its place.          *)
LEMMA RemainsRight ==
    ASSUME NEW recs \in Seq(Records), synced \in 0..Len(recs),
           NEW left \in Remains(recs)
    PROVE  /\ left \in Seq(Records) /\ Len(left) <= Len(recs)
           /\ \A i \in DOMAIN left : left[i].whole => left[i] = recs[i]
<1>1. left \in Seq(Records)
  BY RemainsType
<1>2. CASE \E n \in synced..Len(recs) : left = SubSeq(recs, 1, n)
  BY <1>1, <1>2
<1>3. CASE \E n \in synced..(Len(recs) - 1) : left = Torn(recs, n)
  <2>1. PICK n \in synced..(Len(recs) - 1) : left = Torn(recs, n)
    BY <1>3
  <2> DEFINE p == SubSeq(recs, 1, n)
             r == [recs[n + 1] EXCEPT !.whole = FALSE]
  <2>2. p \in Seq(Records) /\ Len(p) = n /\ \A i \in 1..n : p[i] = recs[i]
    BY <2>1
  <2>3. ~r.whole
    <3>1. recs[n + 1] \in Records
      BY <2>1, ElementOfSeq
    <3> QED
      BY <3>1 DEF Records
  <2>4. left = Append(p, r)
    BY <2>1 DEF Torn
  <2> HIDE DEF p, r
  <2>5. Len(left) = n + 1 /\ left[n + 1] = r /\ \A i \in 1..n : left[i] = p[i]
    BY <2>2, <2>4
  <2>6. DOMAIN left = 1..(n + 1)
    BY <1>1, <2>5
  <2>7. ASSUME NEW i \in DOMAIN left, left[i].whole PROVE left[i] = recs[i]
    <3>1. i # n + 1
      BY <2>3, <2>5, <2>7
    <3>2. i \in 1..n
      BY <2>1, <2>6, <2>7, <3>1
    <3> QED
      BY <2>2, <2>5, <3>2
  <2> QED
    BY <1>1, <2>1, <2>5, <2>7
<1> QED
  BY <1>2, <1>3 DEF Remains

-----------------------------------------------------------------------------
(* Steps and honest hints.                                                 *)

(* A hint stays honest when the active file comes to hold recs, if whole   *)
(* records stay what they are and a stream that is not good adds none.     *)
LEMMA HintKept ==
    ASSUME IInv, NEW h \in Hints, HintHonest(h), phase # "create",
           active \in DOMAIN files, NEW recs \in Seq(Records),
           \A i \in DOMAIN recs : recs[i].whole /\ i <= Len(files[active]) =>
                i \in DOMAIN files[active] /\ recs[i] = files[active][i],
           stream # "good" => Len(recs) <= Len(files[active])
    PROVE  /\ h.fd = active => Right(recs, h.off, h.id)
           /\ h.fd # active => Right(files[h.fd], h.off, h.id)
<1>1. files[active] \in Seq(Records)
  BY DEF IInv, TypeOK
<1>2. h.off \in Nat
  BY StorageAssumption DEF Hints
<1>3. CASE h.fd = active
  <2> SUFFICES ASSUME h.off + 1 \in DOMAIN recs, recs[h.off + 1].whole
               PROVE  recs[h.off + 1].id = h.id
    BY <1>3 DEF Right
  <2>1. h.off + 1 <= Len(files[active])
    <3>1. CASE stream = "good"
      BY <1>1, <1>2, <1>3, <3>1 DEF HintHonest
    <3>2. CASE stream # "good"
      BY <1>1, <1>2, <3>2
    <3> QED
      BY <3>1, <3>2
  <2>2. h.off + 1 \in DOMAIN files[active] /\ recs[h.off + 1] = files[active][h.off + 1]
    BY <2>1
  <2> QED
    BY <1>3, <2>2 DEF HintHonest, Right
<1>4. CASE h.fd # active
  BY <1>4 DEF HintHonest
<1> QED
  BY <1>3, <1>4

(* What HintHonest says of the next state, of a hint of this one.          *)
HonestNext(h) ==
    /\ h.fd \in DOMAIN files' /\ h.fd \in DOMAIN stable' \cup {active'}
    /\ Right(files'[h.fd], h.off, h.id)
    /\ phase' # "create" /\ stream' = "good" /\ h.fd = active' =>
         h.off < Len(files'[active'])

(* The index is honest in the next state.                                  *)
LEMMA IndexNext ==
    ASSUME \A k \in Keys : recordMap'[k] # NoHint =>
             /\ HonestNext(recordMap'[k])
             /\ recordMap'[k].fd = getActiveFD' =>
                  activeMap'[k] \in {recordMap'[k].id, None}
    PROVE  IndexHonest'
BY DEF IndexHonest, HonestNext, HintHonest, NoHint, None

LEMMA PendingNext ==
    ASSUME phase' \in {"rotate", "create"} => HonestNext(hint')
    PROVE  PendingHonest'
BY DEF PendingHonest, HonestNext, HintHonest

(* CommitWrite up to the comparison with maxFileSize, or to its end.       *)
LEMMA CommitHonest ==
    ASSUME IInv, ReadInv, phase = "up", stream # "null", stream' # "null",
           NEW k \in Keys,
           NEW recs \in Seq(Records), NEW off \in 0..(Width - 1),
           Commit(k, recs, off),
           \A i \in DOMAIN recs : recs[i].whole /\ i <= Len(files[active]) =>
                i \in DOMAIN files[active] /\ recs[i] = files[active][i],
           stream # "good" => Len(recs) <= Len(files[active]),
           Right(recs, off, written + 1),
           stream' = "good" => /\ stream = "good" /\ off < Len(recs)
                               /\ Len(files[active]) <= Len(recs)
    PROVE  ReadInv'
<1> DEFINE h == [key |-> k, id |-> written + 1, fd |-> getActiveFD, off |-> off]
<1>1. /\ files' = [files EXCEPT ![active] = recs]
      /\ UNCHANGED <<setting, active, synced, stable>>
      /\ \/ /\ Apply(h, FALSE) /\ UNCHANGED <<phase, hint>>
         \/ /\ phase' = "rotate" /\ hint' = h
            /\ UNCHANGED <<recordMap, activeMap>>
  BY DEF Commit
<1>2. /\ active \in DOMAIN files /\ files \in [DOMAIN files -> Seq(Records)]
      /\ recordMap \in [Keys -> Hints] /\ activeMap \in [Keys -> Nat]
      /\ active \in Nat /\ written \in Nat
  BY DEF IInv, TypeOK, StreamOfFile
<1>3. getActiveFD = active /\ getActiveFD' = active /\ active' = active
  BY <1>1, ActiveNumber DEF ReadInv, getActiveFD
<1>4. /\ DOMAIN files' = DOMAIN files /\ files'[active] = recs
      /\ \A fd \in DOMAIN files \ {active} : files'[fd] = files[fd]
  BY <1>1, <1>2
<1>5. HandlesNumbered'
  BY <1>1, <1>2, <1>4 DEF ReadInv, HandlesNumbered
<1>6. h \in Hints /\ HonestNext(h)
  <2>1. h \in Hints
    BY <1>2, <1>3 DEF Hints
  <2>2. /\ h.fd = active /\ h.off = off /\ h.id = written + 1
    BY <1>3
  <2> HIDE DEF h
  <2>3. HonestNext(h)
    BY <1>1, <1>2, <1>3, <1>4, <2>2 DEF HonestNext
  <2> QED
    BY <2>1, <2>3
<1> HIDE DEF h
<1>7. ASSUME NEW j \in Keys, recordMap[j] # NoHint
      PROVE  /\ HonestNext(recordMap[j])
             /\ recordMap[j].fd = active => activeMap[j] \in {recordMap[j].id, None}
  <2>1. HintHonest(recordMap[j]) /\ recordMap[j] \in Hints
    BY <1>2, <1>7 DEF ReadInv, IndexHonest
  <2>2. /\ recordMap[j].fd = active => Right(recs, recordMap[j].off, recordMap[j].id)
        /\ recordMap[j].fd # active =>
             Right(files[recordMap[j].fd], recordMap[j].off, recordMap[j].id)
    BY <1>2, <2>1, HintKept
  <2>3. recordMap[j].fd = active => activeMap[j] \in {recordMap[j].id, None}
    BY <1>3, <1>7 DEF ReadInv, IndexHonest
  <2> DEFINE g == recordMap[j]
  <2>4. g.fd \in DOMAIN files /\ g.fd \in DOMAIN stable \cup {active}
    BY <2>1 DEF HintHonest
  <2>5. Right(files'[g.fd], g.off, g.id)
    BY <1>4, <2>2, <2>4
  <2>6. stream' = "good" /\ g.fd = active' => g.off < Len(files'[active'])
    <3>1. g.off \in Nat /\ files[active] \in Seq(Records)
      BY <1>2, <2>1, StorageAssumption DEF Hints
    <3> QED
      BY <1>3, <1>4, <2>1, <3>1 DEF HintHonest
  <2> QED
    BY <1>1, <1>4, <2>3, <2>4, <2>5, <2>6 DEF HonestNext
<1>8. CASE Apply(h, FALSE) /\ UNCHANGED <<phase, hint>>
  <2>1. /\ h.key = k
        /\ recordMap' = [recordMap EXCEPT ![k] = h]
        /\ activeMap' = [activeMap EXCEPT ![k] = h.id]
    BY <1>8 DEF Apply, h
  <2>2. ASSUME NEW j \in Keys, recordMap'[j] # NoHint
        PROVE  /\ HonestNext(recordMap'[j])
               /\ recordMap'[j].fd = active =>
                    activeMap'[j] \in {recordMap'[j].id, None}
    <3>1. CASE j = k
      <4>1. recordMap'[j] = h /\ activeMap'[j] = h.id
        BY <1>2, <2>1, <3>1
      <4> QED
        BY <1>6, <4>1
    <3>2. CASE j # k
      <4>1. recordMap'[j] = recordMap[j] /\ activeMap'[j] = activeMap[j]
        BY <1>2, <2>1, <3>2
      <4> QED
        BY <1>7, <2>2, <4>1
    <3> QED
      BY <3>1, <3>2
  <2>3. IndexHonest'
    BY <1>3, <2>2, IndexNext
  <2>4. PendingHonest'
    BY <1>8 DEF PendingHonest
  <2> QED
    BY <1>5, <2>3, <2>4 DEF ReadInv
<1>9. CASE phase' = "rotate" /\ hint' = h /\ UNCHANGED <<recordMap, activeMap>>
  <2>1. IndexHonest'
    BY <1>3, <1>7, <1>9, IndexNext
  <2>2. PendingHonest'
    BY <1>6, <1>9, PendingNext
  <2> QED
    BY <1>5, <2>1, <2>2 DEF ReadInv
<1> QED
  BY <1>1, <1>8, <1>9

LEMMA PutHonest ==
    ASSUME IInv, ReadInv, OffsetsFit, OffsetsFit', NEW k \in Keys, Put(k)
    PROVE  ReadInv'
<1>1. phase = "up" /\ stream # "null" /\ stream' = stream
  BY DEF Put, Accepts
<1>2. /\ active \in DOMAIN files /\ files[active] \in Seq(Records)
      /\ written \in Nat /\ Len(files[active]) < Width
  BY <1>1 DEF IInv, TypeOK, StreamOfFile, OffsetsFit
<1>3. CASE stream = "good" /\ Commit(k, Written(k), ToOffset(Len(files[active])))
  <2> DEFINE r == [key |-> k, id |-> written + 1, whole |-> TRUE]
  <2>1. r \in Records /\ Written(k) = Append(files[active], r)
    BY <1>2 DEF Records, Written
  <2>2. /\ Written(k) \in Seq(Records) /\ Len(Written(k)) = Len(files[active]) + 1
        /\ Written(k)[Len(files[active]) + 1] = r
        /\ \A i \in 1..Len(files[active]) : Written(k)[i] = files[active][i]
    BY <1>2, <2>1
  <2>3. ToOffset(Len(files[active])) = Len(files[active])
    BY <1>2, OffsetIs, StorageAssumption
  <2>4. Len(files[active]) \in 0..(Width - 1)
    BY <1>2, StorageAssumption
  <2>5. Right(Written(k), Len(files[active]), written + 1)
    BY <2>2 DEF Right
  <2> HIDE DEF r
  <2>6. Commit(k, Written(k), Len(files[active]))
    BY <1>3, <2>3
  <2>7. \A i \in DOMAIN Written(k) : Written(k)[i].whole /\ i <= Len(files[active]) =>
            i \in DOMAIN files[active] /\ Written(k)[i] = files[active][i]
    BY <1>2, <2>2
  <2>8. Len(files[active]) < Len(Written(k)) /\ Len(files[active]) <= Len(Written(k))
    BY <1>2, <2>2
  <2> QED
    BY <1>1, <1>3, <2>2, <2>4, <2>5, <2>6, <2>7, <2>8, CommitHonest
<1>4. CASE stream = "bad" /\ Commit(k, files[active], TellFailed)
  <2>1. Right(files[active], TellFailed, written + 1)
    BY <1>2, TellFailedIs, StorageAssumption DEF Right
  <2> QED
    BY <1>1, <1>2, <1>4, <2>1, TellFailedType, CommitHonest
<1> QED
  BY <1>3, <1>4 DEF Put

LEMMA PutFailsHonest ==
    ASSUME IInv, ReadInv, OffsetsFit, OffsetsFit', NEW k \in Keys, PutFails(k)
    PROVE  ReadInv'
<1>1. phase = "up" /\ stream = "good" /\ stream' = "bad"
  BY DEF PutFails, Accepts
<1>2. /\ active \in DOMAIN files /\ files[active] \in Seq(Records)
      /\ written \in Nat /\ Len(files[active]) < Width
      /\ files \in [DOMAIN files -> Seq(Records)]
  BY <1>1 DEF IInv, TypeOK, StreamOfFile, OffsetsFit
<1>3. PICK left \in Remains(Written(k)),
           off \in {TellFailed, ToOffset(Len(files[active]))} : Commit(k, left, off)
  BY DEF PutFails
<1> DEFINE r == [key |-> k, id |-> written + 1, whole |-> TRUE]
<1>4. r \in Records /\ Written(k) = Append(files[active], r)
  BY <1>2 DEF Records, Written
<1>5. r.id = written + 1
  OBVIOUS
<1> HIDE DEF r
<1>6. /\ Written(k) \in Seq(Records) /\ Len(Written(k)) = Len(files[active]) + 1
      /\ Written(k)[Len(files[active]) + 1] = r
      /\ \A i \in 1..Len(files[active]) : Written(k)[i] = files[active][i]
  BY <1>2, <1>4
<1>7. synced \in 0..Len(Written(k))
  BY <1>1, WrittenType
<1>8. /\ left \in Seq(Records) /\ Len(left) <= Len(Written(k))
      /\ \A i \in DOMAIN left : left[i].whole => left[i] = Written(k)[i]
  BY <1>6, <1>7, RemainsRight
<1>9. ToOffset(Len(files[active])) = Len(files[active])
  BY <1>2, OffsetIs, StorageAssumption
<1>10. off \in 0..(Width - 1)
  BY <1>2, <1>9, TellFailedType, StorageAssumption
<1>11. Len(left) < Width
  <2>1. files'[active] = left /\ active \in DOMAIN files'
    BY <1>2, <1>3 DEF Commit
  <2> QED
    BY <2>1 DEF OffsetsFit
<1>12. Right(left, off, written + 1)
  <2>1. CASE off = TellFailed
    BY <1>8, <1>11, <2>1, TellFailedIs, StorageAssumption DEF Right
  <2>2. CASE off = Len(files[active])
    BY <1>2, <1>5, <1>6, <1>8, <2>2 DEF Right
  <2> QED
    BY <1>9, <2>1, <2>2
<1>13. \A i \in DOMAIN left : left[i].whole /\ i <= Len(files[active]) =>
           i \in DOMAIN files[active] /\ left[i] = files[active][i]
  BY <1>2, <1>6, <1>8
<1>14. stream' # "good" /\ stream # "null" /\ stream' # "null"
  BY <1>1
<1> QED
  BY <1>1, <1>3, <1>8, <1>10, <1>12, <1>13, <1>14, CommitHonest

(* Rotate, the flush of which may lose what is in the buffer.              *)
LEMMA RotateHonest ==
    ASSUME IInv, ReadInv, NEW opened \in {"good", "closed"}, Rotate(opened)
    PROVE  ReadInv'
<1> DEFINE fd == getActiveFD
<1>1. /\ phase = "rotate" /\ phase' = "create" /\ stream # "null"
      /\ UNCHANGED <<setting, active, stream, recordMap, activeMap, hint, written, last>>
      /\ stable' = [n \in DOMAIN stable \cup {fd} |-> IF n = fd THEN opened ELSE stable[n]]
  BY DEF Rotate, IInv, StreamOfFile
<1>2. PICK left \in Remains(files[active]) :
        files' = [n \in DOMAIN files \cup (IF opened = "good" THEN {fd} ELSE {}) |->
                     IF n = active THEN left
                     ELSE IF n \in DOMAIN files THEN files[n] ELSE <<>>]
  BY DEF Rotate
<1>3. /\ active \in DOMAIN files /\ files[active] \in Seq(Records) /\ active \in Nat
      /\ synced \in 0..Len(files[active]) /\ recordMap \in [Keys -> Hints] /\ hint \in Hints
  BY <1>1 DEF IInv, TypeOK, StreamOfFile
<1>4. /\ left \in Seq(Records) /\ Len(left) <= Len(files[active])
      /\ \A i \in DOMAIN left : left[i].whole => left[i] = files[active][i]
  BY <1>3, RemainsRight
<1>5. fd = active /\ DOMAIN stable = 0..(active - 1)
  BY <1>1, ActiveNumber DEF ReadInv, HandlesNumbered
<1> HIDE DEF fd
<1>6. /\ DOMAIN files' = DOMAIN files /\ files'[active] = left
      /\ \A n \in DOMAIN files \ {active} : files'[n] = files[n]
  BY <1>2, <1>3, <1>5
<1>7. DOMAIN stable' = 0..active
  BY <1>1, <1>3, <1>5
<1>8. HandlesNumbered'
  <2>1. DOMAIN stable' \subseteq DOMAIN files'
    BY <1>1, <1>3, <1>5, <1>6 DEF ReadInv, HandlesNumbered
  <2> QED
    BY <1>1, <1>7, <2>1 DEF HandlesNumbered
<1>9. ASSUME NEW h \in Hints, HintHonest(h) PROVE HonestNext(h) /\ h.fd < active + 1
  <2>1. \A i \in DOMAIN left : left[i].whole /\ i <= Len(files[active]) =>
            i \in DOMAIN files[active] /\ left[i] = files[active][i]
    BY <1>3, <1>4
  <2>2. /\ h.fd = active => Right(left, h.off, h.id)
        /\ h.fd # active => Right(files[h.fd], h.off, h.id)
    BY <1>1, <1>3, <1>4, <1>9, <2>1, HintKept
  <2>3. h.fd \in DOMAIN files /\ h.fd \in 0..active
    BY <1>3, <1>5, <1>9 DEF HintHonest
  <2> QED
    BY <1>1, <1>3, <1>6, <1>7, <2>2, <2>3 DEF HonestNext
<1>10. IndexHonest'
  <2>1. \A k \in Keys : recordMap[k] # NoHint => HintHonest(recordMap[k])
    BY <1>1 DEF ReadInv, IndexHonest
  <2>2. getActiveFD' = active + 1
    <3>1. active + 1 \in Nat /\ DOMAIN stable' = 0..((active + 1) - 1)
      BY <1>3, <1>7
    <3>2. Cardinality(0..((active + 1) - 1)) = active + 1
      BY <3>1, UpTo
    <3> QED
      BY <3>1, <3>2 DEF getActiveFD
  <2>3. ASSUME NEW k \in Keys, recordMap'[k] # NoHint
        PROVE  HonestNext(recordMap'[k]) /\ recordMap'[k].fd # getActiveFD'
    <3>1. recordMap'[k] = recordMap[k] /\ recordMap[k] \in Hints
      BY <1>1, <1>3
    <3>2. HonestNext(recordMap[k]) /\ recordMap[k].fd < active + 1
      BY <1>9, <2>1, <2>3, <3>1
    <3> QED
      BY <1>3, <2>2, <3>1, <3>2 DEF Hints
  <2> QED
    BY <2>3, IndexNext
<1>11. PendingHonest'
  <2>1. HintHonest(hint) /\ hint' = hint
    BY <1>1 DEF ReadInv, PendingHonest
  <2> QED
    BY <1>3, <1>9, <2>1, PendingNext
<1> QED
  BY <1>8, <1>10, <1>11 DEF ReadInv

(* Create, when the hint that was held back goes into the index.           *)
LEMMA CreateHonest ==
    ASSUME IInv, ReadInv, NEW opened \in {"good", "null"}, Create(opened)
    PROVE  ReadInv'
<1>1. /\ phase = "create" /\ phase' = "up" /\ stream' = opened
      /\ Apply(hint, TRUE) /\ UNCHANGED stable
  BY DEF Create
<1>2. /\ files \in [DOMAIN files -> Seq(Records)] /\ active \in Nat
      /\ recordMap \in [Keys -> Hints] /\ hint \in Hints
  BY DEF IInv, TypeOK
<1>3. getActiveFD = active + 1 /\ DOMAIN stable = 0..active /\ DOMAIN stable \subseteq DOMAIN files
  BY <1>1, ActiveNumber DEF ReadInv, HandlesNumbered
<1>4. opened = "good" =>
        /\ active' = active + 1
        /\ files' = [m \in DOMAIN files \cup {active + 1} |->
                        IF m = active + 1 THEN <<>> ELSE files[m]]
  <2> SUFFICES ASSUME opened = "good"
               PROVE  /\ active' = active + 1
                      /\ files' = [m \in DOMAIN files \cup {active + 1} |->
                                      IF m = active + 1 THEN <<>> ELSE files[m]]
    OBVIOUS
  <2> QED
    BY <1>3 DEF Create
<1>5. opened = "null" => UNCHANGED <<active, files>>
  BY DEF Create
<1>6. DOMAIN files \subseteq DOMAIN files' /\ \A n \in DOMAIN stable : files'[n] = files[n]
  BY <1>2, <1>3, <1>4, <1>5
<1>7. HandlesNumbered'
  <2>1. opened = "good" => DOMAIN stable' = 0..(active' - 1)
    BY <1>1, <1>2, <1>3, <1>4
  <2> QED
    BY <1>1, <1>3, <1>6, <2>1 DEF HandlesNumbered
<1>8. ASSUME NEW h \in Hints, HintHonest(h) PROVE HonestNext(h) /\ h.fd # active + 1
  <2>1. h.fd \in DOMAIN stable /\ h.fd \in 0..active
    BY <1>2, <1>3, <1>8 DEF HintHonest
  <2>2. stream' = "good" => h.fd # active'
    BY <1>1, <1>2, <1>4, <2>1
  <2> QED
    BY <1>1, <1>2, <1>3, <1>6, <1>8, <2>1, <2>2 DEF HintHonest, HonestNext
<1>9. IndexHonest'
  <2>1. \A k \in Keys : recordMap[k] # NoHint => HintHonest(recordMap[k])
    BY <1>1 DEF ReadInv, IndexHonest
  <2>2. HintHonest(hint)
    BY <1>1 DEF ReadInv, PendingHonest
  <2>3. recordMap' = [recordMap EXCEPT ![hint.key] = hint]
    BY <1>1 DEF Apply
  <2>4. getActiveFD' = active + 1
    BY <1>1, <1>3 DEF getActiveFD
  <2>5. ASSUME NEW k \in Keys, recordMap'[k] # NoHint
        PROVE  HonestNext(recordMap'[k]) /\ recordMap'[k].fd # getActiveFD'
    <3>1. recordMap'[k] = hint \/ recordMap'[k] = recordMap[k]
      BY <1>2, <2>3
    <3>2. recordMap'[k] \in Hints /\ HintHonest(recordMap'[k])
      <4>1. CASE recordMap'[k] = hint
        BY <1>2, <2>2, <4>1
      <4>2. CASE recordMap'[k] = recordMap[k]
        BY <1>2, <2>1, <2>5, <4>2
      <4> QED
        BY <3>1, <4>1, <4>2
    <3> QED
      BY <1>8, <2>4, <3>2
  <2> QED
    BY <2>5, IndexNext
<1>10. PendingHonest'
  BY <1>1 DEF PendingHonest
<1> QED
  BY <1>7, <1>9, <1>10 DEF ReadInv

(* Without a process there are no hints.                                   *)
LEMMA GoneHonest == ASSUME Gone PROVE ReadInv'
<1>1. phase' = "down" /\ stable' = [fd \in {} |-> "good"]
  BY DEF Gone
<1>2. DOMAIN stable' = {}
  BY <1>1
<1> QED
  BY <1>1, <1>2 DEF ReadInv, HandlesNumbered, IndexHonest, PendingHonest

-----------------------------------------------------------------------------
(* What a start restores.                                                  *)

(* Of the records of k that a scan of the files fds reaches, the last is   *)
(* the i-th one of file fd; file a is the active one.                      *)
ScannedLast(fds, a, k, fd, i) ==
    /\ fd \in fds /\ i \in Scanned(files[fd]) /\ files[fd][i].key = k
    /\ \A g \in fds : \A j \in Scanned(files[g]) :
         files[g][j].key = k => IF g = fd THEN j <= i ELSE FileBefore(a, g, fd)

PlaceOf(a, lost, k, fd, i) ==
    [key |-> k, id |-> files[fd][i].id,
     fd |-> IF fd = a THEN StableCount(a, lost) ELSE fd, off |-> ToOffset(i - 1)]

(* If a start leaves a hint, it is the place of such a record.             *)
LEMMA RestoredFrom ==
    ASSUME TypeOK, NEW fds \in SUBSET DOMAIN files, NEW a, NEW lost,
           NEW k \in Keys, RestoredHint(fds, a, lost, k) # NoHint
    PROVE  \E fd \in fds : \E i \in Scanned(files[fd]) :
               /\ ScannedLast(fds, a, k, fd, i)
               /\ RestoredHint(fds, a, lost, k) = PlaceOf(a, lost, k, fd, i)
<1> DEFINE places == {p \in UNION {{g} \X Scanned(files[g]) : g \in fds} :
                         files[p[1]][p[2]].key = k}
           latest == {p \in places : \A q \in places \ {p} : ScannedBefore(a, q, p)}
           at == CHOOSE p \in latest : TRUE
<1>1. latest # {} /\ at \in latest
  <2>1. latest # {}
    BY DEF RestoredHint
  <2> QED BY <2>1
<1>2. RestoredHint(fds, a, lost, k) =
        [key |-> k, id |-> files[at[1]][at[2]].id,
         fd |-> IF at[1] = a THEN StableCount(a, lost) ELSE at[1],
         off |-> ToOffset(at[2] - 1)]
  BY <1>1 DEF RestoredHint
<1>3. \A q : q \in places <=>
        \E g \in fds : \E j \in Scanned(files[g]) : q = <<g, j>> /\ files[g][j].key = k
  OBVIOUS
<1>4. at \in places /\ \A q \in places \ {at} : ScannedBefore(a, q, at)
  BY <1>1
<1> HIDE DEF places, latest, at
<1>5. PICK fd \in fds : \E j \in Scanned(files[fd]) : at = <<fd, j>> /\ files[fd][j].key = k
  BY <1>3, <1>4
<1>6. PICK i \in Scanned(files[fd]) : at = <<fd, i>> /\ files[fd][i].key = k
  BY <1>5
<1>7. ASSUME NEW g \in fds, NEW j \in Scanned(files[g]), files[g][j].key = k
      PROVE  (g = fd /\ j <= i) \/ (g # fd /\ FileBefore(a, g, fd))
  <2>1. <<g, j>> \in places
    BY <1>3, <1>7
  <2>2. <<g, j>> = at \/ ScannedBefore(a, <<g, j>>, at)
    BY <1>4, <2>1
  <2>3. j \in Nat /\ i \in Nat
    BY <1>6, <1>7 DEF TypeOK, Scanned
  <2> QED
    BY <1>6, <2>2, <2>3 DEF ScannedBefore
<1>8. ScannedLast(fds, a, k, fd, i)
  BY <1>5, <1>6, <1>7 DEF ScannedLast
<1>9. RestoredHint(fds, a, lost, k) = PlaceOf(a, lost, k, fd, i)
  BY <1>2, <1>6 DEF PlaceOf
<1> QED
  BY <1>5, <1>6, <1>8, <1>9

(* If there is such a record there is a hint, and only one record is last  *)
(* when of two files never each is before the other.                       *)
LEMMA RestoredIs ==
    ASSUME TypeOK, NEW fds \in SUBSET DOMAIN files, NEW a, NEW lost,
           NEW k \in Keys, NEW fd, NEW i, ScannedLast(fds, a, k, fd, i),
           \A g \in fds \ {fd} : ~ (FileBefore(a, g, fd) /\ FileBefore(a, fd, g))
    PROVE  RestoredHint(fds, a, lost, k) = PlaceOf(a, lost, k, fd, i)
<1> DEFINE places == {p \in UNION {{g} \X Scanned(files[g]) : g \in fds} :
                         files[p[1]][p[2]].key = k}
           latest == {p \in places : \A q \in places \ {p} : ScannedBefore(a, q, p)}
           at == CHOOSE p \in latest : TRUE
<1>1. \A p : p \in places <=>
        \E g \in fds : \E j \in Scanned(files[g]) : p = <<g, j>> /\ files[g][j].key = k
  OBVIOUS
<1> HIDE DEF places
<1>2. \A g \in fds : Scanned(files[g]) \subseteq Nat /\ g \in Nat
  BY DEF TypeOK, Scanned
<1>3. fd \in fds /\ i \in Nat /\ <<fd, i>> \in places
  BY <1>1, <1>2 DEF ScannedLast
<1>4. ASSUME NEW p \in places, p # <<fd, i>>
      PROVE  ScannedBefore(a, p, <<fd, i>>) /\ ~ScannedBefore(a, <<fd, i>>, p)
  <2>1. PICK g \in fds : \E j \in Scanned(files[g]) : p = <<g, j>> /\ files[g][j].key = k
    BY <1>1, <1>4
  <2>2. PICK j \in Scanned(files[g]) : p = <<g, j>> /\ files[g][j].key = k
    BY <2>1
  <2>3. (g = fd /\ j <= i) \/ (g # fd /\ FileBefore(a, g, fd))
    BY <2>1, <2>2 DEF ScannedLast
  <2>4. j \in Nat
    BY <1>2, <2>1, <2>2
  <2>5. CASE g = fd
    BY <1>3, <1>4, <2>2, <2>3, <2>4, <2>5 DEF ScannedBefore
  <2>6. CASE g # fd
    BY <1>3, <2>1, <2>2, <2>3, <2>6 DEF ScannedBefore
  <2> QED
    BY <2>5, <2>6
<1>5. <<fd, i>> \in latest /\ \A p \in latest : p = <<fd, i>>
  BY <1>3, <1>4
<1>6. latest # {} /\ at = <<fd, i>>
  BY <1>5
<1>7. RestoredHint(fds, a, lost, k) =
        [key |-> k, id |-> files[at[1]][at[2]].id,
         fd |-> IF at[1] = a THEN StableCount(a, lost) ELSE at[1],
         off |-> ToOffset(at[2] - 1)]
  BY <1>6 DEF RestoredHint, places
<1> HIDE DEF at
<1> QED
  BY <1>6, <1>7 DEF PlaceOf

(* The number of stable files is the number in the name of the active one. *)
LEMMA StableCountIs ==
    ASSUME Numbered, NEW lost
    PROVE  /\ ActivePath \in Nat /\ Found \ {ActivePath} = 0..(ActivePath - 1)
           /\ Cardinality(Found \ {ActivePath}) = ActivePath
           /\ StableCount(ActivePath, lost) = ActivePath
<1>1. Found \ {ActivePath} = 0..(ActivePath - 1)
  <2>1. CASE Found = {}
    BY <2>1, ActivePathIs
  <2>2. CASE Found # {}
    <3>1. PICK n \in Nat : Found = 0..(n - 1)
      BY <2>2 DEF Numbered, NumberedTo, Found
    <3>2. n # 0
      BY <2>2, <3>1
    <3>3. ActivePath = n - 1
      BY <3>1, <3>2, ActivePathIs
    <3> QED
      BY <3>1, <3>2, <3>3
  <2> QED
    BY <2>1, <2>2
<1>2. ActivePath \in Nat
  BY ActivePathType
<1> QED
  BY <1>1, <1>2, UpTo DEF StableCount

LEMMA OpenHonest ==
    ASSUME IInv, ReadInv, OffsetsFit, NEW lost, NEW fault, Open(lost, fault)
    PROVE  ReadInv'
<1> DEFINE a == ActivePath
           exists == a \in DOMAIN files
           scan == (Found \ ({a} \cup lost))
                   \cup (IF exists /\ fault # "scan" THEN {a} ELSE {})
<1>1. phase' = "up" /\ lost \subseteq Found \ {a}
  BY DEF Open
<1>2. /\ active' = a
      /\ files' = IF exists \/ fault # "none" THEN files
                  ELSE [fd \in DOMAIN files \cup {a} |->
                           IF fd = a THEN <<>> ELSE files[fd]]
      /\ stable' = [fd \in Found \ {a} |-> IF fd \in lost THEN "null" ELSE "good"]
      /\ recordMap' = [k \in Keys |-> RestoredHint(scan, a, lost, k)]
      /\ activeMap' = [k \in Keys |-> RestoredHint(scan \cap {a}, a, lost, k).id]
  BY DEF Open
<1>3. /\ files \in [DOMAIN files -> Seq(Records)] /\ DOMAIN files \subseteq Nat
      /\ Found \subseteq DOMAIN files
  BY FoundFinite DEF IInv, TypeOK
<1>4. /\ a \in Nat /\ Found \ {a} = 0..(a - 1)
      /\ Cardinality(Found \ {a}) = a /\ StableCount(a, lost) = a
  BY StableCountIs DEF IInv
<1>5. scan \in SUBSET DOMAIN files /\ scan \cap {a} \in SUBSET DOMAIN files
      /\ scan \subseteq (Found \ {a}) \cup {a}
  BY <1>3
<1> HIDE DEF a, scan
<1>6. DOMAIN files \subseteq DOMAIN files' /\ \A fd \in DOMAIN files : files'[fd] = files[fd]
  BY <1>2, <1>3
<1>7. DOMAIN stable' = Found \ {a} /\ getActiveFD' = a
  BY <1>2, <1>4 DEF getActiveFD
<1>8. HandlesNumbered'
  BY <1>1, <1>2, <1>3, <1>4, <1>6, <1>7 DEF HandlesNumbered
<1>9. ASSUME NEW k \in Keys, recordMap'[k] # NoHint
      PROVE  /\ HonestNext(recordMap'[k])
             /\ recordMap'[k].fd = a => activeMap'[k] = recordMap'[k].id
  <2>1. recordMap'[k] = RestoredHint(scan, a, lost, k)
    BY <1>2
  <2>2. PICK fd \in scan : \E i \in Scanned(files[fd]) :
                /\ ScannedLast(scan, a, k, fd, i)
                /\ RestoredHint(scan, a, lost, k) = PlaceOf(a, lost, k, fd, i)
    BY <1>5, <1>9, <2>1, RestoredFrom DEF IInv
  <2>3. PICK i \in Scanned(files[fd]) :
                /\ ScannedLast(scan, a, k, fd, i)
                /\ RestoredHint(scan, a, lost, k) = PlaceOf(a, lost, k, fd, i)
    BY <2>2
  <2>4. recordMap'[k] = [key |-> k, id |-> files[fd][i].id,
                         fd |-> IF fd = a THEN StableCount(a, lost) ELSE fd,
                         off |-> ToOffset(i - 1)]
    BY <2>1, <2>3 DEF PlaceOf
  <2>5. fd \in DOMAIN files /\ i \in DOMAIN files[fd] /\ files[fd] \in Seq(Records)
    BY <1>3, <1>5, <2>2, <2>3 DEF Scanned
  <2>6. ToOffset(i - 1) = i - 1
    <3>1. Len(files[fd]) < Width
      BY <2>5 DEF OffsetsFit
    <3>2. i - 1 \in 0..(Width - 1)
      BY <2>5, <3>1, StorageAssumption
    <3> QED
      BY <3>2, OffsetIs
  <2>7. /\ recordMap'[k].fd = fd /\ recordMap'[k].off = i - 1
        /\ recordMap'[k].id = files[fd][i].id
    BY <1>4, <2>4, <2>6
  <2>8. HonestNext(recordMap'[k])
    <3>1. fd \in DOMAIN stable' \cup {active'}
      BY <1>2, <1>5, <1>7, <2>2
    <3>2. files'[fd] = files[fd] /\ fd \in DOMAIN files'
      BY <1>6, <2>5
    <3>3. i - 1 + 1 = i /\ i - 1 < Len(files[fd])
      BY <2>5
    <3>4. Right(files'[fd], i - 1, files[fd][i].id)
      BY <3>2, <3>3 DEF Right
    <3> QED
      BY <2>7, <3>1, <3>2, <3>3, <3>4 DEF HonestNext
  <2>9. ASSUME fd = a PROVE activeMap'[k] = files[fd][i].id
    <3>1. scan \cap {a} = {a}
      BY <2>2, <2>9
    <3>2. ScannedLast({a}, a, k, fd, i)
      BY <2>2, <2>3, <2>9 DEF ScannedLast
    <3>3. RestoredHint({a}, a, lost, k).id = files[fd][i].id
      BY <1>5, <2>9, <3>1, <3>2, RestoredIs DEF IInv, PlaceOf
    <3> QED
      BY <1>2, <3>1, <3>3
  <2> QED
    BY <2>7, <2>8, <2>9
<1>10. IndexHonest'
  BY <1>7, <1>9, IndexNext
<1>11. PendingHonest'
  BY <1>1 DEF PendingHonest
<1> QED
  BY <1>8, <1>10, <1>11 DEF ReadInv

-----------------------------------------------------------------------------
(* Honest reads.                                                           *)

LEMMA InitHonest == Init => ReadInv
<1> SUFFICES ASSUME Init PROVE ReadInv
  OBVIOUS
<1>1. phase = "down" /\ DOMAIN stable = {}
  BY DEF Init
<1> QED
  BY <1>1 DEF ReadInv, HandlesNumbered, IndexHonest, PendingHonest

LEMMA StepHonest ==
    IInv /\ ReadInv /\ OffsetsFit /\ OffsetsFit' /\ [Next]_vars => ReadInv'
<1> SUFFICES ASSUME IInv, ReadInv, OffsetsFit, OffsetsFit', [Next]_vars PROVE ReadInv'
  OBVIOUS
<1>1. ASSUME NEW lost, NEW fault, Open(lost, fault) PROVE ReadInv'
  BY <1>1, OpenHonest
<1>2. ASSUME NEW k \in Keys, Put(k) \/ PutFails(k) PROVE ReadInv'
  BY <1>2, PutHonest, PutFailsHonest
<1>3. ASSUME NEW opened \in {"good", "closed"}, Rotate(opened) PROVE ReadInv'
  BY <1>3, RotateHonest
<1>4. ASSUME NEW opened \in {"good", "null"}, Create(opened) PROVE ReadInv'
  BY <1>4, CreateHonest
<1>5. ASSUME NullCall \/ Crash \/ Close PROVE ReadInv'
  BY <1>5, GoneHonest DEF NullCall, Crash, Close, Vanish
<1>6. ASSUME UNCHANGED vars PROVE ReadInv'
  <2>1. UNCHANGED <<files, phase, active, stream, stable, recordMap, activeMap, hint>>
    BY <1>6 DEF vars, memory
  <2>2. \A h : HintHonest(h) => HonestNext(h)
    BY <2>1 DEF HintHonest, HonestNext
  <2>3. HandlesNumbered'
    BY <2>1 DEF ReadInv, HandlesNumbered
  <2>4. IndexHonest'
    BY <2>1, <2>2, IndexNext DEF ReadInv, IndexHonest, getActiveFD
  <2>5. PendingHonest'
    BY <2>1, <2>2, PendingNext DEF ReadInv, PendingHonest
  <2> QED
    BY <2>3, <2>4, <2>5 DEF ReadInv
<1> QED
  BY <1>1, <1>2, <1>3, <1>4, <1>5, <1>6 DEF Next

(* What ReadAt finds where a hint points.                                  *)
LEMMA ReadAtHonest ==
    ASSUME IInv, NEW h \in Hints, HintHonest(h), h.fd \in DOMAIN stable
    PROVE  ReadAt(h.fd, h.off) \in {h.id, None, Dies}
<1> DEFINE here == {i \in DOMAIN files[h.fd] : i - 1 = h.off /\ files[h.fd][i].whole}
<1>1. h.fd \in DOMAIN files /\ files[h.fd] \in Seq(Records) /\ h.off \in Nat
  BY StorageAssumption DEF IInv, TypeOK, HintHonest, Hints
<1>2. ASSUME NEW i \in here PROVE files[h.fd][i].id = h.id
  <2>1. i = h.off + 1 /\ i \in DOMAIN files[h.fd] /\ files[h.fd][i].whole
    BY <1>1, <1>2
  <2> QED
    BY <2>1 DEF HintHonest, Right
<1>3. here # {} => (CHOOSE i \in here : TRUE) \in here
  OBVIOUS
<1>4. \/ ReadAt(h.fd, h.off) \in {None, Dies}
      \/ here # {} /\ ReadAt(h.fd, h.off) = files[h.fd][CHOOSE i \in here : TRUE].id
  BY DEF ReadAt
<1> HIDE DEF here
<1> QED
  BY <1>2, <1>3, <1>4

(* Whatever calls fail, and in whatever directory a start looks for its    *)
(* files, a Get never returns the value of another write than the one its  *)
(* index entry is for, as long as offsets do not wrap.                     *)
THEOREM ReadsAreHonest == Spec /\ []OffsetsFit => []ReadHonest
<1>1. IInv /\ ReadInv => ReadHonest
  <2> SUFFICES ASSUME IInv, ReadInv, phase = "up", NEW k \in Keys
               PROVE  Read(k) \in {recordMap[k].id, None, Dies}
    BY DEF ReadHonest
  <2> DEFINE h == recordMap[k]
  <2>1. h \in Hints
    BY DEF IInv, TypeOK
  <2>2. CASE h = NoHint
    BY <2>2 DEF Read
  <2>3. CASE h # NoHint /\ h.fd = getActiveFD
    BY <2>3 DEF Read, ReadInv, IndexHonest
  <2>4. CASE h # NoHint /\ h.fd # getActiveFD /\ h.fd \notin DOMAIN stable
    BY <2>4 DEF Read
  <2>5. CASE h # NoHint /\ h.fd # getActiveFD /\ h.fd \in DOMAIN stable
    <3>1. HintHonest(h)
      BY <2>5 DEF ReadInv, IndexHonest
    <3>2. Read(k) = ReadAt(h.fd, h.off)
      BY <2>5 DEF Read
    <3> QED
      BY <2>1, <2>5, <3>1, <3>2, ReadAtHonest
  <2> QED
    BY <2>2, <2>3, <2>4, <2>5
<1>2. IInv /\ [Next]_vars => IInv'
  BY StepIInv
<1> QED
  BY <1>1, <1>2, InitIInv, InitHonest, StepHonest, PTL DEF Spec

-----------------------------------------------------------------------------
(* Steps while nothing fails.                                              *)

LEMMA NoFault == ASSUME TypeOK, NEW n \in Nat, Fail(n), faults' = 0
                 PROVE  faults = 0 /\ n = 0
BY DEF TypeOK, Fail

(* What Exact says of the next state, of a hint of this one.               *)
ExactNext(k, h) ==
    IF h = NoHint THEN NoRecord(k)'
    ELSE /\ \E fd, i : fd = h.fd /\ i = h.off + 1 /\ IsLast(k, fd, i)'
         /\ h.id = last'[k]

LEMMA IndexExactNext ==
    ASSUME phase' # "down" => \A k \in Keys :
             /\ ExactNext(k, IF phase' \in {"rotate", "create"} /\ k = hint'.key
                             THEN hint' ELSE recordMap'[k])
             /\ recordMap'[k] # NoHint /\ recordMap'[k].fd = getActiveFD' =>
                  activeMap'[k] = recordMap'[k].id
    PROVE  IndexExact'
<1> SUFFICES ASSUME phase' # "down", NEW k \in Keys
             PROVE  /\ Exact(k, NewHint(k))'
                    /\ recordMap'[k] # NoHint /\ recordMap'[k].fd = getActiveFD' =>
                         activeMap'[k] = recordMap'[k].id
  BY DEF IndexExact, NoHint, None
<1> DEFINE h == IF phase' \in {"rotate", "create"} /\ k = hint'.key
                THEN hint' ELSE recordMap'[k]
<1>1. ExactNext(k, h)
  OBVIOUS
<1>2. Exact(k, NewHint(k))' = IF h = NoHint THEN NoRecord(k)'
                              ELSE IsLast(k, NewHint(k).fd, NewHint(k).off + 1)'
                                   /\ h.id = last'[k]
  BY DEF Exact, NewHint, NoHint, None
<1>3. NewHint(k)' = h
  BY DEF NewHint
<1>4. h # NoHint => IsLast(k, NewHint(k).fd, NewHint(k).off + 1)'
  <2> SUFFICES ASSUME h # NoHint PROVE IsLast(k, NewHint(k).fd, NewHint(k).off + 1)'
    OBVIOUS
  <2>1. PICK fd, i : fd = h.fd /\ i = h.off + 1 /\ IsLast(k, fd, i)'
    BY <1>1 DEF ExactNext
  <2>2. fd = NewHint(k)'.fd /\ i = NewHint(k)'.off + 1
    BY <1>3, <2>1
  <2> HIDE DEF h
  <2> QED
    BY <2>1, <2>2 DEF IsLast
<1> HIDE DEF h
<1> QED
  BY <1>1, <1>2, <1>4 DEF ExactNext

(* A step that leaves all records where they are.                          *)
LEMMA RecordsStay ==
    ASSUME TypeOK, UNCHANGED last, DOMAIN files \subseteq DOMAIN files',
           \A g \in DOMAIN files : files'[g] = files[g],
           \A g \in DOMAIN files' \ DOMAIN files : files'[g] = <<>>
    PROVE  /\ \A k, fd, i : IsLast(k, fd, i) => IsLast(k, fd, i)'
           /\ \A k : NoRecord(k) => NoRecord(k)'
           /\ \A k \in Keys : \A h : Exact(k, h) => ExactNext(k, h)
           /\ AllWhole => AllWhole'
           /\ LastKnown => LastKnown'
<1>1. \A g, j : g \in DOMAIN files' /\ j \in DOMAIN files'[g] =>
         g \in DOMAIN files /\ files'[g] = files[g] /\ j \in DOMAIN files[g]
  OBVIOUS
<1>2. ASSUME NEW k, NEW fd, NEW i, IsLast(k, fd, i) PROVE IsLast(k, fd, i)'
  BY <1>1, <1>2 DEF IsLast, None
<1>3. ASSUME NEW k, NoRecord(k) PROVE NoRecord(k)'
  BY <1>1, <1>3 DEF NoRecord, None
<1>4. ASSUME NEW k \in Keys, NEW h, Exact(k, h) PROVE ExactNext(k, h)
  BY <1>2, <1>3, <1>4 DEF Exact, ExactNext
<1>5. AllWhole => AllWhole'
  BY <1>1 DEF AllWhole
<1>6. LastKnown => LastKnown'
  BY <1>2, <1>3 DEF LastKnown
<1> QED
  BY <1>2, <1>3, <1>4, <1>5, <1>6

(* The active file has the highest number.                                 *)
LEMMA ActiveHighest ==
    ASSUME IInv, FindsFiles(setting), phase = "up", stream # "null"
    PROVE  \A g \in DOMAIN files : g <= active
BY DEF IInv, Numbered, NumberedTo, TypeOK

LEMMA PutExact ==
    ASSUME IInv, ReadInv, OffsetsFit, Faultless, FindsFiles(setting), faults' = 0,
           NEW k \in Keys, Put(k)
    PROVE  AllWhole' /\ LastKnown' /\ AllGood' /\ IndexExact'
<1> DEFINE r == [key |-> k, id |-> written + 1, whole |-> TRUE]
           n == Len(files[active]) + 1
           h == [key |-> k, id |-> written + 1, fd |-> getActiveFD,
                 off |-> Len(files[active])]
<1>1. faults = 0 /\ phase = "up" /\ stream' = stream /\ stream = "good"
  BY DEF Put, Accepts, Faultless, AllGood
<1>2. /\ active \in DOMAIN files /\ files \in [DOMAIN files -> Seq(Records)]
      /\ written \in Nat /\ Len(files[active]) < Width /\ active \in Nat
      /\ recordMap \in [Keys -> Hints] /\ activeMap \in [Keys -> Nat]
      /\ last \in [Keys -> Nat] /\ DOMAIN files \subseteq Nat
  BY <1>1 DEF IInv, TypeOK, StreamOfFile, OffsetsFit
<1>3. AllWhole /\ LastKnown /\ AllGood /\ IndexExact
  BY <1>1 DEF Faultless
<1>4. ToOffset(Len(files[active])) = Len(files[active])
  <2>1. Len(files[active]) \in 0..(Width - 1)
    BY <1>2, StorageAssumption
  <2> QED
    BY <2>1, OffsetIs
<1>5. Commit(k, Written(k), Len(files[active]))
  BY <1>1, <1>4 DEF Put
<1>6. /\ files' = [files EXCEPT ![active] = Append(files[active], r)]
      /\ last' = [last EXCEPT ![k] = written + 1]
      /\ UNCHANGED <<active, stable>>
      /\ \/ /\ Apply(h, FALSE) /\ UNCHANGED <<phase, hint>>
         \/ /\ phase' = "rotate" /\ hint' = h
            /\ UNCHANGED <<recordMap, activeMap>>
  BY <1>5 DEF Commit, Written
<1>7. getActiveFD = active /\ getActiveFD' = active
  BY <1>1, <1>6, ActiveNumber DEF ReadInv, getActiveFD
<1>8. /\ r \in Records /\ r.key = k /\ r.id = written + 1 /\ r.whole
      /\ h.key = k /\ h.id = written + 1 /\ h.fd = active /\ h.off + 1 = n /\ h # NoHint
  BY <1>2, <1>7 DEF Records, NoHint, None
<1> HIDE DEF r, h
<1>9. /\ DOMAIN files' = DOMAIN files
      /\ \A g \in DOMAIN files \ {active} : files'[g] = files[g]
      /\ files'[active] = Append(files[active], r)
  BY <1>2, <1>6
<1>10. /\ DOMAIN files'[active] = DOMAIN files[active] \cup {n}
       /\ n \in Nat /\ DOMAIN files[active] = 1..(n - 1)
       /\ files'[active][n] = r
       /\ \A i \in DOMAIN files[active] : files'[active][i] = files[active][i]
  <2>1. files[active] \in Seq(Records)
    BY <1>2
  <2> QED
    BY <1>8, <1>9, <2>1
<1> HIDE DEF n
<1>11. ASSUME NEW g \in DOMAIN files', NEW j \in DOMAIN files'[g]
       PROVE  \/ g = active /\ j = n /\ files'[g][j] = r
              \/ g \in DOMAIN files /\ j \in DOMAIN files[g] /\ files'[g][j] = files[g][j]
  BY <1>9, <1>10
<1>12. ASSUME NEW fd, NEW i, fd = active, i = n PROVE IsLast(k, fd, i)'
  <2>1. /\ fd \in DOMAIN files' /\ i \in DOMAIN files'[fd]
        /\ files'[fd][i].key = k /\ files'[fd][i].id = last'[k]
        /\ last'[k] # 0
    BY <1>2, <1>6, <1>8, <1>9, <1>10, <1>12
  <2>2. ASSUME NEW g \in DOMAIN files', NEW j \in DOMAIN files'[g]
        PROVE  g < fd \/ (g = fd /\ j <= i)
    <3>1. g <= active /\ g \in Nat
      BY <1>1, <1>2, <1>9, ActiveHighest
    <3>2. g = active => j <= n
      BY <1>10
    <3> QED
      BY <1>2, <1>12, <3>1, <3>2
  <2> QED
    BY <2>1, <2>2 DEF IsLast, None
<1>13. ASSUME NEW m \in Keys, m # k
       PROVE  /\ \A fd, i : IsLast(m, fd, i) => IsLast(m, fd, i)'
              /\ NoRecord(m) => NoRecord(m)'
              /\ \A g : Exact(m, g) => ExactNext(m, g)
  <2>1. last'[m] = last[m]
    BY <1>2, <1>6, <1>13
  <2>2. ASSUME NEW g \in DOMAIN files', NEW j \in DOMAIN files'[g], files'[g][j].key = m
        PROVE  g \in DOMAIN files /\ j \in DOMAIN files[g] /\ files[g][j].key = m
    BY <1>8, <1>11, <1>13, <2>2
  <2>3. \A fd \in DOMAIN files : \A i \in DOMAIN files[fd] :
           /\ fd \in DOMAIN files' /\ i \in DOMAIN files'[fd]
           /\ files'[fd][i] = files[fd][i]
    BY <1>9, <1>10
  <2>4. ASSUME NEW fd, NEW i, IsLast(m, fd, i) PROVE IsLast(m, fd, i)'
    BY <2>1, <2>2, <2>3, <2>4 DEF IsLast, None
  <2>5. NoRecord(m) => NoRecord(m)'
    BY <2>1, <2>2 DEF NoRecord, None
  <2>6. \A g : Exact(m, g) => ExactNext(m, g)
    BY <2>1, <2>4, <2>5 DEF Exact, ExactNext
  <2> QED
    BY <2>4, <2>5, <2>6
<1>14. AllWhole'
  <2>1. \A g \in DOMAIN files' : \A j \in DOMAIN files'[g] : files'[g][j].whole
    BY <1>3, <1>8, <1>11 DEF AllWhole
  <2> QED
    BY <2>1 DEF AllWhole
<1>15. LastKnown'
  <2>1. ASSUME NEW m \in Keys
        PROVE  NoRecord(m)' \/ \E fd \in Nat, i \in Nat : IsLast(m, fd, i)'
    <3>1. CASE m = k
      <4>1. \A fd, i : fd = active /\ i = n => IsLast(m, fd, i)'
        BY <1>12, <3>1
      <4> QED
        BY <1>2, <1>10, <4>1
    <3>2. CASE m # k
      BY <1>3, <1>13, <3>2 DEF LastKnown
    <3> QED
      BY <3>1, <3>2
  <2> QED
    BY <2>1 DEF LastKnown
<1>16. AllGood'
  BY <1>1, <1>3, <1>6 DEF AllGood
<1>17. ExactNext(k, h)
  <2>1. h.id = last'[k]
    BY <1>2, <1>6, <1>8
  <2>2. \A fd, i : fd = active /\ i = n => IsLast(k, fd, i)'
    BY <1>12
  <2>3. \E fd, i : fd = h.fd /\ i = h.off + 1 /\ IsLast(k, fd, i)'
    BY <1>8, <2>2
  <2> QED
    BY <1>8, <2>1, <2>3 DEF ExactNext
<1>18. \A m \in Keys : /\ Exact(m, recordMap[m])
                       /\ recordMap[m] # NoHint /\ recordMap[m].fd = active =>
                            activeMap[m] = recordMap[m].id
  BY <1>1, <1>3, <1>7 DEF IndexExact, NewHint
<1>19. IndexExact'
  <2>1. CASE Apply(h, FALSE) /\ UNCHANGED <<phase, hint>>
    <3>1. /\ recordMap' = [recordMap EXCEPT ![k] = h]
          /\ activeMap' = [activeMap EXCEPT ![k] = h.id]
      BY <1>8, <2>1 DEF Apply
    <3>2. ASSUME NEW m \in Keys
          PROVE  /\ ExactNext(m, recordMap'[m])
                 /\ recordMap'[m] # NoHint /\ recordMap'[m].fd = active =>
                      activeMap'[m] = recordMap'[m].id
      <4>1. CASE m = k
        <5>1. recordMap'[m] = h /\ activeMap'[m] = h.id
          BY <1>2, <3>1, <4>1
        <5> QED
          BY <1>17, <4>1, <5>1
      <4>2. CASE m # k
        <5>1. recordMap'[m] = recordMap[m] /\ activeMap'[m] = activeMap[m]
          BY <1>2, <3>1, <4>2
        <5> QED
          BY <1>13, <1>18, <4>2, <5>1
      <4> QED
        BY <4>1, <4>2
    <3>3. phase' = "up"
      BY <1>1, <2>1
    <3> QED
      BY <1>7, <3>2, <3>3, IndexExactNext
  <2>2. CASE phase' = "rotate" /\ hint' = h /\ UNCHANGED <<recordMap, activeMap>>
    <3>1. ASSUME NEW m \in Keys
          PROVE  /\ ExactNext(m, IF m = h.key THEN h ELSE recordMap[m])
                 /\ recordMap[m] # NoHint /\ recordMap[m].fd = active =>
                      activeMap[m] = recordMap[m].id
      BY <1>8, <1>13, <1>17, <1>18
    <3> QED
      BY <1>7, <2>2, <3>1, IndexExactNext
  <2> QED
    BY <1>6, <2>1, <2>2
<1> QED
  BY <1>14, <1>15, <1>16, <1>19

LEMMA RotateExact ==
    ASSUME IInv, ReadInv, Faultless, faults' = 0,
           NEW opened \in {"good", "closed"}, Rotate(opened)
    PROVE  AllWhole' /\ LastKnown' /\ AllGood' /\ IndexExact'
<1>1. /\ phase = "rotate" /\ phase' = "create"
      /\ UNCHANGED <<active, stream, recordMap, activeMap, hint, last>>
      /\ stable' = [n \in DOMAIN stable \cup {getActiveFD} |->
                       IF n = getActiveFD THEN opened ELSE stable[n]]
  BY DEF Rotate
<1>2. PICK left \in Remains(files[active]) :
        /\ Fail((IF opened = "good" THEN 0 ELSE 1)
                + (IF stream = "good" /\ left # files[active] THEN 1 ELSE 0))
        /\ files' = [n \in DOMAIN files
                        \cup (IF opened = "good" THEN {getActiveFD} ELSE {}) |->
                      IF n = active THEN left
                      ELSE IF n \in DOMAIN files THEN files[n] ELSE <<>>]
  BY DEF Rotate
<1>3. /\ faults = 0 /\ opened = "good"
      /\ stream = "good" => left = files[active]
  <2> DEFINE m == (IF opened = "good" THEN 0 ELSE 1)
                  + (IF stream = "good" /\ left # files[active] THEN 1 ELSE 0)
  <2>1. m \in Nat /\ Fail(m)
    BY <1>2
  <2>2. faults = 0 /\ m = 0
    BY <2>1, NoFault DEF IInv
  <2> QED
    BY <2>2
<1>4. AllWhole /\ LastKnown /\ AllGood /\ IndexExact
  BY <1>3 DEF Faultless
<1>5. stream = "good" /\ \A fd \in DOMAIN stable : stable[fd] = "good"
  BY <1>1, <1>4 DEF AllGood
<1>6. /\ active \in DOMAIN files /\ active \in Nat /\ recordMap \in [Keys -> Hints]
      /\ getActiveFD = active /\ DOMAIN stable = 0..(active - 1)
  BY <1>1, ActiveNumber DEF IInv, TypeOK, StreamOfFile, ReadInv, HandlesNumbered
<1>7. DOMAIN files' = DOMAIN files /\ \A g \in DOMAIN files : files'[g] = files[g]
  BY <1>2, <1>3, <1>5, <1>6
<1>8. /\ AllWhole' /\ LastKnown'
      /\ \A k \in Keys : \A h : Exact(k, h) => ExactNext(k, h)
  BY <1>1, <1>4, <1>7, RecordsStay DEF IInv
<1>9. AllGood'
  BY <1>1, <1>3, <1>5 DEF AllGood
<1>10. getActiveFD' = active + 1
  <2>1. active + 1 \in Nat /\ DOMAIN stable' = 0..((active + 1) - 1)
    BY <1>1, <1>6
  <2>2. Cardinality(0..((active + 1) - 1)) = active + 1
    BY <2>1, UpTo
  <2> QED
    BY <2>1, <2>2 DEF getActiveFD
<1>11. ASSUME NEW k \in Keys, recordMap[k] # NoHint PROVE recordMap[k].fd # active + 1
  <2>1. recordMap[k].fd \in DOMAIN stable \cup {active}
    BY <1>1, <1>11 DEF ReadInv, IndexHonest, HintHonest
  <2> QED
    BY <1>6, <2>1
<1>12. \A k \in Keys : ExactNext(k, IF k = hint.key THEN hint ELSE recordMap[k])
  BY <1>1, <1>4, <1>8 DEF IndexExact, NewHint
<1>13. IndexExact'
  BY <1>1, <1>10, <1>11, <1>12, IndexExactNext
<1> QED
  BY <1>8, <1>9, <1>13

LEMMA CreateExact ==
    ASSUME IInv, ReadInv, Faultless, FindsFiles(setting), faults' = 0,
           NEW opened \in {"good", "null"}, Create(opened)
    PROVE  AllWhole' /\ LastKnown' /\ AllGood' /\ IndexExact'
<1>1. /\ phase = "create" /\ phase' = "up" /\ stream' = opened
      /\ Fail(IF opened = "good" THEN 0 ELSE 1)
      /\ Apply(hint, TRUE) /\ UNCHANGED <<stable, last>>
  BY DEF Create
<1>2. faults = 0 /\ opened = "good"
  <2>1. (IF opened = "good" THEN 0 ELSE 1) \in Nat
    OBVIOUS
  <2>2. faults = 0 /\ (IF opened = "good" THEN 0 ELSE 1) = 0
    BY <1>1, <2>1, NoFault DEF IInv
  <2> QED
    BY <2>2
<1>3. AllWhole /\ LastKnown /\ AllGood /\ IndexExact
  BY <1>2 DEF Faultless
<1>4. /\ files \in [DOMAIN files -> Seq(Records)] /\ active \in Nat
      /\ recordMap \in [Keys -> Hints] /\ hint \in Hints
  BY DEF IInv, TypeOK
<1>5. getActiveFD = active + 1 /\ getActiveFD' = active + 1 /\ DOMAIN stable = 0..active
  BY <1>1, ActiveNumber DEF ReadInv, HandlesNumbered, getActiveFD
<1>6. /\ active' = active + 1
      /\ files' = [m \in DOMAIN files \cup {active + 1} |->
                      IF m = active + 1 THEN <<>> ELSE files[m]]
  BY <1>2, <1>5 DEF Create
<1>7. active + 1 \notin DOMAIN files
  BY <1>1, <1>4 DEF IInv, Numbered, NumberedTo
<1>8. /\ DOMAIN files \subseteq DOMAIN files'
      /\ \A g \in DOMAIN files : files'[g] = files[g]
      /\ \A g \in DOMAIN files' \ DOMAIN files : files'[g] = <<>>
  BY <1>6, <1>7
<1>9. /\ AllWhole' /\ LastKnown'
      /\ \A k \in Keys : \A h : Exact(k, h) => ExactNext(k, h)
  BY <1>1, <1>3, <1>8, RecordsStay DEF IInv
<1>10. AllGood'
  BY <1>1, <1>2, <1>3 DEF AllGood
<1>11. recordMap' = [recordMap EXCEPT ![hint.key] = hint]
  BY <1>1 DEF Apply
<1>12. ASSUME NEW k \in Keys
       PROVE  /\ ExactNext(k, recordMap'[k])
              /\ recordMap'[k] # NoHint => recordMap'[k].fd # active + 1
  <2>1. recordMap'[k] = IF k = hint.key THEN hint ELSE recordMap[k]
    BY <1>4, <1>11
  <2>2. Exact(k, NewHint(k)) /\ NewHint(k) = recordMap'[k]
    BY <1>1, <1>3, <2>1 DEF IndexExact, NewHint
  <2>3. \A h : HintHonest(h) => h.fd # active + 1
    <3>1. \A h : HintHonest(h) => h.fd \in 0..active \cup {active}
      BY <1>5 DEF HintHonest
    <3> QED
      BY <1>4, <3>1
  <2>4. recordMap'[k] # NoHint => HintHonest(hint) /\ (recordMap'[k] = hint \/ HintHonest(recordMap[k]))
    BY <1>1, <2>1 DEF ReadInv, IndexHonest, PendingHonest
  <2>5. recordMap'[k] # NoHint => recordMap'[k].fd # active + 1
    BY <2>1, <2>3, <2>4
  <2>6. ExactNext(k, recordMap'[k])
    <3> DEFINE g == recordMap'[k]
    <3>1. Exact(k, g)
      BY <2>1, <2>2
    <3> HIDE DEF g
    <3>2. ExactNext(k, g)
      BY <1>9, <3>1
    <3> QED
      BY <3>2 DEF g
  <2> QED
    BY <2>5, <2>6
<1>13. IndexExact'
  BY <1>1, <1>5, <1>12, IndexExactNext
<1> QED
  BY <1>9, <1>10, <1>13

(* The names of the first ten files are in the order of their numbers, ... *)
LEMMA NamesOfDigits ==
    ASSUME NEW f \in 0..9, NEW g \in 0..9
    PROVE  NameLess(f, g) <=> f < g
<1>1. ASSUME NEW n \in 0..9
      PROVE  Digits(n) = 1 /\ Digit(n, 1) = n
  <2>1. \A d \in 1..9 : PowersOf10[d] \in Nat /\ (d # 1 => PowersOf10[d] >= 10)
    <3>1. ASSUME NEW d \in 1..9
          PROVE  d = 1 \/ d = 2 \/ d = 3 \/ d = 4 \/ d = 5 \/ d = 6 \/ d = 7 \/ d = 8 \/ d = 9
      OBVIOUS
    <3> QED BY <3>1 DEF PowersOf10
  <2>2. PowersOf10[1] = 1 /\ PowersOf10[2] = 10
    BY DEF PowersOf10
  <2>3. \A d \in 1..9 : n < PowersOf10[d + 1] /\ (d = 1 \/ PowersOf10[d] <= n) <=> d = 1
    BY <2>1, <2>2
  <2>4. Digits(n) = 1
    BY <2>3 DEF Digits
  <2>5. PowersOf10[Digits(n) - 1 + 1] = 1 /\ (n \div 1) % 10 = n
    BY <2>2, <2>4
  <2> QED BY <2>4, <2>5 DEF Digit
<1>2. NameLess(f, g) <=> Digit(f, 1) < Digit(g, 1)
  BY <1>1 DEF NameLess
<1> QED
  BY <1>1, <1>2

(* ... so that a start scans at most eleven files in that order.           *)
LEMMA ByNumber ==
    ASSUME NEW a \in 0..10, NEW f \in 0..a, NEW g \in 0..a, f # g
    PROVE  FileBefore(a, f, g) <=> f < g
<1>1. CASE f = a \/ g = a
  BY <1>1 DEF FileBefore
<1>2. CASE f # a /\ g # a
  <2>1. f \in 0..9 /\ g \in 0..9
    BY <1>2
  <2> QED BY <1>2, <2>1, NamesOfDigits DEF FileBefore
<1> QED
  BY <1>1, <1>2

(* A start scans every record of every file.                               *)
LEMMA OpenExact ==
    ASSUME IInv, ReadInv, OffsetsFit, ElevenFiles, Faultless, FindsFiles(setting), faults' = 0,
           NEW lost, NEW fault, Open(lost, fault)
    PROVE  AllWhole' /\ LastKnown' /\ AllGood' /\ IndexExact'
<1> DEFINE a == ActivePath
           exists == a \in DOMAIN files
           scan == (Found \ ({a} \cup lost))
                   \cup (IF exists /\ fault # "scan" THEN {a} ELSE {})
<1>1. /\ phase' = "up" /\ UNCHANGED last /\ lost \subseteq Found \ {a}
      /\ Fail(Cardinality(lost) + (IF fault = "none" THEN 0 ELSE 1))
  BY DEF Open
<1>2. /\ active' = a
      /\ stream' = IF fault = "none" THEN "good" ELSE "null"
      /\ files' = IF exists \/ fault # "none" THEN files
                  ELSE [fd \in DOMAIN files \cup {a} |->
                           IF fd = a THEN <<>> ELSE files[fd]]
      /\ stable' = [fd \in Found \ {a} |-> IF fd \in lost THEN "null" ELSE "good"]
      /\ recordMap' = [k \in Keys |-> RestoredHint(scan, a, lost, k)]
      /\ activeMap' = [k \in Keys |-> RestoredHint(scan \cap {a}, a, lost, k).id]
  BY DEF Open
<1>3. /\ files \in [DOMAIN files -> Seq(Records)] /\ DOMAIN files \subseteq Nat
      /\ Found = DOMAIN files /\ IsFiniteSet(Found)
  BY FoundFinite DEF IInv, TypeOK, Found
<1>4. /\ a \in Nat /\ Found \ {a} = 0..(a - 1)
      /\ Cardinality(Found \ {a}) = a /\ StableCount(a, lost) = a
  BY StableCountIs DEF IInv
<1> HIDE DEF a
<1>5. faults = 0 /\ lost = {} /\ fault = "none"
  <2>1. IsFiniteSet(lost)
    BY <1>1, <1>3, FS_Subset
  <2>2. Cardinality(lost) \in Nat
    BY <2>1, FS_CardinalityType
  <2> DEFINE m == Cardinality(lost) + (IF fault = "none" THEN 0 ELSE 1)
  <2>3. m \in Nat /\ Fail(m)
    BY <1>1, <2>2
  <2>4. faults = 0 /\ m = 0
    BY <2>3, NoFault DEF IInv
  <2>5. Cardinality(lost) = 0 /\ fault = "none"
    BY <2>2, <2>4
  <2> QED
    BY <2>1, <2>4, <2>5, FS_EmptySet
<1>6. AllWhole /\ LastKnown /\ scan = DOMAIN files
  BY <1>3, <1>5 DEF Faultless
<1> HIDE DEF scan
<1>7. /\ DOMAIN files \subseteq DOMAIN files'
      /\ \A g \in DOMAIN files : files'[g] = files[g]
      /\ \A g \in DOMAIN files' \ DOMAIN files : files'[g] = <<>>
  BY <1>2, <1>3
<1>8. /\ AllWhole' /\ LastKnown'
      /\ \A k, fd, i : IsLast(k, fd, i) => IsLast(k, fd, i)'
      /\ \A k : NoRecord(k) => NoRecord(k)'
  BY <1>1, <1>6, <1>7, RecordsStay DEF IInv
<1>9. AllGood'
  <2>1. stream' = "good" /\ \A fd \in DOMAIN stable' : stable'[fd] = "good"
    BY <1>2, <1>5
  <2> QED
    BY <2>1 DEF AllGood
<1>10. getActiveFD' = a
  BY <1>2, <1>4 DEF getActiveFD
<1>11. \A fd \in DOMAIN files : Scanned(files[fd]) = DOMAIN files[fd]
  <2>1. ASSUME NEW fd \in DOMAIN files, NEW i \in DOMAIN files[fd], NEW j \in 1..i
        PROVE  files[fd][j].whole
    <3>1. j \in DOMAIN files[fd]
      BY <1>3, <2>1
    <3> QED
      BY <1>6, <3>1 DEF AllWhole
  <2> QED
    BY <2>1 DEF Scanned
<1>12. DOMAIN files # {} => a \in 0..10 /\ DOMAIN files \subseteq 0..a
  <2>1. ASSUME Found # {}
        PROVE  a \in Found
    <3>1. PICK n \in Nat : Found = 0..(n - 1)
      BY <1>3, <2>1 DEF IInv, Numbered, NumberedTo
    <3>2. n # 0 /\ n - 1 \in Found
      BY <2>1, <3>1
    <3> QED
      BY <3>1, <3>2, ActivePathIs DEF a
  <2>2. \A fd \in Found : fd <= 10
    BY <1>3 DEF ElevenFiles
  <2>3. DOMAIN files \subseteq 0..a
    BY <1>3, <1>4
  <2> QED
    BY <1>3, <1>4, <2>1, <2>2, <2>3
<1>13. ASSUME NEW k \in Keys
       PROVE  /\ ExactNext(k, recordMap'[k])
              /\ recordMap'[k] # NoHint /\ recordMap'[k].fd = a =>
                   activeMap'[k] = recordMap'[k].id
  <2>1. recordMap'[k] = RestoredHint(DOMAIN files, a, lost, k)
    BY <1>2, <1>6
  <2>2. CASE NoRecord(k)
    <3>1. recordMap'[k] = NoHint
      <4> SUFFICES ASSUME recordMap'[k] # NoHint PROVE FALSE
        OBVIOUS
      <4>1. \E fd \in DOMAIN files : \E i \in Scanned(files[fd]) :
                ScannedLast(DOMAIN files, a, k, fd, i)
        BY <2>1, RestoredFrom DEF IInv
      <4> QED
        BY <1>11, <2>2, <4>1 DEF ScannedLast, NoRecord
    <3> QED
      BY <1>8, <2>2, <3>1 DEF ExactNext
  <2>3. CASE \E fd \in Nat, i \in Nat : IsLast(k, fd, i)
    <3>1. PICK fd \in Nat, i \in Nat : IsLast(k, fd, i)
      BY <2>3
    <3>2. /\ ScannedLast(DOMAIN files, a, k, fd, i)
          /\ \A g \in DOMAIN files \ {fd} :
                ~ (FileBefore(a, g, fd) /\ FileBefore(a, fd, g))
      <4>1. fd \in DOMAIN files /\ i \in Scanned(files[fd]) /\ files[fd][i].key = k
        BY <1>11, <3>1 DEF IsLast
      <4>2. \A g \in DOMAIN files : \A j \in Scanned(files[g]) :
               files[g][j].key = k => g < fd \/ (g = fd /\ j <= i)
        BY <1>11, <3>1 DEF IsLast
      <4>3. \A g \in DOMAIN files \ {fd} :
               (FileBefore(a, g, fd) <=> g < fd) /\ (FileBefore(a, fd, g) <=> fd < g)
        BY <1>12, <4>1, ByNumber
      <4> QED
        BY <1>3, <4>1, <4>2, <4>3 DEF ScannedLast
    <3>3. recordMap'[k] = [key |-> k, id |-> files[fd][i].id,
                           fd |-> IF fd = a THEN StableCount(a, lost) ELSE fd,
                           off |-> ToOffset(i - 1)]
      BY <2>1, <3>2, RestoredIs DEF IInv, PlaceOf
    <3>4. fd \in DOMAIN files /\ i \in DOMAIN files[fd] /\ files[fd][i].id = last[k]
      BY <3>1 DEF IsLast
    <3>5. ToOffset(i - 1) = i - 1
      <4>1. Len(files[fd]) < Width /\ i <= Len(files[fd]) /\ i >= 1
        BY <1>3, <3>4 DEF OffsetsFit
      <4>2. i - 1 \in 0..(Width - 1)
        BY <4>1, StorageAssumption
      <4> QED
        BY <4>2, OffsetIs
    <3>6. /\ recordMap'[k].fd = fd /\ recordMap'[k].off + 1 = i
          /\ recordMap'[k].id = last[k]
      BY <1>4, <3>3, <3>4, <3>5
    <3>7. recordMap'[k] # NoHint
      BY <3>1, <3>6 DEF IsLast, NoHint
    <3>8. ExactNext(k, recordMap'[k])
      <4>1. IsLast(k, fd, i)' /\ last'[k] = last[k]
        BY <1>1, <1>8, <3>1
      <4> QED
        BY <3>6, <3>7, <4>1 DEF ExactNext
    <3>9. ASSUME fd = a PROVE activeMap'[k] = last[k]
      <4>1. scan \cap {a} = {a} /\ {a} \in SUBSET DOMAIN files
        BY <1>6, <3>4, <3>9
      <4>2. ScannedLast({a}, a, k, fd, i)
        BY <3>2, <3>9, <4>1 DEF ScannedLast
      <4>3. RestoredHint({a}, a, lost, k).id = files[fd][i].id
        BY <3>9, <4>1, <4>2, RestoredIs DEF IInv, PlaceOf
      <4> QED
        BY <1>2, <3>4, <4>1, <4>3
    <3> QED
      BY <3>6, <3>8, <3>9
  <2> QED
    BY <1>6, <2>2, <2>3 DEF LastKnown
<1>14. IndexExact'
  BY <1>1, <1>10, <1>13, IndexExactNext
<1> QED
  BY <1>8, <1>9, <1>14

-----------------------------------------------------------------------------
(* Reads while nothing has failed.                                         *)

LEMMA InitExact == Init => Faultless
<1> SUFFICES ASSUME Init PROVE AllWhole /\ LastKnown /\ AllGood /\ IndexExact
  BY DEF Faultless
<1>1. DOMAIN files = {} /\ phase = "down" /\ last = [k \in Keys |-> None]
  BY DEF Init
<1>2. \A k \in Keys : NoRecord(k)
  BY <1>1 DEF NoRecord
<1> QED
  BY <1>1, <1>2 DEF AllWhole, LastKnown, AllGood, IndexExact

LEMMA StepExact ==
    IInv /\ ReadInv /\ OffsetsFit /\ ElevenFiles /\ FindsFiles(setting) /\ Faultless
      /\ [Next]_vars => Faultless'
<1> SUFFICES ASSUME IInv, ReadInv, OffsetsFit, ElevenFiles, FindsFiles(setting),
                    Faultless, [Next]_vars, faults' = 0
             PROVE  AllWhole' /\ LastKnown' /\ AllGood' /\ IndexExact'
  BY DEF Faultless
<1> DEFINE Goal == AllWhole' /\ LastKnown' /\ AllGood' /\ IndexExact'
<1>1. ASSUME NEW lost, NEW fault, Open(lost, fault) PROVE Goal
  BY <1>1, OpenExact
<1>2. ASSUME NEW k \in Keys, Put(k) PROVE Goal
  BY <1>2, PutExact
<1>3. ASSUME NEW k \in Keys, PutFails(k) PROVE FALSE
  <2>1. Fail(1)
    BY <1>3 DEF PutFails
  <2> QED
    BY <2>1, NoFault DEF IInv
<1>4. ASSUME NEW opened \in {"good", "closed"}, Rotate(opened) PROVE Goal
  BY <1>4, RotateExact
<1>5. ASSUME NEW opened \in {"good", "null"}, Create(opened) PROVE Goal
  BY <1>5, CreateExact
<1>6. ASSUME NullCall PROVE FALSE
  <2>1. phase = "up" /\ faults = 0
    BY <1>6 DEF NullCall
  <2>2. stream = "good" /\ \A fd \in DOMAIN stable : stable[fd] = "good"
    BY <2>1 DEF Faultless, AllGood
  <2>3. PICK k \in Keys : Read(k) = Dies
    BY <1>6, <2>2 DEF NullCall
  <2>4. activeMap[k] # Dies
    BY DEF IInv, TypeOK, Dies
  <2>5. recordMap[k].fd \in DOMAIN stable /\ ReadAt(recordMap[k].fd, recordMap[k].off) = Dies
    BY <2>3, <2>4 DEF Read, Dies, None
  <2>6. stable[recordMap[k].fd] = "good"
    BY <2>2, <2>5
  <2> DEFINE fd == recordMap[k].fd
             here == {i \in DOMAIN files[fd] : i - 1 = recordMap[k].off /\ files[fd][i].whole}
  <2>7. here # {} /\ files[fd][CHOOSE i \in here : TRUE].id = Dies
    BY <2>5, <2>6 DEF ReadAt, Dies, None
  <2>8. PICK i \in DOMAIN files[fd] : files[fd][i].id = Dies
    BY <2>7
  <2>9. fd \in DOMAIN files
    BY <2>5 DEF ReadInv, HandlesNumbered
  <2>10. files[fd] \in Seq(Records)
    BY <2>9 DEF IInv, TypeOK
  <2>11. files[fd][i] \in Records
    BY <2>8, <2>10, ElementOfSeq
  <2> QED
    BY <2>8, <2>11 DEF Records, Dies
<1>7. ASSUME Crash PROVE FALSE
  BY <1>7, NoFault DEF Crash, IInv
<1>8. ASSUME Close PROVE Goal
  <2>1. phase = "up" /\ Gone /\ UNCHANGED last
    BY <1>8 DEF Close
  <2>2. faults = 0 /\ UNCHANGED files
    <3>1. CASE Fail(0) /\ UNCHANGED files
      BY <3>1, NoFault DEF IInv
    <3>2. CASE stream # "null" /\ Fail(IF stream = "good" THEN 1 ELSE 0)
      <4>1. (IF stream = "good" THEN 1 ELSE 0) \in Nat
        OBVIOUS
      <4>2. faults = 0 /\ stream # "good"
        BY <3>2, <4>1, NoFault DEF IInv
      <4> QED
        BY <2>1, <4>2 DEF Faultless, AllGood
    <3> QED
      BY <1>8, <3>1, <3>2 DEF Close
  <2>3. AllWhole' /\ LastKnown'
    BY <2>1, <2>2, RecordsStay DEF Faultless, IInv
  <2>4. AllGood' /\ IndexExact'
    BY <2>1 DEF AllGood, IndexExact, Gone
  <2> QED
    BY <2>3, <2>4
<1>9. ASSUME UNCHANGED vars PROVE Goal
  <2>1. UNCHANGED <<files, phase, active, stream, stable, recordMap, activeMap,
                    hint, faults, last>>
    BY <1>9 DEF vars, memory
  <2>2. /\ AllWhole' /\ LastKnown'
        /\ \A k \in Keys : \A h : Exact(k, h) => ExactNext(k, h)
    BY <2>1, RecordsStay DEF Faultless, IInv
  <2>3. AllGood'
    BY <2>1 DEF Faultless, AllGood
  <2>4. IndexExact'
    BY <2>1, <2>2, IndexExactNext DEF Faultless, IndexExact, NewHint, getActiveFD
  <2> QED
    BY <2>2, <2>3, <2>4
<1> QED
  BY <1>1, <1>2, <1>3, <1>4, <1>5, <1>6, <1>7, <1>8, <1>9 DEF Next

(* Where an exact hint points is the record of the last write.             *)
LEMMA ReadAtExact ==
    ASSUME IInv, AllWhole, NEW k \in Keys, NEW h \in Hints, h # NoHint, Exact(k, h),
           h.fd \in DOMAIN stable, stable[h.fd] = "good"
    PROVE  ReadAt(h.fd, h.off) = last[k]
<1> DEFINE here == {i \in DOMAIN files[h.fd] : i - 1 = h.off /\ files[h.fd][i].whole}
<1>1. IsLast(k, h.fd, h.off + 1)
  BY DEF Exact
<1>2. /\ h.fd \in DOMAIN files /\ files[h.fd] \in Seq(Records) /\ h.off \in Nat
      /\ h.off + 1 \in DOMAIN files[h.fd] /\ files[h.fd][h.off + 1].id = last[k]
  BY <1>1, StorageAssumption DEF IInv, TypeOK, IsLast, Hints
<1>3. files[h.fd][h.off + 1].whole
  BY <1>2 DEF AllWhole
<1>4. here = {h.off + 1}
  <2>1. h.off + 1 \in here
    BY <1>2, <1>3
  <2>2. \A i \in here : i = h.off + 1
    BY <1>2
  <2> QED
    BY <2>1, <2>2
<1>5. (CHOOSE i \in here : TRUE) = h.off + 1
  BY <1>4
<1>6. ReadAt(h.fd, h.off) = files[h.fd][CHOOSE i \in here : TRUE].id
  BY <1>4 DEF ReadAt
<1> HIDE DEF here
<1> QED
  BY <1>2, <1>5, <1>6

(* As long as nothing has failed a Get returns the last write, through any *)
(* number of rotations, restarts and changes of maxFileSize, if the store  *)
(* looks for its files where it makes them, there are at most eleven, and  *)
(* offsets do not wrap (constructor, Put, Get).                            *)
THEOREM ReadsAreExact ==
    ASSUME \A s \in Settings : FindsFiles(s)
    PROVE  Spec /\ []OffsetsFit /\ []ElevenFiles => []FaultlessExact
<1>1. IInv => FindsFiles(setting)
  BY DEF IInv, TypeOK
<1>2. IInv /\ ReadInv /\ Faultless => FaultlessExact
  <2> SUFFICES ASSUME IInv, ReadInv, Faultless, phase = "up", faults = 0, NEW k \in Keys
               PROVE  Read(k) = last[k]
    BY DEF FaultlessExact
  <2> DEFINE h == recordMap[k]
  <2>1. AllWhole /\ AllGood /\ IndexExact /\ h \in Hints
    BY DEF Faultless, IInv, TypeOK
  <2>2. /\ stream = "good" /\ \A fd \in DOMAIN stable : stable[fd] = "good"
        /\ Exact(k, h)
        /\ h # NoHint /\ h.fd = getActiveFD => activeMap[k] = h.id
    BY <2>1 DEF AllGood, IndexExact, NewHint
  <2>3. CASE h = NoHint
    BY <2>2, <2>3 DEF Read, Exact, NoRecord
  <2>4. CASE h # NoHint /\ h.fd = getActiveFD
    BY <2>2, <2>4 DEF Read, Exact
  <2>5. CASE h # NoHint /\ h.fd # getActiveFD
    <3>1. h.fd \in DOMAIN stable
      BY <2>2, <2>5, ActiveNumber DEF ReadInv, IndexHonest, HintHonest
    <3>2. Read(k) = ReadAt(h.fd, h.off)
      BY <2>5, <3>1 DEF Read
    <3> HIDE DEF h
    <3> QED
      BY <2>1, <2>2, <2>5, <3>1, <3>2, ReadAtExact
  <2> QED
    BY <2>3, <2>4, <2>5
<1>3. IInv /\ [Next]_vars => IInv'
  BY StepIInv
<1> QED
  BY <1>1, <1>2, <1>3, InitIInv, InitHonest, StepHonest, InitExact, StepExact, PTL DEF Spec
=============================================================================
