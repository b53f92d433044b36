------------------------ MODULE KVRefinementProofs ------------------------
(***************************************************************************)
(* As long as no file is rotated, BitcaskImpl implements the abstract      *)
(* store, for every number of clients, keys, values and writes, with any   *)
(* number of restarts and crashes that leave no torn record.               *)
(***************************************************************************)
EXTENDS KVRefinement, BitcaskReadProofs

-----------------------------------------------------------------------------
(* Sequences.                                                              *)
LEMMA Associative ==
    ASSUME NEW S
    PROVE  \A s, t, u \in Seq(S) : (s \o t) \o u = s \o (t \o u)
BY ConcatAssociative

LEMMA MoveOne ==
    ASSUME NEW S, NEW s \in Seq(S), NEW t \in Seq(S), NEW x \in S
    PROVE  /\ s \o Append(t, x) = Append(s \o t, x)
           /\ (s \o <<x>>) \o t = s \o (<<x>> \o t)
           /\ <<x>> \o t # <<>> /\ Head(<<x>> \o t) = x /\ Tail(<<x>> \o t) = t
           /\ <<x>> \o t \in Seq(S)
<1> DEFINE one == <<x>>
           a == Append(t, x)
           b == s \o t
           c == one \o t
<1>1. one \in Seq(S) /\ Len(one) = 1 /\ one[1] = x
  OBVIOUS
<1>2. a = t \o one /\ b \in Seq(S)
  BY AppendIsConcat, ConcatProperties
<1>3. Append(b, x) = b \o one
  <2> HIDE DEF b, one
  <2>1. Append(b, x) = b \o <<x>>
    BY <1>2, AppendIsConcat
  <2> QED BY <2>1 DEF one
<1> HIDE DEF one, a, b, c
<1>4. s \o (t \o one) = b \o one /\ (s \o one) \o t = s \o c
  <2>1. (s \o t) \o one = s \o (t \o one)
    BY <1>1, Associative
  <2>2. (s \o one) \o t = s \o (one \o t)
    BY <1>1, Associative
  <2> QED BY <2>1, <2>2 DEF b, c
<1>5. /\ c \in Seq(S) /\ Len(c) = 1 + Len(t)
      /\ \A i \in 1..(1 + Len(t)) : c[i] = IF i <= 1 THEN one[i] ELSE t[i - 1]
  <2>1. /\ one \o t \in Seq(S) /\ Len(one \o t) = Len(one) + Len(t)
        /\ \A i \in 1..(Len(one) + Len(t)) :
              (one \o t)[i] = IF i <= Len(one) THEN one[i] ELSE t[i - Len(one)]
    BY <1>1, ConcatProperties, Zenon
  <2> QED BY <1>1, <2>1 DEF c
<1>6. c # <<>> /\ Head(c) = x /\ Tail(c) = t
  <2>1. Len(t) \in Nat /\ Len(c) >= 1 /\ c # <<>> /\ c[1] = x
    <3>1. Len(t) \in Nat /\ 1 \in 1..(1 + Len(t))
      OBVIOUS
    <3>2. Len(c) >= 1 /\ c[1] = x
      BY <1>1, <1>5, <3>1
    <3> QED BY <3>1, <3>2
  <2>2. Head(c) = x
    BY <2>1
  <2>3. /\ Tail(c) \in Seq(S) /\ Len(Tail(c)) = Len(c) - 1
        /\ \A i \in 1..Len(Tail(c)) : Tail(c)[i] = c[i + 1]
    BY <1>5, <2>1, HeadTailProperties
  <2>4. Len(Tail(c)) = Len(t)
    BY <1>5, <2>1, <2>3
  <2>5. ASSUME NEW i \in 1..Len(t) PROVE Tail(c)[i] = t[i]
    <3>1. i + 1 \in 1..(1 + Len(t)) /\ ~(i + 1 <= 1) /\ (i + 1) - 1 = i
      BY <2>1, <2>5
    <3> QED BY <1>5, <2>3, <2>4, <2>5, <3>1
  <2>6. Tail(c) = t
    BY <2>3, <2>4, <2>5, SeqEqual
  <2> QED BY <2>1, <2>2, <2>6
<1> QED
  BY <1>2, <1>3, <1>4, <1>5, <1>6 DEF one, a, b, c

LEMMA RestType ==
    ASSUME NEW S, NEW s \in Seq(S), NEW n \in 0..Len(s)
    PROVE  Rest(s, n) \in Seq(S) /\ Len(Rest(s, n)) = Len(s) - n
<1>1. Len(s) \in Nat /\ n \in Nat /\ n <= Len(s)
  OBVIOUS
<1>2. \A i \in (n + 1)..Len(s) : s[i] \in S
  BY <1>1
<1>3. /\ Rest(s, n) \in Seq(S)
      /\ Len(Rest(s, n)) = IF n + 1 <= Len(s) THEN Len(s) - (n + 1) + 1 ELSE 0
  BY <1>1, <1>2, SubSeqProperties DEF Rest
<1> QED
  BY <1>1, <1>3

LEMMA RestEnds ==
    ASSUME NEW S, NEW s \in Seq(S)
    PROVE  Rest(s, 0) = s /\ Rest(s, Len(s)) = <<>>
<1>1. Len(s) \in Nat
  OBVIOUS
<1>2. Rest(s, 0) = s
  BY SubSeqFull DEF Rest
<1>3. Rest(s, Len(s)) = <<>>
  BY <1>1, SubSeqEmpty DEF Rest
<1> QED
  BY <1>2, <1>3

LEMMA RestFirst ==
    ASSUME NEW S, NEW s \in Seq(S), NEW n \in Nat, n < Len(s)
    PROVE  /\ s[n + 1] \in S /\ n + 1 \in 0..Len(s) /\ n \in 0..Len(s)
           /\ Rest(s, n) = <<s[n + 1]>> \o Rest(s, n + 1)
<1>1. n + 1 \in 1..Len(s) /\ Len(s) \in (n + 1)..Len(s) /\ n \in 0..Len(s)
      /\ n + 1 \in 0..Len(s)
  OBVIOUS
<1>2. s[n + 1] \in S
  BY <1>1, ElementOfSeq
<1>3. Rest(s, n) = <<s[n + 1]>> \o Rest(s, n + 1)
  BY <1>1, SubSeqRecursiveFirst DEF Rest
<1> QED
  BY <1>1, <1>2, <1>3

LEMMA Split ==
    ASSUME NEW S, NEW s \in Seq(S), NEW n \in 0..Len(s)
    PROVE  /\ SubSeq(s, 1, n) \in Seq(S) /\ Len(SubSeq(s, 1, n)) = n
           /\ \A i \in 1..n : SubSeq(s, 1, n)[i] = s[i]
           /\ SubSeq(s, 1, n) \o Rest(s, n) = s
<1>1. Len(s) \in Nat /\ n \in Nat /\ n <= Len(s)
  OBVIOUS
<1>2. /\ SubSeq(s, 1, n) \in Seq(S) /\ Len(SubSeq(s, 1, n)) = n
      /\ \A i \in 1..n : SubSeq(s, 1, n)[i] = s[i]
  <2>1. \A i \in 1..n : s[i] \in S
    BY <1>1
  <2>2. /\ SubSeq(s, 1, n) \in Seq(S)
        /\ Len(SubSeq(s, 1, n)) = IF 1 <= n THEN n - 1 + 1 ELSE 0
        /\ \A i \in 1..(n - 1 + 1) : SubSeq(s, 1, n)[i] = s[1 + i - 1]
    BY <1>1, <2>1, SubSeqProperties
  <2> QED BY <1>1, <2>2
<1>3. 1 \in 1..(Len(s) + 1) /\ n \in (1 - 1)..Len(s) /\ Len(s) \in n..Len(s)
  BY <1>1
<1>4. SubSeq(s, 1, n) \o SubSeq(s, n + 1, Len(s)) = SubSeq(s, 1, Len(s))
  BY <1>3, ConcatAdjacentSubSeq
<1> QED
  BY <1>2, <1>4, SubSeqFull DEF Rest

LEMMA Prefix ==
    ASSUME NEW S, NEW s \in Seq(S), NEW t \in Seq(S), NEW n \in 0..Len(s)
    PROVE  SubSeq(s \o t, 1, n) = SubSeq(s, 1, n)
<1>1. n \in Nat /\ Len(s) \in Nat /\ n <= Len(s)
  OBVIOUS
<1>2. CASE n = 0
  BY <1>2, SubSeqEmpty
<1>3. CASE n # 0
  <2>1. 1 \in 1..Len(s) /\ n \in 1..Len(s)
    BY <1>1, <1>3
  <2> QED BY <2>1, SubSeqOfConcat1
<1> QED
  BY <1>2, <1>3

LEMMA RestAppend ==
    ASSUME NEW S, NEW s \in Seq(S), NEW x \in S, NEW n \in 0..Len(s)
    PROVE  /\ Rest(Append(s, x), n) = Rest(s, n) \o <<x>>
           /\ SubSeq(Append(s, x), 1, n) = SubSeq(s, 1, n)
<1> DEFINE t == Append(s, x)
           u == SubSeq(s, 1, n)
<1>1. <<x>> \in Seq(S) /\ t \in Seq(S) /\ t = s \o <<x>> /\ n \in 0..Len(t)
  <2>1. t \in Seq(S) /\ Len(t) = Len(s) + 1 /\ Len(s) \in Nat
    OBVIOUS
  <2> QED BY <2>1, AppendIsConcat
<1>2. SubSeq(t, 1, n) = u
  BY <1>1, Prefix
<1>3. u \in Seq(S) /\ u \o Rest(s, n) = s
  BY Split
<1>4. u \o Rest(t, n) = t
  BY <1>1, <1>2, Split
<1>5. Rest(s, n) \in Seq(S) /\ Rest(t, n) \in Seq(S)
  BY <1>1, RestType
<1> HIDE DEF t, u
<1>6. u \o Rest(t, n) = u \o (Rest(s, n) \o <<x>>)
  <2>1. (u \o Rest(s, n)) \o <<x>> = u \o (Rest(s, n) \o <<x>>)
    <3> DEFINE a == Rest(s, n)
               one == <<x>>
    <3>1. a \in Seq(S) /\ one \in Seq(S) /\ u \in Seq(S)
      BY <1>1, <1>3, <1>5
    <3> HIDE DEF a, one
    <3>2. (u \o a) \o one = u \o (a \o one)
      BY <3>1, Associative
    <3> QED BY <3>2 DEF a, one
  <2>2. (u \o Rest(s, n)) \o <<x>> = s \o <<x>>
    BY <1>3, Zenon
  <2>3. u \o Rest(t, n) = s \o <<x>>
    BY <1>1, <1>4, Zenon
  <2> QED BY <2>1, <2>2, <2>3, Zenon
<1>7. Rest(s, n) \o <<x>> \in Seq(S)
  BY <1>1, <1>5, ConcatProperties
<1>8. Rest(t, n) = Rest(s, n) \o <<x>>
  <2> DEFINE a == Rest(t, n)
             b == Rest(s, n) \o <<x>>
  <2>1. a \in Seq(S) /\ b \in Seq(S) /\ u \o a = u \o b
    BY <1>5, <1>6, <1>7
  <2> HIDE DEF a, b
  <2>2. a = b
    BY <1>3, <2>1, ConcatSimplifications
  <2> QED BY <2>2 DEF a, b
<1> QED
  BY <1>2, <1>8 DEF t, u

-----------------------------------------------------------------------------
(* The writes that were requested and have not taken effect: those in the  *)
(* log behind place v, those of batch B behind place n, the queue Q.       *)
Requests(W, v, B, n, Q) == Rest(W, v) \o Rest(B, n) \o Q

(* The writes of a log.                                                    *)
LEMMA WrittenIs ==
    ASSUME NEW L \in Seq(LogRecord)
    PROVE  /\ Written(L) \in Seq(Write) /\ Len(Written(L)) = Len(L)
           /\ \A i \in 1..Len(L) : Written(L)[i] = WriteOf(L[i])
<1>1. ASSUME NEW i \in DOMAIN L PROVE WriteOf(L[i]) \in Write
  <2>1. L[i] \in LogRecord
    BY ElementOfSeq
  <2> QED BY <2>1 DEF WriteOf, Write, LogRecord
<1>2. DOMAIN L = 1..Len(L) /\ Len(L) \in Nat
  OBVIOUS
<1>3. Written(L) \in [1..Len(L) -> Write]
  BY <1>1, <1>2 DEF Written
<1>4. Written(L) \in Seq(Write)
  BY <1>2, <1>3
<1>5. DOMAIN Written(L) = 1..Len(L)
  BY <1>3
<1>6. \A i \in 1..Len(L) : Written(L)[i] = WriteOf(L[i])
  BY <1>2 DEF Written
<1> HIDE DEF Written
<1> QED
  BY <1>2, <1>4, <1>5, <1>6

LEMMA WrittenAppend ==
    ASSUME NEW L \in Seq(LogRecord), NEW r \in LogRecord
    PROVE  /\ Written(Append(L, r)) = Append(Written(L), WriteOf(r))
           /\ WriteOf(r) \in Write
<1> DEFINE M == Append(L, r)
           w == WriteOf(r)
           t == Append(Written(L), w)
<1>1. M \in Seq(LogRecord) /\ Len(M) = Len(L) + 1 /\ Len(L) \in Nat
      /\ M[Len(L) + 1] = r /\ \A i \in 1..Len(L) : M[i] = L[i]
  OBVIOUS
<1>2. w \in Write
  BY DEF WriteOf, Write, LogRecord
<1>3. /\ Written(L) \in Seq(Write) /\ Len(Written(L)) = Len(L)
      /\ \A i \in 1..Len(L) : Written(L)[i] = WriteOf(L[i])
  BY WrittenIs
<1> HIDE DEF M, w
<1>4. /\ Written(M) \in Seq(Write) /\ Len(Written(M)) = Len(M)
      /\ \A i \in 1..Len(M) : Written(M)[i] = WriteOf(M[i])
  BY <1>1, WrittenIs
<1>5. t \in Seq(Write) /\ Len(t) = Len(L) + 1 /\ t[Len(L) + 1] = w
      /\ \A i \in 1..Len(L) : t[i] = Written(L)[i]
  BY <1>1, <1>2, <1>3
<1> HIDE DEF t
<1>6. \A i \in 1..Len(M) : Written(M)[i] = t[i]
  BY <1>1, <1>3, <1>4, <1>5 DEF w
<1>7. Written(M) = t
  BY <1>1, <1>4, <1>5, <1>6, SeqEqual
<1> QED
  BY <1>2, <1>7 DEF M, t, w

LEMMA WrittenPrefix ==
    ASSUME NEW L \in Seq(LogRecord), NEW n \in 0..Len(L)
    PROVE  Written(SubSeq(L, 1, n)) = SubSeq(Written(L), 1, n)
<1> DEFINE M == SubSeq(L, 1, n)
           t == SubSeq(Written(L), 1, n)
<1>1. M \in Seq(LogRecord) /\ Len(M) = n /\ \A i \in 1..n : M[i] = L[i]
  BY Split
<1>2. /\ Written(L) \in Seq(Write) /\ Len(Written(L)) = Len(L)
      /\ \A i \in 1..Len(L) : Written(L)[i] = WriteOf(L[i])
  BY WrittenIs
<1>3. t \in Seq(Write) /\ Len(t) = n /\ \A i \in 1..n : t[i] = Written(L)[i]
  BY <1>2, Split
<1> HIDE DEF M, t
<1>4. /\ Written(M) \in Seq(Write) /\ Len(Written(M)) = Len(M)
      /\ \A i \in 1..Len(M) : Written(M)[i] = WriteOf(M[i])
  BY <1>1, WrittenIs
<1>5. Len(L) \in Nat /\ n <= Len(L) /\ n \in Nat
  OBVIOUS
<1>6. \A i \in 1..n : Written(M)[i] = t[i]
  BY <1>1, <1>2, <1>3, <1>4, <1>5
<1>7. Written(M) = t
  BY <1>1, <1>3, <1>4, <1>6, SeqEqual
<1> QED
  BY <1>7 DEF M, t

LEMMA QueuesJoin ==
    \A s, t, u \in Seq(Write) : (s \o t) \o u = s \o (t \o u)
<1> DEFINE S == Write
<1>1. \A s, t, u \in Seq(S) : (s \o t) \o u = s \o (t \o u)
  <2> HIDE DEF S
  <2> QED BY Associative
<1> QED
  BY <1>1

LEMMA RequestsType ==
    ASSUME NEW W \in Seq(Write), NEW v \in 0..Len(W),
           NEW B \in Seq(Write), NEW n \in 0..Len(B), NEW Q \in Seq(Write)
    PROVE  /\ Requests(W, v, B, n, Q) \in Seq(Write)
           /\ Len(Requests(W, v, B, n, Q)) = (Len(W) - v) + (Len(B) - n) + Len(Q)
           /\ SubSeq(W, 1, v) \o Requests(W, v, B, n, Q) = W \o (Rest(B, n) \o Q)
<1> DEFINE a == Rest(W, v)
           b == Rest(B, n)
           h == SubSeq(W, 1, v)
<1>1. /\ a \in Seq(Write) /\ Len(a) = Len(W) - v
      /\ b \in Seq(Write) /\ Len(b) = Len(B) - n
  BY RestType
<1>2. h \in Seq(Write) /\ h \o a = W
  BY Split
<1> HIDE DEF a, b, h
<1>3. a \o b \in Seq(Write) /\ Len(a \o b) = Len(a) + Len(b) /\ b \o Q \in Seq(Write)
  BY <1>1, ConcatProperties
<1>4. /\ (a \o b) \o Q \in Seq(Write) /\ Len((a \o b) \o Q) = Len(a) + Len(b) + Len(Q)
      /\ (a \o b) \o Q = a \o (b \o Q)
  <2> DEFINE ab == a \o b
  <2>1. ab \in Seq(Write) /\ Len(ab) = Len(a) + Len(b)
    BY <1>3
  <2>2. (a \o b) \o Q = a \o (b \o Q)
    <3> HIDE DEF ab
    <3> QED BY <1>1, QueuesJoin
  <2> HIDE DEF ab
  <2>3. ab \o Q \in Seq(Write) /\ Len(ab \o Q) = Len(ab) + Len(Q)
    BY <2>1, ConcatProperties
  <2> QED BY <2>1, <2>2, <2>3 DEF ab
<1>5. h \o (a \o (b \o Q)) = W \o (b \o Q)
  <2> DEFINE bq == b \o Q
  <2>1. bq \in Seq(Write) /\ a \in Seq(Write) /\ h \in Seq(Write)
    BY <1>1, <1>2, <1>3
  <2> HIDE DEF bq
  <2>2. (h \o a) \o bq = h \o (a \o bq)
    BY <2>1, QueuesJoin
  <2> QED BY <1>2, <2>2 DEF bq
<1>6. Requests(W, v, B, n, Q) = (a \o b) \o Q
  BY DEF Requests, a, b
<1> QED
  BY <1>1, <1>4, <1>5, <1>6 DEF b, h

(* A call appends to them, ...                                             *)
LEMMA RequestsAppend ==
    ASSUME NEW W \in Seq(Write), NEW v \in 0..Len(W),
           NEW B \in Seq(Write), NEW n \in 0..Len(B), NEW Q \in Seq(Write),
           NEW w \in Write
    PROVE  Requests(W, v, B, n, Append(Q, w)) = Append(Requests(W, v, B, n, Q), w)
<1> DEFINE a == Rest(W, v) \o Rest(B, n)
<1>1. a \in Seq(Write)
  BY RestType, ConcatProperties
<1> HIDE DEF a
<1>2. a \o Append(Q, w) = Append(a \o Q, w)
  BY <1>1, MoveOne
<1> QED
  BY <1>2 DEF Requests, a

(* ... CommitRecord moves one from the batch to the log, ...               *)
LEMMA RequestsWritten ==
    ASSUME NEW W \in Seq(Write), NEW v \in 0..Len(W),
           NEW B \in Seq(Write), NEW n \in Nat, n < Len(B), NEW Q \in Seq(Write)
    PROVE  Requests(Append(W, B[n + 1]), v, B, n + 1, Q) = Requests(W, v, B, n, Q)
<1> DEFINE w == B[n + 1]
           a == Rest(W, v)
           b == Rest(B, n + 1)
<1>1. w \in Write /\ Rest(B, n) = <<w>> \o b /\ n + 1 \in 0..Len(B)
  BY RestFirst
<1>2. a \in Seq(Write) /\ b \in Seq(Write)
  BY <1>1, RestType
<1> HIDE DEF w, a, b
<1>3. Rest(Append(W, w), v) = a \o <<w>>
  BY <1>1, RestAppend DEF a
<1>4. (a \o <<w>>) \o b = a \o (<<w>> \o b)
  BY <1>1, <1>2, MoveOne
<1>5. Requests(Append(W, w), v, B, n + 1, Q) = ((a \o <<w>>) \o b) \o Q
  BY <1>3 DEF Requests, b
<1>6. Requests(W, v, B, n, Q) = (a \o (<<w>> \o b)) \o Q
  BY <1>1 DEF Requests, a
<1> QED
  BY <1>4, <1>5, <1>6 DEF w

(* ... and the one that takes effect is the first of them.                 *)
LEMMA RequestsHead ==
    ASSUME NEW W \in Seq(Write), NEW v \in Nat, v < Len(W),
           NEW B \in Seq(Write), NEW n \in 0..Len(B), NEW Q \in Seq(Write)
    PROVE  LET R == Requests(W, v, B, n, Q)
           IN  /\ R # <<>> /\ Head(R) = W[v + 1]
               /\ Tail(R) = Requests(W, v + 1, B, n, Q)
               /\ SubSeq(W, 1, v + 1) = Append(SubSeq(W, 1, v), W[v + 1])
<1> DEFINE w == W[v + 1]
           a == Rest(W, v + 1)
           b == Rest(B, n)
           T == Requests(W, v + 1, B, n, Q)
<1>1. w \in Write /\ Rest(W, v) = <<w>> \o a /\ v + 1 \in 0..Len(W) /\ v \in 0..Len(W)
  BY RestFirst
<1>2. a \in Seq(Write) /\ b \in Seq(Write) /\ T \in Seq(Write)
  BY <1>1, RestType, RequestsType
<1>3. T = (a \o b) \o Q
  BY DEF Requests
<1>4. Requests(W, v, B, n, Q) = ((<<w>> \o a) \o b) \o Q
  BY <1>1 DEF Requests
<1> HIDE DEF w, a, b, T
<1>5. ((<<w>> \o a) \o b) \o Q = <<w>> \o T
  <2> DEFINE one == <<w>>
             ab == a \o b
  <2>1. one \in Seq(Write) /\ ab \in Seq(Write)
    BY <1>1, <1>2, ConcatProperties
  <2> HIDE DEF one
  <2>2. (one \o a) \o b = one \o ab
    <3>1. (one \o a) \o b = one \o (a \o b)
      <4>1. one \in Seq(Write) /\ a \in Seq(Write) /\ b \in Seq(Write)
        BY <1>2, <2>1
      <4> HIDE DEF ab
      <4> QED BY <4>1, QueuesJoin
    <3> QED BY <3>1
  <2> HIDE DEF ab
  <2>3. (one \o ab) \o Q = one \o (ab \o Q)
    BY <2>1, QueuesJoin
  <2> QED BY <1>3, <2>2, <2>3 DEF one, ab
<1>6. <<w>> \o T # <<>> /\ Head(<<w>> \o T) = w /\ Tail(<<w>> \o T) = T
  <2>1. w \in Write /\ T \in Seq(Write)
    BY <1>1, <1>2
  <2> QED BY <2>1, MoveOne
<1>7. SubSeq(W, 1, v + 1) = Append(SubSeq(W, 1, v), w)
  <2> DEFINE s == SubSeq(W, 1, v)
  <2>1. s \in Seq(Write) /\ 1 \in 1..Len(W) /\ v + 1 \in 1..Len(W) /\ (v + 1) - 1 = v
    BY <1>1, Split
  <2>2. SubSeq(W, 1, v + 1) = SubSeq(W, 1, (v + 1) - 1) \o <<W[v + 1]>>
    BY <2>1, SubSeqRecursiveSecond
  <2> HIDE DEF s
  <2>3. Append(s, w) = s \o <<w>>
    BY <1>1, <2>1, AppendIsConcat
  <2> QED BY <2>1, <2>2, <2>3 DEF s, w
<1> QED
  BY <1>4, <1>5, <1>6, <1>7 DEF w, T

(* A batch that is written and applied leaves the queue, which is the next *)
(* batch.                                                                  *)
LEMMA RequestsQueue ==
    ASSUME NEW W \in Seq(Write), NEW B \in Seq(Write), NEW Q \in Seq(Write)
    PROVE  /\ Requests(W, Len(W), B, Len(B), Q) = Q
           /\ Requests(W, Len(W), Q, 0, <<>>) = Q
<1>1. Rest(W, Len(W)) = <<>> /\ Rest(B, Len(B)) = <<>> /\ Rest(Q, 0) = Q
  BY RestEnds
<1>2. <<>> \o <<>> = <<>> /\ <<>> \o Q = Q /\ Q \o <<>> = Q
  BY ConcatEmptySeq
<1> QED
  BY <1>1, <1>2 DEF Requests

-----------------------------------------------------------------------------
(* The invariant.                                                          *)

(* No file was rotated and no record was cut.                              *)
OneFile == NoRotation /\ ~headOut /\ NothingTorn

(* i is the place of the last record of key k among the first n of log L.  *)
IsLast(L, n, k, i) ==
    /\ i \in DOMAIN L /\ i <= n /\ L[i].key = k
    /\ \A j \in DOMAIN L : j <= n /\ L[j].key = k => j <= i

(* The two maps hold the last visible write of every key.                  *)
Known ==
    wpc # "down" => \A k \in Keys, i \in DOMAIN log :
        log[i].key = k /\ i <= Indexed => recordMap[k] # NoHint

Current ==
    wpc # "down" => \A k \in Keys, i \in DOMAIN log :
        recordMap[k] # NoHint /\ IsLast(log, Visible, k, i) =>
            activeMap[k] = log[i].val

(* Where the callers are: no Get gets as far as a stable file.             *)
CallerInv(c) ==
    /\ ~running => pc[c] = "idle"
    /\ pc[c] \notin {"got", "deleted"} => ret[c] = NotFound
    /\ pc[c] \notin {"putWait", "deleteWait"} => cid[c] = 0
    /\ pc[c] \in ReadPCs => /\ pc[c] \in {"compare", "active"}
                            /\ ckey[c] \in Keys /\ recordMap[ckey[c]] # NoHint
    /\ pc[c] = "compare" => chint[c].fd = 0

Callers ==
    /\ running => wpc \notin {"down", "exited"}
    /\ \A c \in Clients : CallerInv(c)

PlacedInv == ValueInv /\ OneFile /\ BatchPlace
RefInv == PlacedInv /\ Known /\ Current /\ Callers

LEMMA NotRotated ==
    ASSUME PlacedInv
    PROVE  ValueInv /\ NoRotation
BY DEF PlacedInv, OneFile

(* The place in the log up to which writes are visible.                    *)
LEMMA BatchOfLog ==
    ASSUME PlacedInv, NEW n \in DOMAIN records
    PROVE  /\ n \in DOMAIN batch /\ Base + n \in DOMAIN log
           /\ batch[n] \in Write /\ batch[n].key \in Keys
           /\ WriteOf(log[Base + n]) = batch[n]
           /\ log[Base + n].key = batch[n].key /\ log[Base + n].val = batch[n].val
<1>1. IInv /\ BatchLogged
  BY DEF PlacedInv, ValueInv, PlaceInv
<1>2. /\ DOMAIN records = 1..Len(records) /\ DOMAIN batch = 1..Len(batch)
      /\ DOMAIN log = 1..Len(log) /\ Len(records) \in Nat /\ Len(log) \in Nat
      /\ Len(records) <= Len(batch) /\ Len(batch) \in Nat
  BY <1>1, TypesOf
<1>3. n \in DOMAIN batch /\ Base + n \in DOMAIN log
  BY <1>1, <1>2 DEF Base, BatchLogged
<1>4. batch[n] \in Write
  BY <1>1, <1>3, ElementTypes
<1>5. /\ log[Base + n].key = batch[n].key /\ log[Base + n].val = batch[n].val
      /\ log[Base + n].id = batch[n].id
  BY <1>1 DEF BatchLogged, IsFor
<1>6. WriteOf(log[Base + n]) = batch[n]
  BY <1>4, <1>5 DEF WriteOf, Write
<1> QED
  BY <1>3, <1>4, <1>5, <1>6 DEF Write

LEMMA VisibleIs ==
    ASSUME PlacedInv
    PROVE  /\ log \in Seq(LogRecord) /\ Len(log) \in Nat /\ DOMAIN log = 1..Len(log)
           /\ Base \in Nat /\ applied \in Nat /\ Base + Len(records) = Len(log)
           /\ Len(records) \in 0..Len(batch)
           /\ Shown <=> \/ wpc = "ack"
                        \/ wpc = "index" /\ recordMap[batch[applied + 1].key] # NoHint
           /\ Visible = Base + applied + (IF Shown THEN 1 ELSE 0)
           /\ Visible \in 0..Len(log)
           /\ Indexed = Base + applied + (IF wpc = "ack" THEN 1 ELSE 0)
           /\ wpc \in {"index", "ack"} => applied + 1 \in DOMAIN records
<1>0. IInv /\ BatchLogged /\ HintsRecent /\ OneFile /\ BatchPlace
  BY DEF PlacedInv, ValueInv, PlaceInv
<1>1. /\ log \in Seq(LogRecord) /\ Len(log) \in Nat /\ DOMAIN log = 1..Len(log)
      /\ applied \in Nat /\ Len(records) \in Nat /\ Len(batch) \in Nat
      /\ Len(records) <= Len(batch) /\ DOMAIN records = 1..Len(records)
  BY <1>0, TypesOf
<1>2. Base \in Nat /\ Base + Len(records) = Len(log)
  BY <1>0, <1>1 DEF Base, BatchLogged
<1>3. wpc \in {"index", "ack"} => applied + 1 \in DOMAIN records
  BY <1>0, <1>1 DEF IInv, BatchProgress
<1>4. ASSUME wpc = "index", recordMap[batch[applied + 1].key] # NoHint
      PROVE  recordMap[batch[applied + 1].key].fd = getActiveFD
  <2> DEFINE k == batch[applied + 1].key
  <2>1. k \in Keys
    BY <1>3, <1>4, BatchOfLog
  <2> HIDE DEF k
  <2>2. recordMap[k].fd \in Nat
    BY <1>0, <2>1, TypesOf DEF Hint
  <2>3. recordMap[k].fd <= getActiveFD
    BY <1>0, <1>4, <2>1 DEF HintsRecent, Recent, k
  <2>4. getActiveFD = 0
    BY <1>4, OnlyFile, NotRotated
  <2> QED BY <2>2, <2>3, <2>4 DEF k
<1>5. InActive
  BY <1>1, OnlyFile, NotRotated DEF InActive
<1>6. Shown <=> \/ wpc = "ack"
                \/ wpc = "index" /\ recordMap[batch[applied + 1].key] # NoHint
  BY <1>4, <1>5 DEF Shown
<1>7. Visible = Base + applied + (IF Shown THEN 1 ELSE 0)
  BY DEF Visible, Base
<1>8. applied <= Len(records)
  <2>1. wpc \in {"swap", "check", "exited", "down", "write", "inserting", "apply",
                 "index", "ack"}
    BY <1>0, OnlyFile, NotRotated
       DEF NoRotation, IInv, TypeOK, WorkerType, WorkerPCs, CommitPCs
  <2> QED
    BY <1>0, <1>1, <1>3, <2>1 DEF BatchPlace, IInv, BatchProgress
<1>9. Visible \in 0..Len(log)
  <2>1. CASE Shown
    BY <1>1, <1>2, <1>3, <1>6, <1>7, <2>1
  <2>2. CASE ~Shown
    BY <1>1, <1>2, <1>7, <1>8, <2>2
  <2> QED BY <2>1, <2>2
<1>10. Indexed = Base + applied + (IF wpc = "ack" THEN 1 ELSE 0)
  BY DEF Indexed
<1>11. Len(records) \in 0..Len(batch)
  BY <1>1
<1> QED
  BY <1>1, <1>2, <1>3, <1>6, <1>7, <1>9, <1>10, <1>11, Zenon

-----------------------------------------------------------------------------
(* The steps of an execution in which no file is rotated.                  *)
OneFileNext == [Next]_vars /\ wpc' # "rotate"

LEMMA OneFileStep == ASSUME "early" \notin Flushes, PlacedInv, OneFileNext
                     PROVE  OneFile'
<1> USE DEF diskVars, storeVars, mapVars, workerVars, promiseVars, clientVars
<1>0. ValueInv /\ IInv /\ NoRotation /\ NothingTorn /\ ~headOut /\ wpc' # "rotate"
  BY DEF PlacedInv, ValueInv, PlaceInv, OneFile, OneFileNext
<1>1. NoRotation'
  BY <1>0, NoRotationStep DEF OneFileNext
<1>2. CASE Crash
  <2>1. ~headOut' /\ log' = SubSeq(log, 1, synced)
    BY <1>0, <1>2 DEF Crash
  <2>2. log \in Seq(LogRecord) /\ synced \in 0..Len(log)
    BY <1>0 DEF IInv, TypeOK, DiskType
  <2>3. /\ log' \in Seq(LogRecord) /\ Len(log') = synced
        /\ \A i \in 1..synced : log'[i] = log[i]
    BY <2>1, <2>2, Split
  <2>4. \A i \in DOMAIN log' : i \in DOMAIN log /\ log'[i] = log[i]
    BY <2>2, <2>3
  <2> QED BY <1>0, <1>1, <2>1, <2>4 DEF OneFile, NothingTorn
<1>3. CASE ~Crash
  <2>1. NothingTorn'
    BY <1>0, <1>3, NothingTornStep DEF OneFileNext
  <2>2. ASSUME UNCHANGED headOut
        PROVE  OneFile'
    BY <1>0, <1>1, <2>1, <2>2 DEF OneFile
  <2>3. ASSUME NEW c \in Clients, Client(c)
        PROVE  OneFile'
    BY <2>2, <2>3, ClientLeavesFiles
  <2>4. ASSUME NEW flush \in Flushes, CommitRecord(flush)
        PROVE  OneFile'
    <3>1. ~headOut'
      BY <1>0, <2>4 DEF CommitRecord
    <3> QED BY <1>1, <2>1, <3>1 DEF OneFile
  <2>5. CASE Swap
    BY <2>2, <2>5 DEF Swap
  <2>6. CASE InsertBegin \/ InsertEnd
    BY <2>2, <2>6 DEF InsertBegin, InsertEnd
  <2>7. CASE ApplyValue \/ ApplyHint
    BY <2>2, <2>7 DEF ApplyValue, ApplyHint
  <2>8. CASE Acknowledge
    BY <2>2, <2>8 DEF Acknowledge
  <2>9. CASE CommitDone
    BY <2>2, <2>9 DEF CommitDone
  <2>10. CASE CheckRunning
    BY <2>2, <2>10 DEF CheckRunning
  <2>11. CASE Open
    BY <2>2, <2>11 DEF Open
  <2>12. CASE Close
    BY <2>2, <2>12 DEF Close
  <2>13. CASE UNCHANGED vars
    BY <2>2, <2>13 DEF vars
  <2>14. CASE Destroy
    <3>1. ~headOut'
      BY <2>14 DEF Destroy, FlushAll, ProcessEnds
    <3> QED BY <1>1, <2>1, <3>1 DEF OneFile
  <2>15. ~Rotate /\ ~CreateActive /\ ~InsertStable /\ ~ClearActiveMap
    BY <1>0, NeverTaken
  <2> QED
    BY <1>3, <2>3, <2>4, <2>5, <2>6, <2>7, <2>8, <2>9, <2>10, <2>11, <2>12, <2>13,
       <2>14, <2>15 DEF OneFileNext, Next, Worker
<1> QED
  BY <1>2, <1>3

LEMMA PlacedStep == ASSUME "early" \notin Flushes, PlacedInv, OneFileNext
                    PROVE  PlacedInv'
BY PlaceInvariant, BatchValueStep, HintsRecentStep, OneFileStep, BatchPlaceStep
   DEF PlacedInv, ValueInv, PlaceInv, OneFileNext

-----------------------------------------------------------------------------
(* How steps change the view that readers have.                            *)
(* Most steps do not change it.                                            *)
LEMMA ViewKept ==
    ASSUME PlacedInv, OneFileNext, ~ApplyValue, ~ApplyHint, ~Open, ~Destroy, ~Crash
    PROVE  /\ Visible' = Visible /\ Indexed' = Indexed
           /\ UNCHANGED <<recordMap, activeMap>>
           /\ \A i \in DOMAIN log : i \in DOMAIN log' /\ log'[i] = log[i]
           /\ wpc' = "down" <=> wpc = "down"
<1> USE DEF diskVars, storeVars, mapVars, workerVars, promiseVars, clientVars
<1>0. IInv /\ BatchLogged /\ BatchPlace /\ OneFile /\ wpc' # "rotate"
  BY DEF PlacedInv, ValueInv, PlaceInv, OneFileNext
<1>1. /\ log \in Seq(LogRecord) /\ Len(log) \in Nat /\ DOMAIN log = 1..Len(log)
      /\ Base \in Nat /\ applied \in Nat /\ Base + Len(records) = Len(log)
      /\ Shown <=> \/ wpc = "ack"
                   \/ wpc = "index" /\ recordMap[batch[applied + 1].key] # NoHint
      /\ Visible = Base + applied + (IF Shown THEN 1 ELSE 0)
      /\ Indexed = Base + applied + (IF wpc = "ack" THEN 1 ELSE 0)
  BY VisibleIs
<1>2. ASSUME UNCHANGED <<log, wpc, recordMap, activeMap, workerVars>>,
             DOMAIN stableFiles' = DOMAIN stableFiles
      PROVE  Visible' = Visible /\ Indexed' = Indexed
  <2>1. UNCHANGED <<log, records, applied, wpc, batch, lastActiveWrite, recordMap>>
        /\ (getActiveFD)' = getActiveFD
    BY <1>2 DEF getActiveFD
  <2>2. Shown' = Shown
    BY <2>1 DEF Shown, InActive
  <2> QED BY <2>1, <2>2 DEF Visible, Indexed, Base
<1>3. ASSUME wpc \notin {"index", "ack"}, wpc' \notin {"index", "ack"},
             Base' + applied' = Base + applied
      PROVE  Visible' = Visible /\ Indexed' = Indexed
  <2>1. ~Shown /\ ~Shown'
    BY <1>3 DEF Shown
  <2> QED BY <1>3, <2>1 DEF Visible, Indexed, Base
<1>4. ASSUME NEW c \in Clients, Client(c)
      PROVE  /\ UNCHANGED <<log, wpc, recordMap, activeMap, workerVars>>
             /\ DOMAIN stableFiles' = DOMAIN stableFiles
  BY <1>4, ClientLeavesFiles
<1>5. ASSUME NEW flush \in Flushes, CommitRecord(flush)
      PROVE  /\ Visible' = Visible /\ Indexed' = Indexed
             /\ UNCHANGED <<recordMap, activeMap>>
             /\ \A i \in DOMAIN log : i \in DOMAIN log' /\ log'[i] = log[i]
             /\ wpc # "down" /\ wpc' # "down"
  <2>1. /\ wpc = "write" /\ wpc' = "write" /\ applied' = applied
        /\ UNCHANGED <<recordMap, activeMap>>
    BY <1>0, <1>5 DEF CommitRecord
  <2>2. Base' = Base
    BY <1>0, <1>5, CommitRecordLogged
  <2>3. \A i \in DOMAIN log : i \in DOMAIN log' /\ log'[i] = log[i]
    BY <1>0, <1>1, <1>5, CommitRecordAppends
  <2> QED BY <1>3, <2>1, <2>2, <2>3
<1>6. CASE InsertBegin \/ InsertEnd \/ CheckRunning
  <2>1. CASE InsertBegin
    BY <1>3, <2>1 DEF InsertBegin, Base
  <2>2. CASE InsertEnd
    BY <1>3, <2>2 DEF InsertEnd, Base
  <2>3. CASE CheckRunning
    BY <1>3, <2>3 DEF CheckRunning, Base
  <2> QED BY <1>6, <2>1, <2>2, <2>3
<1>7. CASE Swap
  <2>1. /\ wpc = "swap" /\ wpc' = "write" /\ records' = <<>> /\ applied' = 0
        /\ UNCHANGED <<log, recordMap, activeMap>>
    BY <1>7 DEF Swap
  <2>2. records = <<>> /\ applied = 0
    BY <1>0, <2>1 DEF BatchPlace
  <2> QED BY <1>3, <2>1, <2>2 DEF Base
<1>8. CASE CommitDone
  <2>1. /\ wpc = "apply" /\ wpc' = "check" /\ records' = <<>> /\ applied' = 0
        /\ UNCHANGED <<log, recordMap, activeMap>> /\ applied = Len(batch)
    BY <1>8 DEF CommitDone
  <2>2. Len(records) = Len(batch)
    BY <1>0, <2>1 DEF IInv, BatchProgress
  <2>3. Base' + applied' = Base + applied
    BY <1>1, <2>1, <2>2 DEF Base
  <2> QED BY <1>3, <2>1, <2>3
<1>9. CASE Acknowledge
  <2>1. /\ wpc = "ack" /\ wpc' = "apply" /\ applied' = applied + 1
        /\ UNCHANGED <<log, records, recordMap, activeMap>>
    BY <1>9 DEF Acknowledge
  <2>2. ~Shown' /\ Shown
    BY <2>1 DEF Shown
  <2> QED BY <1>1, <2>1, <2>2 DEF Visible, Indexed, Base
<1>10. CASE Close \/ UNCHANGED vars
  BY <1>2, <1>10 DEF Close, vars
<1> QED
  BY <1>2, <1>4, <1>5, <1>6, <1>7, <1>8, <1>9, <1>10, NeverTaken, NotRotated
     DEF OneFileNext, Next, Worker

(* The two steps that make a write visible: with its value if the key has  *)
(* a hint already, else with its hint.                                     *)
LEMMA ApplyValueView ==
    ASSUME PlacedInv, ApplyValue
    PROVE  LET w == batch[applied + 1]
           IN  /\ w \in Write /\ w.key \in Keys /\ Visible + 1 \in DOMAIN log
               /\ WriteOf(log[Visible + 1]) = w
               /\ log[Visible + 1].key = w.key /\ log[Visible + 1].val = w.val
               /\ Visible' = Visible + (IF recordMap[w.key] # NoHint THEN 1 ELSE 0)
               /\ Indexed' = Indexed /\ Indexed = Visible
               /\ activeMap' = [activeMap EXCEPT ![w.key] = w.val]
               /\ UNCHANGED <<log, synced, recordMap, batch, records, writes>>
               /\ wpc = "apply" /\ wpc' = "index"
<1> DEFINE n == applied + 1
           w == batch[n]
<1>0. IInv
  BY DEF PlacedInv, ValueInv, PlaceInv
<1>1. /\ wpc = "apply" /\ wpc' = "index" /\ applied < Len(batch)
      /\ UNCHANGED <<log, synced, recordMap, batch, records, writes, applied,
                     lastActiveWrite, stableFiles>>
      /\ activeMap' = IF InActive THEN [activeMap EXCEPT ![w.key] = w.val]
                      ELSE activeMap
  BY DEF ApplyValue, diskVars, workerVars
<1>2. /\ Len(log) \in Nat /\ DOMAIN log = 1..Len(log)
      /\ Base \in Nat /\ applied \in Nat /\ Base + Len(records) = Len(log)
      /\ Shown <=> \/ wpc = "ack"
                   \/ wpc = "index" /\ recordMap[batch[applied + 1].key] # NoHint
      /\ Visible = Base + applied + (IF Shown THEN 1 ELSE 0)
      /\ Indexed = Base + applied + (IF wpc = "ack" THEN 1 ELSE 0)
  BY VisibleIs
<1>3. Visible = Base + applied /\ Indexed = Visible
  BY <1>1, <1>2
<1>4. n \in DOMAIN records
  BY <1>0, <1>1, <1>2, TypesOf DEF IInv, BatchProgress
<1>5. /\ w \in Write /\ w.key \in Keys /\ Base + n \in DOMAIN log
      /\ WriteOf(log[Base + n]) = w
      /\ log[Base + n].key = w.key /\ log[Base + n].val = w.val
  BY <1>4, BatchOfLog
<1>6. Base + n = Visible + 1
  BY <1>2, <1>3
<1>7. InActive /\ InActive'
  BY <1>1, <1>2, OnlyFile, NotRotated DEF InActive
<1>8. Shown' <=> recordMap[w.key] # NoHint
  <2> HIDE DEF w
  <2>1. (getActiveFD)' = getActiveFD /\ getActiveFD = 0
    BY <1>1, OnlyFile, NotRotated DEF getActiveFD
  <2>2. recordMap[w.key] # NoHint => recordMap[w.key].fd = 0
    BY <1>1, <1>5, HintLeadsHere, NotRotated
  <2>3. Shown' <=> recordMap[w.key] # NoHint /\ recordMap[w.key].fd = (getActiveFD)'
    BY <1>1, <1>7 DEF Shown, w
  <2> QED BY <2>1, <2>2, <2>3
<1>9. Visible' = Base + applied + (IF Shown' THEN 1 ELSE 0)
  BY <1>1 DEF Visible, Base
<1>10. Indexed' = Indexed
  BY <1>1 DEF Indexed, Base
<1> HIDE DEF n
<1> QED
  BY <1>1, <1>3, <1>5, <1>6, <1>7, <1>8, <1>9, <1>10 DEF n

LEMMA ApplyHintView ==
    ASSUME PlacedInv, ApplyHint
    PROVE  LET w == batch[applied + 1]
               i == Base + applied + 1
           IN  /\ w \in Write /\ w.key \in Keys /\ i \in DOMAIN log
               /\ WriteOf(log[i]) = w /\ log[i].key = w.key /\ log[i].val = w.val
               /\ Visible = i - (IF recordMap[w.key] # NoHint THEN 0 ELSE 1)
               /\ Visible' = i /\ Indexed' = i /\ Indexed = i - 1
               /\ activeMap[w.key] = w.val
               /\ recordMap' = [recordMap EXCEPT ![w.key] = records[applied + 1]]
               /\ records[applied + 1] # NoHint
               /\ UNCHANGED <<log, synced, activeMap, batch, records, writes>>
               /\ wpc = "index" /\ wpc' = "ack"
<1> DEFINE n == applied + 1
           w == batch[n]
<1>0. IInv /\ BatchLogged /\ OrderInv
  BY DEF PlacedInv, ValueInv, PlaceInv
<1>1. /\ wpc = "index" /\ wpc' = "ack"
      /\ UNCHANGED <<log, synced, activeMap, batch, records, writes, applied>>
      /\ recordMap' = [recordMap EXCEPT ![w.key] = records[n]]
  BY DEF ApplyHint, diskVars, workerVars
<1>2. /\ Len(log) \in Nat /\ DOMAIN log = 1..Len(log)
      /\ Base \in Nat /\ applied \in Nat
      /\ Shown <=> \/ wpc = "ack"
                   \/ wpc = "index" /\ recordMap[batch[applied + 1].key] # NoHint
      /\ Visible = Base + applied + (IF Shown THEN 1 ELSE 0)
      /\ Indexed = Base + applied + (IF wpc = "ack" THEN 1 ELSE 0)
      /\ wpc \in {"index", "ack"} => applied + 1 \in DOMAIN records
  BY VisibleIs
<1>3. n \in DOMAIN records /\ Base + n = Base + applied + 1
  BY <1>1, <1>2
<1>4. /\ w \in Write /\ w.key \in Keys /\ Base + n \in DOMAIN log
      /\ WriteOf(log[Base + n]) = w
      /\ log[Base + n].key = w.key /\ log[Base + n].val = w.val
  BY <1>3, BatchOfLog
<1>5. Shown' /\ Visible' = Base + applied + (IF Shown' THEN 1 ELSE 0)
      /\ Indexed' = Base + applied + 1
  BY <1>1 DEF Shown, Visible, Indexed, Base
<1>6. InActive
  BY <1>2, OnlyFile, NotRotated DEF InActive
<1>7. activeMap[w.key] = w.val
  BY <1>1, <1>6 DEF PlacedInv, ValueInv, BatchValue
<1>8. records[n] # NoHint
  <2>1. log[Base + n].id = records[n].id /\ 0 < log[Base + n].id
    BY <1>0, <1>3, <1>4 DEF BatchLogged, IsFor, OrderInv, Numbered
  <2> QED BY <2>1 DEF NoHint
<1>9. Visible = (Base + applied + 1) - (IF recordMap[w.key] # NoHint THEN 0 ELSE 1)
      /\ Indexed = (Base + applied + 1) - 1
  BY <1>1, <1>2
<1> QED
  BY <1>1, <1>3, <1>4, <1>5, <1>7, <1>8, <1>9

(* A restart finds the last write of every key.                            *)
LEMMA RestoredHere ==
    ASSUME PlacedInv, wpc = "down", NEW k \in Keys, NEW fd, fd = ActivePath(dir),
           NEW e \in DOMAIN log, log[e].key = k
    PROVE  /\ RestoredHint(log, fd, dir, k) # NoHint
           /\ \A i : IsLast(log, Len(log), k, i) =>
                RestoredValue(log, fd, k) = log[i].val
<1>0. IInv /\ OrderInv /\ OneFile
  BY DEF PlacedInv, ValueInv, PlaceInv
<1>1. DOMAIN log = 1..Len(log) /\ Len(log) \in Nat
  BY <1>0, TypesOf
<1>2. \A i \in DOMAIN log : log[i].fd = 0 /\ 0 \in dir /\ Whole(log[i])
  BY <1>0, OnlyFile, NotRotated
     DEF IInv, LogInFiles, OneFile, NoRotation, NothingTorn
<1>3. fd = 0
  <2>1. dir \cup {0} = {0} /\ \A d \in dir : d <= 0
    <3>1. dir \subseteq {0}
      BY <1>0 DEF OneFile, NoRotation, NothingTorn
    <3>2. dir \cup {0} = {0}
      BY <3>1
    <3>3. \A d \in dir : d <= 0
      BY <3>1
    <3> QED BY <3>2, <3>3
  <2> QED BY <2>1 DEF ActivePath
<1>4. PICK m \in {i \in DOMAIN log : log[i].key = k} :
           \A i \in {j \in DOMAIN log : log[j].key = k} : i <= m
  <2> DEFINE S == {i \in DOMAIN log : log[i].key = k}
  <2>1. S \in SUBSET (1..Len(log)) /\ S # {} /\ Len(log) \in Nat
    BY <1>1
  <2> HIDE DEF S
  <2>2. \E m \in S : \A i \in S : i <= m
    BY <2>1, LastOf
  <2> QED BY <2>2 DEF S
<1>5. ASSUME NEW fds, 0 \in fds
      PROVE  LastScanned(log, 0, fds, k) = {m}
  <2> DEFINE found == {i \in DOMAIN log :
                          log[i].key = k /\ log[i].fd \in fds /\ Scanned(log, i)}
  <2>1. ASSUME NEW i \in DOMAIN log PROVE Scanned(log, i)
    <3>1. \A j \in 1..i : j \in DOMAIN log
      BY <1>1
    <3> QED BY <1>2, <3>1 DEF Scanned
  <2>2. found = {i \in DOMAIN log : log[i].key = k}
    BY <1>2, <1>5, <2>1
  <2>3. \A i, j \in DOMAIN log : ScannedBefore(log, 0, i, j) <=> i < j
    BY <1>2 DEF ScannedBefore
  <2>4. m \in found /\ \A j \in found : j <= m
    BY <1>4, <2>2
  <2>5. LastScanned(log, 0, fds, k) =
          {i \in found : \A j \in found \ {i} : ScannedBefore(log, 0, j, i)}
    BY DEF LastScanned
  <2>6. found \subseteq DOMAIN log
    OBVIOUS
  <2> HIDE DEF found
  <2>7. {i \in found : \A j \in found \ {i} : ScannedBefore(log, 0, j, i)} = {m}
    <3>1. ASSUME NEW i \in found
          PROVE  (\A j \in found \ {i} : ScannedBefore(log, 0, j, i)) <=> i = m
      <4>1. CASE i = m
        BY <1>1, <2>3, <2>4, <2>6, <4>1
      <4>2. CASE i # m
        BY <1>1, <2>3, <2>4, <2>6, <4>2
      <4> QED BY <4>1, <4>2
    <3> QED BY <2>4, <3>1
  <2> QED BY <2>5, <2>7
<1>6. RestoredHint(log, fd, dir, k) # NoHint
  <2>1. LastScanned(log, fd, dir, k) = {m}
    BY <1>2, <1>3, <1>5
  <2>2. (CHOOSE i \in {m} : TRUE) = m
    OBVIOUS
  <2>3. RestoredHint(log, fd, dir, k).id = log[m].id
    BY <2>1, <2>2 DEF RestoredHint
  <2>4. 0 < log[m].id
    BY <1>0, <1>4 DEF OrderInv, Numbered
  <2> QED BY <2>3, <2>4 DEF NoHint
<1>7. ASSUME NEW i, IsLast(log, Len(log), k, i)
      PROVE  RestoredValue(log, fd, k) = log[i].val
  <2>1. LastScanned(log, fd, {fd}, k) = {m}
    BY <1>3, <1>5
  <2>2. (CHOOSE j \in {m} : TRUE) = m
    OBVIOUS
  <2>3. i = m
    <3>1. i \in DOMAIN log /\ i <= m
      BY <1>4, <1>7 DEF IsLast
    <3>2. m <= i
      BY <1>1, <1>4, <1>7 DEF IsLast
    <3> QED BY <1>1, <1>4, <3>1, <3>2
  <2> QED
    BY <2>1, <2>2, <2>3 DEF RestoredValue
<1> QED
  BY <1>6, <1>7

LEMMA KnownStep == ASSUME PlacedInv, Known, OneFileNext
                   PROVE  Known'
<1>0. IInv /\ log' \in Seq(LogRecord)
  <2>1. IInv
    BY DEF PlacedInv, ValueInv, PlaceInv
  <2> QED BY <2>1, StepIInv DEF OneFileNext, IInv, TypeOK, DiskType
<1>1. /\ Len(log) \in Nat /\ DOMAIN log = 1..Len(log)
      /\ Indexed \in Int /\ Indexed <= Len(log) /\ recordMap \in [Keys -> Hint]
  <2>1. /\ Len(log) \in Nat /\ DOMAIN log = 1..Len(log)
        /\ Base \in Nat /\ applied \in Nat
        /\ Shown <=> \/ wpc = "ack"
                     \/ wpc = "index" /\ recordMap[batch[applied + 1].key] # NoHint
        /\ Visible = Base + applied + (IF Shown THEN 1 ELSE 0)
        /\ Visible \in 0..Len(log)
        /\ Indexed = Base + applied + (IF wpc = "ack" THEN 1 ELSE 0)
    BY VisibleIs
  <2>2. Indexed \in Int /\ Indexed <= Visible
    BY <2>1
  <2> QED BY <1>0, <2>1, <2>2, TypesOf
<1>2. CASE ~ApplyValue /\ ~ApplyHint /\ ~Open /\ ~Destroy /\ ~Crash
  <2>1. /\ Indexed' = Indexed /\ recordMap' = recordMap
        /\ \A i \in DOMAIN log : i \in DOMAIN log' /\ log'[i] = log[i]
        /\ wpc' = "down" <=> wpc = "down"
    BY <1>2, ViewKept
  <2>2. \A i \in DOMAIN log' : i <= Indexed => i \in DOMAIN log
    BY <1>0, <1>1
  <2> QED BY <2>1, <2>2 DEF Known
<1>3. CASE ApplyValue
  <2>1. UNCHANGED <<log, recordMap>> /\ Indexed' = Indexed /\ wpc = "apply"
    BY <1>3, ApplyValueView
  <2> QED BY <2>1 DEF Known
<1>4. CASE ApplyHint
  <2> DEFINE w == batch[applied + 1]
             last == Base + applied + 1
             hint == records[applied + 1]
  <2>1. /\ w.key \in Keys /\ log[last].key = w.key /\ Indexed' = last
        /\ Indexed = last - 1 /\ hint # NoHint /\ log' = log /\ wpc = "index"
        /\ recordMap' = [recordMap EXCEPT ![w.key] = hint]
        /\ last \in DOMAIN log
    BY <1>4, ApplyHintView
  <2> HIDE DEF w, last, hint
  <2> SUFFICES ASSUME NEW k \in Keys, NEW i \in DOMAIN log,
                      log[i].key = k, i <= last
               PROVE  recordMap'[k] # NoHint
    BY <2>1 DEF Known
  <2>2. CASE k = w.key
    BY <1>1, <2>1, <2>2
  <2>3. CASE k # w.key
    <3>1. i # last /\ i <= Indexed
      BY <1>1, <2>1, <2>3
    <3>2. recordMap[k] # NoHint
      BY <2>1, <3>1 DEF Known
    <3> QED BY <1>1, <2>1, <2>3, <3>2
  <2> QED BY <2>2, <2>3
<1>5. CASE Open
  <2> DEFINE fd == ActivePath(dir)
  <2>1. /\ wpc = "down" /\ log' = log
        /\ recordMap' = [k \in Keys |-> RestoredHint(log, fd, dir, k)]
    BY <1>5 DEF Open
  <2>2. ASSUME NEW k \in Keys, NEW i \in DOMAIN log, log[i].key = k
        PROVE  RestoredHint(log, fd, dir, k) # NoHint
    BY <2>1, <2>2, RestoredHere
  <2> QED BY <2>1, <2>2 DEF Known
<1>6. CASE Destroy \/ Crash
  <2>1. wpc' = "down"
    BY <1>6 DEF Destroy, Crash, ProcessEnds
  <2> QED BY <2>1 DEF Known
<1> QED
  BY <1>2, <1>3, <1>4, <1>5, <1>6

LEMMA CurrentStep == ASSUME PlacedInv, Current, OneFileNext
                     PROVE  Current'
<1>0. IInv /\ log' \in Seq(LogRecord)
  <2>1. IInv
    BY DEF PlacedInv, ValueInv, PlaceInv
  <2> QED BY <2>1, StepIInv DEF OneFileNext, IInv, TypeOK, DiskType
<1>1. /\ Len(log) \in Nat /\ DOMAIN log = 1..Len(log)
      /\ Visible \in 0..Len(log) /\ recordMap \in [Keys -> Hint]
      /\ activeMap \in [Keys -> Stored \cup {NotFound}]
  BY <1>0, VisibleIs, TypesOf
<1>2. CASE ~ApplyValue /\ ~ApplyHint /\ ~Open /\ ~Destroy /\ ~Crash
  <2>1. /\ Visible' = Visible /\ UNCHANGED <<recordMap, activeMap>>
        /\ \A i \in DOMAIN log : i \in DOMAIN log' /\ log'[i] = log[i]
        /\ wpc' = "down" <=> wpc = "down"
    BY <1>2, ViewKept
  <2>2. \A i \in DOMAIN log' : i <= Visible => i \in DOMAIN log
    BY <1>0, <1>1
  <2>3. \A k \in Keys, i \in DOMAIN log' :
            IsLast(log', Visible, k, i) =>
               i \in DOMAIN log /\ log'[i] = log[i] /\ IsLast(log, Visible, k, i)
    BY <2>1, <2>2 DEF IsLast
  <2> QED BY <2>1, <2>3 DEF Current
<1>3. CASE ApplyValue
  <2> DEFINE w == batch[applied + 1]
  <2>1. /\ w.key \in Keys /\ Visible + 1 \in DOMAIN log
        /\ log[Visible + 1].key = w.key /\ log[Visible + 1].val = w.val
        /\ Visible' = Visible + (IF recordMap[w.key] # NoHint THEN 1 ELSE 0)
        /\ activeMap' = [activeMap EXCEPT ![w.key] = w.val]
        /\ UNCHANGED <<log, recordMap>> /\ wpc = "apply"
    BY <1>3, ApplyValueView
  <2> HIDE DEF w
  <2> SUFFICES ASSUME NEW k \in Keys, NEW i \in DOMAIN log, recordMap[k] # NoHint,
                      IsLast(log, Visible', k, i)
               PROVE  activeMap'[k] = log[i].val
    BY <2>1 DEF Current
  <2>2. CASE k = w.key
    <3>1. Visible' = Visible + 1
      BY <2>1, <2>2
    <3>2. i = Visible + 1
      BY <1>1, <2>1, <2>2, <3>1 DEF IsLast
    <3> QED BY <1>1, <2>1, <2>2, <3>2
  <2>3. CASE k # w.key
    <3>1. IsLast(log, Visible, k, i)
      BY <1>1, <2>1, <2>3 DEF IsLast
    <3> QED BY <1>1, <2>1, <2>3, <3>1 DEF Current
  <2> QED BY <2>2, <2>3
<1>4. CASE ApplyHint
  <2> DEFINE w == batch[applied + 1]
             last == Base + applied + 1
             hint == records[applied + 1]
  <2>1. /\ w.key \in Keys /\ log[last].key = w.key /\ log[last].val = w.val
        /\ Visible = last - (IF recordMap[w.key] # NoHint THEN 0 ELSE 1)
        /\ Visible' = last /\ UNCHANGED <<log, activeMap>> /\ wpc = "index"
        /\ activeMap[w.key] = w.val /\ last \in DOMAIN log
        /\ recordMap' = [recordMap EXCEPT ![w.key] = hint]
    BY <1>4, ApplyHintView
  <2> HIDE DEF w, last, hint
  <2> SUFFICES ASSUME NEW k \in Keys, NEW i \in DOMAIN log, recordMap'[k] # NoHint,
                      IsLast(log, last, k, i)
               PROVE  activeMap[k] = log[i].val
    BY <2>1 DEF Current
  <2>2. CASE k = w.key
    <3>1. i = last
      BY <1>1, <2>1, <2>2 DEF IsLast
    <3> QED BY <2>1, <2>2, <3>1
  <2>3. CASE k # w.key
    <3>1. IsLast(log, Visible, k, i)
      BY <1>1, <2>1, <2>3 DEF IsLast
    <3>2. recordMap[k] # NoHint
      BY <1>1, <2>1, <2>3
    <3> QED BY <2>1, <3>1, <3>2 DEF Current
  <2> QED BY <2>2, <2>3
<1>5. CASE Open
  <2> DEFINE fd == ActivePath(dir)
  <2>1. /\ wpc = "down" /\ wpc' = "swap" /\ UNCHANGED <<log, records, applied>>
        /\ activeMap' = [k \in Keys |-> RestoredValue(log, fd, k)]
    BY <1>5 DEF Open, workerVars
  <2>2. records = <<>> /\ applied = 0
    BY <2>1 DEF PlacedInv, BatchPlace
  <2>3. Visible' = Len(log)
    <3>1. ~Shown'
      BY <2>1 DEF Shown
    <3> QED BY <1>1, <2>1, <2>2, <3>1 DEF Visible
  <2>4. ASSUME NEW k \in Keys, NEW i \in DOMAIN log, IsLast(log, Len(log), k, i)
        PROVE  RestoredValue(log, fd, k) = log[i].val
    <3>1. log[i].key = k
      BY <2>4 DEF IsLast
    <3> QED BY <2>1, <2>4, <3>1, RestoredHere
  <2> QED BY <2>1, <2>3, <2>4 DEF Current
<1>6. CASE Destroy \/ Crash
  <2>1. wpc' = "down"
    BY <1>6 DEF Destroy, Crash, ProcessEnds
  <2> QED BY <2>1 DEF Current
<1> QED
  BY <1>2, <1>3, <1>4, <1>5, <1>6

(* The callers.                                                            *)
LEMMA CallerSteps ==
    ASSUME PlacedInv, Callers, NEW c \in Clients, Client(c)
    PROVE  CallerInv(c)'
<1> USE DEF promiseVars, storeVars, mapVars, CallerInv, ReadPCs
<1>0. /\ CallerInv(c) /\ (running => wpc # "down")
      /\ pc \in [Clients -> ClientPCs] /\ ckey \in [Clients -> Keys \cup {NoKey}]
      /\ chint \in [Clients -> Hint] /\ cid \in [Clients -> Nat]
      /\ ret \in [Clients -> Returned]
  BY DEF Callers, PlacedInv, ValueInv, PlaceInv, IInv, TypeOK, ClientType
<1>1. UNCHANGED <<recordMap, running>>
  BY ClientLeavesFiles
<1>2. ASSUME NEW k \in Keys, NEW v \in Vals, Put(c, k, v)
      PROVE  CallerInv(c)'
  BY <1>0, <1>1, <1>2 DEF Put, Enqueue
<1>3. ASSUME NEW k \in Keys, NEW v \in Vals, PutAsync(c, k, v)
      PROVE  CallerInv(c)'
  BY <1>0, <1>1, <1>3 DEF PutAsync, clientVars
<1>4. ASSUME NEW k \in Keys, Delete(c, k) \/ DeleteMiss(c, k)
      PROVE  CallerInv(c)'
  <2>1. CASE Delete(c, k)
    BY <1>0, <1>1, <2>1 DEF Delete, Enqueue
  <2>2. CASE DeleteMiss(c, k)
    BY <1>0, <1>1, <2>2 DEF DeleteMiss
  <2> QED BY <1>4, <2>1, <2>2
<1>5. ASSUME NEW k \in Keys, GetLookup(c, k)
      PROVE  CallerInv(c)'
  <2>1. /\ pc[c] = "idle" /\ running /\ UNCHANGED <<cid, ret>>
        /\ pc'[c] = IF recordMap[k] = NoHint THEN "got" ELSE "compare"
        /\ ckey'[c] = k /\ chint'[c] = recordMap[k]
    BY <1>0, <1>5 DEF GetLookup
  <2>2. recordMap[k] # NoHint => recordMap[k].fd = 0
    BY <1>0, <2>1, HintLeadsHere, NotRotated
  <2> QED BY <1>0, <1>1, <2>1, <2>2
<1>6. CASE GetCompare(c)
  <2>1. /\ pc[c] = "compare" /\ UNCHANGED <<ckey, chint, cid, ret>>
        /\ pc'[c] = IF chint[c].fd = getActiveFD THEN "active" ELSE "find"
    BY <1>0, <1>6 DEF GetCompare
  <2>2. getActiveFD = 0
    BY <1>0, <2>1, OnlyFile, NotRotated
  <2> QED BY <1>0, <1>1, <2>1, <2>2
<1>7. CASE GetActive(c)
  BY <1>0, <1>1, <1>7 DEF GetActive, GetReturns
<1>8. ~GetMiss(c) /\ ~GetSeek(c) /\ ~GetRead(c)
  BY <1>0 DEF GetMiss, GetSeek, GetRead
<1>9. CASE FutureReady(c) \/ Return(c)
  <2>1. CASE FutureReady(c)
    <3>1. /\ pc[c] \in {"putWait", "deleteWait"}
          /\ pc'[c] = IF pc[c] = "putWait" THEN "idle" ELSE "deleted"
          /\ ret'[c] = IF pc[c] = "putWait" THEN ret[c] ELSE TRUE
          /\ cid'[c] = 0
      BY <1>0, <2>1 DEF FutureReady
    <3> QED BY <1>0, <1>1, <3>1
  <2>2. CASE Return(c)
    BY <1>0, <1>1, <2>2 DEF Return
  <2> QED BY <1>9, <2>1, <2>2
<1> QED
  BY <1>2, <1>3, <1>4, <1>5, <1>6, <1>7, <1>8, <1>9 DEF Client

LEMMA CallersStep == ASSUME PlacedInv, Callers, OneFileNext
                     PROVE  Callers'
<1> USE DEF diskVars, storeVars, mapVars, workerVars, promiseVars, clientVars
<1>0. recordMap \in [Keys -> Hint] /\ \A c \in Clients : CallerInv(c)
  BY TypesOf DEF Callers, PlacedInv, ValueInv, PlaceInv
<1>1. ASSUME NEW c \in Clients, Client(c)
      PROVE  Callers'
  <2>1. UNCHANGED <<recordMap, running, wpc>>
    BY <1>1, ClientLeavesFiles
  <2>2. ASSUME NEW d \in Clients PROVE CallerInv(d)'
    <3>1. CASE d = c
      BY <1>1, <3>1, CallerSteps
    <3>2. CASE d # c
      BY <1>0, <1>1, <2>1, <3>2, OtherCallers
         DEF CallerInv, PlacedInv, ValueInv, PlaceInv
    <3> QED BY <3>1, <3>2
  <2> QED BY <2>1, <2>2 DEF Callers
<1>2. ASSUME UNCHANGED <<running, clientVars>>,
             running => wpc' \notin {"down", "exited"},
             \A k \in Keys : recordMap[k] # NoHint => recordMap'[k] # NoHint
      PROVE  Callers'
  BY <1>2 DEF Callers, CallerInv
<1>3. CASE Swap \/ (\E flush \in Flushes : CommitRecord(flush)) \/ InsertBegin \/ InsertEnd
  BY <1>2, <1>3 DEF Swap, CommitRecord, InsertBegin, InsertEnd
<1>4. CASE ApplyValue \/ Acknowledge \/ CommitDone \/ CheckRunning
  BY <1>2, <1>4 DEF ApplyValue, Acknowledge, CommitDone, CheckRunning
<1>5. CASE ApplyHint
  <2> DEFINE w == batch[applied + 1]
             hint == records[applied + 1]
  <2>1. /\ w.key \in Keys /\ hint # NoHint /\ wpc' = "ack"
        /\ recordMap' = [recordMap EXCEPT ![w.key] = hint]
    BY <1>5, ApplyHintView
  <2>2. UNCHANGED <<running, clientVars>>
    BY <1>5 DEF ApplyHint
  <2> HIDE DEF w, hint
  <2> QED BY <1>0, <1>2, <2>1, <2>2
<1>6. CASE Open
  <2>1. ~running /\ running' /\ wpc' = "swap" /\ UNCHANGED clientVars
    BY <1>6 DEF Open, Callers
  <2> QED BY <1>0, <2>1 DEF Callers, CallerInv, ReadPCs
<1>7. CASE Close
  <2>1. /\ ~running' /\ UNCHANGED <<recordMap, clientVars, wpc>>
        /\ \A c \in Clients : pc[c] = "idle"
    BY <1>7 DEF Close
  <2> QED BY <1>0, <2>1 DEF Callers, CallerInv, ReadPCs
<1>8. CASE Destroy \/ Crash
  <2>1. /\ ~running'
        /\ \A c \in Clients : pc'[c] = "idle" /\ ret'[c] = NotFound /\ cid'[c] = 0
    BY <1>8 DEF Destroy, Crash, ProcessEnds
  <2> QED BY <2>1 DEF Callers, CallerInv, ReadPCs
<1>9. CASE UNCHANGED vars
  BY <1>9 DEF vars, Callers, CallerInv
<1> QED
  BY <1>1, <1>3, <1>4, <1>5, <1>6, <1>7, <1>8, <1>9, NeverTaken, NotRotated
     DEF OneFileNext, Next, Worker

-----------------------------------------------------------------------------
(* What the abstract store holds: a key has a hint when it has a visible   *)
(* write, and _activeMap holds the value of the last one.                  *)
LEMMA HistoryIs ==
    ASSUME PlacedInv
    PROVE  /\ History \in Seq(Write) /\ Len(History) = Visible
           /\ Visible \in 0..Len(log) /\ DOMAIN log = 1..Len(log) /\ Len(log) \in Nat
           /\ DOMAIN History = 1..Visible
           /\ \A i \in 1..Visible : i \in DOMAIN log /\ History[i] = WriteOf(log[i])
<1>1. /\ log \in Seq(LogRecord) /\ Len(log) \in Nat /\ DOMAIN log = 1..Len(log)
      /\ Visible \in 0..Len(log)
  BY VisibleIs
<1>2. /\ Written(log) \in Seq(Write) /\ Len(Written(log)) = Len(log)
      /\ \A i \in 1..Len(log) : Written(log)[i] = WriteOf(log[i])
  BY <1>1, WrittenIs
<1> DEFINE W == Written(log)
           h == SubSeq(W, 1, Visible)
<1>3. h \in Seq(Write) /\ Len(h) = Visible /\ \A i \in 1..Visible : h[i] = W[i]
  <2> HIDE DEF W
  <2> QED BY <1>1, <1>2, Split DEF W
<1>4. History = h
  BY DEF History
<1> HIDE DEF W, h
<1> QED
  BY <1>1, <1>2, <1>3, <1>4 DEF W

LEMMA StoreHas ==
    ASSUME PlacedInv, Known, wpc # "down", NEW k \in Keys
    PROVE  Store!WritesOf(k) = {} <=> recordMap[k] = NoHint
<1>0. IInv /\ IndexInv
  BY DEF PlacedInv, ValueInv, PlaceInv
<1>1. /\ DOMAIN History = 1..Visible /\ Visible \in Nat
      /\ \A i \in 1..Visible : i \in DOMAIN log /\ History[i].key = log[i].key
  BY HistoryIs DEF WriteOf
<1>2. /\ Base \in Nat /\ applied \in Nat /\ DOMAIN log = 1..Len(log)
      /\ Shown <=> \/ wpc = "ack"
                   \/ wpc = "index" /\ recordMap[batch[applied + 1].key] # NoHint
      /\ Visible = Base + applied + (IF Shown THEN 1 ELSE 0)
      /\ Indexed = Base + applied + (IF wpc = "ack" THEN 1 ELSE 0)
      /\ wpc \in {"index", "ack"} => applied + 1 \in DOMAIN records
  BY VisibleIs
<1>3. Store!WritesOf(k) = {i \in DOMAIN History : History[i].key = k}
  BY DEF Store!WritesOf
<1>4. ASSUME recordMap[k] # NoHint PROVE Store!WritesOf(k) # {}
  <2>1. PICK i \in DOMAIN log : i <= Indexed /\ log[i].key = k
    BY <1>0, <1>4 DEF IndexInv, IsFor
  <2>2. i \in 1..Visible
    BY <1>1, <1>2, <2>1
  <2> QED BY <1>1, <1>3, <2>1, <2>2
<1>5. ASSUME NEW i \in DOMAIN History, History[i].key = k PROVE recordMap[k] # NoHint
  <2>1. i \in DOMAIN log /\ log[i].key = k /\ i <= Visible
    BY <1>1, <1>5
  <2>2. CASE i <= Indexed
    BY <2>1, <2>2 DEF Known
  <2>3. CASE ~(i <= Indexed)
    <3>1. wpc = "index" /\ recordMap[batch[applied + 1].key] # NoHint
          /\ i = Base + (applied + 1)
      BY <1>1, <1>2, <2>1, <2>3
    <3>2. log[Base + (applied + 1)].key = batch[applied + 1].key
      BY <1>2, <3>1, BatchOfLog
    <3> QED BY <2>1, <3>1, <3>2
  <2> QED BY <2>2, <2>3
<1> QED
  BY <1>3, <1>4, <1>5

LEMMA StoreValue ==
    ASSUME PlacedInv, Current, wpc # "down", NEW k \in Keys, Store!WritesOf(k) # {},
           recordMap[k] # NoHint
    PROVE  Store!Value(k) = Outcome(activeMap[k])
<1> DEFINE S == Store!WritesOf(k)
<1>1. /\ DOMAIN History = 1..Visible /\ Visible \in Nat /\ DOMAIN log = 1..Len(log)
      /\ \A i \in 1..Visible : /\ i \in DOMAIN log /\ History[i].key = log[i].key
                               /\ History[i].val = log[i].val
  BY HistoryIs DEF WriteOf
<1>2. S = {i \in DOMAIN History : History[i].key = k}
  BY DEF Store!WritesOf
<1>3. S \in SUBSET (1..Visible) /\ S # {}
  BY <1>1, <1>2
<1>4. PICK m \in S : \A j \in S : j <= m
  <2> HIDE DEF S
  <2> QED BY <1>1, <1>3, LastOf
<1>5. (CHOOSE i \in S : \A j \in S : j <= i) = m
  <2> DEFINE c == CHOOSE i \in S : \A j \in S : j <= i
  <2>1. c \in S /\ \A j \in S : j <= c
    BY <1>4
  <2>2. c <= m /\ m <= c /\ c \in Nat /\ m \in Nat
    BY <1>3, <1>4, <2>1
  <2> HIDE DEF c, S
  <2>3. c = m
    BY <2>2
  <2> QED BY <2>3 DEF c
<1>6. Store!Latest(k) = History[m].val
  BY <1>5 DEF Store!Latest
<1>7. IsLast(log, Visible, k, m)
  <2>1. m \in DOMAIN log /\ m <= Visible /\ log[m].key = k
    BY <1>1, <1>2, <1>4
  <2>2. ASSUME NEW j \in DOMAIN log, j <= Visible, log[j].key = k
        PROVE  j <= m
    BY <1>1, <1>2, <1>4, <2>2
  <2> QED BY <2>1, <2>2 DEF IsLast
<1>8. activeMap[k] = History[m].val
  BY <1>1, <1>3, <1>7 DEF Current, IsLast
<1> QED
  BY <1>6, <1>8 DEF Store!Value, Outcome

-----------------------------------------------------------------------------
(* Every step is one of the abstract store or leaves its state alone.      *)
StoreStep == Store!Next \/ UNCHANGED Store!vars

LEMMA ViewOf ==
    ASSUME PlacedInv
    PROVE  /\ Written(log) \in Seq(Write) /\ Len(Written(log)) = Len(log)
           /\ batch \in Seq(Write) /\ Len(records) \in 0..Len(batch)
           /\ writes \in Seq(Write) /\ Visible \in 0..Len(Written(log))
           /\ Pending = Requests(Written(log), Visible, batch, Len(records), writes)
<1>1. IInv /\ log \in Seq(LogRecord) /\ Visible \in 0..Len(log)
      /\ Len(records) \in 0..Len(batch)
  BY VisibleIs DEF PlacedInv, ValueInv, PlaceInv
<1>2. Written(log) \in Seq(Write) /\ Len(Written(log)) = Len(log)
  BY <1>1, WrittenIs
<1>3. Pending = Requests(Written(log), Visible, batch, Len(records), writes)
  BY DEF Pending, Requests
<1>4. batch \in Seq(Write) /\ writes \in Seq(Write)
  BY <1>1, TypesOf
<1> QED
  BY <1>1, <1>2, <1>3, <1>4

LEMMA ViewUnchanged ==
    ASSUME UNCHANGED <<log, batch, records, writes>>, Visible' = Visible
    PROVE  UNCHANGED <<History, Pending>>
BY DEF History, Pending

LEMMA RequestedIs ==
    ASSUME PlacedInv
    PROVE  /\ Store!Requested = Written(log) \o (Rest(batch, Len(records)) \o writes)
           /\ Rest(batch, Len(records)) \o writes \in Seq(Write)
           /\ Len(Rest(batch, Len(records)) \o writes) =
                (Len(batch) - Len(records)) + Len(writes)
           /\ Len(Store!Requested) =
                Len(log) + ((Len(batch) - Len(records)) + Len(writes))
<1> DEFINE W == Written(log)
           b == Rest(batch, Len(records))
           t == b \o writes
<1>1. /\ W \in Seq(Write) /\ Len(W) = Len(log)
      /\ batch \in Seq(Write) /\ Len(records) \in 0..Len(batch)
      /\ writes \in Seq(Write) /\ Visible \in 0..Len(W)
      /\ Pending = Requests(W, Visible, batch, Len(records), writes)
  BY ViewOf
<1>2. b \in Seq(Write) /\ Len(b) = Len(batch) - Len(records)
  BY <1>1, RestType
<1> HIDE DEF W
<1>3. SubSeq(W, 1, Visible) \o Requests(W, Visible, batch, Len(records), writes)
        = W \o (b \o writes)
  BY <1>1, RequestsType
<1>4. Store!Requested = W \o t
  BY <1>1, <1>3 DEF Store!Requested, History, W
<1> HIDE DEF b
<1>5. t \in Seq(Write) /\ Len(t) = Len(b) + Len(writes)
  BY <1>1, <1>2, ConcatProperties
<1> HIDE DEF t
<1>6. Len(W \o t) = Len(W) + Len(t)
  BY <1>1, <1>5, ConcatProperties
<1> QED
  BY <1>1, <1>2, <1>4, <1>5, <1>6 DEF W, b, t

(* How a step of a caller looks from outside.                              *)
LEMMA CallerMoves ==
    ASSUME PlacedInv, NEW c \in Clients, NEW at, pc' = [pc EXCEPT ![c] = at],
           \A d \in Clients : d # c => ckey'[d] = ckey[d]
    PROVE  /\ CallerAt' = [CallerAt EXCEPT ![c] = IF at \in ReadPCs THEN "idle" ELSE at]
           /\ KeyGot' = [KeyGot EXCEPT ![c] = IF at = "got" THEN ckey'[c] ELSE NoKey]
           /\ CallerAt[c] = (IF pc[c] \in ReadPCs THEN "idle" ELSE pc[c])
           /\ KeyGot[c] = (IF pc[c] = "got" THEN ckey[c] ELSE NoKey)
           /\ pc'[c] = at
<1>1. pc \in [Clients -> ClientPCs]
  BY DEF PlacedInv, ValueInv, PlaceInv, IInv, TypeOK, ClientType
<1>2. pc'[c] = at /\ \A d \in Clients : d # c => pc'[d] = pc[d]
  BY <1>1
<1> QED
  BY <1>2 DEF CallerAt, KeyGot

LEMMA CallerStays ==
    ASSUME PlacedInv, NEW c \in Clients, NEW at, pc' = [pc EXCEPT ![c] = at],
           \A d \in Clients : d # c => ckey'[d] = ckey[d],
           pc[c] \in {"idle", "compare"}, at \in {"idle", "compare", "active"}
    PROVE  UNCHANGED <<CallerAt, KeyGot>>
<1>1. /\ CallerAt' = [CallerAt EXCEPT ![c] = "idle"] /\ CallerAt[c] = "idle"
      /\ KeyGot' = [KeyGot EXCEPT ![c] = NoKey] /\ KeyGot[c] = NoKey
  BY CallerMoves DEF ReadPCs
<1>2. DOMAIN CallerAt = Clients /\ DOMAIN KeyGot = Clients
  BY DEF CallerAt, KeyGot
<1>3. [CallerAt EXCEPT ![c] = "idle"] = CallerAt
  BY <1>1, <1>2 DEF CallerAt
<1>4. [KeyGot EXCEPT ![c] = NoKey] = KeyGot
  BY <1>1, <1>2 DEF KeyGot
<1> QED
  BY <1>1, <1>3, <1>4

LEMMA CallerKeepsKey ==
    ASSUME PlacedInv, NEW c \in Clients, NEW at, pc' = [pc EXCEPT ![c] = at],
           ckey' = ckey, pc[c] # "got", at \notin ReadPCs \cup {"got"}
    PROVE  CallerAt' = [CallerAt EXCEPT ![c] = at] /\ KeyGot' = KeyGot
<1>1. /\ CallerAt' = [CallerAt EXCEPT ![c] = at]
      /\ KeyGot' = [KeyGot EXCEPT ![c] = NoKey] /\ KeyGot[c] = NoKey
  BY CallerMoves
<1>2. [KeyGot EXCEPT ![c] = NoKey] = KeyGot
  BY <1>1 DEF KeyGot
<1> QED
  BY <1>1, <1>2

(* The calls.                                                              *)
LEMMA EnqueueRequests ==
    ASSUME PlacedInv, Callers, NEW k \in Keys, NEW v \in Stored, Enqueue(k, v),
           UNCHANGED <<log, synced, batch, records, acked, wpc>>, Visible' = Visible
    PROVE  Store!Request(k, v)
<1> DEFINE w == [key |-> k, val |-> v, id |-> issued + 1]
<1>1. wpc # "down" /\ issued' = issued + 1 /\ writes' = Append(writes, w)
  BY DEF Enqueue, Callers
<1>2. w \in Write
  BY TypesOf DEF Write, PlacedInv, ValueInv, PlaceInv
<1>3. History' = History
  BY DEF History
<1>4. Pending' = Append(Pending, w)
  <2> DEFINE W == Written(log)
  <2>1. /\ W \in Seq(Write) /\ batch \in Seq(Write) /\ Len(records) \in 0..Len(batch)
        /\ writes \in Seq(Write) /\ Visible \in 0..Len(W)
        /\ Pending = Requests(W, Visible, batch, Len(records), writes)
    BY ViewOf
  <2>2. Pending' = Requests(W, Visible, batch, Len(records), writes')
    BY DEF Pending, Requests
  <2> HIDE DEF W, w
  <2> QED BY <1>1, <1>2, <2>1, <2>2, RequestsAppend
<1> QED
  BY <1>1, <1>3, <1>4 DEF Store!Request

LEMMA ClientView ==
    ASSUME NEW c \in Clients, Client(c)
    PROVE  /\ Visible' = Visible /\ History' = History
           /\ UNCHANGED <<log, synced, batch, records, acked, wpc, recordMap>>
           /\ writes' = writes => Pending' = Pending
<1>1. /\ UNCHANGED <<log, synced, batch, records, applied, lastActiveWrite,
                     acked, wpc, recordMap>>
      /\ DOMAIN stableFiles' = DOMAIN stableFiles
  BY ClientLeavesFiles DEF diskVars, workerVars
<1>2. (getActiveFD)' = getActiveFD
  BY <1>1 DEF getActiveFD
<1>3. Visible' = Visible
  BY <1>1, <1>2 DEF Visible, Shown, InActive
<1> QED
  BY <1>1, <1>3 DEF History, Pending

LEMMA PutSimulates ==
    ASSUME RefInv, NEW c \in Clients, NEW k \in Keys, NEW v \in Vals,
           Put(c, k, v) \/ PutAsync(c, k, v)
    PROVE  Store!Put(c, k, v) \/ Store!PutAsync(c, k, v)
<1>0. PlacedInv /\ Callers /\ Client(c) /\ v \in Stored
  BY DEF RefInv, Client, Stored
<1>1. /\ Visible' = Visible /\ History' = History
      /\ UNCHANGED <<log, synced, batch, records, acked, wpc>>
  BY <1>0, ClientView
<1>2. Enqueue(k, v) /\ pc[c] = "idle"
  BY DEF Put, PutAsync
<1>3. Store!Request(k, v)
  BY <1>0, <1>1, <1>2, EnqueueRequests
<1>4. CallerAt[c] = "idle"
  BY <1>2 DEF CallerAt, ReadPCs
<1>5. CASE Put(c, k, v)
  <2>1. /\ pc' = [pc EXCEPT ![c] = "putWait"] /\ ckey' = ckey /\ ret' = ret
        /\ cid' = [cid EXCEPT ![c] = issued + 1]
    BY <1>5 DEF Put
  <2>2. CallerAt' = [CallerAt EXCEPT ![c] = "putWait"] /\ KeyGot' = KeyGot
    BY <1>0, <1>2, <2>1, CallerKeepsKey DEF ReadPCs
  <2> QED BY <1>3, <1>4, <2>1, <2>2 DEF Store!Put, Store!Wait
<1>6. CASE PutAsync(c, k, v)
  <2>1. UNCHANGED <<pc, ckey, cid, ret>>
    BY <1>6 DEF PutAsync, clientVars
  <2>2. CallerAt' = CallerAt /\ KeyGot' = KeyGot
    BY <2>1 DEF CallerAt, KeyGot
  <2> QED BY <1>3, <1>4, <2>1, <2>2 DEF Store!PutAsync, Store!clientVars
<1> QED
  BY <1>5, <1>6

LEMMA DeleteSimulates ==
    ASSUME RefInv, NEW c \in Clients, NEW k \in Keys, Delete(c, k) \/ DeleteMiss(c, k)
    PROVE  Store!Delete(c, k) \/ Store!DeleteMiss(c, k)
<1>0. PlacedInv /\ Known /\ Callers /\ Client(c) /\ Tombstone \in Stored
  BY DEF RefInv, Client, Stored
<1>1. /\ Visible' = Visible /\ History' = History
      /\ UNCHANGED <<log, synced, batch, records, acked, wpc>>
      /\ writes' = writes => Pending' = Pending
  BY <1>0, ClientView
<1>2. pc[c] = "idle" /\ running /\ wpc # "down"
  BY <1>0 DEF Delete, DeleteMiss, Enqueue, Callers
<1>3. CallerAt[c] = "idle"
  BY <1>2 DEF CallerAt, ReadPCs
<1>4. Store!WritesOf(k) = {} <=> recordMap[k] = NoHint
  BY <1>0, <1>2, StoreHas
<1>5. CASE Delete(c, k)
  <2>1. /\ pc' = [pc EXCEPT ![c] = "deleteWait"] /\ ckey' = ckey /\ ret' = ret
        /\ cid' = [cid EXCEPT ![c] = issued + 1]
        /\ Enqueue(k, Tombstone) /\ recordMap[k] # NoHint
    BY <1>5 DEF Delete
  <2>2. CallerAt' = [CallerAt EXCEPT ![c] = "deleteWait"] /\ KeyGot' = KeyGot
    BY <1>0, <1>2, <2>1, CallerKeepsKey DEF ReadPCs
  <2>3. Store!Request(k, Tombstone)
    BY <1>0, <1>1, <2>1, EnqueueRequests
  <2> QED BY <1>3, <1>4, <2>1, <2>2, <2>3 DEF Store!Delete, Store!Wait
<1>6. CASE DeleteMiss(c, k)
  <2>1. /\ pc' = [pc EXCEPT ![c] = "deleted"] /\ UNCHANGED <<ckey, cid, writes, issued>>
        /\ ret' = [ret EXCEPT ![c] = FALSE] /\ recordMap[k] = NoHint
    BY <1>6 DEF DeleteMiss, promiseVars
  <2>2. CallerAt' = [CallerAt EXCEPT ![c] = "deleted"] /\ KeyGot' = KeyGot
    BY <1>0, <1>2, <2>1, CallerKeepsKey DEF ReadPCs
  <2> QED
    BY <1>1, <1>2, <1>3, <1>4, <2>1, <2>2 DEF Store!DeleteMiss, Store!storeVars
<1> QED
  BY <1>5, <1>6

LEMMA GetSimulates ==
    ASSUME RefInv, NEW c \in Clients, NEW k \in Keys, GetLookup(c, k)
    PROVE  Store!Get(c, k) \/ UNCHANGED Store!vars
<1>0. PlacedInv /\ Known /\ Callers /\ Client(c) /\ CallerInv(c)
  BY DEF RefInv, Client, Callers
<1>1. /\ History' = History /\ UNCHANGED <<synced, acked, wpc>>
      /\ writes' = writes => Pending' = Pending
  BY <1>0, ClientView
<1>2. /\ pc[c] = "idle" /\ running /\ wpc # "down"
      /\ UNCHANGED <<cid, ret, writes, issued>> /\ ckey' = [ckey EXCEPT ![c] = k]
      /\ pc' = [pc EXCEPT ![c] = IF recordMap[k] = NoHint THEN "got" ELSE "compare"]
  BY <1>0 DEF GetLookup, Callers, promiseVars
<1>3. /\ ckey'[c] = k /\ \A d \in Clients : d # c => ckey'[d] = ckey[d]
      /\ ret \in [Clients -> Returned] /\ ret[c] = NotFound
  BY <1>0, <1>2 DEF CallerInv, PlacedInv, ValueInv, PlaceInv, IInv, TypeOK, ClientType
<1>4. CASE recordMap[k] # NoHint
  <2>1. pc' = [pc EXCEPT ![c] = "compare"]
    BY <1>2, <1>4
  <2>2. UNCHANGED <<CallerAt, KeyGot>>
    BY <1>0, <1>2, <1>3, <2>1, CallerStays
  <2> QED
    BY <1>1, <1>2, <2>2 DEF Store!vars, Store!storeVars, Store!clientVars
<1>5. CASE recordMap[k] = NoHint
  <2>1. pc' = [pc EXCEPT ![c] = "got"]
    BY <1>2, <1>5
  <2>2. /\ CallerAt' = [CallerAt EXCEPT ![c] = "got"] /\ CallerAt[c] = "idle"
        /\ KeyGot' = [KeyGot EXCEPT ![c] = k]
    <3>1. /\ CallerAt' = [CallerAt EXCEPT ![c] = IF "got" \in ReadPCs THEN "idle" ELSE "got"]
          /\ KeyGot' = [KeyGot EXCEPT ![c] = IF "got" = "got" THEN ckey'[c] ELSE NoKey]
          /\ CallerAt[c] = (IF pc[c] \in ReadPCs THEN "idle" ELSE pc[c])
      BY <1>0, <1>3, <2>1, CallerMoves
    <3>2. pc[c] = "idle" /\ ckey'[c] = k
      BY <1>2, <1>3
    <3> QED BY <3>1, <3>2 DEF ReadPCs
  <2>3. Store!Value(k) = NotFound
    BY <1>0, <1>2, <1>5, StoreHas DEF Store!Value
  <2>4. ret' = [ret EXCEPT ![c] = NotFound]
    BY <1>2, <1>3
  <2> QED
    BY <1>1, <1>2, <2>2, <2>3, <2>4 DEF Store!Get, Store!storeVars
<1> QED
  BY <1>4, <1>5

LEMMA GetActiveSimulates ==
    ASSUME RefInv, NEW c \in Clients, GetActive(c)
    PROVE  ckey[c] \in Keys /\ Store!Get(c, ckey[c])
<1> DEFINE k == ckey[c]
<1>0. PlacedInv /\ Known /\ Current /\ Callers /\ Client(c) /\ CallerInv(c)
  BY DEF RefInv, Client, Callers
<1>1. /\ History' = History /\ UNCHANGED <<synced, acked, wpc>>
      /\ writes' = writes => Pending' = Pending
  BY <1>0, ClientView
<1>2. /\ pc[c] = "active" /\ UNCHANGED <<cid, ckey, writes, issued>>
      /\ ret' = [ret EXCEPT ![c] = Outcome(activeMap[k])]
      /\ pc' = [pc EXCEPT ![c] = "got"]
  BY DEF GetActive, GetReturns, promiseVars
<1>3. k \in Keys /\ recordMap[k] # NoHint /\ wpc # "down"
  BY <1>0, <1>2 DEF CallerInv, Callers, ReadPCs
<1>4. /\ CallerAt' = [CallerAt EXCEPT ![c] = "got"] /\ CallerAt[c] = "idle"
      /\ KeyGot' = [KeyGot EXCEPT ![c] = k]
  BY <1>0, <1>2, CallerMoves DEF ReadPCs
<1>5. Store!WritesOf(k) # {}
  BY <1>0, <1>3, StoreHas
<1>6. Store!Value(k) = Outcome(activeMap[k])
  BY <1>0, <1>3, <1>5, StoreValue
<1> QED
  BY <1>1, <1>2, <1>3, <1>4, <1>6 DEF Store!Get, Store!storeVars

LEMMA ReturnSimulates ==
    ASSUME RefInv, NEW c \in Clients, FutureReady(c) \/ Return(c)
    PROVE  Store!FutureReady(c) \/ Store!Return(c)
<1>0. PlacedInv /\ Callers /\ Client(c) /\ CallerInv(c)
  BY DEF RefInv, Client, Callers
<1>1. /\ History' = History /\ UNCHANGED <<synced, acked, wpc>>
      /\ writes' = writes => Pending' = Pending
  BY <1>0, ClientView
<1>2. writes' = writes /\ issued' = issued
  BY DEF FutureReady, Return, promiseVars
<1>3. UNCHANGED Store!storeVars
  BY <1>1, <1>2 DEF Store!storeVars
<1>4. CASE FutureReady(c)
  <2>1. /\ pc[c] \in {"putWait", "deleteWait"} /\ \E w \in acked : w.id = cid[c]
        /\ pc' = [pc EXCEPT ![c] = IF pc[c] = "putWait" THEN "idle" ELSE "deleted"]
        /\ ret' = [ret EXCEPT ![c] = IF pc[c] = "putWait" THEN @ ELSE TRUE]
        /\ cid' = [cid EXCEPT ![c] = 0] /\ ckey' = ckey
    BY <1>4 DEF FutureReady
  <2>2. CallerAt[c] = pc[c]
    BY <2>1 DEF CallerAt, ReadPCs
  <2>3. CASE pc[c] = "putWait"
    <3>1. pc' = [pc EXCEPT ![c] = "idle"] /\ ret' = [ret EXCEPT ![c] = ret[c]]
      BY <2>1, <2>3
    <3>2. CallerAt' = [CallerAt EXCEPT ![c] = "idle"] /\ KeyGot' = KeyGot
      BY <1>0, <2>1, <2>3, <3>1, CallerKeepsKey DEF ReadPCs
    <3>3. ret' = ret
      BY <1>0, <3>1 DEF PlacedInv, ValueInv, PlaceInv, IInv, TypeOK, ClientType
    <3> QED BY <1>3, <2>1, <2>2, <2>3, <3>2, <3>3 DEF Store!FutureReady
  <2>4. CASE pc[c] = "deleteWait"
    <3>1. pc' = [pc EXCEPT ![c] = "deleted"] /\ ret' = [ret EXCEPT ![c] = TRUE]
      BY <2>1, <2>4
    <3>2. CallerAt' = [CallerAt EXCEPT ![c] = "deleted"] /\ KeyGot' = KeyGot
      BY <1>0, <2>1, <2>4, <3>1, CallerKeepsKey DEF ReadPCs
    <3> QED BY <1>3, <2>1, <2>2, <2>4, <3>1, <3>2 DEF Store!FutureReady
  <2> QED BY <2>1, <2>3, <2>4
<1>5. CASE Return(c)
  <2>1. /\ pc[c] \in {"got", "deleted"} /\ pc' = [pc EXCEPT ![c] = "idle"]
        /\ ret' = [ret EXCEPT ![c] = NotFound] /\ cid' = cid
        /\ ckey' = [ckey EXCEPT ![c] = NoKey]
    BY <1>5 DEF Return
  <2>2. CallerAt[c] = pc[c]
    BY <2>1 DEF CallerAt, ReadPCs
  <2>3. \A d \in Clients : d # c => ckey'[d] = ckey[d]
    BY <1>0, <2>1 DEF PlacedInv, ValueInv, PlaceInv, IInv, TypeOK, ClientType
  <2>4. /\ CallerAt' = [CallerAt EXCEPT ![c] = "idle"]
        /\ KeyGot' = [KeyGot EXCEPT ![c] = NoKey]
    BY <1>0, <2>1, <2>3, CallerMoves DEF ReadPCs
  <2> QED BY <1>3, <2>1, <2>2, <2>4 DEF Store!Return
<1> QED
  BY <1>4, <1>5

LEMMA ClientSimulates ==
    ASSUME RefInv, NEW c \in Clients, Client(c)
    PROVE  StoreStep
<1> USE DEF StoreStep
<1>0. PlacedInv /\ Callers /\ CallerInv(c)
  BY DEF RefInv, Callers
<1>1. ASSUME NEW k \in Keys, NEW v \in Vals, Put(c, k, v) \/ PutAsync(c, k, v)
      PROVE  StoreStep
  BY <1>1, PutSimulates DEF Store!Next
<1>2. ASSUME NEW k \in Keys, Delete(c, k) \/ DeleteMiss(c, k)
      PROVE  StoreStep
  BY <1>2, DeleteSimulates DEF Store!Next
<1>3. ASSUME NEW k \in Keys, GetLookup(c, k)
      PROVE  StoreStep
  BY <1>3, GetSimulates DEF Store!Next
<1>4. CASE GetCompare(c)
  <2>1. /\ pc[c] = "compare" /\ UNCHANGED <<ckey, cid, ret, writes, issued>>
        /\ pc' = [pc EXCEPT ![c] = IF chint[c].fd = getActiveFD THEN "active" ELSE "find"]
    BY <1>4 DEF GetCompare, promiseVars
  <2>2. wpc # "down" /\ chint[c].fd = 0
    BY <1>0, <2>1 DEF Callers, CallerInv
  <2>3. getActiveFD = 0
    BY <1>0, <2>2, OnlyFile, NotRotated
  <2>4. pc' = [pc EXCEPT ![c] = "active"]
    BY <2>1, <2>2, <2>3
  <2>5. UNCHANGED <<CallerAt, KeyGot>>
    BY <1>0, <2>1, <2>4, CallerStays
  <2>6. History' = History /\ UNCHANGED <<synced, acked, wpc>> /\ Pending' = Pending
    BY <2>1, ClientView
  <2> QED
    BY <2>1, <2>5, <2>6 DEF Store!vars, Store!storeVars, Store!clientVars
<1>5. CASE GetActive(c)
  BY <1>5, GetActiveSimulates DEF Store!Next
<1>6. ~GetMiss(c) /\ ~GetSeek(c) /\ ~GetRead(c)
  BY <1>0 DEF GetMiss, GetSeek, GetRead, CallerInv, ReadPCs
<1>7. CASE FutureReady(c) \/ Return(c)
  BY <1>7, ReturnSimulates DEF Store!Next
<1> QED
  BY <1>1, <1>2, <1>3, <1>4, <1>5, <1>6, <1>7 DEF Client

(* The commit thread.                                                      *)
LEMMA Stutters ==
    ASSUME UNCHANGED <<History, Pending, synced, issued, acked, clientVars>>,
           wpc' # "down", wpc # "down"
    PROVE  UNCHANGED Store!vars
<1>1. UNCHANGED <<pc, ckey, cid, ret>>
  BY DEF clientVars
<1>2. UNCHANGED <<CallerAt, KeyGot>>
  BY <1>1 DEF CallerAt, KeyGot
<1> QED
  BY <1>1, <1>2 DEF Store!vars, Store!storeVars, Store!clientVars

LEMMA TakesEffect ==
    ASSUME PlacedInv, Visible < Len(log), Visible' = Visible + 1,
           UNCHANGED <<log, batch, records, writes, synced, issued, acked, clientVars>>,
           wpc' # "down", wpc # "down"
    PROVE  Store!Apply
<1> DEFINE W == Written(log)
           w == W[Visible + 1]
<1>1. /\ W \in Seq(Write) /\ batch \in Seq(Write) /\ Len(records) \in 0..Len(batch)
      /\ writes \in Seq(Write) /\ Visible \in Nat /\ Visible < Len(W)
      /\ Pending = Requests(W, Visible, batch, Len(records), writes)
  BY ViewOf
<1>2. Pending' = Requests(W, Visible + 1, batch, Len(records), writes)
  BY DEF Pending, Requests
<1>3. History = SubSeq(W, 1, Visible) /\ History' = SubSeq(W, 1, Visible + 1)
  BY DEF History
<1> HIDE DEF W
<1>4. /\ Pending # <<>> /\ Head(Pending) = w /\ Tail(Pending) = Pending'
      /\ History' = Append(History, w)
  BY <1>1, <1>2, <1>3, RequestsHead
<1>5. UNCHANGED <<pc, ckey, cid, ret>>
  BY DEF clientVars
<1>6. UNCHANGED <<CallerAt, KeyGot>>
  BY <1>5 DEF CallerAt, KeyGot
<1> QED
  BY <1>4, <1>5, <1>6 DEF Store!Apply, Store!clientVars

LEMMA QueueMoves ==
    ASSUME PlacedInv, Swap \/ CommitDone
    PROVE  UNCHANGED Store!vars
<1> USE DEF diskVars, promiseVars
<1> DEFINE W == Written(log)
<1>1. /\ W \in Seq(Write) /\ Len(W) = Len(log) /\ batch \in Seq(Write)
      /\ writes \in Seq(Write) /\ Len(records) \in 0..Len(batch)
      /\ Pending = Requests(W, Visible, batch, Len(records), writes)
  BY ViewOf
<1>2. /\ Base \in Nat /\ applied \in Nat /\ Base + Len(records) = Len(log)
      /\ Shown => wpc \in {"index", "ack"}
      /\ Visible = Base + applied + (IF Shown THEN 1 ELSE 0)
  BY VisibleIs
<1>3. Pending' = Requests(Written(log'), Visible', batch', Len(records'), writes')
  BY DEF Pending, Requests
<1>4. Len(<<>>) = 0 /\ <<>> \in Seq(Write)
  OBVIOUS
<1>5. CASE Swap
  <2>1. /\ wpc = "swap" /\ wpc' = "write" /\ batch' = writes /\ writes' = <<>>
        /\ records' = <<>> /\ applied' = 0
        /\ UNCHANGED <<log, synced, issued, acked, clientVars>>
    BY <1>5 DEF Swap
  <2>2. batch = <<>> /\ records = <<>> /\ applied = 0
    BY <2>1 DEF PlacedInv, BatchPlace
  <2>3. Visible = Len(W) /\ Visible' = Visible
    <3>1. ~Shown /\ ~Shown' /\ Len(records) = 0 /\ Base = Len(log)
      BY <1>2, <2>1, <2>2 DEF Shown
    <3>2. Visible = Len(W)
      BY <1>1, <1>2, <2>2, <3>1
    <3>3. Visible' = Visible
      BY <2>1, <2>2, <3>1 DEF Visible
    <3> QED BY <3>2, <3>3
  <2>4. Pending = Requests(W, Len(W), <<>>, Len(<<>>), writes)
    BY <1>1, <2>2, <2>3
  <2>5. Pending' = Requests(W, Len(W), writes, 0, <<>>)
    BY <1>3, <1>4, <2>1, <2>3
  <2>6. History' = History
    BY <2>1, <2>3 DEF History
  <2> HIDE DEF W
  <2>7. Pending = writes /\ Pending' = writes
    BY <1>1, <1>4, <2>4, <2>5, RequestsQueue
  <2> QED BY <2>1, <2>6, <2>7, Stutters
<1>6. CASE CommitDone
  <2>1. /\ wpc = "apply" /\ wpc' = "check" /\ batch' = <<>> /\ writes' = writes
        /\ records' = <<>> /\ applied' = 0 /\ applied = Len(batch)
        /\ UNCHANGED <<log, synced, issued, acked, clientVars>>
    BY <1>6 DEF CommitDone
  <2>2. Len(records) = Len(batch)
    BY <2>1 DEF PlacedInv, ValueInv, PlaceInv, IInv, BatchProgress
  <2>3. Visible = Len(W) /\ Visible' = Visible
    <3>1. ~Shown /\ ~Shown'
      BY <1>2, <2>1 DEF Shown
    <3>2. Visible = Len(W)
      BY <1>1, <1>2, <2>1, <2>2, <3>1
    <3>3. Visible' = Len(log)
      BY <1>1, <1>2, <1>4, <2>1, <3>1 DEF Visible
    <3> QED BY <1>1, <3>2, <3>3
  <2>4. Pending = Requests(W, Len(W), batch, Len(batch), writes)
    BY <1>1, <2>2, <2>3
  <2>5. Pending' = Requests(W, Len(W), <<>>, Len(<<>>), writes)
    BY <1>3, <1>4, <2>1, <2>3
  <2>6. History' = History
    BY <2>1, <2>3 DEF History
  <2> HIDE DEF W
  <2>7. Pending = writes /\ Pending' = writes
    BY <1>1, <1>4, <2>4, <2>5, RequestsQueue
  <2> QED BY <2>1, <2>6, <2>7, Stutters
<1> QED
  BY <1>5, <1>6

LEMMA CommitRecordSimulates ==
    ASSUME PlacedInv, NEW flush \in Flushes, CommitRecord(flush),
           flush # "early", wpc' # "rotate"
    PROVE  Store!Sync \/ UNCHANGED Store!vars
<1> USE DEF promiseVars
<1> DEFINE W == Written(log)
           n == Len(records)
           r == WriteRecord(batch[n + 1], active, FileSize(log, active))
<1>0. IInv /\ OneFileNext /\ Flushes \subseteq {"never", "early", "late"}
  <2>1. [Next]_vars
    BY DEF Next, Worker
  <2> QED BY <2>1, ConfigAssumption DEF OneFileNext, PlacedInv, ValueInv, PlaceInv
<1>1. /\ W \in Seq(Write) /\ Len(W) = Len(log) /\ batch \in Seq(Write)
      /\ writes \in Seq(Write) /\ n \in Nat /\ Visible \in 0..Len(W)
      /\ Pending = Requests(W, Visible, batch, n, writes)
  BY ViewOf
<1>2. /\ wpc = "write" /\ wpc' = "write" /\ n < Len(batch)
      /\ UNCHANGED <<batch, writes, issued, acked, clientVars>>
      /\ synced' = CASE flush = "never" -> synced
                     [] flush = "early" -> Len(log)
                     [] flush = "late"  -> Len(log) + 1
      /\ Len(records') = n + 1
  <2>1. records \in Seq(Hint)
    BY <1>0, TypesOf
  <2> QED BY <2>1 DEF CommitRecord
<1>3. log' = Append(log, r) /\ r \in LogRecord /\ log \in Seq(LogRecord)
  BY <1>0, CommitRecordAppends, TypesOf
<1>4. WriteOf(r) = batch[n + 1]
  <2>1. batch[n + 1] \in Write
    BY <1>1, <1>2, RestFirst
  <2> QED BY <2>1 DEF WriteOf, WriteRecord, Write
<1>5. Written(log') = Append(W, batch[n + 1]) /\ batch[n + 1] \in Write
  <2> HIDE DEF r
  <2> QED BY <1>3, <1>4, WrittenAppend
<1>6. Visible' = Visible
  <2>1. ~ApplyValue /\ ~ApplyHint /\ ~Open /\ ~Destroy
    BY <1>2 DEF ApplyValue, ApplyHint, Open, Destroy
  <2>2. ~Crash
    BY <1>2 DEF Crash, ProcessEnds
  <2> QED BY <1>0, <2>1, <2>2, ViewKept
<1>7. Pending' = Requests(Append(W, batch[n + 1]), Visible, batch, n + 1, writes)
      /\ History' = SubSeq(Append(W, batch[n + 1]), 1, Visible)
      /\ History = SubSeq(W, 1, Visible)
  BY <1>2, <1>5, <1>6 DEF Pending, Requests, History
<1> HIDE DEF W, n
<1>8. Pending' = Pending
  BY <1>1, <1>2, <1>7, RequestsWritten
<1>9. History' = History
  BY <1>1, <1>5, <1>7, RestAppend
<1>10. CASE flush = "never"
  <2>1. synced' = synced
    BY <1>2, <1>10
  <2> QED BY <1>2, <1>8, <1>9, <2>1, Stutters
<1>11. CASE flush = "late"
  <2>1. synced' = Len(log) + 1
    BY <1>2, <1>11
  <2>2. synced \in 0..Len(log) /\ Len(log) \in Nat
    BY <1>0, <1>3 DEF IInv, TypeOK, DiskType
  <2>3. Len(Store!Requested) = Len(log) + ((Len(batch) - Len(records)) + Len(writes))
    BY RequestedIs
  <2>4. synced' \in (synced + 1)..Len(Store!Requested)
    <3> DEFINE all == Len(Store!Requested)
    <3>1. Len(batch) \in Nat /\ Len(writes) \in Nat /\ Len(records) \in Nat
      BY <1>1 DEF n
    <3>2. all = Len(log) + ((Len(batch) - Len(records)) + Len(writes))
          /\ Len(records) < Len(batch)
      BY <1>2, <2>3 DEF n
    <3> HIDE DEF all
    <3>3. synced' \in (synced + 1)..all
      BY <2>1, <2>2, <3>1, <3>2
    <3> QED BY <3>3 DEF all
  <2>5. UNCHANGED <<pc, ckey, cid, ret>>
    BY <1>2 DEF clientVars
  <2>6. UNCHANGED <<CallerAt, KeyGot>>
    BY <2>5 DEF CallerAt, KeyGot
  <2> QED BY <1>2, <1>8, <1>9, <2>4, <2>5, <2>6 DEF Store!Sync, Store!clientVars
<1> QED
  BY <1>0, <1>10, <1>11

LEMMA AcknowledgeSimulates ==
    ASSUME PlacedInv, Acknowledge
    PROVE  Store!Acknowledge
<1> USE DEF diskVars, promiseVars
<1>1. /\ wpc = "ack" /\ wpc' = "apply" /\ applied' = applied + 1
      /\ acked' = acked \cup {batch[applied + 1]}
      /\ UNCHANGED <<log, batch, records, writes, synced, issued, clientVars>>
  BY DEF Acknowledge
<1>2. /\ Base \in Nat /\ applied \in Nat
      /\ Shown <=> \/ wpc = "ack"
                   \/ wpc = "index" /\ recordMap[batch[applied + 1].key] # NoHint
      /\ Visible = Base + applied + (IF Shown THEN 1 ELSE 0)
      /\ wpc \in {"index", "ack"} => applied + 1 \in DOMAIN records
  BY VisibleIs
<1>3. Shown /\ ~Shown'
  BY <1>1 DEF Shown
<1>4. Visible = Base + (applied + 1) /\ Visible' = Visible
  <2>1. Visible = Base + (applied + 1)
    BY <1>2, <1>3
  <2>2. Visible' = Base + applied'
    BY <1>1, <1>2, <1>3 DEF Visible, Base
  <2> QED BY <1>1, <2>1, <2>2
<1>5. /\ DOMAIN History = 1..Visible /\ Visible \in Nat
      /\ \A i \in 1..Visible : History[i] = WriteOf(log[i])
  BY HistoryIs
<1>6. WriteOf(log[Visible]) = batch[applied + 1]
  BY <1>1, <1>2, <1>4, BatchOfLog
<1>7. Visible \in DOMAIN History /\ History[Visible] = batch[applied + 1]
  BY <1>2, <1>4, <1>5, <1>6
<1>8. UNCHANGED <<History, Pending>>
  BY <1>1, <1>4, ViewUnchanged
<1>9. UNCHANGED <<pc, ckey, cid, ret>>
  BY <1>1 DEF clientVars
<1>10. UNCHANGED <<CallerAt, KeyGot>>
  BY <1>9 DEF CallerAt, KeyGot
<1> QED
  BY <1>1, <1>7, <1>8, <1>9, <1>10 DEF Store!Acknowledge, Store!clientVars

LEMMA WorkerSimulates ==
    ASSUME "early" \notin Flushes, RefInv, Worker, wpc' # "rotate"
    PROVE  StoreStep
<1> USE DEF diskVars, promiseVars
<1>0. PlacedInv /\ Len(log) \in Nat /\ Visible \in 0..Len(log) /\ DOMAIN log = 1..Len(log)
  BY VisibleIs DEF RefInv
<1>1. ASSUME NEW flush \in Flushes, CommitRecord(flush)
      PROVE  StoreStep
  BY <1>0, <1>1, CommitRecordSimulates DEF StoreStep, Store!Next
<1>2. CASE Swap \/ CommitDone
  BY <1>0, <1>2, QueueMoves DEF StoreStep
<1>3. CASE InsertBegin \/ InsertEnd \/ CheckRunning
  <2>1. /\ wpc \notin {"down", "index", "ack"} /\ wpc' \notin {"down", "index", "ack"}
        /\ UNCHANGED <<log, batch, records, applied, writes, synced, issued, acked,
                       clientVars>>
    BY <1>3 DEF InsertBegin, InsertEnd, CheckRunning, workerVars
  <2>2. Visible' = Visible
    BY <2>1 DEF Visible, Shown
  <2> QED
    BY <2>1, <2>2, ViewUnchanged, Stutters DEF StoreStep
<1>4. CASE ApplyValue
  <2>1. /\ wpc = "apply" /\ wpc' = "index" /\ Visible + 1 \in DOMAIN log
        /\ UNCHANGED <<log, batch, records, writes, synced>>
        /\ Visible' = Visible + (IF recordMap[batch[applied + 1].key] # NoHint
                                 THEN 1 ELSE 0)
    BY <1>0, <1>4, ApplyValueView
  <2>2. UNCHANGED <<issued, acked, clientVars>>
    BY <1>4 DEF ApplyValue
  <2>3. CASE recordMap[batch[applied + 1].key] # NoHint
    <3>1. Visible' = Visible + 1 /\ Visible < Len(log)
      BY <1>0, <2>1, <2>3
    <3> QED BY <1>0, <2>1, <2>2, <3>1, TakesEffect DEF StoreStep, Store!Next
  <2>4. CASE recordMap[batch[applied + 1].key] = NoHint
    <3>1. Visible' = Visible
      BY <1>0, <2>1, <2>4
    <3> QED BY <2>1, <2>2, <3>1, ViewUnchanged, Stutters DEF StoreStep
  <2> QED BY <2>3, <2>4
<1>5. CASE ApplyHint
  <2> DEFINE i == Base + applied + 1
  <2>1. /\ wpc = "index" /\ wpc' = "ack" /\ i \in DOMAIN log
        /\ UNCHANGED <<log, batch, records, writes, synced>>
        /\ Visible = i - (IF recordMap[batch[applied + 1].key] # NoHint THEN 0 ELSE 1)
        /\ Visible' = i
    BY <1>0, <1>5, ApplyHintView
  <2>2. UNCHANGED <<issued, acked, clientVars>>
    BY <1>5 DEF ApplyHint
  <2> HIDE DEF i
  <2>3. CASE recordMap[batch[applied + 1].key] # NoHint
    <3>1. Visible' = Visible
      BY <1>0, <2>1, <2>3
    <3> QED BY <2>1, <2>2, <3>1, ViewUnchanged, Stutters DEF StoreStep
  <2>4. CASE recordMap[batch[applied + 1].key] = NoHint
    <3>1. Visible' = Visible + 1 /\ Visible < Len(log)
      BY <1>0, <2>1, <2>4
    <3> QED BY <1>0, <2>1, <2>2, <3>1, TakesEffect DEF StoreStep, Store!Next
  <2> QED BY <2>3, <2>4
<1>6. CASE Acknowledge
  BY <1>0, <1>6, AcknowledgeSimulates DEF StoreStep, Store!Next
<1> QED
  BY <1>0, <1>1, <1>2, <1>3, <1>4, <1>5, <1>6, NeverTaken, NotRotated DEF Worker

(* The process.                                                            *)
LEMMA OpenSimulates ==
    ASSUME PlacedInv, Open
    PROVE  Store!Open
<1> USE DEF promiseVars
<1>1. /\ wpc = "down" /\ wpc' = "swap"
      /\ UNCHANGED <<log, batch, records, applied, writes, synced, issued, acked,
                     clientVars>>
  BY DEF Open, workerVars
<1>2. Visible' = Visible
  BY <1>1 DEF Visible, Shown
<1>3. UNCHANGED <<History, Pending>>
  BY <1>1, <1>2, ViewUnchanged
<1>4. UNCHANGED <<pc, ckey, cid, ret>>
  BY <1>1 DEF clientVars
<1>5. UNCHANGED <<CallerAt, KeyGot>>
  BY <1>4 DEF CallerAt, KeyGot
<1> QED
  BY <1>1, <1>3, <1>4, <1>5 DEF Store!Open, Store!clientVars

(* What is left of the view when the process ends with log L.              *)
LEMMA EndView ==
    ASSUME ProcessEnds, NEW L \in Seq(LogRecord), log' = L
    PROVE  /\ History' = Written(L) /\ Pending' = <<>> /\ Visible' = Len(L)
           /\ wpc' = "down" /\ issued' = issued /\ acked' = acked
           /\ CallerAt' = [c \in Clients |-> "idle"]
           /\ KeyGot' = [c \in Clients |-> NoKey]
           /\ cid' = [c \in Clients |-> 0] /\ ret' = [c \in Clients |-> NotFound]
<1>1. /\ wpc' = "down" /\ batch' = <<>> /\ records' = <<>> /\ writes' = <<>>
      /\ applied' = 0 /\ issued' = issued /\ acked' = acked
      /\ pc' = [c \in Clients |-> "idle"]
      /\ cid' = [c \in Clients |-> 0] /\ ret' = [c \in Clients |-> NotFound]
  BY DEF ProcessEnds, promiseVars
<1>2. Len(L) \in Nat /\ Len(<<>>) = 0 /\ <<>> \in Seq(Write)
  OBVIOUS
<1>3. Visible' = Len(L)
  <2>1. ~Shown'
    BY <1>1 DEF Shown
  <2> QED BY <1>1, <1>2, <2>1 DEF Visible
<1>4. Written(L) \in Seq(Write) /\ Len(Written(L)) = Len(L)
  BY WrittenIs
<1>5. History' = Written(L) /\ Pending' = <<>>
  <2> DEFINE W == Written(L)
  <2>1. /\ History' = SubSeq(W, 1, Len(W))
        /\ Pending' = Requests(W, Len(W), <<>>, Len(<<>>), <<>>)
    BY <1>1, <1>2, <1>3, <1>4 DEF History, Pending, Requests
  <2> HIDE DEF W
  <2>2. W \in Seq(Write)
    BY <1>4 DEF W
  <2>3. SubSeq(W, 1, Len(W)) = W
    BY <2>2, SubSeqFull
  <2>4. Requests(W, Len(W), <<>>, Len(<<>>), <<>>) = <<>>
    BY <1>2, <2>2, RequestsQueue
  <2> QED BY <2>1, <2>3, <2>4 DEF W
<1>6. /\ CallerAt' = [c \in Clients |-> "idle"]
      /\ KeyGot' = [c \in Clients |-> NoKey]
  BY <1>1 DEF CallerAt, KeyGot, ReadPCs
<1> QED
  BY <1>1, <1>3, <1>5, <1>6

LEMMA DestroySimulates ==
    ASSUME PlacedInv, Callers, Destroy
    PROVE  Store!Close
<1>1. /\ wpc = "exited" /\ synced' = Len(log) /\ log' = log /\ ProcessEnds
  BY DEF Destroy, FlushAll
<1>2. log \in Seq(LogRecord) /\ batch = <<>> /\ records = <<>> /\ applied = 0
  BY <1>1, VisibleIs DEF PlacedInv, BatchPlace
<1>3. /\ History' = Written(log) /\ Pending' = <<>> /\ Visible' = Len(log)
      /\ wpc' = "down" /\ issued' = issued /\ acked' = acked
      /\ CallerAt' = [c \in Clients |-> "idle"]
      /\ KeyGot' = [c \in Clients |-> NoKey]
      /\ cid' = [c \in Clients |-> 0] /\ ret' = [c \in Clients |-> NotFound]
  BY <1>1, <1>2, EndView
<1>4. History = Written(log) /\ Len(History) = Len(log)
  <2>1. ~Shown
    BY <1>1 DEF Shown
  <2>2. Visible = Len(log)
    BY <1>2, <2>1 DEF Visible
  <2>3. Written(log) \in Seq(Write) /\ Len(Written(log)) = Len(log)
    BY <1>2, WrittenIs
  <2> QED BY <2>2, <2>3, SubSeqFull DEF History
<1>5. /\ CallerAt = [c \in Clients |-> "idle"] /\ KeyGot = [c \in Clients |-> NoKey]
      /\ cid = [c \in Clients |-> 0] /\ ret = [c \in Clients |-> NotFound]
  <2>1. \A c \in Clients : pc[c] = "idle" /\ cid[c] = 0 /\ ret[c] = NotFound
    BY <1>1 DEF Callers, CallerInv
  <2>2. cid \in [Clients -> Nat] /\ ret \in [Clients -> Returned]
    BY DEF PlacedInv, ValueInv, PlaceInv, IInv, TypeOK, ClientType
  <2> QED BY <2>1, <2>2 DEF CallerAt, KeyGot, ReadPCs
<1> QED
  BY <1>1, <1>3, <1>4, <1>5 DEF Store!Close, Store!clientVars

LEMMA CrashSimulates ==
    ASSUME PlacedInv, Crash
    PROVE  Store!Crash
<1> DEFINE L == SubSeq(log, 1, synced)
           W == Written(log)
<1>0. ~headOut /\ synced \in 0..Len(log) /\ log \in Seq(LogRecord)
  BY DEF PlacedInv, OneFile, NoRotation, NothingTorn, ValueInv, PlaceInv, IInv, TypeOK, DiskType
<1>1. /\ "crash" \in Ops /\ wpc # "down" /\ log' = L /\ synced' = synced /\ ProcessEnds
  BY <1>0 DEF Crash
<1>2. L \in Seq(LogRecord) /\ Written(L) = SubSeq(W, 1, synced)
  BY <1>0, Split, WrittenPrefix
<1>3. W \in Seq(Write) /\ synced \in 0..Len(W)
  BY <1>0, WrittenIs
<1> DEFINE t == Rest(batch, Len(records)) \o writes
<1>4. Store!Requested = W \o t /\ t \in Seq(Write)
  BY RequestedIs
<1>5. /\ History' = Written(L) /\ Pending' = <<>>
      /\ wpc' = "down" /\ issued' = issued /\ acked' = acked
      /\ CallerAt' = [c \in Clients |-> "idle"]
      /\ KeyGot' = [c \in Clients |-> NoKey]
      /\ cid' = [c \in Clients |-> 0] /\ ret' = [c \in Clients |-> NotFound]
  BY <1>1, <1>2, EndView
<1> HIDE DEF L, W, t
<1>6. History' = SubSeq(Store!Requested, 1, synced)
  BY <1>2, <1>3, <1>4, <1>5, Prefix
<1> QED
  BY <1>1, <1>5, <1>6 DEF Store!Crash

-----------------------------------------------------------------------------
(* Where both start, and every step.                                       *)
LEMMA InitialView ==
    ASSUME Init
    PROVE  RefInv /\ Store!Init
<1>1. /\ wpc = "down" /\ ~running /\ log = <<>> /\ dir = {} /\ ~headOut
      /\ newStableFiles = {} /\ batch = <<>> /\ records = <<>> /\ applied = 0
      /\ writes = <<>> /\ lastActiveWrite = 0 /\ synced = 0
      /\ issued = 0 /\ acked = {}
      /\ pc = [c \in Clients |-> "idle"] /\ ret = [c \in Clients |-> NotFound]
      /\ ckey = [c \in Clients |-> NoKey] /\ cid = [c \in Clients |-> 0]
      /\ recordMap = [k \in Keys |-> NoHint]
  BY DEF Init
<1>2. DOMAIN records = {} /\ DOMAIN log = {} /\ Len(log) = 0 /\ Len(records) = 0
  BY <1>1
<1>3. PlaceInv
  BY PlaceInvariant
<1>4. BatchValue /\ HintsRecent
  BY <1>1, <1>2 DEF BatchValue, HintsRecent
<1>5. OneFile /\ BatchPlace /\ Known /\ Current
  BY <1>1, <1>2 DEF OneFile, NoRotation, NothingTorn, BatchPlace, Known, Current
<1>6. Callers
  BY <1>1 DEF Callers, CallerInv, ReadPCs
<1>7. RefInv
  BY <1>3, <1>4, <1>5, <1>6 DEF RefInv, PlacedInv, ValueInv
<1>8. ~Shown /\ Visible = 0
  BY <1>1, <1>2 DEF Shown, Visible
<1>9. History = <<>> /\ Pending = <<>>
  <2>1. PlacedInv /\ log \in Seq(LogRecord)
    BY <1>7, VisibleIs DEF RefInv
  <2>2. /\ Written(log) \in Seq(Write) /\ Len(Written(log)) = 0
        /\ batch \in Seq(Write) /\ Len(batch) = 0 /\ writes \in Seq(Write)
        /\ Pending = Requests(Written(log), Visible, batch, Len(records), writes)
    BY <1>1, <1>2, <2>1, ViewOf
  <2>3. Pending = Requests(Written(log), Len(Written(log)), batch, Len(batch), writes)
    BY <1>1, <1>8, <2>2
  <2>4. Pending = writes
    BY <2>2, <2>3, RequestsQueue
  <2>5. History = <<>>
    BY <1>8, <2>2, SubSeqEmpty DEF History
  <2> QED BY <1>1, <2>4, <2>5
<1>10. CallerAt = [c \in Clients |-> "idle"] /\ KeyGot = [c \in Clients |-> NoKey]
  BY <1>1 DEF CallerAt, KeyGot, ReadPCs
<1> QED
  BY <1>1, <1>7, <1>9, <1>10 DEF Store!Init

LEMMA RefStep ==
    ASSUME "early" \notin Flushes, RefInv, OneFileNext
    PROVE  RefInv' /\ StoreStep
<1>1. PlacedInv /\ Known /\ Current /\ Callers
  BY DEF RefInv
<1>2. RefInv'
  BY <1>1, PlacedStep, KnownStep, CurrentStep, CallersStep DEF RefInv
<1> SUFFICES StoreStep
  BY <1>2
<1>3. CASE \E c \in Clients : Client(c)
  BY <1>3, ClientSimulates
<1>4. CASE Worker
  BY <1>4, WorkerSimulates DEF OneFileNext
<1>5. CASE Open \/ Destroy \/ Crash
  BY <1>1, <1>5, OpenSimulates, DestroySimulates, CrashSimulates
     DEF StoreStep, Store!Next
<1>6. CASE Close \/ UNCHANGED vars
  <2>1. /\ UNCHANGED <<log, batch, records, applied, lastActiveWrite, writes, synced,
                       issued, acked, wpc, recordMap, stableFiles>>
        /\ UNCHANGED <<pc, ckey, cid, ret>>
    BY <1>6 DEF Close, vars, diskVars, storeVars, mapVars, workerVars, promiseVars,
                clientVars
  <2>2. Visible' = Visible
    BY <2>1 DEF Visible, Shown, InActive, getActiveFD
  <2>3. UNCHANGED <<History, Pending>>
    BY <2>1, <2>2, ViewUnchanged
  <2>4. UNCHANGED <<CallerAt, KeyGot>>
    BY <2>1 DEF CallerAt, KeyGot
  <2> QED
    BY <2>1, <2>3, <2>4 DEF StoreStep, Store!vars, Store!storeVars, Store!clientVars
<1> QED
  BY <1>3, <1>4, <1>5, <1>6 DEF OneFileNext, Next

(* As long as the active file does not reach its limit, every behaviour of *)
(* the program is one of the abstract store: of BitcaskImpl's Get, Delete, *)
(* Put and PutAsync, CommitWrite, the constructor, the destructor, and     *)
(* crashes between two records.                                            *)
THEOREM StoreIsImplemented ==
    ASSUME "early" \notin Flushes
    PROVE  Spec /\ []NotFull => ImplementsKVStore
<1>1. Init => RefInv /\ Store!Init
  BY InitialView
<1>2. RefInv /\ [Next]_vars /\ NotFull' => RefInv'
  BY RefStep DEF NotFull, OneFileNext
<1>3. RefInv /\ [Next]_vars /\ NotFull' => [Store!Next]_(Store!vars)
  BY RefStep DEF NotFull, OneFileNext, StoreStep
<1> QED
  BY <1>1, <1>2, <1>3, PTL DEF Spec, ImplementsKVStore, Store!Spec
=============================================================================
