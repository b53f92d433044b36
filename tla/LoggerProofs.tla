---------------------------- MODULE LoggerProofs ----------------------------
(***************************************************************************)
(* Proofs about Logger, for every set of threads, calls and masks.         *)
(***************************************************************************)
EXTENDS Logger, SequenceTheorems, FiniteSetTheorems, WellFoundedInduction, TLAPS

(* Outside of the loop of formatMsg its cursors are at the start.          *)
CursorsAtStart == \A t \in Threads : pc[t] # "format" => idx[t] = 0 /\ argIdx[t] = 1

IInv == TypeOK /\ CursorsAtStart

Strings == Seq(Pieces)

LEMMA CallTypes ==
    ASSUME TypeOK, NEW t \in Threads
    PROVE  call[t].format \in Strings /\ call[t].args \in Seq(Strings)
<1>1. <<>> \in Strings /\ <<>> \in Seq(Strings)
  BY DEF Strings
<1>2. Idle.format = <<>> /\ Idle.args = <<>>
  BY DEF Idle
<1>3. call[t] \in Calls \cup {Idle}
  BY DEF TypeOK
<1> QED
  BY <1>1, <1>2, <1>3, CallAssumption DEF Strings

LEMMA LeaveStep == ASSUME IInv, NEW t \in Threads, Leave(t)
                   PROVE  IInv'
<1>1. /\ \A u \in Threads \ {t} : /\ pc'[u] = pc[u] /\ args'[u] = args[u]
                                  /\ text'[u] = text[u] /\ idx'[u] = idx[u]
                                  /\ argIdx'[u] = argIdx[u]
      /\ pc'[t] = "idle" /\ args'[t] = <<>> /\ text'[t] = <<>> /\ idx'[t] = 0
      /\ argIdx'[t] = 1
  BY DEF IInv, TypeOK, Leave
<1>2. <<>> \in Seq(Pieces) /\ <<>> \in Seq(Seq(Pieces)) /\ Len(<<>>) = 0
  OBVIOUS
<1>3. /\ args' \in [Threads -> Seq(Seq(Pieces))] /\ text' \in [Threads -> Seq(Pieces)]
      /\ idx' \in [Threads -> Nat] /\ argIdx' \in [Threads -> Nat]
      /\ pc' \in [Threads -> {"idle", "locate", "log", "format"}]
      /\ call' \in [Threads -> Calls \cup {Idle}]
  BY <1>2 DEF IInv, TypeOK, Leave
<1>4. \A u \in Threads : idx'[u] \in 0..Len(text'[u]) /\ argIdx'[u] \in 1..(Len(args'[u]) + 1)
  <2>1. idx'[t] \in 0..Len(text'[t]) /\ argIdx'[t] \in 1..(Len(args'[t]) + 1)
    BY <1>1, <1>2
  <2>2. \A u \in Threads \ {t} : /\ idx'[u] \in 0..Len(text'[u])
                                 /\ argIdx'[u] \in 1..(Len(args'[u]) + 1)
    BY <1>1 DEF IInv, TypeOK
  <2> QED BY <2>1, <2>2
<1>5. CursorsAtStart'
  BY <1>1 DEF IInv, CursorsAtStart
<1>6. {out', err'} \subseteq Sinks \cup {NoSink} /\ allowedLevels' \subseteq Levels
  BY DEF IInv, TypeOK, Leave, staticVars
<1> QED
  BY <1>3, <1>4, <1>5, <1>6 DEF IInv, TypeOK

(* The string with piece i replaced, and its length.                       *)
LEMMA Replaced ==
    ASSUME NEW S, NEW s \in Seq(S), NEW r \in Seq(S), NEW i \in 1..Len(s)
    PROVE  LET new == SubSeq(s, 1, i - 1) \o r \o SubSeq(s, i + 1, Len(s))
           IN  new \in Seq(S) /\ Len(new) = Len(s) - 1 + Len(r)
<1> DEFINE a == SubSeq(s, 1, i - 1)
           b == SubSeq(s, i + 1, Len(s))
<1>1. Len(s) \in Nat /\ Len(r) \in Nat /\ i \in Nat /\ 1 <= i /\ i <= Len(s)
  OBVIOUS
<1>2. a \in Seq(S) /\ Len(a) = i - 1
  BY <1>1, SubSeqProperties
<1>3. b \in Seq(S) /\ Len(b) = Len(s) - i
  BY <1>1, SubSeqProperties
<1> HIDE DEF a, b
<1>4. a \o r \in Seq(S) /\ Len(a \o r) = i - 1 + Len(r)
  BY <1>1, <1>2
<1>5. (a \o r) \o b \in Seq(S) /\ Len((a \o r) \o b) = i - 1 + Len(r) + (Len(s) - i)
  BY <1>1, <1>3, <1>4
<1>6. Len((a \o r) \o b) = Len(s) - 1 + Len(r)
  BY <1>1, <1>5
<1> QED
  BY <1>5, <1>6 DEF a, b

-----------------------------------------------------------------------------
(* Induction, and the first element of a set of numbers.                   *)
LEMMA MinimalIn ==
    ASSUME NEW R, NEW T, T \subseteq Nat, T # {}, IsWellFoundedOn(R, Nat)
    PROVE  \E d \in T : \A e \in T : ~ (<<e, d>> \in R)
BY WFMin

LEMMA FirstOf ==
    ASSUME NEW T, T \subseteq Nat, T # {}
    PROVE  \E d \in T : \A e \in T : d <= e
<1> DEFINE R == {ss \in Nat \X Nat : ss[1] < ss[2]}
<1>1. IsWellFoundedOn(R, Nat)
  BY NatLessThanWellFounded DEF OpToRel
<1>2. PICK d \in T : \A e \in T : ~ (<<e, d>> \in R)
  <2> HIDE DEF R
  <2> QED BY <1>1, MinimalIn
<1>3. ASSUME NEW e \in T PROVE d <= e
  <2>1. d \in Nat /\ e \in Nat /\ ~ (<<e, d>> \in R)
    BY <1>2, <1>3
  <2>2. ~ (e < d)
    BY <2>1
  <2> QED BY <2>1, <2>2
<1> QED
  BY <1>3

LEMMA Induction ==
    ASSUME NEW a \in Nat, NEW b \in Nat, NEW T, a \in T,
           \A m \in a..(b - 1) : m \in T => m + 1 \in T
    PROVE  \A m \in a..b : m \in T
<1> DEFINE Bad == {m \in a..b : m \notin T}
<1> SUFFICES ASSUME Bad # {} PROVE FALSE
  OBVIOUS
<1>1. Bad \subseteq Nat
  OBVIOUS
<1>2. PICK d \in Bad : \A e \in Bad : d <= e
  <2> HIDE DEF Bad
  <2> QED BY <1>1, FirstOf
<1>3. d \in a..b /\ d \notin T /\ d # a
  BY <1>2
<1>4. d - 1 \in a..(b - 1) /\ (d - 1) + 1 = d
  BY <1>3
<1>5. d - 1 \notin Bad
  BY <1>2, <1>4
<1>6. d - 1 \in T
  BY <1>4, <1>5
<1> QED
  BY <1>3, <1>4, <1>6

LEMMA FirstIs ==
    ASSUME TypeOK, NEW t \in Threads, Braces(t) # {}
    PROVE  /\ FirstBrace(t) \in Braces(t) /\ \A j \in Braces(t) : FirstBrace(t) <= j
           /\ FirstBrace(t) \in 1..Len(text[t]) /\ idx[t] < FirstBrace(t)
<1>1. idx[t] \in Nat /\ Len(text[t]) \in Nat
  BY DEF TypeOK
<1>2. Braces(t) \subseteq Nat
  BY <1>1 DEF Braces
<1>3. \E i \in Braces(t) : \A j \in Braces(t) : i <= j
  BY <1>2, FirstOf
<1>4. FirstBrace(t) \in Braces(t) /\ \A j \in Braces(t) : FirstBrace(t) <= j
  BY <1>3 DEF FirstBrace
<1> QED
  BY <1>1, <1>4 DEF Braces

-----------------------------------------------------------------------------
(* Types.                                                                  *)
LEMMA ReplacementType ==
    ASSUME TypeOK, NEW t \in Threads
    PROVE  Replacement(t) \in Strings /\ Len(Replacement(t)) \in Nat
<1>1. args[t] \in Seq(Strings) /\ argIdx[t] \in Nat /\ argIdx[t] >= 1
      /\ Len(args[t]) \in Nat
  BY DEF TypeOK, Strings
<1>2. <<Brace>> \in Strings
  BY CallAssumption DEF Strings
<1>3. argIdx[t] <= Len(args[t]) => args[t][argIdx[t]] \in Strings
  BY <1>1, ElementOfSeq
<1> QED
  BY <1>2, <1>3 DEF Replacement, Strings

LEMMA SubstituteStep ==
    ASSUME IInv, NEW t \in Threads, Substitute(t)
    PROVE  IInv'
<1> DEFINE i == FirstBrace(t)
           r == Replacement(t)
           s == text[t]
           new == SubSeq(s, 1, i - 1) \o r \o SubSeq(s, i + 1, Len(s))
<1>1. /\ pc[t] = "format" /\ Braces(t) # {}
      /\ text' = [text EXCEPT ![t] = new] /\ idx' = [idx EXCEPT ![t] = i - 1 + Len(r)]
      /\ argIdx' = [argIdx EXCEPT ![t] =
                       IF argIdx[t] <= Len(args[t]) THEN argIdx[t] + 1 ELSE argIdx[t]]
      /\ UNCHANGED <<staticVars, pc, call, args>>
  BY DEF Substitute, SubstituteAt
<1>2. i \in 1..Len(s) /\ s \in Seq(Pieces) /\ r \in Seq(Pieces) /\ Len(r) \in Nat
      /\ Len(s) \in Nat
  <2>1. TypeOK
    BY DEF IInv
  <2>2. s \in Seq(Pieces)
    BY <2>1 DEF TypeOK
  <2>3. i \in 1..Len(s)
    BY <1>1, <2>1, FirstIs
  <2>4. r \in Seq(Pieces) /\ Len(r) \in Nat
    BY <2>1, ReplacementType DEF Strings
  <2> HIDE DEF i, r, s
  <2> QED BY <2>2, <2>3, <2>4
<1>3. new \in Seq(Pieces) /\ Len(new) = Len(s) - 1 + Len(r)
  BY <1>2, Replaced
<1> HIDE DEF i, r, new, s
<1>4. i - 1 + Len(r) \in 0..Len(new)
  BY <1>2, <1>3
<1>5. /\ text \in [Threads -> Seq(Pieces)] /\ idx \in [Threads -> Nat]
      /\ argIdx \in [Threads -> Nat] /\ argIdx[t] \in 1..(Len(args[t]) + 1)
      /\ Len(args[t]) \in Nat
  BY DEF IInv, TypeOK
<1>6. /\ text' \in [Threads -> Seq(Pieces)] /\ idx' \in [Threads -> Nat]
      /\ argIdx' \in [Threads -> Nat]
  BY <1>1, <1>3, <1>4, <1>5
<1>7. /\ idx'[t] \in 0..Len(text'[t]) /\ argIdx'[t] \in 1..(Len(args'[t]) + 1)
  BY <1>1, <1>4, <1>5
<1>8. \A u \in Threads \ {t} : idx'[u] = idx[u] /\ argIdx'[u] = argIdx[u] /\ text'[u] = text[u]
  BY <1>1, <1>5
<1>9. \A u \in Threads : idx'[u] \in 0..Len(text'[u]) /\ argIdx'[u] \in 1..(Len(args'[u]) + 1)
  BY <1>1, <1>7, <1>8 DEF IInv, TypeOK
<1>10. CursorsAtStart'
  BY <1>1, <1>8 DEF IInv, CursorsAtStart
<1>11. TypeOK'
  BY <1>1, <1>6, <1>9 DEF IInv, TypeOK, staticVars
<1> QED
  BY <1>10, <1>11 DEF IInv

(* init, and the functions that change the mask.                           *)
LEMMA ConfigureStep == ASSUME IInv, Configure
                       PROVE  IInv'
<1> USE DEF IInv, TypeOK, CursorsAtStart, formatVars
<1>1. \A level : /\ allowedLevels \cap {level} \subseteq Levels
                 /\ allowedLevels \ {level} \subseteq Levels
  OBVIOUS
<1>2. ASSUME NEW levels \in SUBSET Levels, changeLogLevels(levels)
      PROVE  IInv'
  BY <1>2 DEF changeLogLevels
<1>3. ASSUME NEW levels \in Masks, NEW o \in Sinks \cup {NoSink},
             NEW e \in Sinks \cup {NoSink}, SetSinks(levels, o, e)
      PROVE  IInv'
  BY <1>3, LevelAssumption DEF SetSinks
<1>4. CASE stopLogging
  BY <1>2, <1>4 DEF stopLogging
<1>5. ASSUME NEW level \in UsedLevels, enable(level) \/ disable(level)
      PROVE  IInv'
  BY <1>1, <1>2, <1>5 DEF enable, disable
<1> QED
  BY <1>2, <1>3, <1>4, <1>5, LevelAssumption DEF Configure

LEMMA BeginStep == ASSUME IInv, NEW t \in Threads, NEW c \in Calls, Begin(t, c)
                   PROVE  IInv'
<1>1. /\ pc' = [pc EXCEPT ![t] = "locate"] /\ call' = [call EXCEPT ![t] = c]
      /\ UNCHANGED <<staticVars, args, formatVars>> /\ pc[t] = "idle"
  BY DEF Begin
<1>2. TypeOK'
  BY <1>1 DEF IInv, TypeOK, staticVars, formatVars
<1>3. CursorsAtStart'
  BY <1>1 DEF IInv, TypeOK, CursorsAtStart, formatVars
<1> QED
  BY <1>2, <1>3 DEF IInv

LEMMA LocateStep == ASSUME IInv, NEW t \in Threads, Locate(t)
                    PROVE  IInv'
<1> DEFINE new == IF call[t].level = "debug" \/ allowed("debug")
                  THEN call[t].args \o Location ELSE call[t].args
<1>1. /\ pc[t] = "locate" /\ pc' = [pc EXCEPT ![t] = "log"]
      /\ args' = [args EXCEPT ![t] = new]
      /\ UNCHANGED <<staticVars, call, formatVars>>
  BY DEF Locate
<1>2. new \in Seq(Seq(Pieces)) /\ Len(new) \in Nat
  BY CallTypes, CallAssumption DEF IInv, Strings
<1> HIDE DEF new
<1>3. /\ args' \in [Threads -> Seq(Seq(Pieces))] /\ args'[t] = new
      /\ \A u \in Threads \ {t} : args'[u] = args[u]
  BY <1>1, <1>2 DEF IInv, TypeOK
<1>4. argIdx[t] = 1
  BY <1>1 DEF IInv, CursorsAtStart
<1>5. \A u \in Threads : argIdx[u] \in 1..(Len(args'[u]) + 1)
  <2>1. argIdx[t] \in 1..(Len(args'[t]) + 1)
    BY <1>2, <1>3, <1>4
  <2> QED BY <1>3, <2>1 DEF IInv, TypeOK
<1>6. TypeOK'
  BY <1>1, <1>3, <1>5 DEF IInv, TypeOK, staticVars, formatVars
<1>7. CursorsAtStart'
  BY <1>1 DEF IInv, TypeOK, CursorsAtStart, formatVars
<1> QED
  BY <1>6, <1>7 DEF IInv

LEMMA LogStep == ASSUME IInv, NEW t \in Threads, Log(t)
                 PROVE  IInv'
<1>1. /\ pc[t] = "log" /\ pc' = [pc EXCEPT ![t] = "format"]
      /\ text' = [text EXCEPT ![t] = call[t].format]
      /\ UNCHANGED <<staticVars, call, args, idx, argIdx>>
  BY DEF Log
<1>2. call[t].format \in Seq(Pieces) /\ Len(call[t].format) \in Nat
  BY CallTypes DEF IInv, Strings
<1>3. /\ text' \in [Threads -> Seq(Pieces)] /\ text'[t] = call[t].format
      /\ \A u \in Threads \ {t} : text'[u] = text[u]
  BY <1>1, <1>2 DEF IInv, TypeOK
<1>4. idx[t] = 0
  BY <1>1 DEF IInv, CursorsAtStart
<1>5. \A u \in Threads : idx[u] \in 0..Len(text'[u])
  <2>1. idx[t] \in 0..Len(text'[t])
    BY <1>2, <1>3, <1>4
  <2> QED BY <1>3, <2>1 DEF IInv, TypeOK
<1>6. TypeOK'
  BY <1>1, <1>3, <1>5 DEF IInv, TypeOK, staticVars
<1>7. CursorsAtStart'
  BY <1>1 DEF IInv, TypeOK, CursorsAtStart
<1> QED
  BY <1>6, <1>7 DEF IInv

LEMMA InitIInv == Init => IInv
<1> SUFFICES ASSUME Init PROVE IInv
  OBVIOUS
<1>1. <<>> \in Seq(Pieces) /\ <<>> \in Seq(Seq(Pieces)) /\ Len(<<>>) = 0
  OBVIOUS
<1>2. TypeOK
  BY <1>1 DEF Init, TypeOK
<1> QED
  BY <1>2 DEF Init, IInv, CursorsAtStart

LEMMA StepIInv == IInv /\ [Next]_vars => IInv'
<1> SUFFICES ASSUME IInv, [Next]_vars PROVE IInv'
  OBVIOUS
<1>1. CASE UNCHANGED vars
  BY <1>1 DEF vars, staticVars, formatVars, IInv, TypeOK, CursorsAtStart
<1>2. ASSUME NEW t \in Threads, Drop(t) \/ Send(t)
      PROVE  IInv'
  BY <1>2, LeaveStep DEF Drop, Send
<1> QED
  BY <1>1, <1>2, ConfigureStep, BeginStep, LocateStep, LogStep, SubstituteStep
     DEF Next, InCall

(* In every reachable state the cursor of formatMsg lies inside the string *)
(* that it rewrites, and the next argument is one of those passed or none  *)
(* is left (init, changeLogLevels, formatMsg).                             *)
THEOREM Typing == Spec => []TypeOK
<1>1. IInv => TypeOK
  BY DEF IInv
<1> QED
  BY <1>1, InitIInv, StepIInv, PTL DEF Spec

-----------------------------------------------------------------------------
(* The sinks.                                                              *)
HeardOrSilent == err = NoSink => out = NoSink

(* Once a program has handed over a function for ordinary messages, the    *)
(* messages of all levels are heard, in whatever order and with whatever   *)
(* arguments it calls init (init, logImpl).                                *)
THEOREM ErrorsAreHeard == Spec => []ErrorsHeard
<1>1. Init => HeardOrSilent
  BY DEF Init, HeardOrSilent
<1>2. HeardOrSilent /\ [Next]_vars => HeardOrSilent'
  <2> SUFFICES ASSUME HeardOrSilent, [Next]_vars PROVE HeardOrSilent'
    OBVIOUS
  <2>1. CASE UNCHANGED <<out, err>>
    BY <2>1 DEF HeardOrSilent
  <2>2. ASSUME NEW levels \in Masks, NEW o \in Sinks \cup {NoSink},
               NEW e \in Sinks \cup {NoSink}, SetSinks(levels, o, e)
        PROVE  HeardOrSilent'
    BY <2>2 DEF SetSinks, HeardOrSilent
  <2>3. ASSUME NEW t \in Threads, InCall(t) \/ \E c \in Calls : Begin(t, c)
        PROVE  UNCHANGED <<out, err>>
    BY <2>3 DEF InCall, Begin, Locate, Log, Drop, Substitute, SubstituteAt, Send, Leave,
       staticVars
  <2>4. CASE UNCHANGED vars
    BY <2>1, <2>4 DEF vars, staticVars
  <2> QED
    BY <2>1, <2>2, <2>3, <2>4 DEF Next, Configure, changeLogLevels, stopLogging,
       enable, disable
<1>3. HeardOrSilent => ErrorsHeard
  BY DEF HeardOrSilent, ErrorsHeard, Sink
<1> QED
  BY <1>1, <1>2, <1>3, PTL DEF Spec

-----------------------------------------------------------------------------
(* Joining sequences: FlattenSeq and what it has joined after k of them.   *)
Joins(s, n, h) == h = [i \in 1..n |-> IF i = 1 THEN s[i] ELSE h[i - 1] \o s[i]]

Joined(s, k) == IF k = 0 THEN <<>> ELSE (CHOOSE h : Joins(s, Len(s), h))[k]

LEMMA JoinExists ==
    ASSUME NEW s, NEW n \in Nat
    PROVE  \E h : Joins(s, n, h)
<1> DEFINE T == {m \in Nat : \E h : Joins(s, m, h)}
<1>1. 0 \in T
  <2> DEFINE h == [i \in 1..0 |-> s[i]]
  <2>1. h = [i \in 1..0 |-> IF i = 1 THEN s[i] ELSE h[i - 1] \o s[i]]
    OBVIOUS
  <2>2. Joins(s, 0, h)
    BY <2>1 DEF Joins
  <2> QED BY <2>2
<1>2. ASSUME NEW m \in 0..(n - 1), m \in T
      PROVE  m + 1 \in T
  <2>1. PICK h : Joins(s, m, h)
    BY <1>2
  <2> DEFINE last == IF m = 0 THEN s[1] ELSE h[m] \o s[m + 1]
             g == [i \in 1..(m + 1) |-> IF i = m + 1 THEN last ELSE h[i]]
  <2>2. \A i \in 1..m : h[i] = IF i = 1 THEN s[i] ELSE h[i - 1] \o s[i]
    BY <2>1 DEF Joins
  <2>3. ASSUME NEW i \in 1..(m + 1)
        PROVE  g[i] = IF i = 1 THEN s[i] ELSE g[i - 1] \o s[i]
    <3>1. CASE i = m + 1
      <4>1. g[i] = last
        BY <3>1
      <4>2. m # 0 => g[i - 1] = h[m]
        BY <3>1
      <4>3. i = 1 <=> m = 0
        BY <3>1
      <4> QED BY <3>1, <4>1, <4>2, <4>3
    <3>2. CASE i # m + 1
      <4>1. i \in 1..m /\ g[i] = h[i]
        BY <3>2
      <4>2. i # 1 => i - 1 \in 1..(m + 1) /\ i - 1 # m + 1
        BY <4>1
      <4>3. i # 1 => g[i - 1] = h[i - 1]
        BY <4>2
      <4> QED BY <2>2, <4>1, <4>3
    <3> QED BY <3>1, <3>2
  <2>4. Joins(s, m + 1, g)
    <3> DEFINE f == [i \in 1..(m + 1) |-> IF i = 1 THEN s[i] ELSE g[i - 1] \o s[i]]
    <3>1. \A i \in 1..(m + 1) : g[i] = f[i]
      BY <2>3
    <3>2. g = f
      BY <3>1
    <3> QED BY <3>2 DEF Joins
  <2> QED BY <2>4
<1>3. \A m \in 0..n : m \in T
  <2> HIDE DEF T
  <2> QED BY <1>1, <1>2, Induction
<1> QED
  BY <1>3

LEMMA JoinedIs ==
    ASSUME NEW S, NEW s \in Seq(Seq(S))
    PROVE  /\ Joined(s, 0) = <<>>
           /\ \A k \in 0..(Len(s) - 1) :
                Joined(s, k) \in Seq(S) => /\ s[k + 1] \in Seq(S)
                                           /\ Joined(s, k + 1) = Joined(s, k) \o s[k + 1]
           /\ \A k \in 0..Len(s) : Joined(s, k) \in Seq(S)
           /\ FlattenSeq(s) = Joined(s, Len(s))
<1> DEFINE h == CHOOSE h : Joins(s, Len(s), h)
<1>1. Len(s) \in Nat
  OBVIOUS
<1>2. Joins(s, Len(s), h)
  BY <1>1, JoinExists
<1>3. \A i \in 1..Len(s) : h[i] = IF i = 1 THEN s[i] ELSE h[i - 1] \o s[i]
  <2> HIDE DEF h
  <2> QED BY <1>2 DEF Joins
<1>4. Joined(s, 0) = <<>> /\ \A k \in 1..Len(s) : Joined(s, k) = h[k]
  BY DEF Joined
<1> HIDE DEF h
<1>5. ASSUME NEW k \in 0..(Len(s) - 1), Joined(s, k) \in Seq(S)
      PROVE  s[k + 1] \in Seq(S) /\ Joined(s, k + 1) = Joined(s, k) \o s[k + 1]
  <2>1. k + 1 \in 1..Len(s) /\ (k + 1) - 1 = k /\ (k + 1 = 1 <=> k = 0)
    BY <1>1
  <2>2. s[k + 1] \in Seq(S)
    BY <2>1, ElementOfSeq
  <2>3. CASE k = 0
    <3>1. Joined(s, k + 1) = s[k + 1] /\ Joined(s, k) = <<>>
      BY <1>3, <1>4, <2>1, <2>3
    <3>2. <<>> \o s[k + 1] = s[k + 1]
      BY <2>2, ConcatEmptySeq
    <3> QED BY <2>2, <3>1, <3>2
  <2>4. CASE k # 0
    <3>1. k \in 1..Len(s)
      BY <1>1, <2>4
    <3> QED BY <1>3, <1>4, <2>1, <2>2, <2>4, <3>1
  <2> QED BY <2>3, <2>4
<1>6. \A k \in 0..Len(s) : Joined(s, k) \in Seq(S)
  <2> DEFINE T == {k \in Nat : Joined(s, k) \in Seq(S)}
  <2>1. 0 \in T
    <3>1. <<>> \in Seq(S)
      OBVIOUS
    <3> QED BY <1>4, <3>1
  <2>2. ASSUME NEW k \in 0..(Len(s) - 1), k \in T
        PROVE  k + 1 \in T
    <3>1. Joined(s, k) \in Seq(S)
      BY <2>2
    <3>2. s[k + 1] \in Seq(S) /\ Joined(s, k + 1) = Joined(s, k) \o s[k + 1]
      BY <1>5, <3>1
    <3>3. Joined(s, k + 1) \in Seq(S)
      BY <3>1, <3>2, ConcatProperties
    <3> QED BY <3>3
  <2>3. \A k \in 0..Len(s) : k \in T
    <3> HIDE DEF T
    <3> QED BY <1>1, <2>1, <2>2, Induction
  <2> QED BY <2>3
<1>7. FlattenSeq(s) = Joined(s, Len(s))
  <2>1. CASE Len(s) = 0
    <3>1. s = <<>> /\ FlattenSeq(s) = s
      BY <2>1 DEF FlattenSeq
    <3> QED BY <1>4, <2>1, <3>1
  <2>2. CASE Len(s) # 0
    <3>1. s # <<>>
      BY <2>2
    <3>2. FlattenSeq(s) =
            (CHOOSE g : g = [i \in 1..Len(s) |-> IF i = 1 THEN s[i] ELSE g[i - 1] \o s[i]])[Len(s)]
      BY <3>1 DEF FlattenSeq
    <3>3. FlattenSeq(s) = (CHOOSE g : Joins(s, Len(s), g))[Len(s)]
      BY <3>2 DEF Joins
    <3> QED BY <2>2, <3>3 DEF Joined
  <2> QED BY <2>1, <2>2
<1> QED
  BY <1>4, <1>5, <1>6, <1>7

-----------------------------------------------------------------------------
(* The pieces of a string behind the first k.                              *)
Rest(s, k) == SubSeq(s, k + 1, Len(s))

LEMMA RestType ==
    ASSUME NEW S, NEW s \in Seq(S), NEW k \in 0..Len(s)
    PROVE  /\ Rest(s, k) \in Seq(S) /\ Len(Rest(s, k)) = Len(s) - k
           /\ \A i \in 1..(Len(s) - k) : Rest(s, k)[i] = s[k + i]
<1>1. Len(s) \in Nat /\ k \in Nat /\ k <= Len(s)
  OBVIOUS
<1>2. \A i \in (k + 1)..Len(s) : s[i] \in S
  BY <1>1
<1>3. /\ Rest(s, k) \in Seq(S)
      /\ Len(Rest(s, k)) = IF k + 1 <= Len(s) THEN Len(s) - (k + 1) + 1 ELSE 0
      /\ \A i \in 1..(Len(s) - (k + 1) + 1) : Rest(s, k)[i] = s[(k + 1) + i - 1]
  BY <1>1, <1>2, SubSeqProperties DEF Rest
<1>4. \A i \in 1..(Len(s) - k) : Rest(s, k)[i] = s[k + i]
  BY <1>1, <1>3
<1> QED
  BY <1>1, <1>3, <1>4

LEMMA RestFirst ==
    ASSUME NEW S, NEW s \in Seq(S), NEW k \in 0..(Len(s) - 1)
    PROVE  /\ s[k + 1] \in S /\ k + 1 \in 0..Len(s) /\ k \in 0..Len(s)
           /\ Rest(s, k) = <<s[k + 1]>> \o Rest(s, k + 1)
<1>1. k + 1 \in 1..Len(s) /\ Len(s) \in (k + 1)..Len(s) /\ k \in 0..Len(s)
      /\ k + 1 \in 0..Len(s)
  OBVIOUS
<1>2. s[k + 1] \in S
  BY <1>1, ElementOfSeq
<1>3. Rest(s, k) = <<s[k + 1]>> \o Rest(s, k + 1)
  BY <1>1, SubSeqRecursiveFirst DEF Rest
<1> QED
  BY <1>1, <1>2, <1>3

(* Of a joined string, the part in front of a piece and the part behind.   *)
LEMMA Around ==
    ASSUME NEW S, NEW j \in Seq(S), NEW r \in Seq(S), Len(r) # 0
    PROVE  LET s == j \o r
           IN  /\ SubSeq(s, 1, Len(j)) = j
               /\ SubSeq(s, Len(j) + 2, Len(s)) = Rest(r, 1)
<1> DEFINE s == j \o r
           a == SubSeq(s, 1, Len(j))
           b == SubSeq(s, Len(j) + 2, Len(s))
<1>1. Len(j) \in Nat /\ Len(r) \in Nat /\ Len(r) > 0
  OBVIOUS
<1>2. /\ s \in Seq(S) /\ Len(s) = Len(j) + Len(r)
      /\ \A i \in 1..(Len(j) + Len(r)) : s[i] = IF i <= Len(j) THEN j[i] ELSE r[i - Len(j)]
  BY ConcatProperties
<1> HIDE DEF s
<1>3. \A i \in 1..Len(s) : s[i] \in S
  BY <1>2, ElementOfSeq
<1>4. a = j
  <2>1. \A i \in 1..Len(j) : s[i] \in S /\ s[i] = j[i]
    BY <1>1, <1>2, <1>3
  <2>2. /\ a \in Seq(S) /\ Len(a) = IF 1 <= Len(j) THEN Len(j) - 1 + 1 ELSE 0
        /\ \A i \in 1..(Len(j) - 1 + 1) : a[i] = s[1 + i - 1]
    BY <1>1, <2>1, SubSeqProperties
  <2> HIDE DEF a
  <2>3. Len(a) = Len(j) /\ \A i \in 1..Len(a) : a[i] = j[i]
    BY <1>1, <2>1, <2>2
  <2> QED BY <2>2, <2>3, SeqEqual
<1>5. b = Rest(r, 1)
  <2>1. \A i \in (Len(j) + 2)..Len(s) : s[i] \in S
    BY <1>1, <1>2, <1>3
  <2>2. Len(j) + 2 \in Int /\ Len(s) \in Int
    BY <1>1, <1>2
  <2>3. /\ b \in Seq(S)
        /\ Len(b) = IF Len(j) + 2 <= Len(s) THEN Len(s) - (Len(j) + 2) + 1 ELSE 0
        /\ \A i \in 1..(Len(s) - (Len(j) + 2) + 1) : b[i] = s[(Len(j) + 2) + i - 1]
    BY <2>1, <2>2, SubSeqProperties
  <2>4. /\ Rest(r, 1) \in Seq(S) /\ Len(Rest(r, 1)) = Len(r) - 1
        /\ \A i \in 1..(Len(r) - 1) : Rest(r, 1)[i] = r[1 + i]
    <3>1. 1 \in 0..Len(r)
      BY <1>1
    <3> QED BY <3>1, RestType
  <2> HIDE DEF b
  <2>5. Len(b) = Len(r) - 1
    <3> DEFINE lj == Len(j)
               lr == Len(r)
               ls == Len(s)
               lb == Len(b)
    <3>1. /\ lj \in Nat /\ lr \in Nat /\ lr > 0 /\ ls = lj + lr
          /\ lb = IF lj + 2 <= ls THEN ls - (lj + 2) + 1 ELSE 0
      BY <1>1, <1>2, <2>3
    <3> HIDE DEF lj, lr, ls, lb
    <3>2. lb = lr - 1
      BY <3>1
    <3> QED BY <3>2 DEF lb, lr
  <2>6. ASSUME NEW i \in 1..(Len(r) - 1)
        PROVE  b[i] = r[1 + i]
    <3>1. /\ (Len(j) + 2) + i - 1 \in 1..(Len(j) + Len(r))
          /\ ~ ((Len(j) + 2) + i - 1 <= Len(j))
          /\ ((Len(j) + 2) + i - 1) - Len(j) = 1 + i
          /\ i \in 1..(Len(s) - (Len(j) + 2) + 1)
      BY <1>1, <1>2
    <3> QED BY <1>2, <2>3, <3>1
  <2> QED BY <2>3, <2>4, <2>5, <2>6, SeqEqual
<1> QED
  BY <1>4, <1>5 DEF s, a, b

-----------------------------------------------------------------------------
(* The placeholders of a format string, and what its pieces stand for.     *)
LEMMA RankFacts ==
    ASSUME NEW f
    PROVE  /\ Rank(f, 0) = 0
           /\ \A k \in Nat : /\ Rank(f, k) \in Nat
                             /\ Rank(f, k + 1) = IF f[k + 1] = Brace THEN Rank(f, k) + 1
                                                ELSE Rank(f, k)
<1> DEFINE B(k) == {j \in 1..k : f[j] = Brace}
<1>1. Rank(f, 0) = 0
  <2>1. B(0) = {}
    OBVIOUS
  <2> QED BY <2>1, FS_EmptySet DEF Rank
<1>2. ASSUME NEW k \in Nat
      PROVE  /\ IsFiniteSet(B(k)) /\ Rank(f, k) \in Nat
  <2>1. IsFiniteSet(1..k)
    BY FS_Interval
  <2>2. B(k) \subseteq 1..k
    OBVIOUS
  <2>3. IsFiniteSet(B(k))
    BY <2>1, <2>2, FS_Subset
  <2> QED BY <2>3, FS_CardinalityType DEF Rank
<1>3. ASSUME NEW k \in Nat
      PROVE  Rank(f, k + 1) = IF f[k + 1] = Brace THEN Rank(f, k) + 1 ELSE Rank(f, k)
  <2>1. CASE f[k + 1] = Brace
    <3>1. B(k + 1) = B(k) \cup {k + 1} /\ k + 1 \notin B(k)
      BY <2>1
    <3>2. Cardinality(B(k) \cup {k + 1}) = Cardinality(B(k)) + 1
      BY <1>2, <3>1, FS_AddElement
    <3> QED BY <2>1, <3>1, <3>2 DEF Rank
  <2>2. CASE f[k + 1] # Brace
    <3>1. B(k + 1) = B(k)
      BY <2>2
    <3> QED BY <2>2, <3>1 DEF Rank
  <2> QED BY <2>1, <2>2
<1> QED
  BY <1>1, <1>2, <1>3

LEMMA MeaningType ==
    ASSUME NEW f \in Strings, NEW a \in Seq(Strings)
    PROVE  /\ Meaning(f, a) \in Seq(Strings) /\ Len(Meaning(f, a)) = Len(f)
           /\ \A k \in 0..(Len(f) - 1) :
                Meaning(f, a)[k + 1] =
                    IF f[k + 1] = Brace /\ Rank(f, k + 1) <= Len(a)
                    THEN a[Rank(f, k + 1)] ELSE <<f[k + 1]>>
<1>1. Len(f) \in Nat /\ Len(a) \in Nat /\ DOMAIN f = 1..Len(f)
  BY DEF Strings
<1>2. ASSUME NEW i \in 1..Len(f)
      PROVE  (IF f[i] = Brace /\ Rank(f, i) <= Len(a) THEN a[Rank(f, i)] ELSE <<f[i]>>)
             \in Strings
  <2>1. f[i] \in Pieces
    BY ElementOfSeq DEF Strings
  <2>2. <<f[i]>> \in Strings
    BY <2>1 DEF Strings
  <2>3. ASSUME f[i] = Brace, Rank(f, i) <= Len(a)
        PROVE  a[Rank(f, i)] \in Strings
    <3>1. i - 1 \in Nat /\ (i - 1) + 1 = i
      BY <1>1
    <3>2. Rank(f, i - 1) \in Nat /\ Rank(f, i) = Rank(f, i - 1) + 1
      BY <2>3, <3>1, RankFacts
    <3>3. Rank(f, i) \in 1..Len(a)
      BY <1>1, <2>3, <3>2
    <3> QED BY <3>3, ElementOfSeq
  <2> QED BY <2>2, <2>3
<1>3. Meaning(f, a) \in [1..Len(f) -> Strings]
  BY <1>1, <1>2 DEF Meaning
<1>4. Meaning(f, a) \in Seq(Strings) /\ Len(Meaning(f, a)) = Len(f)
  BY <1>1, <1>3
<1>5. \A k \in 0..(Len(f) - 1) : k + 1 \in DOMAIN f
  BY <1>1
<1> QED
  BY <1>4, <1>5 DEF Meaning

(* What the loop has made of the first k pieces, and the others.           *)
After(f, a, k) == Joined(Meaning(f, a), k)

LEMMA AfterFacts ==
    ASSUME NEW f \in Strings, NEW a \in Seq(Strings)
    PROVE  /\ After(f, a, 0) = <<>>
           /\ \A k \in 0..Len(f) : After(f, a, k) \in Strings
           /\ \A k \in 0..(Len(f) - 1) :
                /\ Meaning(f, a)[k + 1] \in Strings
                /\ After(f, a, k + 1) = After(f, a, k) \o Meaning(f, a)[k + 1]
           /\ After(f, a, Len(f)) = Filled(f, a)
<1> DEFINE M == Meaning(f, a)
<1>1. M \in Seq(Seq(Pieces)) /\ Len(M) = Len(f)
  BY MeaningType DEF Strings
<1>2. Len(f) \in Nat
  BY DEF Strings
<1> HIDE DEF M
<1>3. /\ Joined(M, 0) = <<>>
      /\ \A k \in 0..(Len(f) - 1) :
            Joined(M, k) \in Seq(Pieces) =>
               M[k + 1] \in Seq(Pieces) /\ Joined(M, k + 1) = Joined(M, k) \o M[k + 1]
      /\ \A k \in 0..Len(f) : Joined(M, k) \in Seq(Pieces)
      /\ FlattenSeq(M) = Joined(M, Len(f))
  BY <1>1, JoinedIs
<1>4. \A k \in 0..(Len(f) - 1) : k \in 0..Len(f)
  BY <1>2
<1> QED
  BY <1>3, <1>4 DEF After, Filled, M, Strings

(* Passing over a piece that is not a placeholder leaves the string as it  *)
(* is and moves the boundary between what is done and what is left.        *)
Seen(f, a, k) == After(f, a, k) \o Rest(f, k)

LEMMA PassOne ==
    ASSUME NEW f \in Strings, NEW a \in Seq(Strings), NEW k \in 0..(Len(f) - 1),
           f[k + 1] # Brace
    PROVE  /\ Seen(f, a, k + 1) = Seen(f, a, k)
           /\ Len(After(f, a, k + 1)) = Len(After(f, a, k)) + 1
           /\ Rank(f, k + 1) = Rank(f, k)
<1> DEFINE x == <<f[k + 1]>>
           j == After(f, a, k)
           r == Rest(f, k + 1)
<1>1. f \in Seq(Pieces) /\ Len(f) \in Nat /\ k \in Nat /\ k \in 0..Len(f) /\ k + 1 \in 0..Len(f)
  BY DEF Strings
<1>2. f[k + 1] \in Pieces /\ Rest(f, k) = x \o r
  BY <1>1, RestFirst
<1>3. x \in Seq(Pieces) /\ Len(x) = 1
  BY <1>2
<1>4. r \in Seq(Pieces)
  BY <1>1, RestType
<1>5. j \in Seq(Pieces)
  BY <1>1, AfterFacts DEF Strings
<1>6. After(f, a, k + 1) = j \o x
  BY MeaningType, AfterFacts
<1>7. Rank(f, k + 1) = Rank(f, k)
  BY <1>1, RankFacts
<1>8. Rest(f, k + 1) = r
  OBVIOUS
<1>9. After(f, a, k) = j
  OBVIOUS
<1> HIDE DEF x, j, r
<1>10. (j \o x) \o r = j \o (x \o r)
  BY <1>3, <1>4, <1>5, ConcatAssociative
<1>11. Len(j \o x) = Len(j) + 1
  <2>1. Len(j \o x) = Len(j) + Len(x)
    BY <1>3, <1>5, ConcatProperties
  <2> QED BY <1>3, <2>1
<1> QED
  BY <1>2, <1>6, <1>7, <1>8, <1>9, <1>10, <1>11 DEF Seen

LEMMA PassOver ==
    ASSUME NEW f \in Strings, NEW a \in Seq(Strings),
           NEW k \in 0..Len(f), NEW m \in k..Len(f),
           \A i \in k..(m - 1) : f[i + 1] # Brace
    PROVE  /\ Seen(f, a, m) = Seen(f, a, k)
           /\ Len(After(f, a, m)) = Len(After(f, a, k)) + (m - k)
           /\ Rank(f, m) = Rank(f, k)
<1> DEFINE T == {i \in Nat : /\ Seen(f, a, i) = Seen(f, a, k)
                            /\ Len(After(f, a, i)) = Len(After(f, a, k)) + (i - k)
                            /\ Rank(f, i) = Rank(f, k)}
<1>1. Len(f) \in Nat /\ k \in Nat /\ m \in Nat /\ k <= m /\ m <= Len(f)
  BY DEF Strings
<1>2. Len(After(f, a, k)) \in Nat
  BY AfterFacts DEF Strings
<1>3. k \in T
  BY <1>1, <1>2
<1>4. ASSUME NEW i \in k..(m - 1), i \in T
      PROVE  i + 1 \in T
  <2>1. i \in 0..(Len(f) - 1) /\ i \in Nat /\ i + 1 \in Nat /\ f[i + 1] # Brace
    BY <1>1
  <2>2. /\ Seen(f, a, i + 1) = Seen(f, a, i)
        /\ Len(After(f, a, i + 1)) = Len(After(f, a, i)) + 1
        /\ Rank(f, i + 1) = Rank(f, i)
    BY <2>1, PassOne
  <2>3. Len(After(f, a, k)) + (i - k) + 1 = Len(After(f, a, k)) + ((i + 1) - k)
    BY <1>1, <1>2, <2>1
  <2> QED BY <1>4, <2>1, <2>2, <2>3
<1>5. \A i \in k..m : i \in T
  <2> HIDE DEF T
  <2> QED BY <1>1, <1>3, <1>4, Induction
<1>6. m \in T
  BY <1>1, <1>5
<1> QED
  BY <1>6

-----------------------------------------------------------------------------
(* The loop of formatMsg.  After some pieces of the format string, what    *)
(* they stand for is in front of the cursor, and the others, untouched,    *)
(* are behind it; every placeholder passed has taken one argument.         *)
NextArg(f, a, k) == IF Rank(f, k) <= Len(a) THEN Rank(f, k) + 1 ELSE Len(a) + 1

Formatted(t, k) ==
    LET f == call[t].format
        a == args[t]
    IN  /\ text[t] = Seen(f, a, k)
        /\ idx[t] = Len(After(f, a, k))
        /\ argIdx[t] = NextArg(f, a, k)

InProgress ==
    \A t \in Threads : pc[t] = "format" =>
        \E k \in 0..Len(call[t].format) : Formatted(t, k)

(* A placeholder of the text behind the cursor is one of the format.       *)
LEMMA Behind ==
    ASSUME TypeOK, NEW t \in Threads, NEW k \in 0..Len(call[t].format), Formatted(t, k)
    PROVE  /\ Len(text[t]) = idx[t] + (Len(call[t].format) - k)
           /\ \A i \in k..(Len(call[t].format) - 1) :
                 text[t][idx[t] + (i - k) + 1] = call[t].format[i + 1]
<1> DEFINE f == call[t].format
           j == After(f, args[t], k)
           r == Rest(f, k)
<1>1. f \in Seq(Pieces) /\ f \in Strings /\ args[t] \in Seq(Strings)
  BY CallTypes DEF TypeOK, Strings
<1>2. Len(f) \in Nat /\ k \in 0..Len(f)
  BY <1>1
<1>3. j \in Seq(Pieces) /\ Len(j) \in Nat
  <2> HIDE DEF f
  <2> QED BY <1>1, <1>2, AfterFacts DEF Strings
<1>4. /\ r \in Seq(Pieces) /\ Len(r) = Len(f) - k
      /\ \A i \in 1..(Len(f) - k) : r[i] = f[k + i]
  <2> HIDE DEF f
  <2> QED BY <1>1, <1>2, RestType
<1>5. text[t] = j \o r /\ idx[t] = Len(j)
  BY DEF Formatted, Seen
<1> HIDE DEF f, j, r
<1>6. /\ Len(j \o r) = Len(j) + (Len(f) - k)
      /\ \A i \in 1..(Len(j) + Len(r)) :
            (j \o r)[i] = IF i <= Len(j) THEN j[i] ELSE r[i - Len(j)]
  BY <1>3, <1>4, ConcatProperties
<1>7. ASSUME NEW i \in k..(Len(f) - 1)
      PROVE  text[t][idx[t] + (i - k) + 1] = f[i + 1]
  <2> DEFINE p == Len(j) + (i - k) + 1
  <2>1. /\ p \in 1..(Len(j) + Len(r)) /\ ~ (p <= Len(j))
        /\ p - Len(j) = (i - k) + 1
        /\ (i - k) + 1 \in 1..(Len(f) - k) /\ k + ((i - k) + 1) = i + 1
    BY <1>2, <1>3, <1>4
  <2> HIDE DEF p
  <2>2. (j \o r)[p] = r[(i - k) + 1]
    BY <1>6, <2>1
  <2>3. r[(i - k) + 1] = f[i + 1]
    BY <1>4, <2>1
  <2> QED BY <1>5, <2>2, <2>3 DEF p
<1> QED
  BY <1>5, <1>6, <1>7 DEF f

(* What a turn of the loop puts in is what the placeholder stands for, and *)
(* the argument it takes is passed.                                        *)
LEMMA TakesArgument ==
    ASSUME IInv, NEW t \in Threads, NEW m \in 0..(Len(call[t].format) - 1),
           call[t].format[m + 1] = Brace,
           argIdx[t] = NextArg(call[t].format, args[t], m)
    PROVE  /\ Replacement(t) = Meaning(call[t].format, args[t])[m + 1]
           /\ (IF argIdx[t] <= Len(args[t]) THEN argIdx[t] + 1 ELSE argIdx[t])
                = NextArg(call[t].format, args[t], m + 1)
<1> DEFINE f == call[t].format
           a == args[t]
           R == Rank(f, m)
<1>1. f \in Strings /\ a \in Seq(Strings) /\ Len(a) \in Nat /\ Len(f) \in Nat
  BY CallTypes DEF IInv, TypeOK, Strings
<1>2. m \in Nat
  BY <1>1
<1>3. R \in Nat /\ Rank(f, m + 1) = R + 1
  BY <1>2, RankFacts
<1>4. Meaning(f, a)[m + 1] = IF R + 1 <= Len(a) THEN a[R + 1] ELSE <<Brace>>
  <2>1. Meaning(f, a)[m + 1] = IF f[m + 1] = Brace /\ Rank(f, m + 1) <= Len(a)
                               THEN a[Rank(f, m + 1)] ELSE <<f[m + 1]>>
    <3> HIDE DEF f, a
    <3> QED BY <1>1, MeaningType DEF f
  <2> QED BY <1>3, <2>1
<1>5. argIdx[t] = IF R <= Len(a) THEN R + 1 ELSE Len(a) + 1
  BY DEF NextArg
<1>6. NextArg(f, a, m + 1) = IF R + 1 <= Len(a) THEN (R + 1) + 1 ELSE Len(a) + 1
  BY <1>3 DEF NextArg
<1>7. Replacement(t) = IF argIdx[t] <= Len(a) THEN a[argIdx[t]] ELSE <<Brace>>
  BY DEF Replacement
<1> HIDE DEF f, a, R
<1>8. (argIdx[t] <= Len(a) <=> R + 1 <= Len(a)) /\ (argIdx[t] <= Len(a) => argIdx[t] = R + 1)
      /\ (~ (argIdx[t] <= Len(a)) => argIdx[t] = Len(a) + 1)
  BY <1>1, <1>3, <1>5
<1>9. Replacement(t) = Meaning(f, a)[m + 1]
  BY <1>4, <1>7, <1>8
<1>10. (IF argIdx[t] <= Len(a) THEN argIdx[t] + 1 ELSE argIdx[t]) = NextArg(f, a, m + 1)
  BY <1>6, <1>8
<1> QED
  BY <1>9, <1>10 DEF f, a

LEMMA RestRest ==
    ASSUME NEW S, NEW s \in Seq(S), NEW m \in 0..(Len(s) - 1)
    PROVE  Rest(Rest(s, m), 1) = Rest(s, m + 1)
<1> DEFINE r == Rest(s, m)
<1>1. Len(s) \in Nat /\ m \in 0..Len(s) /\ m + 1 \in 0..Len(s)
  OBVIOUS
<1>2. /\ r \in Seq(S) /\ Len(r) = Len(s) - m
      /\ \A i \in 1..(Len(s) - m) : r[i] = s[m + i]
  BY <1>1, RestType
<1>3. /\ Rest(s, m + 1) \in Seq(S) /\ Len(Rest(s, m + 1)) = Len(s) - (m + 1)
      /\ \A i \in 1..(Len(s) - (m + 1)) : Rest(s, m + 1)[i] = s[(m + 1) + i]
  BY <1>1, RestType
<1> HIDE DEF r
<1>4. /\ Rest(r, 1) \in Seq(S) /\ Len(Rest(r, 1)) = Len(r) - 1
      /\ \A i \in 1..(Len(r) - 1) : Rest(r, 1)[i] = r[1 + i]
  <2>1. 1 \in 0..Len(r)
    BY <1>1, <1>2
  <2> QED BY <1>2, <2>1, RestType
<1>5. Len(r) - 1 = Len(s) - (m + 1)
  BY <1>1, <1>2
<1>6. ASSUME NEW i \in 1..(Len(s) - (m + 1))
      PROVE  Rest(r, 1)[i] = Rest(s, m + 1)[i]
  <2>1. 1 + i \in 1..(Len(s) - m) /\ m + (1 + i) = (m + 1) + i
    BY <1>1
  <2>2. Rest(r, 1)[i] = r[1 + i]
    BY <1>4, <1>5
  <2>3. r[1 + i] = s[(m + 1) + i]
    BY <1>2, <2>1
  <2>4. Rest(s, m + 1)[i] = s[(m + 1) + i]
    BY <1>3
  <2> QED BY <2>2, <2>3, <2>4
<1>7. Rest(r, 1) = Rest(s, m + 1)
  BY <1>3, <1>4, <1>5, <1>6, SeqEqual
<1> QED
  BY <1>7 DEF r

(* Where the first placeholder behind the cursor stands in the format.     *)
LEMMA Reaches ==
    ASSUME IInv, NEW t \in Threads, Braces(t) # {},
           NEW k \in 0..Len(call[t].format), Formatted(t, k)
    PROVE  \E m \in 0..(Len(call[t].format) - 1) :
              /\ call[t].format[m + 1] = Brace
              /\ text[t] = Seen(call[t].format, args[t], m)
              /\ FirstBrace(t) - 1 = Len(After(call[t].format, args[t], m))
              /\ argIdx[t] = NextArg(call[t].format, args[t], m)
<1> DEFINE f == call[t].format
           a == args[t]
           i == FirstBrace(t)
           m == k + (i - idx[t] - 1)
<1>1. f \in Strings /\ a \in Seq(Strings) /\ Len(f) \in Nat /\ idx[t] \in Nat
  BY CallTypes DEF IInv, TypeOK, Strings
<1>2. /\ i \in Braces(t) /\ \A j \in Braces(t) : i <= j
      /\ i \in 1..Len(text[t]) /\ idx[t] < i
  BY FirstIs DEF IInv
<1>3. /\ Len(text[t]) = idx[t] + (Len(f) - k)
      /\ \A p \in k..(Len(f) - 1) : text[t][idx[t] + (p - k) + 1] = f[p + 1]
  BY Behind DEF IInv
<1>4. /\ text[t] = Seen(f, a, k) /\ idx[t] = Len(After(f, a, k))
      /\ argIdx[t] = NextArg(f, a, k)
  BY DEF Formatted
<1>5. text[t][i] = Brace
  BY <1>2 DEF Braces
<1>6. k \in 0..Len(f)
  OBVIOUS
<1> HIDE DEF f, a, i
<1>7. /\ m \in 0..(Len(f) - 1) /\ m \in k..(Len(f) - 1) /\ m \in k..Len(f)
      /\ idx[t] + (m - k) + 1 = i /\ idx[t] + (m - k) = i - 1
  <2>1. i \in Int /\ k \in Int
    BY <1>1, <1>2, <1>3, <1>6
  <2> QED BY <1>1, <1>2, <1>3, <1>6, <2>1
<1> HIDE DEF m
<1>8. f[m + 1] = Brace
  BY <1>3, <1>5, <1>7
<1>9. ASSUME NEW p \in k..(m - 1)
      PROVE  f[p + 1] # Brace
  <2> DEFINE q == idx[t] + (p - k) + 1
  <2>1. /\ p \in k..(Len(f) - 1) /\ q \in (idx[t] + 1)..Len(text[t]) /\ ~ (i <= q)
    <3> DEFINE n == Len(f)
               c == idx[t]
               l == Len(text[t])
    <3>1. /\ n \in Nat /\ c \in Nat /\ k \in 0..n /\ m \in k..(n - 1)
          /\ l = c + (n - k) /\ c + (m - k) + 1 = i /\ q = c + (p - k) + 1
      BY <1>1, <1>3, <1>6, <1>7
    <3> HIDE DEF n, c, l, q
    <3>2. p \in k..(n - 1) /\ q \in (c + 1)..l /\ ~ (i <= q)
      BY <1>9, <3>1
    <3> QED BY <3>2 DEF n, c, l
  <2>2. text[t][q] = f[p + 1]
    BY <1>3, <2>1
  <2> HIDE DEF q
  <2>3. text[t][q] # Brace
    BY <1>2, <2>1 DEF Braces
  <2> QED BY <2>2, <2>3
<1>10. /\ Seen(f, a, m) = Seen(f, a, k)
       /\ Len(After(f, a, m)) = Len(After(f, a, k)) + (m - k)
       /\ Rank(f, m) = Rank(f, k)
  BY <1>1, <1>6, <1>7, <1>9, PassOver
<1>11. NextArg(f, a, m) = NextArg(f, a, k)
  BY <1>10 DEF NextArg
<1> QED
  BY <1>4, <1>7, <1>8, <1>10, <1>11 DEF f, a, i

LEMMA SubstituteProgress ==
    ASSUME IInv, InProgress, NEW t \in Threads, Substitute(t)
    PROVE  InProgress'
<1> DEFINE f == call[t].format
           a == args[t]
           i == FirstBrace(t)
           x == Replacement(t)
           s == text[t]
<1>1. /\ pc[t] = "format" /\ Braces(t) # {}
      /\ text' = [text EXCEPT ![t] = SubSeq(s, 1, i - 1) \o x \o SubSeq(s, i + 1, Len(s))]
      /\ idx' = [idx EXCEPT ![t] = i - 1 + Len(x)]
      /\ argIdx' = [argIdx EXCEPT ![t] =
                       IF argIdx[t] <= Len(a) THEN argIdx[t] + 1 ELSE argIdx[t]]
      /\ pc' = pc /\ call' = call /\ args' = args
  BY DEF Substitute, SubstituteAt
<1>2. PICK k \in 0..Len(f) : Formatted(t, k)
  BY <1>1 DEF InProgress
<1>3. PICK m \in 0..(Len(f) - 1) :
         /\ f[m + 1] = Brace /\ s = Seen(f, a, m)
         /\ i - 1 = Len(After(f, a, m)) /\ argIdx[t] = NextArg(f, a, m)
  BY <1>1, <1>2, Reaches
<1>4. /\ x = Meaning(f, a)[m + 1]
      /\ (IF argIdx[t] <= Len(a) THEN argIdx[t] + 1 ELSE argIdx[t]) = NextArg(f, a, m + 1)
  BY <1>3, TakesArgument
<1>5. f \in Strings /\ a \in Seq(Strings) /\ Len(f) \in Nat /\ f \in Seq(Pieces)
  BY CallTypes DEF IInv, TypeOK, Strings
<1>6. /\ text \in [Threads -> Seq(Pieces)] /\ idx \in [Threads -> Nat]
      /\ argIdx \in [Threads -> Nat] /\ i \in Int
  <2>1. TypeOK
    BY DEF IInv
  <2>2. /\ text \in [Threads -> Seq(Pieces)] /\ idx \in [Threads -> Nat]
        /\ argIdx \in [Threads -> Nat]
    BY <2>1 DEF TypeOK
  <2>3. i \in 1..Len(s)
    BY <1>1, <2>1, FirstIs
  <2> HIDE DEF i, s
  <2>4. i \in Int
    BY <2>3
  <2> QED BY <2>2, <2>4
<1> DEFINE j == After(f, a, m)
           r == Rest(f, m)
<1>7. i - 1 = Len(j) /\ s = j \o r
  BY <1>3 DEF Seen
<1> HIDE DEF f, a, i, x, s
<1>8. m \in 0..Len(f) /\ m + 1 \in 0..Len(f)
  BY <1>5
<1>9. j \in Seq(Pieces) /\ Len(j) \in Nat
  BY <1>5, <1>8, AfterFacts DEF Strings
<1>10. r \in Seq(Pieces) /\ Len(r) = Len(f) - m
  BY <1>5, <1>8, RestType
<1>11. After(f, a, m + 1) = j \o x /\ x \in Seq(Pieces)
  BY <1>3, <1>4, <1>5, AfterFacts DEF Strings
<1>12. Rest(r, 1) = Rest(f, m + 1)
  BY <1>5, RestRest
<1> HIDE DEF j, r
<1>13. SubSeq(s, 1, i - 1) = j /\ SubSeq(s, i + 1, Len(s)) = Rest(r, 1)
  <2>1. Len(r) # 0
    BY <1>5, <1>10
  <2>2. SubSeq(s, 1, Len(j)) = j /\ SubSeq(s, Len(j) + 2, Len(s)) = Rest(r, 1)
    BY <1>7, <1>9, <1>10, <2>1, Around
  <2>3. i + 1 = Len(j) + 2
    BY <1>6, <1>7, <1>9
  <2> QED BY <1>7, <2>2, <2>3
<1>14. text'[t] = Seen(f, a, m + 1)
  BY <1>1, <1>6, <1>11, <1>12, <1>13 DEF Seen
<1>15. idx'[t] = Len(After(f, a, m + 1))
  <2>1. Len(j \o x) = Len(j) + Len(x)
    BY <1>9, <1>11, ConcatProperties
  <2>2. idx'[t] = i - 1 + Len(x)
    BY <1>1, <1>6
  <2> QED BY <1>7, <1>11, <2>1, <2>2
<1>16. argIdx'[t] = NextArg(f, a, m + 1)
  BY <1>1, <1>4, <1>6
<1>17. \E n \in 0..Len(call'[t].format) : Formatted(t, n)'
  <2>1. call'[t].format = f /\ args'[t] = a
    BY <1>1 DEF f, a
  <2>2. Formatted(t, m + 1)'
    BY <1>14, <1>15, <1>16, <2>1 DEF Formatted
  <2> QED BY <1>8, <2>1, <2>2
<1>18. ASSUME NEW u \in Threads \ {t}, pc'[u] = "format"
       PROVE  \E n \in 0..Len(call'[u].format) : Formatted(u, n)'
  <2>1. text'[u] = text[u] /\ idx'[u] = idx[u] /\ argIdx'[u] = argIdx[u] /\ pc[u] = "format"
    BY <1>1, <1>6, <1>18
  <2>2. PICK n \in 0..Len(call[u].format) : Formatted(u, n)
    BY <2>1 DEF InProgress
  <2>3. Formatted(u, n)'
    BY <1>1, <2>1, <2>2 DEF Formatted
  <2> QED BY <1>1, <2>3
<1> QED
  BY <1>17, <1>18 DEF InProgress

LEMMA LogProgress ==
    ASSUME IInv, InProgress, NEW t \in Threads, Log(t)
    PROVE  InProgress'
<1> DEFINE f == call[t].format
           a == args[t]
<1>1. /\ pc[t] = "log" /\ pc' = [pc EXCEPT ![t] = "format"]
      /\ text' = [text EXCEPT ![t] = f]
      /\ call' = call /\ args' = args /\ idx' = idx /\ argIdx' = argIdx
  BY DEF Log
<1>2. /\ text \in [Threads -> Seq(Pieces)]
      /\ pc \in [Threads -> {"idle", "locate", "log", "format"}]
      /\ idx[t] = 0 /\ argIdx[t] = 1
  BY <1>1 DEF IInv, TypeOK, CursorsAtStart
<1>3. f \in Strings /\ a \in Seq(Strings) /\ Len(f) \in Nat /\ Len(a) \in Nat
  BY CallTypes DEF IInv, TypeOK, Strings
<1> HIDE DEF f, a
<1>4. After(f, a, 0) = <<>> /\ Rank(f, 0) = 0
  BY <1>3, AfterFacts, RankFacts
<1>5. Rest(f, 0) = f /\ <<>> \o f = f
  <2>1. f \in Seq(Pieces)
    BY <1>3 DEF Strings
  <2>2. 0 \in 0..Len(f) /\ Len(f) - 0 = Len(f)
    BY <1>3
  <2>3. /\ Rest(f, 0) \in Seq(Pieces) /\ Len(Rest(f, 0)) = Len(f)
        /\ \A i \in 1..Len(f) : Rest(f, 0)[i] = f[0 + i] /\ 0 + i = i
    BY <1>3, <2>1, <2>2, RestType
  <2>4. Rest(f, 0) = f
    BY <2>1, <2>3, SeqEqual
  <2> QED BY <2>1, <2>4, ConcatEmptySeq
<1>6. text'[t] = Seen(f, a, 0)
  BY <1>1, <1>2, <1>4, <1>5 DEF Seen
<1>7. idx'[t] = Len(After(f, a, 0)) /\ argIdx'[t] = NextArg(f, a, 0)
  BY <1>1, <1>2, <1>3, <1>4 DEF NextArg
<1>8. \E n \in 0..Len(call'[t].format) : Formatted(t, n)'
  <2>1. call'[t].format = f /\ args'[t] = a /\ 0 \in 0..Len(f)
    BY <1>1, <1>3 DEF f, a
  <2>2. Formatted(t, 0)'
    BY <1>6, <1>7, <2>1 DEF Formatted
  <2> QED BY <2>1, <2>2
<1>9. ASSUME NEW u \in Threads \ {t}, pc'[u] = "format"
      PROVE  \E n \in 0..Len(call'[u].format) : Formatted(u, n)'
  <2>1. text'[u] = text[u] /\ pc[u] = "format"
    BY <1>1, <1>2, <1>9
  <2>2. PICK n \in 0..Len(call[u].format) : Formatted(u, n)
    BY <2>1 DEF InProgress
  <2>3. Formatted(u, n)'
    BY <1>1, <2>1, <2>2 DEF Formatted
  <2> QED BY <1>1, <2>3
<1> QED
  BY <1>8, <1>9 DEF InProgress

(* Every other step leaves alone the threads that stay in the loop.        *)
LEMMA OtherProgress ==
    ASSUME IInv, InProgress,
           \A t \in Threads : pc'[t] = "format" =>
              /\ pc[t] = "format" /\ call'[t] = call[t] /\ args'[t] = args[t]
              /\ text'[t] = text[t] /\ idx'[t] = idx[t] /\ argIdx'[t] = argIdx[t]
    PROVE  InProgress'
<1> SUFFICES ASSUME NEW t \in Threads, pc'[t] = "format"
             PROVE  \E n \in 0..Len(call'[t].format) : Formatted(t, n)'
  BY DEF InProgress
<1>1. PICK n \in 0..Len(call[t].format) : Formatted(t, n)
  BY DEF InProgress
<1>2. Formatted(t, n)'
  BY <1>1 DEF Formatted
<1> QED
  BY <1>2

LEMMA StepProgress == IInv /\ InProgress /\ [Next]_vars => InProgress'
<1> SUFFICES ASSUME IInv, InProgress, [Next]_vars PROVE InProgress'
  OBVIOUS
<1> USE DEF formatVars
<1>1. CASE UNCHANGED vars
  BY <1>1, OtherProgress DEF vars
<1>2. CASE Configure
  BY <1>2, OtherProgress DEF Configure, SetSinks, changeLogLevels, stopLogging, enable, disable
<1>3. ASSUME NEW t \in Threads, NEW c \in Calls, Begin(t, c)
      PROVE  InProgress'
  BY <1>3, OtherProgress DEF Begin, IInv, TypeOK
<1>4. ASSUME NEW t \in Threads, Locate(t)
      PROVE  InProgress'
  BY <1>4, OtherProgress DEF Locate, IInv, TypeOK
<1>5. ASSUME NEW t \in Threads, Drop(t) \/ Send(t)
      PROVE  InProgress'
  BY <1>5, OtherProgress DEF Drop, Send, Leave, IInv, TypeOK
<1> QED
  BY <1>1, <1>2, <1>3, <1>4, <1>5, LogProgress, SubstituteProgress DEF Next, InCall

LEMMA DoneIsFilled ==
    ASSUME IInv, InProgress, NEW t \in Threads, pc[t] = "format", Braces(t) = {}
    PROVE  text[t] = Filled(call[t].format, args[t])
<1> DEFINE f == call[t].format
           a == args[t]
           n == Len(f)
<1>1. PICK k \in 0..n : Formatted(t, k)
  BY DEF InProgress
<1>2. f \in Strings /\ a \in Seq(Strings) /\ n \in Nat /\ idx[t] \in Nat /\ f \in Seq(Pieces)
  BY CallTypes DEF IInv, TypeOK, Strings
<1>3. /\ Len(text[t]) = idx[t] + (n - k)
      /\ \A p \in k..(n - 1) : text[t][idx[t] + (p - k) + 1] = f[p + 1]
  BY <1>1, Behind DEF IInv
<1>4. text[t] = Seen(f, a, k)
  BY <1>1 DEF Formatted
<1> HIDE DEF f, a
<1>5. ASSUME NEW p \in k..(n - 1)
      PROVE  f[p + 1] # Brace
  <2> DEFINE q == idx[t] + (p - k) + 1
  <2>1. q \in (idx[t] + 1)..Len(text[t])
    <3> DEFINE c == idx[t]
               l == Len(text[t])
    <3>1. n \in Nat /\ c \in Nat /\ k \in 0..n /\ l = c + (n - k) /\ q = c + (p - k) + 1
      BY <1>2, <1>3
    <3> HIDE DEF n, c, l, q
    <3>2. q \in (c + 1)..l
      BY <1>5, <3>1
    <3> QED BY <3>2 DEF c, l
  <2>2. text[t][q] = f[p + 1]
    BY <1>3
  <2> HIDE DEF q
  <2> QED BY <2>1, <2>2 DEF Braces
<1>6. Seen(f, a, n) = Seen(f, a, k)
  <2>1. k \in 0..Len(f) /\ n \in k..Len(f)
    BY <1>2
  <2> QED BY <1>2, <1>5, <2>1, PassOver
<1>7. Rest(f, n) = <<>> /\ After(f, a, n) \in Seq(Pieces) /\ After(f, a, n) = Filled(f, a)
  <2>1. n \in 0..Len(f) /\ Len(f) - n = 0
    BY <1>2
  <2>2. Rest(f, n) \in Seq(Pieces) /\ Len(Rest(f, n)) = 0
    BY <1>2, <2>1, RestType
  <2>3. Rest(f, n) = <<>>
    BY <2>2, EmptySeq
  <2> QED BY <1>2, <2>1, <2>3, AfterFacts DEF Strings
<1>8. Seen(f, a, n) = After(f, a, n)
  BY <1>7, ConcatEmptySeq DEF Seen
<1> QED
  BY <1>4, <1>6, <1>7, <1>8 DEF f, a

(* Every message that reaches a sink is its format string with each        *)
(* placeholder replaced once, by the argument of the same rank, or left    *)
(* when there is none, whatever the arguments contain (formatMsg, logImpl).*)
THEOREM MessagesAreFormatted == Spec => []FormattedRight
<1>1. Init => InProgress
  BY DEF Init, InProgress
<1>2. IInv /\ InProgress => FormattedRight
  BY DoneIsFilled DEF FormattedRight
<1> QED
  BY <1>1, <1>2, InitIInv, StepIInv, StepProgress, PTL DEF Spec

=============================================================================
