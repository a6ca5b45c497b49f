--------------------------- MODULE EventStoreProofs ---------------------------
(* What holds of EventStore for segments, batches and faults of any number.   *)
(*                                                                          *)
(* Log and Read are recursive functions (Distinct, FlattenSeq), so the module *)
(* begins with induction over the sets of numbers and sequences that have a   *)
(* property, and with what the two functions give for an appended element.    *)
(* Then come what each step does to the files and the log, the invariant, and *)
(* the four theorems: types, the parsed logs, the promise, and the seqs.      *)
EXTENDS EventStore, SequenceTheorems, FiniteSetTheorems, WellFoundedInduction, TLAPS

-----------------------------------------------------------------------------
(* Induction over numbers and sequences, and recursive functions.          *)

LEMMA SetInduction ==
    ASSUME NEW P, 0 \in P, \A n \in Nat : n \in P => n + 1 \in P
    PROVE  \A n \in Nat : n \in P
  <1> DEFINE Rest == Nat \ P
  <1> SUFFICES ASSUME Rest # {} PROVE FALSE
    OBVIOUS
  <1>1. Rest \subseteq Nat
    OBVIOUS
  <1> HIDE DEF Rest
  <1>2. PICK x \in Rest : \A y \in Rest : ~(<<y, x>> \in OpToRel(<, Nat))
    BY <1>1, WFMin, NatLessThanWellFounded
  <1>3. \A y \in Rest : ~(y < x)
    BY <1>1, <1>2 DEF OpToRel
  <1> QED
    BY <1>3 DEF Rest

LEMMA SeqInduction ==
    ASSUME NEW S, NEW P, <<>> \in P, \A s \in Seq(S), x \in S : s \in P => Append(s, x) \in P
    PROVE  \A s \in Seq(S) : s \in P
  <1> DEFINE Q == {n \in Nat : \A s \in Seq(S) : Len(s) = n => s \in P}
  <1>1. 0 \in Q
    <2>1. \A s \in Seq(S) : Len(s) = 0 => s = <<>>
      BY EmptySeq
    <2> QED
      BY <2>1
  <1>2. ASSUME NEW n \in Nat, n \in Q
        PROVE  n + 1 \in Q
    <2> SUFFICES ASSUME NEW s \in Seq(S), Len(s) = n + 1
                 PROVE  s \in P
      OBVIOUS
    <2>1. s # <<>>
      BY EmptySeq
    <2>2. PICK t \in Seq(S), x \in S : s = Append(t, x)
      BY <2>1, SequenceEmptyOrAppend
    <2>3. Len(t) = n
      BY <2>2, AppendProperties
    <2> QED
      BY <1>2, <2>2, <2>3
  <1> HIDE DEF Q
  <1>3. \A n \in Nat : n \in Q
    BY <1>1, <1>2, SetInduction
  <1> QED
    BY <1>3 DEF Q

\* A function defined by its value at 0 and a step exists.
Recurs(g, T, base, N, step) ==
    g \in [0..N -> T] /\ g[0] = base /\ \A i \in 1..N : g[i] = step[i][g[i - 1]]

LEMMA Recursion ==
    ASSUME NEW T, NEW base \in T, NEW N \in Nat, NEW step \in [1..N -> [T -> T]]
    PROVE  \E g : Recurs(g, T, base, N, step)
  <1> DEFINE Goes(g, n) == g \in [0..n -> T] /\ g[0] = base /\ \A i \in 1..n : g[i] = step[i][g[i - 1]]
             Q == {n \in Nat : n <= N => \E g : Goes(g, n)}
  <1>1. 0 \in Q
    <2>1. Goes([i \in 0..0 |-> base], 0)
      OBVIOUS
    <2> QED
      BY <2>1
  <1>2. ASSUME NEW n \in Nat, n \in Q
        PROVE  n + 1 \in Q
    <2> SUFFICES ASSUME n + 1 <= N PROVE \E g : Goes(g, n + 1)
      OBVIOUS
    <2>1. PICK g : Goes(g, n)
      BY <1>2
    <2> DEFINE h == [i \in 0..(n + 1) |-> IF i = n + 1 THEN step[n + 1][g[n]] ELSE g[i]]
    <2>2. g[n] \in T /\ step[n + 1] \in [T -> T]
      BY <2>1
    <2>3. h \in [0..(n + 1) -> T]
      BY <2>1, <2>2
    <2>4. \A i \in 1..(n + 1) : h[i] = step[i][h[i - 1]]
      BY <2>1
    <2>5. h[0] = base
      BY <2>1
    <2> HIDE DEF h
    <2> QED
      BY <2>3, <2>4, <2>5
  <1> HIDE DEF Q
  <1>3. N \in Q
    BY <1>1, <1>2, SetInduction
  <1> QED
    BY <1>3 DEF Q, Recurs

-----------------------------------------------------------------------------
(* Distinct keeps the first of each event.                                 *)

\* h[i] lists the first i events of s.
Lists(h, s, S) ==
    /\ h \in [0..Len(s) -> Seq(S)]
    /\ Distinct(s) = h[Len(s)] /\ h[0] = <<>>
    /\ \A i \in 1..Len(s) : h[i] = IF \E j \in 1..(i - 1) : s[j] = s[i] THEN h[i - 1]
                                  ELSE Append(h[i - 1], s[i])

LEMMA DistinctUnfolds ==
    ASSUME NEW S
    PROVE  \A s \in Seq(S) : \E h : Lists(h, s, S)
  <1> SUFFICES ASSUME NEW s \in Seq(S) PROVE \E h : Lists(h, s, S)
    OBVIOUS
  <1> DEFINE Goes(h) == h = [i \in 0..Len(s) |->
                                IF i = 0 THEN <<>>
                                ELSE IF \E j \in 1..(i - 1) : s[j] = s[i] THEN h[i - 1]
                                ELSE Append(h[i - 1], s[i])]
             upTo == CHOOSE h : Goes(h)
             step == [i \in 1..Len(s) |-> [t \in Seq(S) |->
                         IF \E j \in 1..(i - 1) : s[j] = s[i] THEN t ELSE Append(t, s[i])]]
  <1>1. Distinct(s) = upTo[Len(s)]
    BY DEF Distinct
  <1>2. Len(s) \in Nat /\ <<>> \in Seq(S)
    BY EmptySeq
  <1>3. step \in [1..Len(s) -> [Seq(S) -> Seq(S)]]
    BY AppendProperties
  <1> HIDE DEF step
  <1>4. PICK g \in [0..Len(s) -> Seq(S)] :
          g[0] = <<>> /\ \A i \in 1..Len(s) : g[i] = step[i][g[i - 1]]
    <2> DEFINE T == Seq(S)
               N == Len(s)
               base == <<>>
    <2>1. N \in Nat /\ base \in T /\ step \in [1..N -> [T -> T]]
      BY <1>2, <1>3
    <2> HIDE DEF T, N, base
    <2>2. \E g : Recurs(g, T, base, N, step)
      BY <2>1, Recursion
    <2> QED
      BY <2>2 DEF Recurs, T, N, base
  <1>5. \A i \in 1..Len(s) : g[i] = IF \E j \in 1..(i - 1) : s[j] = s[i] THEN g[i - 1]
                                  ELSE Append(g[i - 1], s[i])
    <2> SUFFICES ASSUME NEW i \in 1..Len(s)
                 PROVE  g[i] = IF \E j \in 1..(i - 1) : s[j] = s[i] THEN g[i - 1]
                               ELSE Append(g[i - 1], s[i])
      OBVIOUS
    <2>1. g[i - 1] \in Seq(S)
      BY <1>2
    <2> QED
      BY <1>4, <2>1 DEF step
  <1>6. Goes(g)
    <2>1. \A i \in 0..Len(s) : g[i] = IF i = 0 THEN <<>>
                                   ELSE IF \E j \in 1..(i - 1) : s[j] = s[i] THEN g[i - 1]
                                   ELSE Append(g[i - 1], s[i])
      <3>1. \A i \in 0..Len(s) : i = 0 \/ i \in 1..Len(s)
        BY <1>2
      <3> QED
        BY <1>4, <1>5, <3>1
    <2>2. g = [i \in 0..Len(s) |-> g[i]]
      OBVIOUS
    <2> QED
      BY <2>1, <2>2
  <1> HIDE DEF Goes
  <1>7. Goes(upTo)
    BY <1>6
  <1> HIDE DEF upTo
  <1>8. /\ upTo[0] = <<>>
        /\ \A i \in 1..Len(s) : upTo[i] = IF \E j \in 1..(i - 1) : s[j] = s[i] THEN upTo[i - 1]
                                         ELSE Append(upTo[i - 1], s[i])
    <2>1. \A i \in 0..Len(s) : upTo[i] = IF i = 0 THEN <<>>
                                      ELSE IF \E j \in 1..(i - 1) : s[j] = s[i] THEN upTo[i - 1]
                                      ELSE Append(upTo[i - 1], s[i])
      BY <1>7 DEF Goes
    <2>2. 0 \in 0..Len(s) /\ \A i \in 1..Len(s) : i \in 0..Len(s) /\ i # 0
      BY <1>2
    <2> QED
      BY <2>1, <2>2
  <1>9. upTo = g
    <2> DEFINE P == {n \in Nat : n <= Len(s) => upTo[n] = g[n]}
    <2>1. 0 \in P
      BY <1>4, <1>8
    <2>2. ASSUME NEW n \in Nat, n \in P
          PROVE  n + 1 \in P
      <3> SUFFICES ASSUME n + 1 <= Len(s) PROVE upTo[n + 1] = g[n + 1]
        OBVIOUS
      <3>1. n + 1 \in 1..Len(s) /\ upTo[n] = g[n] /\ (n + 1) - 1 = n
        BY <1>2, <2>2
      <3>2. /\ upTo[n + 1] = IF \E j \in 1..n : s[j] = s[n + 1] THEN upTo[n] ELSE Append(upTo[n], s[n + 1])
            /\ g[n + 1] = IF \E j \in 1..n : s[j] = s[n + 1] THEN g[n] ELSE Append(g[n], s[n + 1])
        BY <1>5, <1>8, <3>1
      <3> QED
        BY <3>1, <3>2
    <2> HIDE DEF P
    <2>3. \A n \in Nat : n \in P
      BY <2>1, <2>2, SetInduction
    <2>4. \A n \in 0..Len(s) : upTo[n] = g[n]
      BY <1>2, <2>3 DEF P
    <2>5. upTo = [i \in 0..Len(s) |-> upTo[i]]
      BY <1>7 DEF Goes
    <2> QED
      BY <2>4, <2>5
  <1> QED
    BY <1>1, <1>4, <1>5, <1>9 DEF Lists

LEMMA DistinctOfEmpty == Distinct(<<>>) = <<>>
  <1>1. <<>> \in Seq({}) /\ Len(<<>>) = 0
    BY EmptySeq
  <1>2. \A s \in Seq({}) : \E h : Lists(h, s, {})
    BY DistinctUnfolds
  <1>3. PICK h : Lists(h, <<>>, {})
    BY <1>1, <1>2
  <1> QED
    BY <1>1, <1>3 DEF Lists

LEMMA DistinctOfAppend ==
    ASSUME NEW S, NEW s \in Seq(S), NEW x \in S
    PROVE  Distinct(Append(s, x)) = IF x \in Range(s) THEN Distinct(s) ELSE Append(Distinct(s), x)
  <1> DEFINE t == Append(s, x)
             n == Len(s)
  <1>1. /\ n \in Nat /\ t \in Seq(S) /\ Len(t) = n + 1 /\ DOMAIN s = 1..n
        /\ \A i \in 1..n : t[i] = s[i]
        /\ t[n + 1] = x
    BY AppendProperties
  <1> HIDE DEF t, n
  <1>2. PICK h : Lists(h, s, S)
    BY DistinctUnfolds
  <1>3. PICK g : Lists(g, t, S)
    BY <1>1, DistinctUnfolds
  <1>4. g[n] = h[n]
    <2> DEFINE P == {k \in Nat : k <= n => g[k] = h[k]}
    <2>1. 0 \in P
      BY <1>2, <1>3 DEF Lists
    <2>2. ASSUME NEW k \in Nat, k \in P
          PROVE  k + 1 \in P
      <3> SUFFICES ASSUME k + 1 <= n PROVE g[k + 1] = h[k + 1]
        OBVIOUS
      <3>1. /\ k + 1 \in 1..n /\ k + 1 \in 1..(n + 1) /\ g[k] = h[k] /\ (k + 1) - 1 = k
            /\ t[k + 1] = s[k + 1] /\ \A j \in 1..k : t[j] = s[j]
        BY <1>1, <2>2
      <3>2. h[k + 1] = IF \E j \in 1..k : s[j] = s[k + 1] THEN h[k] ELSE Append(h[k], s[k + 1])
        BY <1>2, <3>1 DEF Lists, n
      <3>3. g[k + 1] = IF \E j \in 1..k : t[j] = t[k + 1] THEN g[k] ELSE Append(g[k], t[k + 1])
        BY <1>1, <1>3, <3>1 DEF Lists
      <3> QED
        BY <3>1, <3>2, <3>3
    <2> HIDE DEF P
    <2>3. n \in P
      BY <1>1, <2>1, <2>2, SetInduction
    <2> QED
      BY <1>1, <2>3 DEF P
  <1>5. g[n + 1] = IF \E j \in 1..n : t[j] = x THEN g[n] ELSE Append(g[n], x)
    <2>1. n + 1 \in 1..(n + 1) /\ (n + 1) - 1 = n
      BY <1>1
    <2> QED
      BY <1>1, <1>3, <2>1 DEF Lists
  <1>6. (\E j \in 1..n : t[j] = x) <=> x \in Range(s)
    BY <1>1 DEF Range
  <1> QED
    BY <1>1, <1>2, <1>3, <1>4, <1>5, <1>6 DEF t, n, Lists

NoRepeat(s) == \A i, j \in DOMAIN s : i # j => s[i] # s[j]

LEMMA RangeOfAppend ==
    ASSUME NEW S, NEW s \in Seq(S), NEW x \in S
    PROVE  Range(Append(s, x)) = Range(s) \cup {x}
  <1>1. /\ Len(s) \in Nat /\ DOMAIN s = 1..Len(s) /\ DOMAIN Append(s, x) = 1..(Len(s) + 1)
        /\ \A i \in 1..Len(s) : Append(s, x)[i] = s[i]
        /\ Append(s, x)[Len(s) + 1] = x
    BY AppendProperties
  <1>2. DOMAIN Append(s, x) = DOMAIN s \cup {Len(s) + 1}
    BY <1>1
  <1> QED
    BY <1>1, <1>2 DEF Range

\* It lists the events, each once.
LEMMA DistinctLists ==
    ASSUME NEW S
    PROVE  \A s \in Seq(S) : /\ Distinct(s) \in Seq(S)
                             /\ Range(Distinct(s)) = Range(s)
                             /\ NoRepeat(Distinct(s))
  <1> DEFINE P == {s \in Seq(S) : /\ Distinct(s) \in Seq(S)
                                  /\ Range(Distinct(s)) = Range(s)
                                  /\ NoRepeat(Distinct(s))}
  <1>1. <<>> \in P
    <2>1. <<>> \in Seq(S) /\ DOMAIN <<>> = {}
      BY EmptySeq
    <2> QED
      BY <2>1, DistinctOfEmpty DEF NoRepeat
  <1>2. ASSUME NEW s \in Seq(S), NEW x \in S, s \in P
        PROVE  Append(s, x) \in P
    <2>1. Append(s, x) \in Seq(S) /\ Range(Append(s, x)) = Range(s) \cup {x}
      BY AppendProperties, RangeOfAppend
    <2>2. CASE x \in Range(s)
      <3>1. Distinct(Append(s, x)) = Distinct(s) /\ Range(Append(s, x)) = Range(s)
        BY <2>1, <2>2, DistinctOfAppend
      <3> QED
        BY <1>2, <2>1, <3>1
    <2>3. CASE x \notin Range(s)
      <3> DEFINE d == Distinct(s)
      <3>1. d \in Seq(S) /\ Range(d) = Range(s) /\ NoRepeat(d) /\ Distinct(Append(s, x)) = Append(d, x)
        BY <1>2, <2>3, DistinctOfAppend
      <3> HIDE DEF d
      <3>2. Append(d, x) \in Seq(S) /\ Range(Append(d, x)) = Range(s) \cup {x}
        BY <3>1, AppendProperties, RangeOfAppend
      <3>3. NoRepeat(Append(d, x))
        <4>1. /\ DOMAIN d = 1..Len(d) /\ Len(d) \in Nat /\ DOMAIN Append(d, x) = 1..(Len(d) + 1)
              /\ \A i \in 1..Len(d) : Append(d, x)[i] = d[i] /\ d[i] # x
              /\ Append(d, x)[Len(d) + 1] = x
          BY <2>3, <3>1, AppendProperties DEF Range
        <4> QED
          BY <3>1, <4>1 DEF NoRepeat
      <3> QED
        BY <2>1, <3>1, <3>2, <3>3
    <2> QED
      BY <2>2, <2>3
  <1> HIDE DEF P
  <1>3. \A s \in Seq(S) : s \in P
    BY <1>1, <1>2, SeqInduction
  <1> QED
    BY <1>3 DEF P

-----------------------------------------------------------------------------
(* Concatenation and Distinct.                                             *)

LEMMA AppendAtEnd ==
    ASSUME NEW S, NEW s \in Seq(S), NEW t \in Seq(S), NEW x \in S
    PROVE  s \o Append(t, x) = Append(s \o t, x)
  <1>1. Append(t, x) = t \o <<x>> /\ <<x>> \in Seq(S)
    BY AppendIsConcat
  <1>2. s \o t \in Seq(S)
    BY ConcatProperties
  <1>3. Append(s \o t, x) = (s \o t) \o <<x>>
    BY <1>2, AppendIsConcat
  <1> QED
    BY SMTT(60), <1>1, <1>3, ConcatAssociative

\* Events that are there already add nothing.
LEMMA DistinctOfKnown ==
    ASSUME NEW S, NEW s \in Seq(S)
    PROVE  \A t \in Seq(S) : Range(t) \subseteq Range(s) => Distinct(s \o t) = Distinct(s)
  <1> DEFINE P == {t \in Seq(S) : Range(t) \subseteq Range(s) => Distinct(s \o t) = Distinct(s)}
  <1>1. <<>> \in P
    BY EmptySeq, ConcatEmptySeq
  <1>2. ASSUME NEW t \in Seq(S), NEW x \in S, t \in P
        PROVE  Append(t, x) \in P
    <2>1. Append(t, x) \in Seq(S) /\ Range(Append(t, x)) = Range(t) \cup {x}
      BY AppendProperties, RangeOfAppend
    <2> SUFFICES ASSUME Range(t) \cup {x} \subseteq Range(s)
                 PROVE  Distinct(s \o Append(t, x)) = Distinct(s)
      BY <2>1
    <2>2. s \o t \in Seq(S) /\ x \in Range(s \o t)
      BY ConcatProperties, RangeConcatenation
    <2>3. Distinct(Append(s \o t, x)) = Distinct(s \o t)
      BY <2>2, DistinctOfAppend
    <2>4. s \o Append(t, x) = Append(s \o t, x)
      BY AppendAtEnd
    <2> QED
      BY <1>2, <2>3, <2>4
  <1> HIDE DEF P
  <1>3. \A t \in Seq(S) : t \in P
    BY <1>1, <1>2, SeqInduction
  <1> QED
    BY <1>3 DEF P

\* Events of which none is there, nor twice among themselves, are added as they are.
LEMMA DistinctOfNew ==
    ASSUME NEW S, NEW s \in Seq(S)
    PROVE  \A t \in Seq(S) : NoRepeat(t) /\ Range(t) \cap Range(s) = {}
                             => Distinct(s \o t) = Distinct(s) \o t
  <1> DEFINE P == {t \in Seq(S) : NoRepeat(t) /\ Range(t) \cap Range(s) = {}
                                  => Distinct(s \o t) = Distinct(s) \o t}
  <1>0. Distinct(s) \in Seq(S)
    BY DistinctLists
  <1>1. <<>> \in P
    <2>1. <<>> \in Seq(S) /\ s \o <<>> = s
      BY EmptySeq, ConcatEmptySeq
    <2>2. Distinct(s) \o <<>> = Distinct(s)
      BY <1>0, ConcatEmptySeq
    <2> QED
      BY <2>1, <2>2
  <1>2. ASSUME NEW t \in Seq(S), NEW x \in S, t \in P
        PROVE  Append(t, x) \in P
    <2>1. Append(t, x) \in Seq(S) /\ Range(Append(t, x)) = Range(t) \cup {x}
      BY AppendProperties, RangeOfAppend
    <2> SUFFICES ASSUME NoRepeat(Append(t, x)), (Range(t) \cup {x}) \cap Range(s) = {}
                 PROVE  Distinct(s \o Append(t, x)) = Distinct(s) \o Append(t, x)
      BY <2>1
    <2>2. NoRepeat(t) /\ x \notin Range(t)
      <3>1. /\ DOMAIN t = 1..Len(t) /\ Len(t) \in Nat /\ DOMAIN Append(t, x) = 1..(Len(t) + 1)
            /\ \A i \in 1..Len(t) : Append(t, x)[i] = t[i]
            /\ Append(t, x)[Len(t) + 1] = x
        BY AppendProperties
      <3> QED
        BY <3>1 DEF NoRepeat, Range
    <2>3. Distinct(s \o t) = Distinct(s) \o t
      BY <1>2, <2>2
    <2>4. s \o t \in Seq(S) /\ x \notin Range(s \o t)
      BY <2>2, ConcatProperties, RangeConcatenation
    <2>5. Distinct(Append(s \o t, x)) = Append(Distinct(s \o t), x)
      BY <2>4, DistinctOfAppend
    <2>6. Distinct(s) \o Append(t, x) = Append(Distinct(s) \o t, x)
      BY <1>0, AppendAtEnd
    <2>7. s \o Append(t, x) = Append(s \o t, x)
      BY AppendAtEnd
    <2> QED
      BY <2>3, <2>5, <2>6, <2>7
  <1> HIDE DEF P
  <1>3. \A t \in Seq(S) : t \in P
    BY <1>1, <1>2, SeqInduction
  <1> QED
    BY <1>3 DEF P

\* What was repeated before makes no difference to what comes after.
LEMMA DistinctGoesOn ==
    ASSUME NEW S, NEW a \in Seq(S), NEW b \in Seq(S), Distinct(a) = Distinct(b)
    PROVE  \A t \in Seq(S) : Distinct(a \o t) = Distinct(b \o t)
  <1> DEFINE P == {t \in Seq(S) : Distinct(a \o t) = Distinct(b \o t)}
  <1>0. Range(a) = Range(b)
    BY DistinctLists
  <1>1. <<>> \in P
    BY EmptySeq, ConcatEmptySeq
  <1>2. ASSUME NEW t \in Seq(S), NEW x \in S, t \in P
        PROVE  Append(t, x) \in P
    <2> DEFINE at == a \o t
               bt == b \o t
    <2>1. /\ Append(t, x) \in Seq(S) /\ at \in Seq(S) /\ bt \in Seq(S)
          /\ Range(at) = Range(a) \cup Range(t) /\ Range(bt) = Range(b) \cup Range(t)
      BY AppendProperties, ConcatProperties, RangeConcatenation
    <2>2. Distinct(at) = Distinct(bt)
      BY <1>2
    <2> HIDE DEF at, bt
    <2>5. /\ Distinct(Append(at, x)) = IF x \in Range(at) THEN Distinct(at) ELSE Append(Distinct(at), x)
          /\ Distinct(Append(bt, x)) = IF x \in Range(bt) THEN Distinct(bt) ELSE Append(Distinct(bt), x)
      BY <2>1, DistinctOfAppend
    <2>3. Distinct(Append(at, x)) = Distinct(Append(bt, x))
      BY <1>0, <2>1, <2>2, <2>5
    <2>4. a \o Append(t, x) = Append(a \o t, x) /\ b \o Append(t, x) = Append(b \o t, x)
      BY AppendAtEnd
    <2> QED
      BY <2>1, <2>3, <2>4 DEF at, bt
  <1> HIDE DEF P
  <1>3. \A t \in Seq(S) : t \in P
    BY <1>1, <1>2, SeqInduction
  <1> QED
    BY <1>3 DEF P

\* A copy of the beginning of t before t changes nothing.
LEMMA DistinctOfCopy ==
    ASSUME NEW S, NEW s \in Seq(S), NEW p \in Seq(S), NEW r \in Seq(S)
    PROVE  Distinct((s \o p) \o (p \o r)) = Distinct(s \o (p \o r))
  <1>1. s \o p \in Seq(S) /\ p \o r \in Seq(S) /\ (s \o p) \o p \in Seq(S)
    <2>1. s \o p \in Seq(S)
      BY ConcatProperties
    <2> QED
      BY <2>1, ConcatProperties
  <1>2. Range(p) \subseteq Range(s \o p)
    BY RangeConcatenation
  <1>3. Distinct((s \o p) \o p) = Distinct(s \o p)
    BY <1>1, <1>2, DistinctOfKnown
  <1>4. Distinct(((s \o p) \o p) \o r) = Distinct((s \o p) \o r)
    BY <1>1, <1>3, DistinctGoesOn
  <1> DEFINE sp == s \o p
  <1>5. sp \in Seq(S)
    BY <1>1
  <1> HIDE DEF sp
  <1>6. sp \o (p \o r) = (sp \o p) \o r
    <2>1. \A a, b, c \in Seq(S) : (a \o b) \o c = a \o (b \o c)
      BY SMTT(60), ConcatAssociative
    <2> QED
      BY Zenon, <1>5, <2>1
  <1>7. sp \o r = s \o (p \o r)
    BY SMTT(60), ConcatAssociative DEF sp
  <1>8. Distinct((sp \o p) \o r) = Distinct(sp \o r)
    BY <1>4 DEF sp
  <1>9. Distinct(sp \o (p \o r)) = Distinct(s \o (p \o r))
    BY <1>6, <1>7, <1>8
  <1> QED
    BY <1>9 DEF sp

\* More events only add at the end.
LEMMA DistinctGrows ==
    ASSUME NEW S, NEW a \in Seq(S)
    PROVE  \A t \in Seq(S) : \E u \in Seq(S) : Distinct(a \o t) = Distinct(a) \o u
  <1> DEFINE P == {t \in Seq(S) : \E u \in Seq(S) : Distinct(a \o t) = Distinct(a) \o u}
  <1>0. Distinct(a) \in Seq(S)
    BY DistinctLists
  <1>1. <<>> \in P
    <2>1. <<>> \in Seq(S) /\ a \o <<>> = a
      BY EmptySeq, ConcatEmptySeq
    <2>2. Distinct(a) \o <<>> = Distinct(a)
      BY <1>0, ConcatEmptySeq
    <2> QED
      BY <2>1, <2>2
  <1>2. ASSUME NEW t \in Seq(S), NEW x \in S, t \in P
        PROVE  Append(t, x) \in P
    <2>1. PICK u \in Seq(S) : Distinct(a \o t) = Distinct(a) \o u
      BY <1>2
    <2>2. Append(t, x) \in Seq(S) /\ a \o t \in Seq(S) /\ Append(u, x) \in Seq(S)
      BY AppendProperties, ConcatProperties
    <2>3. Distinct(Append(a \o t, x)) = Distinct(a) \o u
          \/ Distinct(Append(a \o t, x)) = Append(Distinct(a) \o u, x)
      BY <2>1, <2>2, DistinctOfAppend
    <2>4. a \o Append(t, x) = Append(a \o t, x)
      BY AppendAtEnd
    <2>5. Distinct(a) \o Append(u, x) = Append(Distinct(a) \o u, x)
      BY <1>0, AppendAtEnd
    <2> QED
      BY <2>2, <2>3, <2>4, <2>5
  <1> HIDE DEF P
  <1>3. \A t \in Seq(S) : t \in P
    BY <1>1, <1>2, SeqInduction
  <1> QED
    BY <1>3 DEF P

\* As many events as there are different ones.
LEMMA DistinctCounts ==
    ASSUME NEW S, NEW s \in Seq(S)
    PROVE  IsFiniteSet(Range(s)) /\ Cardinality(Range(s)) = Len(Distinct(s))
  <1> DEFINE d == Distinct(s)
  <1>1. d \in Seq(S) /\ Range(d) = Range(s) /\ NoRepeat(d)
    BY DistinctLists
  <1> HIDE DEF d
  <1> DEFINE n == Len(d)
  <1>2. n \in Nat /\ DOMAIN d = 1..n /\ d = [i \in 1..n |-> d[i]]
    BY <1>1
  <1>6. n = Len(Distinct(s))
    BY DEF d
  <1> HIDE DEF n
  <1>3. IsFiniteSet(1..n)
    <2>1. 1 \in Int /\ n \in Int
      BY <1>2
    <2> QED
      BY <2>1, FS_Interval
  <1>4. d \in Bijection(1..n, Range(d))
    BY <1>1, <1>2 DEF Bijection, Injection, Surjection, Range, NoRepeat, IsInjective
  <1>5. ExistsBijection(1..n, Range(d))
    BY <1>4 DEF ExistsBijection
  <1>7. IsFiniteSet(Range(d)) /\ Cardinality(Range(d)) = n
    BY <1>2, <1>3, <1>5, FS_Bijection, FS_CountingElements
  <1> QED
    BY <1>1, <1>6, <1>7

LEMMA DistinctIsMonotonic ==
    ASSUME NEW S, NEW s \in Seq(S), NEW t \in Seq(S), Range(s) \subseteq Range(t)
    PROVE  Len(Distinct(s)) <= Len(Distinct(t))
  <1>1. IsFiniteSet(Range(t)) /\ Cardinality(Range(t)) = Len(Distinct(t))
    BY DistinctCounts
  <1>2. Cardinality(Range(s)) = Len(Distinct(s))
    BY DistinctCounts
  <1>3. Cardinality(Range(s)) <= Cardinality(Range(t))
    BY <1>1, FS_Subset
  <1> QED
    BY <1>1, <1>2, <1>3

-----------------------------------------------------------------------------
(* The segments, one after the other.                                      *)

Flats(h, ss, S) ==
    /\ h \in [1..Len(ss) -> Seq(S)]
    /\ FlattenSeq(ss) = h[Len(ss)] /\ h[1] = ss[1]
    /\ \A i \in 2..Len(ss) : h[i] = h[i - 1] \o ss[i]

LEMMA FlattenUnfolds ==
    ASSUME NEW S
    PROVE  \A ss \in Seq(Seq(S)) : ss # <<>> => \E h : Flats(h, ss, S)
  <1> SUFFICES ASSUME NEW ss \in Seq(Seq(S)), ss # <<>> PROVE \E h : Flats(h, ss, S)
    OBVIOUS
  <1> DEFINE Goes(h) == h = [i \in 1..Len(ss) |-> IF i = 1 THEN ss[i] ELSE h[i - 1] \o ss[i]]
             flatten == CHOOSE h : Goes(h)
             step == [i \in 1..Len(ss) |-> [t \in Seq(S) |-> IF i = 1 THEN ss[1] ELSE t \o ss[i]]]
  <1>2. Len(ss) \in Nat \ {0} /\ <<>> \in Seq(S) /\ \A i \in 1..Len(ss) : ss[i] \in Seq(S)
    BY EmptySeq, ElementOfSeq
  <1>1. FlattenSeq(ss) = flatten[Len(ss)]
    BY <1>2 DEF FlattenSeq
  <1>3. step \in [1..Len(ss) -> [Seq(S) -> Seq(S)]]
    BY <1>2, ConcatProperties
  <1> HIDE DEF step
  <1>4. PICK g \in [0..Len(ss) -> Seq(S)] :
          g[0] = <<>> /\ \A i \in 1..Len(ss) : g[i] = step[i][g[i - 1]]
    <2> DEFINE T == Seq(S)
               N == Len(ss)
               base == <<>>
    <2>1. N \in Nat /\ base \in T /\ step \in [1..N -> [T -> T]]
      BY <1>2, <1>3
    <2> HIDE DEF T, N, base
    <2>2. \E g : Recurs(g, T, base, N, step)
      BY <2>1, Recursion
    <2> QED
      BY <2>2 DEF Recurs, T, N, base
  <1>5. \A i \in 1..Len(ss) : g[i] = IF i = 1 THEN ss[1] ELSE g[i - 1] \o ss[i]
    <2> SUFFICES ASSUME NEW i \in 1..Len(ss)
                 PROVE  g[i] = IF i = 1 THEN ss[1] ELSE g[i - 1] \o ss[i]
      OBVIOUS
    <2>1. i - 1 \in 0..Len(ss)
      BY <1>2
    <2>2. g[i - 1] \in Seq(S)
      BY <1>4, <2>1
    <2> QED
      BY <1>4, <2>2 DEF step
  <1> DEFINE f == [i \in 1..Len(ss) |-> g[i]]
  <1>6. f \in [1..Len(ss) -> Seq(S)] /\ \A i \in 1..Len(ss) : f[i] = IF i = 1 THEN ss[i] ELSE f[i - 1] \o ss[i]
    <2>1. f \in [1..Len(ss) -> Seq(S)]
      BY <1>2
    <2>2. \A i \in 1..Len(ss) : f[i] = IF i = 1 THEN ss[i] ELSE f[i - 1] \o ss[i]
      <3> SUFFICES ASSUME NEW i \in 1..Len(ss)
                   PROVE  f[i] = IF i = 1 THEN ss[i] ELSE f[i - 1] \o ss[i]
        OBVIOUS
      <3>1. CASE i = 1
        BY <1>5, <3>1
      <3>2. CASE i # 1
        <4>1. i - 1 \in 1..Len(ss)
          BY <1>2, <3>2
        <4> QED
          BY <1>5, <3>2, <4>1
      <3> QED
        BY <3>1, <3>2
    <2> QED
      BY <2>1, <2>2
  <1> HIDE DEF f
  <1>7. Goes(f)
    <2>1. f = [i \in 1..Len(ss) |-> f[i]]
      BY <1>6
    <2> QED
      BY <1>6, <2>1
  <1> HIDE DEF Goes
  <1>8. Goes(flatten)
    BY <1>7
  <1> HIDE DEF flatten
  <1>9. \A i \in 1..Len(ss) : flatten[i] = IF i = 1 THEN ss[i] ELSE flatten[i - 1] \o ss[i]
    BY <1>8 DEF Goes
  <1>12. 1 \in 1..Len(ss)
    BY <1>2
  <1>10. flatten = f
    <2> DEFINE P == {n \in Nat : n \in 1..Len(ss) => flatten[n] = f[n]}
    <2>1. 0 \in P
      OBVIOUS
    <2>2. ASSUME NEW n \in Nat, n \in P
          PROVE  n + 1 \in P
      <3> SUFFICES ASSUME n + 1 \in 1..Len(ss) PROVE flatten[n + 1] = f[n + 1]
        OBVIOUS
      <3>1. CASE n = 0
        <4>1. f[1] = ss[1] /\ flatten[1] = ss[1]
          BY <1>6, <1>9, <1>12
        <4> QED
          BY <3>1, <4>1
      <3>2. CASE n # 0
        <4>1. n \in 1..Len(ss) /\ flatten[n] = f[n] /\ (n + 1) - 1 = n /\ n + 1 # 1
          BY <1>2, <2>2, <3>2
        <4>2. flatten[n + 1] = flatten[n] \o ss[n + 1] /\ f[n + 1] = f[n] \o ss[n + 1]
          BY <1>6, <1>9, <4>1
        <4> QED
          BY <4>1, <4>2
      <3> QED
        BY <3>1, <3>2
    <2> HIDE DEF P
    <2>3. \A n \in Nat : n \in P
      BY <2>1, <2>2, SetInduction
    <2>4. \A n \in 1..Len(ss) : flatten[n] = f[n]
      BY <1>2, <2>3 DEF P
    <2>5. flatten = [i \in 1..Len(ss) |-> flatten[i]] /\ f = [i \in 1..Len(ss) |-> f[i]]
      BY <1>6, <1>8 DEF Goes
    <2> QED
      BY <2>4, <2>5
  <1>11. \A i \in 2..Len(ss) : i \in 1..Len(ss) /\ i # 1
    BY <1>2
  <1> QED
    <2>1. f[1] = ss[1] /\ \A i \in 2..Len(ss) : f[i] = f[i - 1] \o ss[i]
      <3>1. \A i \in 2..Len(ss) : f[i] = f[i - 1] \o ss[i]
        BY <1>6, <1>11
      <3> QED
        BY <1>6, <1>12, <3>1
    <2> QED
      BY <1>1, <1>6, <1>10, <2>1 DEF Flats

LEMMA FlattenOfEmpty == FlattenSeq(<<>>) = <<>>
  BY EmptySeq DEF FlattenSeq

LEMMA FlattenType ==
    ASSUME NEW S
    PROVE  \A ss \in Seq(Seq(S)) : FlattenSeq(ss) \in Seq(S)
  <1> SUFFICES ASSUME NEW ss \in Seq(Seq(S)) PROVE FlattenSeq(ss) \in Seq(S)
    OBVIOUS
  <1>1. CASE ss = <<>>
    BY <1>1, FlattenOfEmpty, EmptySeq
  <1>2. CASE ss # <<>>
    <2>1. PICK h : Flats(h, ss, S)
      BY <1>2, FlattenUnfolds
    <2>2. Len(ss) \in 1..Len(ss)
      BY <1>2, EmptySeq
    <2> QED
      BY <2>1, <2>2 DEF Flats
  <1> QED
    BY <1>1, <1>2

LEMMA FlattenOfAppend ==
    ASSUME NEW S, NEW ss \in Seq(Seq(S)), NEW t \in Seq(S)
    PROVE  FlattenSeq(Append(ss, t)) = FlattenSeq(ss) \o t
  <1> DEFINE tt == Append(ss, t)
             n == Len(ss)
  <1>1. /\ n \in Nat /\ tt \in Seq(Seq(S)) /\ tt # <<>> /\ Len(tt) = n + 1
        /\ \A i \in 1..n : tt[i] = ss[i]
        /\ tt[n + 1] = t
    BY AppendProperties
  <1>0. n = Len(ss) /\ (ss = <<>> <=> n = 0)
    BY EmptySeq
  <1> HIDE DEF tt, n
  <1>2. PICK g : Flats(g, tt, S)
    BY <1>1, FlattenUnfolds
  <1>3. CASE ss = <<>>
    <2>1. FlattenSeq(tt) = t
      BY <1>0, <1>1, <1>2, <1>3 DEF Flats
    <2>2. <<>> \o t = t
      BY ConcatEmptySeq
    <2> QED
      BY <1>3, <2>1, <2>2, FlattenOfEmpty DEF tt
  <1>4. CASE ss # <<>>
    <2>1. PICK h : Flats(h, ss, S)
      BY <1>4, FlattenUnfolds
    <2> DEFINE P == {k \in Nat : k \in 1..n => g[k] = h[k]}
    <2>2. 0 \in P
      OBVIOUS
    <2>3. ASSUME NEW k \in Nat, k \in P
          PROVE  k + 1 \in P
      <3> SUFFICES ASSUME k + 1 \in 1..n PROVE g[k + 1] = h[k + 1]
        OBVIOUS
      <3>1. CASE k = 0
        BY <1>1, <1>2, <2>1, <3>1 DEF Flats
      <3>2. CASE k # 0
        <4>1. /\ k + 1 \in 2..Len(ss) /\ k + 1 \in 2..Len(tt) /\ g[k] = h[k] /\ (k + 1) - 1 = k
              /\ tt[k + 1] = ss[k + 1]
          BY <1>0, <1>1, <2>3, <3>2
        <4>2. g[k + 1] = g[k] \o tt[k + 1] /\ h[k + 1] = h[k] \o ss[k + 1]
          BY <1>2, <2>1, <4>1 DEF Flats
        <4> QED
          BY <4>1, <4>2
      <3> QED
        BY <3>1, <3>2
    <2> HIDE DEF P
    <2>4. \A k \in Nat : k \in P
      BY <2>2, <2>3, SetInduction
    <2>5. g[n] = h[n]
      BY <1>0, <1>1, <1>4, <2>4 DEF P
    <2>6. n + 1 \in 2..Len(tt) /\ (n + 1) - 1 = n
      BY <1>0, <1>1, <1>4
    <2>7. g[n + 1] = g[n] \o t
      BY <1>1, <1>2, <2>6 DEF Flats
    <2>8. FlattenSeq(tt) = g[n + 1] /\ FlattenSeq(ss) = h[n]
      BY <1>0, <1>1, <1>2, <2>1 DEF Flats
    <2> QED
      BY <2>5, <2>7, <2>8 DEF tt
  <1> QED
    BY <1>3, <1>4

\* The last segment and those before it.
LEMMA FlattenOfLast ==
    ASSUME NEW S, NEW ss \in Seq(Seq(S)), ss # <<>>
    PROVE  /\ Front(ss) \in Seq(Seq(S)) /\ Last(ss) \in Seq(S)
           /\ Len(ss) = Len(Front(ss)) + 1
           /\ FlattenSeq(ss) = FlattenSeq(Front(ss)) \o Last(ss)
  <1>1. PICK f \in Seq(Seq(S)), l \in Seq(S) : ss = Append(f, l)
    BY SequenceEmptyOrAppend
  <1>2. Front(ss) = f /\ Last(ss) = l /\ Len(ss) = Len(f) + 1
    <2>1. Len(f) \in Nat /\ Len(ss) = Len(f) + 1 /\ ss[Len(f) + 1] = l /\ \A i \in 1..Len(f) : ss[i] = f[i]
      BY <1>1, AppendProperties
    <2>2. Front(ss) = SubSeq(ss, 1, Len(f)) /\ Last(ss) = l
      BY <2>1 DEF Front, Last
    <2>3. /\ SubSeq(ss, 1, Len(f)) \in Seq(Seq(S)) /\ Len(SubSeq(ss, 1, Len(f))) = Len(f)
          /\ \A i \in 1..Len(f) : SubSeq(ss, 1, Len(f))[i] = ss[i]
      BY <2>1
    <2> QED
      BY <2>1, <2>2, <2>3, SeqEqual
  <1>3. FlattenSeq(Append(f, l)) = FlattenSeq(f) \o l
    BY FlattenOfAppend
  <1> QED
    BY <1>1, <1>2, <1>3

Begins(a, s, S) == \E r \in Seq(S) : s = a \o r

\* A sequence is its first n events and the others.
LEMMA SplitAt ==
    ASSUME NEW S, NEW s \in Seq(S), NEW n \in 0..Len(s)
    PROVE  /\ SubSeq(s, 1, n) \in Seq(S) /\ Len(SubSeq(s, 1, n)) = n
           /\ \A i \in 1..n : SubSeq(s, 1, n)[i] = s[i]
           /\ Begins(SubSeq(s, 1, n), s, S)
  <1>1. Len(s) \in Nat /\ n \in Nat /\ n <= Len(s)
    OBVIOUS
  <1>2. SubSeq(s, 1, n) \in Seq(S) /\ Len(SubSeq(s, 1, n)) = n /\ \A i \in 1..n : SubSeq(s, 1, n)[i] = s[i]
    BY <1>1
  <1> DEFINE r == SubSeq(s, n + 1, Len(s))
  <1>3. r \in Seq(S) /\ Len(r) = Len(s) - n /\ \A i \in 1..(Len(s) - n) : r[i] = s[n + i]
    BY <1>1
  <1> HIDE DEF r
  <1>4. s = SubSeq(s, 1, n) \o r
    <2> DEFINE a == SubSeq(s, 1, n)
    <2>1. a \in Seq(S) /\ Len(a) = n /\ \A i \in 1..n : a[i] = s[i]
      BY <1>2
    <2> HIDE DEF a
    <2>2. /\ a \o r \in Seq(S) /\ Len(a \o r) = Len(s)
          /\ \A i \in 1..Len(s) : (a \o r)[i] = IF i <= n THEN a[i] ELSE r[i - n]
      BY <1>1, <1>3, <2>1, ConcatProperties
    <2>3. \A i \in 1..Len(s) : (a \o r)[i] = s[i]
      <3> SUFFICES ASSUME NEW i \in 1..Len(s) PROVE (a \o r)[i] = s[i]
        OBVIOUS
      <3>1. CASE i <= n
        BY <1>1, <2>1, <2>2, <3>1
      <3>2. CASE ~(i <= n)
        <4>1. i - n \in 1..(Len(s) - n) /\ n + (i - n) = i
          BY <1>1, <3>2
        <4> QED
          BY <1>3, <2>2, <3>2, <4>1
      <3> QED
        BY <3>1, <3>2
    <2>4. s = a \o r
      BY <2>2, <2>3, SeqEqual
    <2> QED
      BY <2>4 DEF a
  <1> QED
    BY <1>2, <1>3, <1>4 DEF Begins

\* A prefix is the first events.
LEMMA PrefixIsFirst ==
    ASSUME NEW S, NEW p \in Seq(S), NEW s \in Seq(S)
    PROVE  IsPrefix(p, s) <=> Len(p) \in 0..Len(s) /\ p = SubSeq(s, 1, Len(p))
  <1>1. Len(p) \in Nat /\ Len(s) \in Nat /\ SubSeq(p, 1, Len(p)) = p
    BY SubSeqFull
  <1> QED
    BY <1>1 DEF IsPrefix

LEMMA PrefixRest ==
    ASSUME NEW S, NEW p \in Seq(S), NEW s \in Seq(S), IsPrefix(p, s)
    PROVE  Begins(p, s, S)
  <1>1. Len(p) \in 0..Len(s) /\ p = SubSeq(s, 1, Len(p))
    BY PrefixIsFirst
  <1>2. Begins(SubSeq(s, 1, Len(p)), s, S)
    BY <1>1, SplitAt
  <1> QED
    BY <1>1, <1>2

-----------------------------------------------------------------------------
(* The invariant.                                                          *)

\* None is no state of a chat, and the first line of a segment is not torn: a
\* write to an empty segment leaves no line, or whole ones.
EventConstants ==
    /\ SegmentBytes \in Nat /\ MaxBatch \in Nat /\ MaxEvents \in Nat /\ MaxFaults \in Nat
    /\ FirstWriteMayTear = FALSE
    /\ None \notin [next : Nat, bytes : Nat]

Closed == FlattenSeq(closed)
Safe == Closed \o SubSeq(open.events, 1, synced)

\* While a rotation copies, the closed segment it fills is a part of the open one.
Copying == op.kind \in {"copy", "remove"}
CopyFits ==
    /\ Copying => /\ closed # <<>> /\ IsPrefix(Last(closed), open.events)
                  /\ op.kind = "remove" => Last(closed) = open.events
    /\ op.kind = "write" => open = NoFile /\ memory # None /\ memory.bytes = 0
    /\ op.kind # "none" => memory # None
    /\ op.kind = "none" => op = Idle

\* What failed writes may have hidden from the state.
Hidden(n) == 2 * MaxBatch * n

\* What the state knows of the open segment.
SizeFits ==
    /\ faults \in Nat
    /\ open.size >= 2 * Len(open.events)
    /\ memory # None => memory.bytes <= open.size /\ open.size <= memory.bytes + Hidden(faults)
    /\ ~open.ended => open.size > 0 /\ (memory # None => memory.bytes > 0)

\* Ids grow along the log, and what a sync covered is in the part it covered.
IdsFit ==
    /\ \A e \in Range(Read) : e.id <= issued
    /\ \A i, j \in DOMAIN Log : i < j => Log[i].id < Log[j].id
    /\ kept <= Len(Distinct(Safe))

Inv == TypeOK /\ CopyFits /\ SizeFits /\ IdsFit

\* A parsed log is of these files or of ones with less in them.
HotFits ==
    hot # None =>
        /\ hot.stamp[1] <= Len(closed)
        /\ op # Idle => hot.stamp[1] < Len(closed)
        /\ hot.stamp[1] = Len(closed) =>
              /\ hot.stamp[2] <= open.size
              /\ hot.stamp[2] = open.size => hot.events = Read

\* The log but for the copy a rotation is about to complete.
Base == IF Copying THEN FlattenSeq(Front(closed)) \o open.events ELSE Read

\* Up to its first repetition, seqs grow along it.
NoRepeatTo(b, j) == \A i, k \in 1..j : i # k => b[i] # b[k]
SeqsGrowIn(b, m) ==
    \A j \in 1..Len(b) :
        NoRepeatTo(b, j) => /\ \A i \in 1..(j - 1) : b[i].seq < b[j].seq
                            /\ j = Len(b) /\ m # None => b[j].seq < m.next
SeqsFit == SeqsGrowIn(Base, memory)

-----------------------------------------------------------------------------
(* What the steps do to the open segment and to the log.                   *)

LEMMA HiddenGrows ==
    ASSUME MaxBatch \in Nat
    PROVE  \A n \in Nat : /\ Hidden(n) \in Nat
                          /\ Hidden(n + 1) = Hidden(n) + 2 * MaxBatch
                          /\ 2 * MaxBatch * (1 + n) = Hidden(n) + 2 * MaxBatch
  BY DEF Hidden

\* The bound of the bytes, without its product.
LEMMA MostBytesIs ==
    ASSUME EventConstants, faults \in Nat
    PROVE  MostBytes = SegmentBytes + 2 * MaxBatch + Hidden(faults) /\ MostBytes \in Nat
  <1>1. MaxBatch \in Nat /\ SegmentBytes \in Nat
    BY DEF EventConstants
  <1> DEFINE P == 2 * MaxBatch * (1 + faults)
             H == Hidden(faults)
  <1>2. P = H + 2 * MaxBatch /\ H \in Nat
    BY <1>1, HiddenGrows
  <1>3. MostBytes = SegmentBytes + P
    BY DEF MostBytes
  <1> HIDE DEF P, H
  <1>4. MostBytes = SegmentBytes + 2 * MaxBatch + H /\ MostBytes \in Nat
    BY <1>1, <1>2, <1>3
  <1> QED
    BY <1>4 DEF H

LEMMA MostBytesAfter ==
    ASSUME EventConstants, faults' \in Nat
    PROVE  MostBytes' = SegmentBytes + 2 * MaxBatch + Hidden(faults') /\ MostBytes' \in Nat
  <1>1. MaxBatch \in Nat /\ SegmentBytes \in Nat
    BY DEF EventConstants
  <1> DEFINE f == faults'
             P == 2 * MaxBatch * (1 + f)
             H == Hidden(f)
  <1>2. P = H + 2 * MaxBatch /\ H \in Nat
    BY <1>1, HiddenGrows
  <1>3. MostBytes' = SegmentBytes + P
    BY DEF MostBytes
  <1> HIDE DEF P, H
  <1>4. MostBytes' = SegmentBytes + 2 * MaxBatch + H /\ MostBytes' \in Nat
    BY <1>1, <1>2, <1>3
  <1> QED
    BY <1>4 DEF H

LEMMA ReadTyped ==
    ASSUME NEW S, NEW c \in Seq(Seq(S)), NEW o \in Seq(S)
    PROVE  FlattenSeq(c) \in Seq(S) /\ FlattenSeq(c) \o o \in Seq(S)
  <1>1. FlattenSeq(c) \in Seq(S)
    BY FlattenType
  <1> QED
    BY <1>1, ConcatProperties

LEMMA Typed ==
    ASSUME TypeOK
    PROVE  /\ closed \in Seq(Seq(EventOf)) /\ open.events \in Seq(EventOf) /\ Closed \in Seq(EventOf)
           /\ Read \in Seq(EventOf) /\ Read = Closed \o open.events
           /\ Log \in Seq(EventOf) /\ Range(Log) = Range(Read) /\ NoRepeat(Log)
           /\ open \in [events : Seq(EventOf), size : Nat, ended : BOOLEAN]
           /\ open = [events |-> open.events, size |-> open.size, ended |-> open.ended]
           /\ open.size \in Nat /\ open.ended \in BOOLEAN
           /\ synced \in 0..Len(open.events) /\ issued \in 0..MaxEvents /\ kept \in 0..MaxEvents
  <1>1. closed \in Seq(Seq(EventOf)) /\ open.events \in Seq(EventOf)
    BY DEF TypeOK
  <1>2. Closed \in Seq(EventOf) /\ Read \in Seq(EventOf) /\ Read = Closed \o open.events
    BY <1>1, ReadTyped DEF Closed, Read
  <1>3. Log \in Seq(EventOf) /\ Range(Log) = Range(Read) /\ NoRepeat(Log)
    BY <1>2, DistinctLists DEF Log
  <1>4. /\ open = [events |-> open.events, size |-> open.size, ended |-> open.ended]
        /\ open.size \in Nat /\ open.ended \in BOOLEAN
        /\ open \in [events : Seq(EventOf), size : Nat, ended : BOOLEAN]
        /\ synced \in 0..Len(open.events) /\ issued \in 0..MaxEvents /\ kept \in 0..MaxEvents
    BY DEF TypeOK
  <1> QED
    BY <1>1, <1>2, <1>3, <1>4

\* What an append starts from.
LEMMA LoadedFits ==
    ASSUME EventConstants, TypeOK, SizeFits
    PROVE  /\ Loaded.next \in Nat \ {0} /\ Loaded.bytes \in Nat
           /\ Loaded = [next |-> Loaded.next, bytes |-> Loaded.bytes]
           /\ Loaded.bytes <= open.size /\ open.size <= Loaded.bytes + Hidden(faults)
           /\ ~open.ended => Loaded.bytes > 0
           /\ memory # None => Loaded = memory
  <1>0. MaxBatch \in Nat /\ faults \in Nat /\ Hidden(faults) \in Nat
    BY HiddenGrows DEF EventConstants, SizeFits
  <1>1. CASE memory = None
    <2>1. NextSeq(Read) \in Nat \ {0}
      <3>1. CASE Read = <<>>
        BY <3>1 DEF NextSeq
      <3>2. CASE Read # <<>>
        <4>1. Read[Len(Read)] \in EventOf
          BY <3>2, Typed, EmptySeq
        <4> QED
          BY <3>2, <4>1 DEF NextSeq, Last, EventOf
      <3> QED
        BY <3>1, <3>2
    <2>2. Loaded = [next |-> NextSeq(Read), bytes |-> open.size]
      BY <1>1 DEF Loaded
    <2> QED
      BY <1>0, <1>1, <2>1, <2>2, Typed DEF SizeFits
  <1>2. CASE memory # None
    <2>1. memory \in [next : Nat \ {0}, bytes : 0..MostBytes] /\ Loaded = memory
      BY <1>2 DEF TypeOK, Loaded
    <2>2. MostBytes \in Nat
      BY <1>0, MostBytesIs
    <2> QED
      BY <1>2, <2>1, <2>2 DEF SizeFits
  <1> QED
    BY <1>1, <1>2

\* A line of the open segment's own is written before the first new one only
\* when it must be, and then the file ends a line.
LEMMA FreshFits ==
    ASSUME EventConstants, TypeOK, SizeFits
    PROVE  /\ Fresh(Loaded).file.ended = TRUE /\ Fresh(Loaded).file.events = open.events
           /\ \E e \in {0, 1} : /\ Fresh(Loaded).bytes = Loaded.bytes + e
                                /\ Fresh(Loaded).file.size = open.size + e
                                /\ e = 0 => Fresh(Loaded).file = open
                                /\ e = 1 => ~open.ended
  <1> DEFINE st == Loaded
  <1>1. (~open.ended => st.bytes > 0) /\ st.bytes \in Nat
    BY LoadedFits
  <1>2. open \in [events : Seq(EventOf), size : Nat, ended : BOOLEAN]
    BY Typed
  <1> SUFFICES /\ Fresh(st).file.ended = TRUE /\ Fresh(st).file.events = open.events
               /\ \E e \in {0, 1} : /\ Fresh(st).bytes = st.bytes + e
                                    /\ Fresh(st).file.size = open.size + e
                                    /\ e = 0 => Fresh(st).file = open
                                    /\ e = 1 => ~open.ended
    OBVIOUS
  <1> HIDE DEF st
  <1>3. CASE open.ended
    <2>1. Fresh(st) = [file |-> open, bytes |-> st.bytes]
      BY <1>3 DEF Fresh, Unfixed
    <2>2. Fresh(st).bytes = st.bytes + 0 /\ Fresh(st).file = open /\ open.size = open.size + 0
      BY <1>1, <1>2, <2>1
    <2>3. open.ended = TRUE
      BY <1>2, <1>3
    <2>4. \E e \in {0, 1} : /\ Fresh(st).bytes = st.bytes + e
                            /\ Fresh(st).file.size = open.size + e
                            /\ e = 0 => Fresh(st).file = open
                            /\ e = 1 => ~open.ended
      <3> WITNESS 0 \in {0, 1}
      <3> QED
        BY <2>2
    <2> QED
      BY <2>2, <2>3, <2>4
  <1>4. CASE ~open.ended
    <2> DEFINE f == [open EXCEPT !.size = @ + 1, !.ended = TRUE]
    <2>1. Fresh(st) = [file |-> f, bytes |-> st.bytes + 1]
      BY <1>1, <1>4 DEF Fresh
    <2>2. f.ended = TRUE /\ f.events = open.events /\ f.size = open.size + 1
      BY <1>2
    <2> HIDE DEF f
    <2>3. Fresh(st).file = f /\ Fresh(st).bytes = st.bytes + 1
      BY <2>1
    <2>4. \E e \in {0, 1} : /\ Fresh(st).bytes = st.bytes + e
                            /\ Fresh(st).file.size = open.size + e
                            /\ e = 0 => Fresh(st).file = open
                            /\ e = 1 => ~open.ended
      <3> WITNESS 1 \in {0, 1}
      <3> QED
        BY <1>4, <2>2, <2>3
    <2> QED
      BY <2>2, <2>3, <2>4
  <1> QED
    BY <1>3, <1>4

LEMMA NewEventsFit ==
    ASSUME EventConstants, TypeOK, NEW st, st.next \in Nat \ {0},
           NEW k, k \in Nat, NEW n, n \in 0..k, issued + k <= MaxEvents
    PROVE  /\ NewEvents(st, n) \in Seq(EventOf) /\ Len(NewEvents(st, n)) = n
           /\ \A i \in 1..n : /\ NewEvents(st, n)[i].id = issued + i
                              /\ NewEvents(st, n)[i].seq = st.next + i - 1
           /\ NoRepeat(NewEvents(st, n))
  <1>1. issued \in Nat /\ MaxEvents \in Nat /\ n \in Nat /\ n <= k
    BY Typed DEF EventConstants
  <1> DEFINE new == NewEvents(st, n)
  <1>2. /\ new = [i \in 1..n |-> [id |-> issued + i, seq |-> st.next + i - 1]]
    BY DEF NewEvents
  <1> HIDE DEF new
  <1>3. \A i \in 1..n : /\ new[i] \in EventOf
                        /\ new[i].id = issued + i
                        /\ new[i].seq = st.next + i - 1
    <2> SUFFICES ASSUME NEW i \in 1..n
                 PROVE  /\ new[i] \in EventOf
                        /\ new[i].id = issued + i
                        /\ new[i].seq = st.next + i - 1
      OBVIOUS
    <2>1. new[i] = [id |-> issued + i, seq |-> st.next + i - 1]
      BY <1>2
    <2>2. issued + i \in 1..MaxEvents /\ st.next + i - 1 \in Nat \ {0}
      BY <1>1
    <2> QED
      BY <2>1, <2>2 DEF EventOf
  <1>4. new \in Seq(EventOf) /\ Len(new) = n /\ DOMAIN new = 1..n
    BY <1>1, <1>2, <1>3
  <1>5. NoRepeat(new)
    <2>1. \A i, j \in 1..n : i # j => new[i].id # new[j].id
      BY <1>1, <1>3
    <2> QED
      BY <1>4, <2>1 DEF NoRepeat
  <1> QED
    BY <1>3, <1>4, <1>5 DEF new

\* New lines on a file that ends a line.
LEMMA WrittenFits ==
    \A f, new : f.ended = TRUE =>
        Written(f, new) = [events |-> f.events \o new, size |-> f.size + 2 * Len(new), ended |-> TRUE]
  BY DEF Written

\* A write adds n events; it may have added a newline before, and the beginning
\* of a line after.
Grows(k, n, e, cut) ==
    /\ n \in 0..k /\ e \in {0, 1} /\ cut \in {0, 1}
    /\ open' = [events |-> open.events \o NewEvents(Loaded, n),
                size |-> open.size + e + 2 * n + cut, ended |-> cut = 0]
    /\ e + 2 * n + cut = 0 => open' = open
    /\ e = 1 => ~open.ended
    /\ memory'.next = Loaded.next + k
    /\ issued' = issued + k /\ issued + k <= MaxEvents
    /\ op' = Idle
    /\ UNCHANGED <<closed, synced, kept>>

LEMMA AppendGrows ==
    ASSUME EventConstants, TypeOK, SizeFits, NEW k \in 1..MaxBatch, AppendEvents(k)
    PROVE  \E e \in {0, 1} :
              /\ Grows(k, k, e, 0)
              /\ memory' = [next |-> Loaded.next + k, bytes |-> Loaded.bytes + e + 2 * k]
              /\ Fresh(Loaded).bytes = Loaded.bytes + e
              /\ e = 0 => Fresh(Loaded).file = open
  <1> DEFINE st == Loaded
             fresh == Fresh(st)
             new == NewEvents(st, k)
  <1>1. /\ issued + k <= MaxEvents
        /\ open' = Written(fresh.file, new)
        /\ memory' = [next |-> st.next + k, bytes |-> fresh.bytes + 2 * k]
        /\ issued' = issued + k /\ op' = Idle /\ UNCHANGED <<closed, synced, kept>>
    BY DEF AppendEvents
  <1>2. st.next \in Nat \ {0} /\ st.bytes \in Nat /\ open.size \in Nat /\ k \in Nat /\ k # 0
    <2>1. k \in Nat /\ k # 0
      BY DEF EventConstants
    <2> QED
      BY <2>1, LoadedFits, Typed
  <1>3. new \in Seq(EventOf) /\ Len(new) = k /\ open.events \in Seq(EventOf)
    BY <1>1, <1>2, NewEventsFit, Typed
  <1>4. /\ fresh.file.ended = TRUE /\ fresh.file.events = open.events
        /\ \E e \in {0, 1} : fresh.bytes = st.bytes + e /\ fresh.file.size = open.size + e
                             /\ (e = 0 => fresh.file = open) /\ (e = 1 => ~open.ended)
    BY FreshFits
  <1> HIDE DEF st, fresh, new
  <1>5. PICK e \in {0, 1} : fresh.bytes = st.bytes + e /\ fresh.file.size = open.size + e
                            /\ (e = 0 => fresh.file = open) /\ (e = 1 => ~open.ended)
    BY <1>4
  <1>6. open' = [events |-> open.events \o new, size |-> fresh.file.size + 2 * k, ended |-> TRUE]
    <2> DEFINE f == fresh.file
    <2>1. f.ended = TRUE /\ f.events \in Seq(EventOf) /\ f.events = open.events
      BY <1>3, <1>4
    <2>2. open' = Written(f, new)
      BY <1>1
    <2> HIDE DEF f
    <2>3. Written(f, new) = [events |-> f.events \o new, size |-> f.size + 2 * Len(new), ended |-> TRUE]
      BY <1>3, <2>1, WrittenFits
    <2> QED
      BY <1>3, <2>1, <2>2, <2>3 DEF f
  <1>7. fresh.file.size + 2 * k = open.size + e + 2 * k + 0 /\ e + 2 * k + 0 # 0
    BY <1>2, <1>5
  <1>8. open' = [events |-> open.events \o new, size |-> open.size + e + 2 * k + 0, ended |-> 0 = 0]
    BY <1>6, <1>7
  <1>9. k \in 0..k /\ memory'.next = st.next + k
    BY <1>1, <1>2
  <1>10. Grows(k, k, e, 0)
    BY <1>1, <1>5, <1>7, <1>8, <1>9 DEF Grows, st, new
  <1> QED
    BY <1>1, <1>5, <1>10 DEF st, fresh, new

LEMMA FailGrows ==
    ASSUME EventConstants, TypeOK, SizeFits, NEW k \in 1..MaxBatch, AppendFails(k)
    PROVE  \E e \in {0, 1}, n \in 0..(k - 1), cut \in {0, 1} :
              /\ Grows(k, n, e, cut)
              /\ memory' = [next |-> Loaded.next + k, bytes |-> Loaded.bytes + e]
              /\ cut = 1 => Loaded.bytes + e > 0
  <1> DEFINE st == Loaded
             fresh == Fresh(st)
  <1>1. /\ issued + k <= MaxEvents
        /\ memory' = [next |-> st.next + k, bytes |-> fresh.bytes]
        /\ issued' = issued + k /\ op' = Idle /\ UNCHANGED <<closed, synced, kept>>
    BY DEF AppendFails
  <1>2. PICK n \in 0..(k - 1), cut \in {0, 1} :
          /\ cut = 1 /\ fresh.bytes = 0 => FirstWriteMayTear
          /\ open' = [Written(fresh.file, NewEvents(st, n)) EXCEPT !.size = @ + cut, !.ended = @ /\ cut = 0]
    BY DEF AppendFails
  <1> DEFINE new == NewEvents(st, n)
  <1>3. st.next \in Nat \ {0} /\ st.bytes \in Nat /\ open.size \in Nat /\ k \in Nat /\ n \in 0..k /\ n \in Nat
    <2>1. k \in Nat /\ n \in 0..k /\ n \in Nat
      BY DEF EventConstants
    <2> QED
      BY <2>1, LoadedFits, Typed
  <1>4. new \in Seq(EventOf) /\ Len(new) = n /\ open.events \in Seq(EventOf)
    BY <1>1, <1>3, NewEventsFit, Typed
  <1>5. /\ fresh.file.ended = TRUE /\ fresh.file.events = open.events
        /\ \E e \in {0, 1} : fresh.bytes = st.bytes + e /\ fresh.file.size = open.size + e
                             /\ (e = 0 => fresh.file = open) /\ (e = 1 => ~open.ended)
    BY FreshFits
  <1>6. PICK e \in {0, 1} : fresh.bytes = st.bytes + e /\ fresh.file.size = open.size + e
                            /\ (e = 0 => fresh.file = open) /\ (e = 1 => ~open.ended)
    BY <1>5
  <1>7. cut = 1 => st.bytes + e > 0
    BY <1>2, <1>3, <1>6 DEF EventConstants
  <1>8. open' = [Written(fresh.file, new) EXCEPT !.size = @ + cut, !.ended = @ /\ cut = 0]
    BY <1>2
  <1>12. st = Loaded
    OBVIOUS
  <1>13. new = NewEvents(st, n)
    OBVIOUS
  <1> HIDE DEF st, fresh, new
  <1>9. Written(fresh.file, new) = [events |-> open.events \o new, size |-> fresh.file.size + 2 * n, ended |-> TRUE]
    <2> DEFINE f == fresh.file
    <2>1. f.ended = TRUE /\ f.events \in Seq(EventOf) /\ f.events = open.events
      BY <1>4, <1>5
    <2> HIDE DEF f
    <2>2. Written(f, new) = [events |-> f.events \o new, size |-> f.size + 2 * Len(new), ended |-> TRUE]
      BY <1>4, <2>1, WrittenFits
    <2> QED
      BY <1>4, <2>1, <2>2 DEF f
  <1>10. open' = [events |-> open.events \o new, size |-> open.size + e + 2 * n + cut, ended |-> cut = 0]
    <2>1. open' = [events |-> open.events \o new, size |-> fresh.file.size + 2 * n + cut, ended |-> cut = 0]
      <3> DEFINE w == Written(fresh.file, new)
      <3>1. w \in [events : {open.events \o new}, size : {fresh.file.size + 2 * n}, ended : BOOLEAN]
            /\ w.ended = TRUE
        BY <1>9
      <3>2. open' = [w EXCEPT !.size = @ + cut, !.ended = @ /\ cut = 0]
        BY <1>8
      <3> HIDE DEF w
      <3> QED
        BY <3>1, <3>2
    <2>2. fresh.file.size = open.size + e
      BY <1>6
    <2> QED
      BY <2>1, <2>2
  <1>11. e + 2 * n + cut = 0 => open' = open
    <2> SUFFICES ASSUME e + 2 * n + cut = 0 PROVE open' = open
      OBVIOUS
    <2>1. e = 0 /\ n = 0 /\ cut = 0
      BY <1>3
    <2>2. fresh.file = open /\ new = <<>>
      BY <1>4, <1>6, <2>1, EmptySeq
    <2>3. open.ended = TRUE /\ open = [events |-> open.events, size |-> open.size, ended |-> open.ended]
      BY <1>5, <2>2, Typed
    <2>4. open.events \o new = open.events /\ open.size + e + 2 * n + cut = open.size
      BY <1>3, <1>4, <2>1, <2>2, ConcatEmptySeq
    <2> QED
      BY <1>10, <2>1, <2>3, <2>4
  <1>14. Grows(k, n, e, cut)
    <2>1. memory'.next = st.next + k
      BY <1>1
    <2> QED
      BY <1>1, <1>3, <1>6, <1>10, <1>11, <1>12, <1>13, <2>1 DEF Grows
  <1> QED
    BY <1>1, <1>6, <1>7, <1>14 DEF st

\* A write adds its events to the log, and changes nothing a sync covered.
LEMMA GrowsRead ==
    ASSUME EventConstants, TypeOK, SizeFits, IdsFit,
           NEW k \in Nat, NEW n, NEW e, NEW cut, Grows(k, n, e, cut)
    PROVE  /\ NewEvents(Loaded, n) \in Seq(EventOf) /\ Len(NewEvents(Loaded, n)) = n /\ n \in 0..k
           /\ \A i \in 1..n : /\ NewEvents(Loaded, n)[i].id = issued + i
                              /\ NewEvents(Loaded, n)[i].seq = Loaded.next + i - 1
           /\ open'.events = open.events \o NewEvents(Loaded, n)
           /\ open'.events \in Seq(EventOf) /\ Len(open'.events) = Len(open.events) + n
           /\ Read' = Read \o NewEvents(Loaded, n)
           /\ Log' = Log \o NewEvents(Loaded, n)
           /\ Safe' = Safe
  <1> DEFINE new == NewEvents(Loaded, n)
  <1>1. n \in 0..k /\ n \in Nat /\ issued + k <= MaxEvents /\ issued' = issued + k
    BY DEF Grows
  <1>2. Loaded.next \in Nat \ {0}
    BY LoadedFits
  <1>3. /\ new \in Seq(EventOf) /\ Len(new) = n /\ NoRepeat(new)
        /\ \A i \in 1..n : new[i].id = issued + i /\ new[i].seq = Loaded.next + i - 1
    BY <1>1, <1>2, NewEventsFit
  <1>4. open'.events = open.events \o new /\ closed' = closed /\ synced' = synced
    BY DEF Grows
  <1> HIDE DEF new
  <1>5. /\ closed \in Seq(Seq(EventOf)) /\ open.events \in Seq(EventOf) /\ Closed \in Seq(EventOf)
        /\ Read \in Seq(EventOf) /\ Read = Closed \o open.events /\ issued \in Nat
        /\ synced \in 0..Len(open.events)
    BY Typed
  <1> DEFINE o == open.events
             q == o \o new
  <1>12. o \in Seq(EventOf) /\ new \in Seq(EventOf) /\ Len(new) = n /\ Closed \in Seq(EventOf)
    BY <1>3, <1>5
  <1> HIDE DEF o
  <1>13. /\ q \in Seq(EventOf) /\ Len(q) = Len(o) + n
         /\ \A i \in 1..(Len(o) + n) : q[i] = IF i <= Len(o) THEN o[i] ELSE new[i - Len(o)]
    BY <1>12, ConcatProperties
  <1>14. (Closed \o o) \o new = Closed \o q
    BY SMTT(60), <1>12, ConcatAssociative
  <1> HIDE DEF q
  <1>6. open'.events \in Seq(EventOf) /\ Len(open'.events) = Len(open.events) + n
    BY <1>4, <1>13 DEF q, o
  <1>7. Read' = Closed \o (open.events \o new)
    BY <1>4 DEF Read, Closed
  <1>8. Read' = Read \o new
    BY <1>5, <1>7, <1>14 DEF o, q
  <1>9. Range(new) \cap Range(Read) = {}
    <2>1. DOMAIN new = 1..n
      BY <1>3
    <2>2. \A x \in Range(new) : x.id > issued
      BY <1>1, <1>3, <1>5, <2>1 DEF Range
    <2>3. \A x \in Range(Read) : x.id <= issued
      BY DEF IdsFit
    <2>4. \A x \in Range(Read) : x.id \in Nat
      <3>1. Range(Read) \subseteq EventOf
        BY <1>5, RangeOfSeq
      <3> QED
        BY <3>1 DEF EventOf
    <2>5. \A x \in Range(Read) : ~(x.id > issued)
      BY <1>5, <2>3, <2>4
    <2> QED
      BY <2>2, <2>5
  <1>10. Log' = Log \o new
    <2>1. Distinct(Read \o new) = Distinct(Read) \o new
      BY <1>3, <1>5, <1>9, DistinctOfNew
    <2>2. Log' = Distinct(Read')
      BY DEF Log
    <2> QED
      BY <1>8, <2>1, <2>2 DEF Log
  <1>11. Safe' = Safe
    <2>1. o \in Seq(EventOf) /\ q \in Seq(EventOf) /\ Len(q) = Len(o) + n /\ Len(o) \in Nat
          /\ \A i \in 1..Len(o) : q[i] = o[i]
      <3>1. Len(o) \in Nat
        BY <1>12
      <3> QED
        BY <1>1, <1>12, <1>13, <3>1
    <2>2. synced \in 0..Len(o) /\ synced \in 0..Len(q)
      <3>1. synced \in 0..Len(o)
        BY <1>5 DEF o
      <3> QED
        BY <1>1, <2>1, <3>1
    <2>3. /\ SubSeq(o, 1, synced) \in Seq(EventOf) /\ Len(SubSeq(o, 1, synced)) = synced
          /\ \A i \in 1..synced : SubSeq(o, 1, synced)[i] = o[i]
      BY <2>1, <2>2, SplitAt
    <2>4. /\ SubSeq(q, 1, synced) \in Seq(EventOf) /\ Len(SubSeq(q, 1, synced)) = synced
          /\ \A i \in 1..synced : SubSeq(q, 1, synced)[i] = q[i]
      BY <2>1, <2>2, SplitAt
    <2>5. \A i \in 1..synced : q[i] = o[i]
      BY <2>1, <2>2
    <2>6. SubSeq(q, 1, synced) = SubSeq(o, 1, synced)
      BY <2>3, <2>4, <2>5, SeqEqual
    <2> QED
      BY <1>4, <2>6 DEF Safe, Closed, o, q
  <1> QED
    BY <1>1, <1>3, <1>4, <1>6, <1>8, <1>10, <1>11 DEF new

LEMMA FirstAreSome ==
    ASSUME NEW S, NEW s \in Seq(S), NEW n \in 0..Len(s)
    PROVE  Range(SubSeq(s, 1, n)) \subseteq Range(s)
  <1> DEFINE a == SubSeq(s, 1, n)
  <1>1. a \in Seq(S) /\ Len(a) = n /\ \A i \in 1..n : a[i] = s[i]
    BY SplitAt
  <1> HIDE DEF a
  <1>2. DOMAIN a = 1..n /\ DOMAIN s = 1..Len(s) /\ \A i \in 1..n : i \in 1..Len(s)
    BY <1>1
  <1>3. Range(a) \subseteq Range(s)
    BY <1>1, <1>2 DEF Range
  <1> QED
    BY <1>3 DEF a

LEMMA SafeTyped ==
    ASSUME TypeOK
    PROVE  Safe \in Seq(EventOf) /\ Range(Safe) \subseteq Range(Read)
           /\ Range(Safe) = Range(Closed) \cup Range(SubSeq(open.events, 1, synced))
  <1> DEFINE a == SubSeq(open.events, 1, synced)
  <1>1. open.events \in Seq(EventOf) /\ synced \in 0..Len(open.events) /\ Closed \in Seq(EventOf)
    BY Typed
  <1>2. a \in Seq(EventOf) /\ Range(a) \subseteq Range(open.events)
    BY <1>1, SplitAt, FirstAreSome
  <1>3. Safe = Closed \o a
    BY DEF Safe
  <1> HIDE DEF a
  <1>4. Safe \in Seq(EventOf) /\ Range(Safe) = Range(Closed) \cup Range(a)
    BY <1>1, <1>2, <1>3, ConcatProperties, RangeConcatenation
  <1>5. Range(Read) = Range(Closed) \cup Range(open.events)
    <2>1. Range(Closed \o open.events) = Range(Closed) \cup Range(open.events)
      BY <1>1, RangeConcatenation
    <2> QED
      BY <2>1, Typed
  <1> QED
    BY <1>2, <1>4, <1>5 DEF a

LEMMA FrontOfAppend ==
    ASSUME NEW S, NEW f \in Seq(S), NEW l \in S
    PROVE  Front(Append(f, l)) = f /\ Last(Append(f, l)) = l
  <1> DEFINE ss == Append(f, l)
  <1>1. Len(f) \in Nat /\ Len(ss) = Len(f) + 1 /\ ss[Len(f) + 1] = l /\ \A i \in 1..Len(f) : ss[i] = f[i]
        /\ ss \in Seq(S)
    BY AppendProperties
  <1> HIDE DEF ss
  <1>2. Front(ss) = SubSeq(ss, 1, Len(f)) /\ Last(ss) = l
    BY <1>1 DEF Front, Last
  <1>3. /\ SubSeq(ss, 1, Len(f)) \in Seq(S) /\ Len(SubSeq(ss, 1, Len(f))) = Len(f)
        /\ \A i \in 1..Len(f) : SubSeq(ss, 1, Len(f))[i] = ss[i]
    BY <1>1
  <1>4. Front(ss) = f
    BY <1>1, <1>2, <1>3, SeqEqual
  <1> QED
    BY <1>2, <1>4 DEF ss

\* The copy of a rotation changes nothing in the log.
LEMMA CopyLog ==
    ASSUME NEW S, NEW c \in Seq(Seq(S)), c # <<>>, NEW o \in Seq(S), IsPrefix(Last(c), o)
    PROVE  /\ Front(c) \in Seq(Seq(S)) /\ FlattenSeq(Front(c)) \in Seq(S) /\ Last(c) \in Seq(S)
           /\ FlattenSeq(c) = FlattenSeq(Front(c)) \o Last(c)
           /\ Distinct(FlattenSeq(c) \o o) = Distinct(FlattenSeq(Front(c)) \o o)
           /\ Range(FlattenSeq(c) \o o) = Range(FlattenSeq(Front(c))) \cup Range(o)
           /\ \E r \in Seq(S) : o = Last(c) \o r
  <1> DEFINE F == FlattenSeq(Front(c))
             p == Last(c)
  <1>1. Front(c) \in Seq(Seq(S)) /\ p \in Seq(S) /\ FlattenSeq(c) = F \o p
    BY FlattenOfLast
  <1>2. F \in Seq(S)
    BY <1>1, FlattenType
  <1> HIDE DEF F
  <1>3. PICK r \in Seq(S) : o = p \o r
    <2>1. Begins(p, o, S)
      BY <1>1, PrefixRest
    <2> QED
      BY <2>1 DEF Begins
  <1> HIDE DEF p
  <1>4. Distinct((F \o p) \o (p \o r)) = Distinct(F \o (p \o r))
    BY <1>1, <1>2, DistinctOfCopy
  <1>5. Range((F \o p) \o o) = Range(F) \cup Range(o)
    <2> DEFINE Fp == F \o p
    <2>1. Fp \in Seq(S) /\ Range(Fp) = Range(F) \cup Range(p) /\ Range(o) = Range(p) \cup Range(r)
      BY <1>1, <1>2, <1>3, ConcatProperties, RangeConcatenation
    <2> HIDE DEF Fp
    <2>2. Range(Fp \o o) = Range(Fp) \cup Range(o)
      BY <2>1, RangeConcatenation
    <2>3. Range(Fp \o o) = Range(F) \cup Range(o)
      BY <2>1, <2>2
    <2> QED
      BY <2>3 DEF Fp
  <1> QED
    BY <1>1, <1>2, <1>3, <1>4, <1>5 DEF F, p

\* The same of the state after a step.
LEMMA TypedAfter ==
    ASSUME TypeOK'
    PROVE  /\ Read' \in Seq(EventOf) /\ Log' \in Seq(EventOf) /\ Range(Log') = Range(Read')
           /\ Safe' \in Seq(EventOf)
  <1> DEFINE c == closed'
             o == open'.events
             n == synced'
  <1>1. c \in Seq(Seq(EventOf)) /\ o \in Seq(EventOf) /\ n \in 0..Len(o)
    BY DEF TypeOK, EventOf
  <1> HIDE DEF c, o, n
  <1> DEFINE F == FlattenSeq(c)
             r == F \o o
             a == SubSeq(o, 1, n)
  <1>2. F \in Seq(EventOf) /\ r \in Seq(EventOf) /\ a \in Seq(EventOf)
    BY <1>1, ReadTyped, SplitAt
  <1>3. Read' = r /\ Log' = Distinct(r) /\ Safe' = F \o a
    BY DEF Read, Log, Safe, Closed, c, o, n
  <1> HIDE DEF F, r, a
  <1>4. Distinct(r) \in Seq(EventOf) /\ Range(Distinct(r)) = Range(r)
    BY <1>2, DistinctLists
  <1>5. F \o a \in Seq(EventOf)
    BY <1>2, ConcatProperties
  <1> QED
    BY <1>2, <1>3, <1>4, <1>5

\* A step that adds no event: ids stay as they are.
LEMMA QuietIds ==
    ASSUME TypeOK, TypeOK', IdsFit, Log' = Log, Range(Safe) \subseteq Range(Safe'),
           UNCHANGED <<issued, kept>>
    PROVE  IdsFit'
  <1>1. Range(Read') = Range(Read)
    <2>1. Range(Log) = Range(Read)
      BY Typed
    <2>2. Range(Log') = Range(Read')
      BY TypedAfter
    <2> QED
      BY <2>1, <2>2
  <1>2. Len(Distinct(Safe)) \in Nat /\ Len(Distinct(Safe')) \in Nat
        /\ Len(Distinct(Safe)) <= Len(Distinct(Safe'))
    <2>1. Safe \in Seq(EventOf) /\ Safe' \in Seq(EventOf)
      BY SafeTyped, TypedAfter
    <2>2. Distinct(Safe) \in Seq(EventOf) /\ Distinct(Safe') \in Seq(EventOf)
      BY <2>1, DistinctLists
    <2>3. Len(Distinct(Safe)) <= Len(Distinct(Safe'))
      BY <2>1, DistinctIsMonotonic
    <2> QED
      BY <2>2, <2>3
  <1>3. kept \in Nat
    BY Typed
  <1>4. \A e \in Range(Read') : e.id <= issued'
    BY <1>1 DEF IdsFit
  <1>5. \A i, j \in DOMAIN Log' : i < j => Log'[i].id < Log'[j].id
    BY DEF IdsFit
  <1>6. kept' <= Len(Distinct(Safe'))
    BY <1>2, <1>3 DEF IdsFit
  <1> QED
    BY <1>4, <1>5, <1>6 DEF IdsFit

-----------------------------------------------------------------------------
(* Every step keeps the invariant.                                         *)

\* Ids that grow are not more than the last.
LEMMA GrowingIds ==
    ASSUME NEW S, NEW l \in Seq(S), NEW N \in Nat, \A i \in 1..Len(l) : l[i].id \in 1..N,
           \A i, j \in 1..Len(l) : i < j => l[i].id < l[j].id
    PROVE  Len(l) <= N
  <1> DEFINE P == {n \in Nat : n \in 1..Len(l) => l[n].id >= n}
  <1>0. Len(l) \in Nat
    OBVIOUS
  <1>1. 0 \in P
    OBVIOUS
  <1>2. ASSUME NEW n \in Nat, n \in P
        PROVE  n + 1 \in P
    <2> SUFFICES ASSUME n + 1 \in 1..Len(l) PROVE l[n + 1].id >= n + 1
      OBVIOUS
    <2>1. l[n + 1].id \in 1..N
      OBVIOUS
    <2>2. CASE n = 0
      BY <2>1, <2>2
    <2>3. CASE n # 0
      <3>1. n \in 1..Len(l) /\ n < n + 1
        BY <1>0, <2>3
      <3>2. l[n].id >= n /\ l[n].id < l[n + 1].id /\ l[n].id \in 1..N
        BY <1>2, <3>1
      <3> QED
        BY <2>1, <3>2
    <2> QED
      BY <2>2, <2>3
  <1> HIDE DEF P
  <1>3. \A n \in Nat : n \in P
    BY <1>1, <1>2, SetInduction
  <1>4. CASE Len(l) = 0
    BY <1>4
  <1>5. CASE Len(l) # 0
    <2>1. Len(l) \in 1..Len(l)
      BY <1>0, <1>5
    <2>2. l[Len(l)].id >= Len(l)
      BY <1>0, <1>3, <2>1 DEF P
    <2>3. l[Len(l)].id \in 1..N
      BY <2>1
    <2> QED
      BY <1>0, <2>2, <2>3
  <1> QED
    BY <1>4, <1>5

LEMMA LogShort ==
    ASSUME TypeOK, IdsFit
    PROVE  Len(Log) \in 0..issued /\ issued <= MaxEvents /\ issued \in Nat
  <1>1. Log \in Seq(EventOf) /\ Range(Log) = Range(Read) /\ issued \in 0..MaxEvents
    BY Typed
  <1>2. \A i \in 1..Len(Log) : Log[i].id \in 1..issued
    <2> SUFFICES ASSUME NEW i \in 1..Len(Log) PROVE Log[i].id \in 1..issued
      OBVIOUS
    <2>1. Log[i] \in Range(Read)
      <3>1. DOMAIN Log = 1..Len(Log)
        BY <1>1
      <3>2. Log[i] \in Range(Log)
        BY <3>1 DEF Range
      <3> QED
        BY <1>1, <3>2
    <2>2. Log[i].id <= issued
      BY <2>1 DEF IdsFit
    <2>3. Log[i].id \in 1..MaxEvents
      <3>1. Log[i] \in EventOf
        BY <1>1
      <3> QED
        BY <3>1 DEF EventOf
    <2> QED
      BY <1>1, <2>2, <2>3
  <1>3. \A i, j \in 1..Len(Log) : i < j => Log[i].id < Log[j].id
    BY <1>1 DEF IdsFit
  <1> DEFINE l == Log
  <1>4. l \in Seq(EventOf) /\ (\A i \in 1..Len(l) : l[i].id \in 1..issued)
        /\ (\A i, j \in 1..Len(l) : i < j => l[i].id < l[j].id)
    BY <1>1, <1>2, <1>3
  <1>5. issued \in Nat
    BY <1>1
  <1> HIDE DEF l
  <1>6. Len(l) <= issued /\ Len(l) \in Nat
    BY <1>4, <1>5, GrowingIds
  <1> QED
    BY <1>1, <1>5, <1>6 DEF l

LEMMA GrowsIds ==
    ASSUME EventConstants, TypeOK, SizeFits, IdsFit,
           NEW k \in Nat, NEW n, NEW e, NEW cut, Grows(k, n, e, cut)
    PROVE  IdsFit'
  <1> DEFINE new == NewEvents(Loaded, n)
             l == Log
             r == Read
  <1>1. /\ new \in Seq(EventOf) /\ Len(new) = n /\ n \in 0..k /\ n \in Nat
        /\ \A i \in 1..n : new[i].id = issued + i
        /\ Read' = r \o new /\ Log' = l \o new /\ Safe' = Safe
    BY GrowsRead
  <1>2. l \in Seq(EventOf) /\ r \in Seq(EventOf) /\ Range(l) = Range(r) /\ issued \in Nat
    BY Typed
  <1>3. \A x \in Range(r) : x.id <= issued
    BY DEF IdsFit
  <1>4. \A i, j \in 1..Len(l) : i < j => l[i].id < l[j].id
    <2>1. DOMAIN l = 1..Len(l)
      BY <1>2
    <2> QED
      BY <2>1 DEF IdsFit
  <1>5. issued' = issued + k /\ kept' = kept
    BY DEF Grows
  <1> HIDE DEF new, l, r
  <1>6. \A x \in Range(Read') : x.id <= issued'
    <2>1. Range(r \o new) = Range(r) \cup Range(new)
      BY <1>1, <1>2, RangeConcatenation
    <2>2. \A x \in Range(new) : x.id <= issued + k
      <3>1. \A i \in 1..n : new[i].id <= issued + k
        BY <1>1, <1>2
      <3>2. DOMAIN new = 1..n
        BY <1>1
      <3> QED
        BY <3>1, <3>2 DEF Range
    <2>3. \A x \in Range(r) : x.id <= issued + k
      <3>1. Range(r) \subseteq EventOf
        BY <1>2, RangeOfSeq
      <3>2. \A x \in Range(r) : x.id \in Nat
        BY <3>1 DEF EventOf
      <3> QED
        BY <1>2, <1>3, <3>2
    <2> QED
      BY <1>1, <1>5, <2>1, <2>2, <2>3
  <1>7. \A i, j \in DOMAIN Log' : i < j => Log'[i].id < Log'[j].id
    <2> DEFINE q == l \o new
    <2>1. /\ q \in Seq(EventOf) /\ Len(q) = Len(l) + n /\ Len(l) \in Nat
          /\ \A i \in 1..(Len(l) + n) : q[i] = IF i <= Len(l) THEN l[i] ELSE new[i - Len(l)]
      <3>1. /\ q \in Seq(EventOf) /\ Len(q) = Len(l) + Len(new)
            /\ \A i \in 1..(Len(l) + Len(new)) : q[i] = IF i <= Len(l) THEN l[i] ELSE new[i - Len(l)]
        BY <1>1, <1>2, ConcatProperties
      <3> QED
        BY <1>1, <1>2, <3>1
    <2> HIDE DEF q
    <2>2. \A i \in 1..(Len(l) + n) : /\ i <= Len(l) => q[i].id = l[i].id /\ l[i].id <= issued
                                                       /\ l[i].id \in Nat
                                     /\ i > Len(l) => q[i].id = issued + (i - Len(l))
      <3> SUFFICES ASSUME NEW i \in 1..(Len(l) + n)
                   PROVE  /\ i <= Len(l) => q[i].id = l[i].id /\ l[i].id <= issued /\ l[i].id \in Nat
                          /\ i > Len(l) => q[i].id = issued + (i - Len(l))
        OBVIOUS
      <3>1. CASE i <= Len(l)
        <4>1. i \in 1..Len(l) /\ q[i] = l[i]
          BY <2>1, <3>1
        <4>2. l[i] \in Range(r) /\ l[i] \in EventOf
          <5>1. DOMAIN l = 1..Len(l)
            BY <1>2
          <5>2. l[i] \in Range(l)
            BY <4>1, <5>1 DEF Range
          <5> QED
            BY <1>2, <4>1, <5>2
        <4> QED
          BY <1>3, <2>1, <3>1, <4>1, <4>2 DEF EventOf
      <3>2. CASE i > Len(l)
        <4>1. i - Len(l) \in 1..n
          BY <1>1, <2>1, <3>2
        <4>2. q[i] = new[i - Len(l)]
          BY <2>1, <3>2
        <4> QED
          BY <1>1, <2>1, <3>2, <4>1, <4>2
      <3> QED
        BY <2>1, <3>1, <3>2
    <2>3. ASSUME NEW i \in 1..(Len(l) + n), NEW j \in 1..(Len(l) + n), i < j
          PROVE  q[i].id < q[j].id
      <3>1. CASE j <= Len(l)
        <4>1. i \in 1..Len(l) /\ j \in 1..Len(l) /\ i <= Len(l)
          BY <2>1, <2>3, <3>1
        <4> QED
          BY <1>4, <2>2, <2>3, <3>1, <4>1
      <3>2. CASE j > Len(l) /\ i <= Len(l)
        <4>1. q[j].id = issued + (j - Len(l)) /\ q[i].id <= issued /\ q[i].id \in Nat
          BY <2>2, <3>2
        <4> QED
          BY <1>2, <2>1, <3>2, <4>1
      <3>3. CASE i > Len(l)
        <4>1. j > Len(l)
          BY <2>1, <2>3, <3>3
        <4>2. q[j].id = issued + (j - Len(l)) /\ q[i].id = issued + (i - Len(l))
          BY <2>2, <3>3, <4>1
        <4> QED
          BY <1>2, <2>1, <2>3, <4>2
      <3> QED
        BY <2>1, <3>1, <3>2, <3>3
    <2>4. DOMAIN q = 1..(Len(l) + n)
      BY <2>1
    <2>5. Log' = q
      BY <1>1 DEF q
    <2> QED
      BY <2>3, <2>4, <2>5
  <1>8. kept' <= Len(Distinct(Safe'))
    BY <1>1, <1>5 DEF IdsFit
  <1> QED
    BY <1>6, <1>7, <1>8 DEF IdsFit

\* A write keeps the sizes right, and no segment gets larger than MostBytes.
LEMMA GrowsSizes ==
    ASSUME EventConstants, Inv, NEW k \in 1..MaxBatch, NEW n, NEW e, NEW cut, Grows(k, n, e, cut),
           MayWrite(k), NEW b \in {0, 1},
           \/ n = k /\ cut = 0 /\ b = 1 /\ faults' = faults
           \/ n < k /\ b = 0 /\ faults' = faults + 1,
           memory' = [next |-> Loaded.next + k, bytes |-> Loaded.bytes + e + (IF b = 1 THEN 2 * k ELSE 0)],
           cut = 1 => Loaded.bytes + e > 0
    PROVE  /\ open' \in [events : Seq(EventOf), size : 0..MostBytes', ended : BOOLEAN]
           /\ memory' \in [next : Nat \ {0}, bytes : 0..MostBytes']
           /\ SizeFits' /\ CopyFits'
  <1>1. TypeOK /\ SizeFits /\ CopyFits /\ IdsFit
    BY DEF Inv
  <1> DEFINE L == Loaded.bytes
             H == Hidden(faults)
             B == 2 * MaxBatch
             z == open.size
  <1>2. /\ Loaded.next \in Nat \ {0} /\ L \in Nat /\ L <= z /\ z <= L + H
        /\ ~open.ended => L > 0
        /\ memory # None => Loaded = memory
    BY <1>1, LoadedFits
  <1>3. MaxBatch \in Nat /\ SegmentBytes \in Nat /\ k \in Nat /\ 1 <= k /\ 2 * k <= B /\ B \in Nat
    BY DEF EventConstants
  <1>4. /\ n \in 0..k /\ n \in Nat /\ e \in {0, 1} /\ cut \in {0, 1}
        /\ open' = [events |-> open.events \o NewEvents(Loaded, n), size |-> z + e + 2 * n + cut,
                    ended |-> cut = 0]
        /\ e = 1 => ~open.ended
        /\ op' = Idle
    BY DEF Grows
  <1>5. z \in Nat /\ Len(open.events) \in Nat /\ 2 * Len(open.events) <= z /\ faults \in Nat /\ faults' \in Nat
    BY <1>1, Typed DEF SizeFits
  <1>6. H \in Nat /\ Hidden(faults + 1) = H + B
    BY <1>3, <1>5, HiddenGrows
  <1>7. Hidden(faults') = IF b = 1 THEN H ELSE H + B
    BY <1>6
  <1>8. MostBytes' = SegmentBytes + B + Hidden(faults') /\ MostBytes' \in Nat
    BY <1>5, MostBytesAfter
  <1>10. L + e <= SegmentBytes /\ (b = 1 => L + e + 2 * k <= SegmentBytes + B)
    <2>1. CASE op = Idle /\ L < SegmentBytes
      BY <1>2, <1>3, <1>4, <2>1
    <2>2. CASE op = [kind |-> "write", batch |-> k]
      <3>1. op.kind = "write"
        BY <2>2
      <3>2. open = NoFile /\ memory # None /\ memory.bytes = 0
        BY <1>1, <3>1 DEF CopyFits
      <3>3. open.ended
        BY <3>2 DEF NoFile
      <3>4. L = 0 /\ e = 0
        BY <1>2, <1>4, <3>2, <3>3
      <3> QED
        BY <1>3, <3>4
    <2> QED
      BY <2>1, <2>2 DEF MayWrite
  <1>11. /\ open'.events \in Seq(EventOf) /\ Len(open'.events) = Len(open.events) + n
    BY <1>1, <1>3, GrowsRead
  <1>12. open'.size = z + e + 2 * n + cut /\ open'.ended = (cut = 0)
    BY <1>4
  <1>13. memory'.next = Loaded.next + k /\ memory'.bytes = L + e + (IF b = 1 THEN 2 * k ELSE 0)
    OBVIOUS
  <1> DEFINE size == open'.size
             bytes == memory'.bytes
  <1> HIDE DEF L, H, B, z
  <1>14. /\ bytes \in 0..MostBytes' /\ bytes <= size /\ size <= bytes + Hidden(faults')
         /\ size \in 0..MostBytes' /\ 2 * (Len(open.events) + n) <= size
    <2>1. CASE b = 1
      <3>1. n = k /\ cut = 0
        BY <2>1
      <3>2. size = z + e + 2 * k
        BY <1>3, <1>4, <1>5, <1>12, <3>1
      <3>3. bytes = L + e + 2 * k
        BY <1>13, <2>1
      <3>4. Hidden(faults') = H /\ MostBytes' = SegmentBytes + B + H
        BY <1>7, <1>8, <2>1
      <3> HIDE DEF size, bytes
      <3>5. size \in Nat /\ bytes \in Nat /\ bytes <= size /\ size <= bytes + H
        BY <1>2, <1>3, <1>4, <1>5, <1>6, <3>2, <3>3
      <3>6. bytes <= SegmentBytes + B
        BY <1>10, <2>1, <3>3
      <3>7. 2 * (Len(open.events) + n) <= size
        BY <1>3, <1>4, <1>5, <3>1, <3>2
      <3> QED
        BY <1>3, <1>6, <1>8, <3>4, <3>5, <3>6, <3>7
    <2>2. CASE b = 0
      <3>1. n < k /\ 2 * n + cut <= 2 * k
        BY <1>3, <1>4, <2>2
      <3>2. size = z + e + 2 * n + cut
        BY <1>12
      <3>3. bytes = L + e
        BY <1>2, <1>4, <1>13, <2>2
      <3>4. Hidden(faults') = H + B /\ MostBytes' = SegmentBytes + B + (H + B)
        BY <1>7, <1>8, <2>2
      <3> HIDE DEF size, bytes
      <3>5. size \in Nat /\ bytes \in Nat /\ bytes <= size /\ size <= L + H + e + 2 * k
        BY <1>2, <1>3, <1>4, <1>5, <1>6, <3>1, <3>2, <3>3
      <3>6. size <= bytes + (H + B) /\ size <= SegmentBytes + B + (H + B)
        BY <1>2, <1>3, <1>4, <1>6, <1>10, <3>3, <3>5
      <3>7. 2 * (Len(open.events) + n) <= size
        BY <1>4, <1>5, <3>2
      <3> QED
        BY <1>8, <3>4, <3>5, <3>6, <3>7
    <2> QED
      BY <2>1, <2>2
  <1>15. ~open'.ended => size > 0 /\ bytes > 0
    <2>1. ~open'.ended => cut = 1
      BY <1>4, <1>12
    <2>2. cut = 1 => L + e > 0
      BY DEF L
    <2> QED
      BY <1>2, <1>3, <1>4, <1>5, <1>12, <1>13, <2>1, <2>2
  <1>16. open' \in [events : Seq(EventOf), size : 0..MostBytes', ended : BOOLEAN]
    BY <1>4, <1>11, <1>12, <1>14
  <1>17. memory' \in [next : Nat \ {0}, bytes : 0..MostBytes']
    <2>1. Loaded.next + k \in Nat \ {0}
      BY <1>2, <1>3
    <2> QED
      BY <1>13, <1>14, <2>1
  <1>18. SizeFits'
    BY <1>5, <1>11, <1>14, <1>15 DEF SizeFits
  <1>19. CopyFits'
    BY <1>4 DEF CopyFits, Copying, Idle
  <1> QED
    BY <1>16, <1>17, <1>18, <1>19

LEMMA AppendKeeps ==
    ASSUME EventConstants, Inv, NEW k \in 1..MaxBatch, AppendEvents(k)
    PROVE  Inv'
  <1>1. TypeOK /\ SizeFits /\ CopyFits /\ IdsFit
    BY DEF Inv
  <1>2. PICK e \in {0, 1} :
          /\ Grows(k, k, e, 0)
          /\ memory' = [next |-> Loaded.next + k, bytes |-> Loaded.bytes + e + 2 * k]
          /\ Fresh(Loaded).bytes = Loaded.bytes + e
    BY <1>1, AppendGrows
  <1>3. k \in Nat
    BY DEF EventConstants
  <1>4. MayWrite(k) /\ faults' = faults
    BY DEF AppendEvents
  <1>5. /\ open' \in [events : Seq(EventOf), size : 0..MostBytes', ended : BOOLEAN]
        /\ memory' \in [next : Nat \ {0}, bytes : 0..MostBytes']
        /\ SizeFits' /\ CopyFits'
    <2>1. memory' = [next |-> Loaded.next + k, bytes |-> Loaded.bytes + e + (IF 1 = 1 THEN 2 * k ELSE 0)]
      BY <1>2
    <2> DEFINE n == k
               cut == 0
               b == 1
    <2>2. /\ b \in {0, 1} /\ Grows(k, n, e, cut)
          /\ \/ n = k /\ cut = 0 /\ b = 1 /\ faults' = faults
             \/ n < k /\ b = 0 /\ faults' = faults + 1
          /\ memory' = [next |-> Loaded.next + k, bytes |-> Loaded.bytes + e + (IF b = 1 THEN 2 * k ELSE 0)]
          /\ cut = 1 => Loaded.bytes + e > 0
      BY <1>2, <1>4, <2>1
    <2> HIDE DEF n, cut, b
    <2> QED
      BY <1>4, <2>2, GrowsSizes
  <1>6. IdsFit'
    BY <1>1, <1>2, <1>3, GrowsIds
  <1> DEFINE new == NewEvents(Loaded, k)
  <1>7. hot' # None => hot' \in [stamp : Nat \X Nat, events : Seq(EventOf)]
    <2> DEFINE b == Loaded.bytes + e + 2 * k
    <2>1. hot' = Extended(Fresh(Loaded).bytes, Fresh(Loaded).bytes + 2 * k, new)
      BY DEF AppendEvents
    <2>2. SUFFICES ASSUME hot # None
                   PROVE  [stamp |-> <<Len(closed), Fresh(Loaded).bytes + 2 * k>>, events |-> hot.events \o new]
                            \in [stamp : Nat \X Nat, events : Seq(EventOf)]
      BY <2>1 DEF Extended
    <2>3. hot.events \in Seq(EventOf) /\ Len(closed) \in Nat
      BY <1>1, <2>2, Typed DEF TypeOK
    <2>4. new \in Seq(EventOf)
      BY <1>1, <1>2, <1>3, GrowsRead
    <2>5. hot.events \o new \in Seq(EventOf)
      BY <2>3, <2>4, ConcatProperties
    <2>6. Fresh(Loaded).bytes + 2 * k \in Nat
      <3>1. Loaded.bytes \in Nat
        BY <1>1, LoadedFits
      <3> QED
        BY <1>2, <1>3, <3>1
    <2> QED
      BY <2>3, <2>5, <2>6
  <1>8. /\ closed' = closed /\ synced' = synced /\ kept' = kept /\ op' = Idle
        /\ issued' = issued + k /\ issued + k <= MaxEvents
    BY <1>2 DEF Grows
  <1>9. synced' \in 0..Len(open'.events)
    <2>1. Len(open'.events) = Len(open.events) + k
      BY <1>1, <1>2, <1>3, GrowsRead
    <2>2. synced \in 0..Len(open.events) /\ Len(open.events) \in Nat
      BY <1>1, Typed
    <2> QED
      BY <1>3, <1>8, <2>1, <2>2
  <1>10. issued' \in 0..MaxEvents /\ kept' \in 0..MaxEvents
    BY <1>1, <1>3, <1>8, Typed DEF EventConstants
  <1>11. op' \in [kind : {"none", "copy", "remove", "write"}, batch : 0..MaxBatch]
    BY <1>8 DEF Idle, EventConstants
  <1>12. closed' \in Seq(Seq(EventOf))
    BY <1>1, <1>8, Typed
  <1>13. TypeOK'
    BY <1>5, <1>7, <1>9, <1>10, <1>11, <1>12 DEF TypeOK, EventOf
  <1> QED
    BY <1>5, <1>6, <1>13 DEF Inv

LEMMA FailKeeps ==
    ASSUME EventConstants, Inv, NEW k \in 1..MaxBatch, AppendFails(k)
    PROVE  Inv'
  <1>1. TypeOK /\ SizeFits /\ CopyFits /\ IdsFit
    BY DEF Inv
  <1>2. PICK e \in {0, 1}, n \in 0..(k - 1), cut \in {0, 1} :
          /\ Grows(k, n, e, cut)
          /\ memory' = [next |-> Loaded.next + k, bytes |-> Loaded.bytes + e]
          /\ cut = 1 => Loaded.bytes + e > 0
    BY <1>1, FailGrows
  <1>3. k \in Nat /\ n < k
    BY DEF EventConstants
  <1>4. MayWrite(k) /\ faults' = faults + 1 /\ hot' = hot
    BY DEF AppendFails
  <1>5. /\ open' \in [events : Seq(EventOf), size : 0..MostBytes', ended : BOOLEAN]
        /\ memory' \in [next : Nat \ {0}, bytes : 0..MostBytes']
        /\ SizeFits' /\ CopyFits'
    <2>1. Loaded.bytes + e \in Nat
      BY <1>1, LoadedFits
    <2>2. Loaded.bytes + e + (IF 0 = 1 THEN 2 * k ELSE 0) = Loaded.bytes + e
      BY <2>1
    <2>3. memory' = [next |-> Loaded.next + k, bytes |-> Loaded.bytes + e + (IF 0 = 1 THEN 2 * k ELSE 0)]
      BY <1>2, <2>2
    <2> QED
      BY <1>2, <1>3, <1>4, <2>3, GrowsSizes
  <1>6. IdsFit'
    BY <1>1, <1>2, <1>3, GrowsIds
  <1>7. hot' # None => hot' \in [stamp : Nat \X Nat, events : Seq(EventOf)]
    BY <1>1, <1>4 DEF TypeOK
  <1>8. /\ closed' = closed /\ synced' = synced /\ kept' = kept /\ op' = Idle
        /\ issued' = issued + k /\ issued + k <= MaxEvents
    BY <1>2 DEF Grows
  <1>9. synced' \in 0..Len(open'.events)
    <2>1. Len(open'.events) = Len(open.events) + n /\ n \in Nat
      BY <1>1, <1>2, <1>3, GrowsRead
    <2>2. synced \in 0..Len(open.events) /\ Len(open.events) \in Nat
      BY <1>1, Typed
    <2> QED
      BY <1>3, <1>8, <2>1, <2>2
  <1>10. issued' \in 0..MaxEvents /\ kept' \in 0..MaxEvents
    BY <1>1, <1>3, <1>8, Typed DEF EventConstants
  <1>11. op' \in [kind : {"none", "copy", "remove", "write"}, batch : 0..MaxBatch]
    BY <1>8 DEF Idle, EventConstants
  <1>12. closed' \in Seq(Seq(EventOf))
    BY <1>1, <1>8, Typed
  <1>13. TypeOK'
    BY <1>5, <1>7, <1>9, <1>10, <1>11, <1>12 DEF TypeOK, EventOf
  <1> QED
    BY <1>5, <1>6, <1>13 DEF Inv

\* What is kept of the type, when most of the state is.
LEMMA TypesKept ==
    ASSUME EventConstants, TypeOK, SizeFits,
           UNCHANGED <<closed, open, synced, issued, kept>>,
           hot' = hot \/ hot' = None,
           op' \in [kind : {"none", "copy", "remove", "write"}, batch : 0..MaxBatch],
           faults' = faults \/ faults' = faults + 1, memory' = memory \/ memory' = None
    PROVE  TypeOK' /\ SizeFits'
  <1>1. faults \in Nat /\ faults' \in Nat /\ MaxBatch \in Nat
    BY DEF SizeFits, EventConstants
  <1>2. MostBytes \in Nat /\ MostBytes' \in Nat /\ MostBytes <= MostBytes'
        /\ Hidden(faults) \in Nat /\ Hidden(faults') \in Nat /\ Hidden(faults) <= Hidden(faults')
    <2> DEFINE H == Hidden(faults)
               G == Hidden(faults')
    <2>1. H \in Nat /\ (G = H \/ G = H + 2 * MaxBatch)
      BY <1>1, HiddenGrows
    <2>2. MostBytes = SegmentBytes + 2 * MaxBatch + H /\ MostBytes' = SegmentBytes + 2 * MaxBatch + G
      BY <1>1, MostBytesIs, MostBytesAfter
    <2>3. SegmentBytes \in Nat
      BY DEF EventConstants
    <2> HIDE DEF H, G
    <2>4. MostBytes \in Nat /\ MostBytes' \in Nat /\ MostBytes <= MostBytes' /\ G \in Nat /\ H <= G
      BY <1>1, <2>1, <2>2, <2>3
    <2> QED
      BY <2>1, <2>4 DEF H, G
  <1>3. open \in [events : Seq(EventOf), size : 0..MostBytes, ended : BOOLEAN] /\ open.size \in Nat
    BY <1>2 DEF TypeOK
  <1>4. open' \in [events : Seq(EventOf), size : 0..MostBytes', ended : BOOLEAN]
    BY <1>2, <1>3
  <1>5. memory # None => memory \in [next : Nat \ {0}, bytes : 0..MostBytes']
                         /\ memory.bytes \in Nat
    BY <1>2 DEF TypeOK
  <1>6. memory' # None => memory' \in [next : Nat \ {0}, bytes : 0..MostBytes']
    BY <1>5
  <1>7. hot' # None => hot' \in [stamp : Nat \X Nat, events : Seq(EventOf)]
    BY DEF TypeOK
  <1>8. /\ closed' \in Seq(Seq(EventOf)) /\ synced' \in 0..Len(open'.events)
        /\ issued' \in 0..MaxEvents /\ kept' \in 0..MaxEvents
    BY Typed
  <1>9. TypeOK'
    BY <1>4, <1>6, <1>7, <1>8 DEF TypeOK, EventOf
  <1>10. SizeFits'
    <2>1. open'.size >= 2 * Len(open'.events)
      BY DEF SizeFits
    <2>2. memory' # None => memory'.bytes <= open'.size /\ open'.size <= memory'.bytes + Hidden(faults')
      <3> SUFFICES ASSUME memory # None
                   PROVE  memory.bytes <= open.size /\ open.size <= memory.bytes + Hidden(faults')
        OBVIOUS
      <3>1. memory.bytes <= open.size /\ open.size <= memory.bytes + Hidden(faults) /\ memory.bytes \in Nat
        BY <1>5 DEF SizeFits
      <3> QED
        BY <1>2, <1>3, <3>1
    <2>3. ~open'.ended => open'.size > 0 /\ (memory' # None => memory'.bytes > 0)
      BY DEF SizeFits
    <2> QED
      BY <1>1, <2>1, <2>2, <2>3 DEF SizeFits
  <1> QED
    BY <1>9, <1>10

LEMMA SameFiles ==
    ASSUME UNCHANGED <<closed, open, synced>>
    PROVE  Closed' = Closed /\ Read' = Read /\ Log' = Log /\ Safe' = Safe
  BY DEF Closed, Read, Log, Safe

\* A parsed log is read again or dropped.
LEMMA HotKeeps ==
    ASSUME EventConstants, Inv, ReadShared \/ EvictHot
    PROVE  Inv'
  <1>1. TypeOK /\ SizeFits /\ CopyFits /\ IdsFit
    BY DEF Inv
  <1>2. UNCHANGED <<closed, open, synced, memory, op, issued, kept, faults>>
    BY DEF ReadShared, EvictHot, files
  <1>3. hot' # None => hot' \in [stamp : Nat \X Nat, events : Seq(EventOf)]
    <2>1. CASE hot' = None
      BY <2>1
    <2>2. CASE hot' = [stamp |-> Stamp, events |-> Read]
      BY <1>1, <2>2, Typed DEF Stamp
    <2> QED
      BY <2>1, <2>2 DEF ReadShared, EvictHot
  <1>4. MostBytes' = MostBytes
    BY <1>2 DEF MostBytes
  <1>5. TypeOK'
    BY <1>1, <1>2, <1>3, <1>4 DEF TypeOK, EventOf
  <1>6. SizeFits' /\ CopyFits'
    BY <1>1, <1>2 DEF SizeFits, CopyFits, Copying
  <1>7. IdsFit'
    BY <1>1, <1>2, SameFiles DEF IdsFit
  <1> QED
    BY <1>5, <1>6, <1>7 DEF Inv

LEMMA BeginKeeps ==
    ASSUME EventConstants, Inv, NEW k \in 1..MaxBatch, BeginRotate(k)
    PROVE  Inv' /\ Closed' = Closed /\ Read' = Read /\ Log' = Log
           /\ Front(closed') = closed /\ Len(closed') = Len(closed) + 1
  <1>1. TypeOK /\ SizeFits /\ CopyFits /\ IdsFit
    BY DEF Inv
  <1>2. /\ closed' = Append(closed, <<>>) /\ memory' = Loaded
        /\ op' = [kind |-> "copy", batch |-> k]
        /\ UNCHANGED <<open, synced, hot, issued, kept, faults>>
    BY DEF BeginRotate
  <1>3. /\ closed \in Seq(Seq(EventOf)) /\ Closed \in Seq(EventOf) /\ <<>> \in Seq(EventOf)
        /\ open.events \in Seq(EventOf)
    BY <1>1, Typed, EmptySeq
  <1>4. /\ closed' \in Seq(Seq(EventOf)) /\ closed' # <<>> /\ Len(closed') = Len(closed) + 1
        /\ Front(closed') = closed /\ Last(closed') = <<>>
    <2> DEFINE T == Seq(EventOf)
               e == <<>>
    <2>1. closed \in Seq(T) /\ e \in T
      BY <1>3
    <2> HIDE DEF T, e
    <2>2. /\ Append(closed, e) \in Seq(T) /\ Append(closed, e) # <<>>
          /\ Len(Append(closed, e)) = Len(closed) + 1
      BY <2>1, AppendProperties
    <2>3. Front(Append(closed, e)) = closed /\ Last(Append(closed, e)) = e
      BY <2>1, FrontOfAppend
    <2> QED
      BY <1>2, <2>2, <2>3 DEF T, e
  <1>5. Closed' = Closed
    <2>1. FlattenSeq(Append(closed, <<>>)) = Closed \o <<>>
      BY <1>3, FlattenOfAppend DEF Closed
    <2>2. Closed \o <<>> = Closed
      BY <1>3, ConcatEmptySeq
    <2> QED
      BY <1>2, <2>1, <2>2 DEF Closed
  <1>6. Read' = Read /\ Log' = Log /\ Safe' = Safe
    BY <1>2, <1>5 DEF Read, Log, Safe, Closed
  <1>7. /\ Loaded.next \in Nat \ {0} /\ Loaded.bytes \in Nat
        /\ Loaded = [next |-> Loaded.next, bytes |-> Loaded.bytes]
        /\ Loaded.bytes <= open.size /\ open.size <= Loaded.bytes + Hidden(faults)
        /\ ~open.ended => Loaded.bytes > 0
    BY <1>1, LoadedFits
  <1>8. memory' # None
    BY <1>2, <1>7 DEF EventConstants
  <1>9. MostBytes' = MostBytes /\ MostBytes \in Nat
    BY <1>1, <1>2, MostBytesIs DEF MostBytes, SizeFits
  <1>10. memory' \in [next : Nat \ {0}, bytes : 0..MostBytes']
    <2>1. open.size \in 0..MostBytes
      BY <1>1 DEF TypeOK
    <2>2. Loaded.bytes \in 0..MostBytes
      BY <1>7, <1>9, <2>1
    <2> QED
      BY <1>2, <1>7, <1>9, <2>2
  <1>11. op' \in [kind : {"none", "copy", "remove", "write"}, batch : 0..MaxBatch]
    BY <1>2 DEF EventConstants
  <1>12. TypeOK'
    BY <1>1, <1>2, <1>4, <1>9, <1>10, <1>11 DEF TypeOK, EventOf
  <1>13. SizeFits'
    BY <1>1, <1>2, <1>7 DEF SizeFits
  <1>14. CopyFits'
    <2>1. IsPrefix(<<>>, open.events)
      <3>1. Len(<<>>) = 0 /\ Len(open.events) \in Nat
        BY <1>3
      <3>2. SubSeq(<<>>, 1, 0) = <<>> /\ SubSeq(open.events, 1, 0) = <<>>
        BY SubSeqEmpty
      <3> QED
        BY <3>1, <3>2 DEF IsPrefix
    <2> QED
      BY <1>2, <1>4, <1>8, <2>1 DEF CopyFits, Copying
  <1>15. IdsFit'
    BY <1>1, <1>2, <1>6 DEF IdsFit
  <1> QED
    BY <1>4, <1>5, <1>6, <1>12, <1>13, <1>14, <1>15 DEF Inv

\* What is copied is the beginning of the open segment.
LEMMA CopyKeeps ==
    ASSUME EventConstants, Inv, CopySegment
    PROVE  Inv' /\ Log' = Log /\ Front(closed') = Front(closed) /\ Len(closed') = Len(closed)
  <1>1. TypeOK /\ SizeFits /\ CopyFits /\ IdsFit
    BY DEF Inv
  <1> DEFINE o == open.events
             f == Front(closed)
             l == Last(closed)
             F == FlattenSeq(f)
  <1>2. op.kind = "copy" /\ UNCHANGED <<open, synced, memory, hot, issued, kept, faults>>
    BY DEF CopySegment
  <1>3. PICK n \in Len(l)..Len(o) :
          /\ closed' = f \o <<SubSeq(o, 1, n)>>
          /\ op' = IF n = Len(o) THEN [op EXCEPT !.kind = "remove"] ELSE op
    BY DEF CopySegment
  <1>4. /\ closed \in Seq(Seq(EventOf)) /\ closed # <<>> /\ o \in Seq(EventOf) /\ IsPrefix(l, o)
        /\ memory # None /\ synced \in 0..Len(o) /\ Closed \in Seq(EventOf)
    BY <1>1, <1>2, Typed DEF CopyFits, Copying
  <1>5. /\ f \in Seq(Seq(EventOf)) /\ F \in Seq(EventOf) /\ l \in Seq(EventOf)
        /\ FlattenSeq(closed) = F \o l
        /\ Distinct(FlattenSeq(closed) \o o) = Distinct(F \o o)
        /\ Len(closed) = Len(f) + 1
    BY <1>4, CopyLog, FlattenOfLast
  <1>6. Len(l) \in 0..Len(o) /\ l = SubSeq(o, 1, Len(l))
    BY <1>4, <1>5, PrefixIsFirst
  <1>7. n \in 0..Len(o) /\ n \in Nat /\ Len(o) \in Nat
    BY <1>3, <1>4, <1>6
  <1>20. n = Len(o) => SubSeq(o, 1, n) = o
    BY <1>4, SubSeqFull
  <1> DEFINE p == SubSeq(o, 1, n)
             c == Append(f, p)
  <1>8. p \in Seq(EventOf) /\ Len(p) = n /\ \A i \in 1..n : p[i] = o[i]
    BY <1>4, <1>7, SplitAt
  <1>9. closed' = Append(f, p)
    BY <1>3, <1>5, <1>8, AppendIsConcat
  <1> HIDE DEF p
  <1>10. /\ c \in Seq(Seq(EventOf)) /\ c # <<>> /\ Front(c) = f /\ Last(c) = p
         /\ Len(c) = Len(f) + 1
    BY <1>5, <1>8, AppendProperties, FrontOfAppend
  <1>11. FlattenSeq(c) = F \o p
    BY <1>5, <1>8, FlattenOfAppend
  <1>12. IsPrefix(p, o)
    <2>1. p = SubSeq(o, 1, Len(p)) /\ Len(p) \in 0..Len(o)
      BY <1>7, <1>8 DEF p
    <2> QED
      BY <1>4, <1>8, <2>1, PrefixIsFirst
  <1> HIDE DEF c
  <1>13. Distinct(FlattenSeq(c) \o o) = Distinct(F \o o)
    BY <1>4, <1>10, <1>12, CopyLog
  <1>14. closed' = c /\ open' = open
    BY <1>2, <1>9 DEF c
  <1>15. Log' = Log
    BY <1>5, <1>13, <1>14 DEF Log, Read
  <1>16. /\ op' \in [kind : {"none", "copy", "remove", "write"}, batch : 0..MaxBatch]
         /\ op'.kind = IF n = Len(o) THEN "remove" ELSE "copy"
    <2>1. op \in [kind : {"none", "copy", "remove", "write"}, batch : 0..MaxBatch]
      BY <1>1 DEF TypeOK
    <2> QED
      BY <1>2, <1>3, <2>1
  <1>17. TypeOK'
    <2>1. MostBytes' = MostBytes
      BY <1>2 DEF MostBytes
    <2> QED
      BY <1>1, <1>2, <1>10, <1>14, <1>16, <2>1 DEF TypeOK, EventOf
  <1>18. SizeFits'
    BY <1>1, <1>2 DEF SizeFits
  <1>19. CopyFits'
    <2>1. IsPrefix(Last(closed'), open'.events) /\ closed' # <<>> /\ memory' # None
      BY <1>2, <1>4, <1>10, <1>12, <1>14
    <2>2. op'.kind = "remove" => Last(closed') = open'.events
      BY <1>2, <1>10, <1>14, <1>16, <1>20 DEF p
    <2>3. op'.kind = "remove" \/ op'.kind = "copy"
      BY <1>16
    <2> QED
      BY <2>1, <2>2, <2>3 DEF CopyFits, Copying
  <1>21. Range(Safe) \subseteq Range(Safe')
    <2> DEFINE a == SubSeq(o, 1, synced)
    <2>1. a \in Seq(EventOf)
      BY <1>4, SplitAt
    <2>2. Safe = (F \o l) \o a /\ Safe' = (F \o p) \o a
      BY <1>2, <1>5, <1>11, <1>14 DEF Safe, Closed
    <2> DEFINE Fl == F \o l
               Fp == F \o p
    <2>3. Fl \in Seq(EventOf) /\ Fp \in Seq(EventOf)
          /\ Range(Fl) = Range(F) \cup Range(l) /\ Range(Fp) = Range(F) \cup Range(p)
      BY <1>5, <1>8, ConcatProperties, RangeConcatenation
    <2> HIDE DEF a, Fl, Fp
    <2>4. Range(Fl \o a) = Range(Fl) \cup Range(a) /\ Range(Fp \o a) = Range(Fp) \cup Range(a)
      BY <2>1, <2>3, RangeConcatenation
    <2>5. Range(l) \subseteq Range(p)
      <3>1. DOMAIN l = 1..Len(l) /\ DOMAIN p = 1..n
        BY <1>5, <1>8
      <3>2. \A i \in 1..Len(l) : l[i] = o[i]
        BY <1>4, <1>6, SplitAt
      <3>3. \A i \in 1..Len(l) : i \in 1..n /\ l[i] = p[i]
        BY <1>3, <1>6, <1>7, <1>8, <3>2
      <3> QED
        BY <3>1, <3>3 DEF Range
    <2> QED
      BY <2>2, <2>3, <2>4, <2>5 DEF Fl, Fp
  <1>22. IdsFit'
    BY <1>1, <1>2, <1>15, <1>17, <1>21, QuietIds
  <1> QED
    BY <1>5, <1>10, <1>14, <1>15, <1>17, <1>18, <1>19, <1>22 DEF Inv

LEMMA RemoveKeeps ==
    ASSUME EventConstants, Inv, RemoveOpen
    PROVE  Inv' /\ Log' = Log /\ Read' = Closed
           /\ Closed = FlattenSeq(Front(closed)) \o open.events
  <1>1. TypeOK /\ SizeFits /\ CopyFits /\ IdsFit
    BY DEF Inv
  <1> DEFINE o == open.events
             F == FlattenSeq(Front(closed))
  <1>2. /\ op.kind = "remove" /\ open' = NoFile /\ synced' = 0
        /\ memory' = [memory EXCEPT !.bytes = 0] /\ op' = [op EXCEPT !.kind = "write"]
        /\ UNCHANGED <<closed, hot, issued, kept, faults>>
    BY DEF RemoveOpen
  <1>3. /\ closed \in Seq(Seq(EventOf)) /\ closed # <<>> /\ o \in Seq(EventOf) /\ IsPrefix(Last(closed), o)
        /\ Last(closed) = o /\ memory # None /\ synced \in 0..Len(o) /\ Closed \in Seq(EventOf)
    BY <1>1, <1>2, Typed DEF CopyFits, Copying
  <1>4. /\ F \in Seq(EventOf) /\ FlattenSeq(closed) = F \o o
        /\ Distinct(FlattenSeq(closed) \o o) = Distinct(F \o o)
    <2>1. /\ F \in Seq(EventOf) /\ FlattenSeq(closed) = F \o Last(closed)
          /\ Distinct(FlattenSeq(closed) \o o) = Distinct(F \o o)
      <3>1. /\ closed \in Seq(Seq(EventOf)) /\ closed # <<>> /\ o \in Seq(EventOf)
            /\ IsPrefix(Last(closed), o)
        BY <1>3
      <3> QED
        BY <3>1, CopyLog
    <2> QED
      BY <1>3, <2>1
  <1>5. Closed = F \o o /\ Closed' = Closed
    BY <1>2, <1>4 DEF Closed
  <1>6. Read' = Closed
    <2>1. Closed \o <<>> = Closed
      BY <1>3, ConcatEmptySeq
    <2> QED
      BY <1>2, <2>1 DEF Read, Closed, NoFile
  <1>7. Log' = Log
    <2>1. Log = Distinct(F \o o)
      BY <1>4 DEF Log, Read
    <2>2. Log' = Distinct(Closed)
      BY <1>6 DEF Log
    <2> QED
      BY <1>5, <2>1, <2>2
  <1>8. memory \in [next : Nat \ {0}, bytes : 0..MostBytes] /\ MostBytes' = MostBytes /\ MostBytes \in Nat
    BY <1>1, <1>2, <1>3, MostBytesIs DEF TypeOK, MostBytes, SizeFits
  <1>9. memory' \in [next : Nat \ {0}, bytes : 0..MostBytes'] /\ memory'.bytes = 0
        /\ memory' \in [next : Nat, bytes : Nat]
    BY <1>2, <1>8
  <1>10. op' \in [kind : {"none", "copy", "remove", "write"}, batch : 0..MaxBatch] /\ op'.kind = "write"
    <2>1. op \in [kind : {"none", "copy", "remove", "write"}, batch : 0..MaxBatch]
      BY <1>1 DEF TypeOK
    <2> QED
      BY <1>2, <2>1
  <1>11. <<>> \in Seq(EventOf) /\ Len(<<>>) = 0
    BY EmptySeq
  <1>12. TypeOK'
    <2>1. open' \in [events : Seq(EventOf), size : 0..MostBytes', ended : BOOLEAN]
          /\ synced' \in 0..Len(open'.events)
      BY <1>2, <1>8, <1>11 DEF NoFile
    <2> QED
      BY <1>1, <1>2, <1>9, <1>10, <2>1 DEF TypeOK, EventOf
  <1>13. SizeFits'
    <2>1. faults' \in Nat /\ Hidden(faults') \in Nat
      BY <1>1, <1>2, HiddenGrows DEF SizeFits, EventConstants
    <2>2. open'.size = 0 /\ Len(open'.events) = 0 /\ open'.ended
      BY <1>2, <1>11 DEF NoFile
    <2> QED
      BY <1>9, <2>1, <2>2 DEF SizeFits
  <1>14. CopyFits'
    <2>1. memory' # None
      BY <1>9 DEF EventConstants
    <2> QED
      BY <1>2, <1>9, <1>10, <2>1 DEF CopyFits, Copying
  <1>15. Range(Safe) \subseteq Range(Safe')
    <2>1. Range(Safe) = Range(Closed) \cup Range(SubSeq(o, 1, synced))
      BY <1>1, SafeTyped
    <2>2. Range(SubSeq(o, 1, synced)) \subseteq Range(o)
      BY <1>3, FirstAreSome
    <2>3. Range(F \o o) = Range(F) \cup Range(o)
      BY <1>3, <1>4, RangeConcatenation
    <2>4. Safe' = Closed
      <3>1. SubSeq(<<>>, 1, 0) = <<>>
        BY SubSeqEmpty
      <3>2. Closed \o <<>> = Closed
        BY <1>3, ConcatEmptySeq
      <3> QED
        BY <1>2, <1>5, <3>1, <3>2 DEF Safe, NoFile
    <2> QED
      BY <1>5, <2>1, <2>2, <2>3, <2>4
  <1>16. IdsFit'
    BY <1>1, <1>2, <1>7, <1>12, <1>15, QuietIds
  <1> QED
    BY <1>5, <1>6, <1>7, <1>12, <1>13, <1>14, <1>16 DEF Inv

\* A failed rotation and the end of the process leave the files as they are.
LEMMA StopKeeps ==
    ASSUME EventConstants, Inv, RotateFails \/ Kill
    PROVE  Inv' /\ Log' = Log
  <1>1. TypeOK /\ SizeFits /\ CopyFits /\ IdsFit
    BY DEF Inv
  <1>2. /\ UNCHANGED <<closed, open, synced, issued, kept>> /\ op' = Idle /\ faults' = faults + 1
        /\ hot' = hot \/ hot' = None
        /\ memory' = memory \/ memory' = None
    BY DEF RotateFails, Kill, files
  <1>3. Idle \in [kind : {"none", "copy", "remove", "write"}, batch : 0..MaxBatch]
    BY DEF Idle, EventConstants
  <1>4. TypeOK' /\ SizeFits'
    BY <1>1, <1>2, <1>3, TypesKept
  <1>5. CopyFits'
    BY <1>2 DEF CopyFits, Copying, Idle
  <1>6. Log' = Log /\ IdsFit'
    BY <1>1, <1>2, SameFiles DEF IdsFit
  <1> QED
    BY <1>4, <1>5, <1>6 DEF Inv

LEMMA SyncKeeps ==
    ASSUME EventConstants, Inv, Sync
    PROVE  Inv' /\ Log' = Log /\ Read' = Read /\ kept' = Len(Log')
  <1>1. TypeOK /\ SizeFits /\ CopyFits /\ IdsFit
    BY DEF Inv
  <1>2. /\ synced' = Len(open.events) /\ kept' = Len(Log)
        /\ UNCHANGED <<closed, open, memory, hot, op, issued, faults>>
    BY DEF Sync
  <1>3. Read' = Read /\ Log' = Log
    BY <1>2 DEF Read, Log
  <1>4. open.events \in Seq(EventOf) /\ Len(open.events) \in Nat /\ Read = Closed \o open.events
    BY <1>1, Typed
  <1>5. Len(Log) \in 0..MaxEvents
    BY <1>1, LogShort DEF EventConstants
  <1>6. TypeOK'
    <2>1. MostBytes' = MostBytes /\ synced' \in 0..Len(open'.events)
      BY <1>2, <1>4 DEF MostBytes
    <2> QED
      BY <1>1, <1>2, <1>5, <2>1 DEF TypeOK, EventOf
  <1>7. SizeFits' /\ CopyFits'
    BY <1>1, <1>2 DEF SizeFits, CopyFits, Copying
  <1>8. Safe' = Read
    <2>1. SubSeq(open.events, 1, Len(open.events)) = open.events
      BY <1>4, SubSeqFull
    <2> QED
      BY <1>2, <1>4, <2>1 DEF Safe, Closed
  <1>9. kept' <= Len(Distinct(Safe'))
    BY <1>2, <1>5, <1>8 DEF Log, EventConstants
  <1>10. IdsFit'
    BY <1>1, <1>2, <1>3, <1>9 DEF IdsFit
  <1> QED
    BY <1>2, <1>3, <1>6, <1>7, <1>10 DEF Inv

LEMMA EmptyFiles ==
    ASSUME EventConstants, closed' = <<>>, open' = NoFile, synced' = 0, memory' = None, hot' = None,
           kept' = 0, op' = Idle, issued' \in 0..MaxEvents, faults' \in Nat
    PROVE  Inv' /\ Log' = <<>> /\ Read' = <<>>
  <1>1. <<>> \in Seq(Seq(EventOf)) /\ <<>> \in Seq(EventOf) /\ Len(<<>>) = 0 /\ DOMAIN <<>> = {}
    BY EmptySeq
  <1>2. <<>> \o <<>> = <<>>
    BY <1>1, ConcatEmptySeq
  <1>3. Read' = <<>> /\ Closed' = <<>>
    BY <1>2, FlattenOfEmpty DEF Read, Closed, NoFile
  <1>4. Log' = <<>>
    BY <1>3, DistinctOfEmpty DEF Log
  <1>5. MostBytes' \in Nat
    BY MostBytesAfter
  <1>6. TypeOK'
    <2>1. open' \in [events : Seq(EventOf), size : 0..MostBytes', ended : BOOLEAN]
          /\ synced' \in 0..Len(open'.events)
      BY <1>1, <1>5 DEF NoFile
    <2>2. op' \in [kind : {"none", "copy", "remove", "write"}, batch : 0..MaxBatch]
          /\ kept' \in 0..MaxEvents
      BY DEF Idle, EventConstants
    <2> QED
      BY <1>1, <2>1, <2>2 DEF TypeOK, EventOf
  <1>7. SizeFits' /\ CopyFits'
    <2>1. open'.size = 0 /\ Len(open'.events) = 0 /\ open'.ended
      BY <1>1 DEF NoFile
    <2> QED
      BY <2>1 DEF SizeFits, CopyFits, Copying, Idle
  <1>8. IdsFit'
    <2>1. Range(Read') = {} /\ DOMAIN Log' = {}
      BY <1>1, <1>3, <1>4 DEF Range
    <2>2. Len(Distinct(Safe')) \in Nat
      <3>1. Safe' \in Seq(EventOf)
        BY <1>6, TypedAfter
      <3>2. Distinct(Safe') \in Seq(EventOf)
        BY <3>1, DistinctLists
      <3> QED
        BY <3>2
    <2> QED
      BY <2>1, <2>2 DEF IdsFit
  <1> QED
    BY <1>3, <1>4, <1>6, <1>7, <1>8 DEF Inv

LEMMA DeleteKeeps ==
    ASSUME EventConstants, Inv, DeleteChat
    PROVE  Inv' /\ Log' = <<>> /\ Read' = <<>>
  <1>1. issued \in 0..MaxEvents /\ faults \in Nat
    BY Typed DEF Inv, SizeFits
  <1>2. /\ closed' = <<>> /\ open' = NoFile /\ synced' = 0 /\ memory' = None /\ hot' = None /\ kept' = 0
        /\ op' = Idle /\ issued' = issued /\ faults' = faults
    BY DEF DeleteChat
  <1> QED
    BY <1>1, <1>2, EmptyFiles

\* What the beginning of a sequence holds of a shorter beginning.
LEMMA FirstOfFirst ==
    ASSUME NEW S, NEW s \in Seq(S), NEW n \in 0..Len(s), NEW m \in 0..n
    PROVE  SubSeq(SubSeq(s, 1, n), 1, m) = SubSeq(s, 1, m)
  <1> DEFINE a == SubSeq(s, 1, n)
  <1>1. Len(s) \in Nat /\ m \in 0..Len(s)
    OBVIOUS
  <1>2. a \in Seq(S) /\ Len(a) = n /\ \A i \in 1..n : a[i] = s[i]
    BY SplitAt
  <1> HIDE DEF a
  <1>3. /\ SubSeq(a, 1, m) \in Seq(S) /\ Len(SubSeq(a, 1, m)) = m
        /\ \A i \in 1..m : SubSeq(a, 1, m)[i] = a[i]
    BY <1>2, SplitAt
  <1>4. /\ SubSeq(s, 1, m) \in Seq(S) /\ Len(SubSeq(s, 1, m)) = m
        /\ \A i \in 1..m : SubSeq(s, 1, m)[i] = s[i]
    BY <1>1, SplitAt
  <1>5. \A i \in 1..m : i \in 1..n
    BY <1>1
  <1>6. SubSeq(a, 1, m) = SubSeq(s, 1, m)
    BY <1>2, <1>3, <1>4, <1>5, SeqEqual
  <1> QED
    BY <1>6 DEF a

\* The log after a power cut is the beginning of the log before it, and at
\* least what a sync covered.
LEMMA PowerCutLog ==
    ASSUME EventConstants, Inv, PowerCut
    PROVE  /\ Range(Read') \subseteq Range(Read) /\ Safe' = Safe /\ Log' \in Seq(EventOf)
           /\ \E u \in Seq(EventOf) : Log = Log' \o u
           /\ \E r \in Seq(EventOf) : Read = Read' \o r
           /\ Len(Log') \in kept..Len(Log)
           /\ open'.events \in Seq(EventOf) /\ synced \in 0..Len(open'.events)
           /\ Read' \in Seq(EventOf)
  <1>1. TypeOK /\ SizeFits /\ CopyFits /\ IdsFit
    BY DEF Inv
  <1> DEFINE o == open.events
  <1>2. o \in Seq(EventOf) /\ Len(o) \in Nat /\ synced \in 0..Len(o) /\ Closed \in Seq(EventOf) /\ kept \in Nat
    BY <1>1, Typed
  <1>3. PICK n \in synced..(Len(o) - 1), cut \in {0, 1} :
          open' = [events |-> SubSeq(o, 1, n), size |-> 2 * n + cut, ended |-> cut = 0]
    BY DEF PowerCut
  <1>4. closed' = closed /\ synced' = synced
    BY DEF PowerCut
  <1>5. n \in 0..Len(o) /\ synced \in 0..n
    BY <1>2, <1>3
  <1> DEFINE a == SubSeq(o, 1, n)
  <1>6. a \in Seq(EventOf) /\ Len(a) = n /\ Begins(a, o, EventOf)
    BY <1>2, <1>5, SplitAt
  <1>7. PICK r \in Seq(EventOf) : o = a \o r
    BY <1>6 DEF Begins
  <1>8. SubSeq(a, 1, synced) = SubSeq(o, 1, synced)
    BY <1>2, <1>5, FirstOfFirst
  <1>9. open'.events = a
    BY <1>3
  <1> HIDE DEF a
  <1>10. Safe' = Safe
    BY <1>4, <1>8, <1>9 DEF Safe, Closed
  <1> DEFINE b == Closed \o a
  <1>11. Read' = b /\ b \in Seq(EventOf)
    BY <1>2, <1>4, <1>6, <1>9, ConcatProperties DEF Read, Closed
  <1>12. Read = b \o r
    <2>1. (Closed \o a) \o r = Closed \o (a \o r)
      BY SMTT(60), <1>2, <1>6, <1>7, ConcatAssociative
    <2>2. Read = Closed \o o
      BY <1>1, Typed
    <2> QED
      BY <1>7, <2>1, <2>2
  <1> HIDE DEF b
  <1>13. PICK u \in Seq(EventOf) : Distinct(b \o r) = Distinct(b) \o u
    BY <1>11, DistinctGrows
  <1>14. Log' = Distinct(b) /\ Log = Distinct(b) \o u /\ Distinct(b) \in Seq(EventOf)
    BY <1>11, <1>12, <1>13, DistinctLists DEF Log
  <1>15. Range(Read) = Range(Read') \cup Range(r)
    BY <1>11, <1>12, RangeConcatenation
  <1>16. Len(Log') <= Len(Log) /\ Len(Log') \in Nat /\ Len(Log) \in Nat
    <2> DEFINE d == Distinct(b)
    <2>1. d \in Seq(EventOf) /\ Log' = d /\ Log = d \o u
      BY <1>14
    <2> HIDE DEF d
    <2>2. Len(d \o u) = Len(d) + Len(u) /\ Len(d) \in Nat /\ Len(u) \in Nat
      BY <2>1, ConcatProperties
    <2> QED
      BY <2>1, <2>2
  <1>17. kept <= Len(Log')
    <2>1. Safe \in Seq(EventOf)
      BY <1>1, SafeTyped
    <2>2. Range(Safe) \subseteq Range(b)
      <3> DEFINE q == SubSeq(a, 1, synced)
      <3>1. Range(q) \subseteq Range(a)
        BY <1>5, <1>6, FirstAreSome
      <3>2. Range(Safe) = Range(Closed) \cup Range(q)
        BY <1>1, <1>8, SafeTyped
      <3>3. Range(b) = Range(Closed) \cup Range(a)
        BY <1>2, <1>6, RangeConcatenation DEF b
      <3> QED
        BY <3>1, <3>2, <3>3
    <2>3. Len(Distinct(Safe)) <= Len(Distinct(b))
      BY <1>11, <2>1, <2>2, DistinctIsMonotonic
    <2>4. Len(Distinct(Safe)) \in Nat
      <3>1. Distinct(Safe) \in Seq(EventOf)
        BY <2>1, DistinctLists
      <3> QED
        BY <3>1
    <2>5. kept <= Len(Distinct(Safe))
      BY <1>1 DEF IdsFit
    <2> QED
      BY <1>2, <1>14, <1>16, <2>3, <2>4, <2>5
  <1>18. Len(Log') \in kept..Len(Log)
    BY <1>2, <1>16, <1>17
  <1>19. Log = Log' \o u /\ Log' \in Seq(EventOf) /\ Read = Read' \o r /\ Read' \in Seq(EventOf)
    BY <1>11, <1>12, <1>14
  <1>20. open'.events \in Seq(EventOf) /\ synced \in 0..Len(open'.events)
    BY <1>5, <1>6, <1>9
  <1> QED
    BY <1>10, <1>15, <1>18, <1>19, <1>20

LEMMA PowerCutKeeps ==
    ASSUME EventConstants, Inv, PowerCut
    PROVE  Inv'
  <1>1. TypeOK /\ SizeFits /\ CopyFits /\ IdsFit
    BY DEF Inv
  <1>2. PICK n \in synced..(Len(open.events) - 1), cut \in {0, 1} :
          open' = [events |-> SubSeq(open.events, 1, n), size |-> 2 * n + cut, ended |-> cut = 0]
    BY DEF PowerCut
  <1>3. /\ faults' = faults + 1 /\ memory' = None /\ hot' = None /\ op = Idle
        /\ UNCHANGED <<closed, synced, op, issued, kept>>
    BY DEF PowerCut
  <1>4. /\ Range(Read') \subseteq Range(Read) /\ Safe' = Safe /\ Log' \in Seq(EventOf)
        /\ open'.events \in Seq(EventOf) /\ synced \in 0..Len(open'.events)
    BY PowerCutLog
  <1>5. /\ open.events \in Seq(EventOf) /\ Len(open.events) \in Nat /\ synced \in 0..Len(open.events)
        /\ open.size \in Nat
    BY <1>1, Typed
  <1>6. n \in 0..Len(open.events) /\ n \in Nat /\ n < Len(open.events)
    BY <1>2, <1>5
  <1>7. Len(open'.events) = n
    BY <1>2, <1>5, <1>6, SplitAt
  <1>8. open'.size \in 0..open.size /\ open'.size \in Nat /\ open'.size = 2 * n + cut /\ 2 * n <= open'.size
    <2>1. open.size >= 2 * Len(open.events) /\ open'.size = 2 * n + cut
      BY <1>1, <1>2 DEF SizeFits
    <2> QED
      BY <1>5, <1>6, <2>1
  <1>9. faults \in Nat /\ faults' \in Nat /\ MostBytes \in Nat /\ MostBytes' \in Nat /\ MostBytes <= MostBytes'
    <2> DEFINE H == Hidden(faults)
               G == Hidden(faults')
    <2>1. faults \in Nat /\ faults' \in Nat /\ MaxBatch \in Nat /\ SegmentBytes \in Nat
      BY <1>1, <1>3 DEF SizeFits, EventConstants
    <2>2. H \in Nat /\ G = H + 2 * MaxBatch
      BY <1>3, <2>1, HiddenGrows
    <2>3. MostBytes = SegmentBytes + 2 * MaxBatch + H /\ MostBytes' = SegmentBytes + 2 * MaxBatch + G
      BY <2>1, MostBytesIs, MostBytesAfter
    <2> HIDE DEF H, G
    <2> QED
      BY <2>1, <2>2, <2>3
  <1>10. open' \in [events : Seq(EventOf), size : 0..MostBytes', ended : BOOLEAN]
    <2>1. open.size \in 0..MostBytes
      BY <1>1 DEF TypeOK
    <2>2. open'.size \in 0..MostBytes'
      BY <1>8, <1>9, <2>1
    <2> QED
      BY <1>2, <1>4, <2>2
  <1>11. TypeOK'
    BY <1>1, <1>3, <1>4, <1>10 DEF TypeOK, EventOf
  <1>12. SizeFits' /\ CopyFits'
    <2>1. ~open'.ended => open'.size > 0
      <3>1. open'.ended = (cut = 0)
        BY <1>2
      <3>2. cut = 0 \/ cut = 1
        BY <1>2
      <3>3. cut = 1 => open'.size > 0
        BY <1>6, <1>8
      <3> QED
        BY <3>1, <3>2, <3>3
    <2>2. SizeFits'
      BY <1>3, <1>7, <1>8, <1>9, <2>1 DEF SizeFits
    <2> QED
      BY <1>3, <2>2 DEF CopyFits, Copying, Idle
  <1>13. IdsFit'
    <2>1. PICK u \in Seq(EventOf) : Log = Log' \o u
      BY PowerCutLog
    <2> DEFINE d == Log'
    <2>2. d \in Seq(EventOf) /\ Log = d \o u /\ Len(d) \in Nat /\ Len(u) \in Nat
      BY <1>4, <2>1
    <2> HIDE DEF d
    <2>3. /\ Len(Log) = Len(d) + Len(u) /\ Log \in Seq(EventOf)
          /\ \A i \in 1..(Len(d) + Len(u)) : Log[i] = IF i <= Len(d) THEN d[i] ELSE u[i - Len(d)]
      BY <2>2, ConcatProperties
    <2>4. \A i \in 1..Len(d) : i \in DOMAIN Log /\ Log[i] = d[i]
      <3>1. DOMAIN Log = 1..(Len(d) + Len(u))
        BY <2>3
      <3> QED
        BY <2>2, <2>3, <3>1
    <2>5. DOMAIN d = 1..Len(d)
      BY <2>2
    <2>6. \A i, j \in DOMAIN d : i < j => d[i].id < d[j].id
      BY <1>1, <2>4, <2>5 DEF IdsFit
    <2>7. \A i, j \in DOMAIN Log' : i < j => Log'[i].id < Log'[j].id
      BY <2>6 DEF d
    <2>8. \A e \in Range(Read') : e.id <= issued'
      BY <1>1, <1>3, <1>4 DEF IdsFit
    <2>9. kept' <= Len(Distinct(Safe'))
      BY <1>1, <1>3, <1>4 DEF IdsFit
    <2> QED
      BY <2>7, <2>8, <2>9 DEF IdsFit
  <1> QED
    BY <1>11, <1>12, <1>13 DEF Inv

LEMMA InvInit ==
    ASSUME EventConstants, Init
    PROVE  Inv /\ Read = <<>> /\ Log = <<>>
  <1>1. <<>> \in Seq(Seq(EventOf)) /\ <<>> \in Seq(EventOf) /\ Len(<<>>) = 0 /\ DOMAIN <<>> = {}
    BY EmptySeq
  <1>2. <<>> \o <<>> = <<>>
    BY <1>1, ConcatEmptySeq
  <1>3. Read = <<>> /\ Closed = <<>>
    BY <1>2, FlattenOfEmpty DEF Read, Closed, NoFile, Init
  <1>4. Log = <<>>
    BY <1>3, DistinctOfEmpty DEF Log
  <1>5. MostBytes \in Nat
    BY MostBytesIs DEF Init
  <1>6. TypeOK
    <2>1. open \in [events : Seq(EventOf), size : 0..MostBytes, ended : BOOLEAN]
          /\ synced \in 0..Len(open.events)
      BY <1>1, <1>5 DEF NoFile, Init
    <2>2. op \in [kind : {"none", "copy", "remove", "write"}, batch : 0..MaxBatch]
          /\ kept \in 0..MaxEvents /\ issued \in 0..MaxEvents
      BY DEF Idle, EventConstants, Init
    <2> QED
      BY <1>1, <2>1, <2>2 DEF TypeOK, Init
  <1>7. SizeFits /\ CopyFits
    <2>1. open.size = 0 /\ Len(open.events) = 0 /\ open.ended
      BY <1>1 DEF NoFile, Init
    <2> QED
      BY <2>1 DEF SizeFits, CopyFits, Copying, Idle, Init
  <1>8. IdsFit
    <2>1. Range(Read) = {} /\ DOMAIN Log = {}
      BY <1>1, <1>3, <1>4 DEF Range
    <2>2. Len(Distinct(Safe)) \in Nat
      <3>1. Safe \in Seq(EventOf)
        BY <1>6, SafeTyped
      <3>2. Distinct(Safe) \in Seq(EventOf)
        BY <3>1, DistinctLists
      <3> QED
        BY <3>2
    <2> QED
      BY <2>1, <2>2 DEF IdsFit, Init
  <1> QED
    BY <1>3, <1>4, <1>6, <1>7, <1>8 DEF Inv

LEMMA InvNext ==
    ASSUME EventConstants, Inv, [Next]_vars
    PROVE  Inv'
  <1>1. CASE ReadShared \/ EvictHot
    BY <1>1, HotKeeps
  <1>2. ASSUME NEW k \in 1..MaxBatch, AppendEvents(k) \/ AppendFails(k) \/ BeginRotate(k)
        PROVE  Inv'
    BY <1>2, AppendKeeps, FailKeeps, BeginKeeps
  <1>3. CASE CopySegment
    BY <1>3, CopyKeeps
  <1>4. CASE RemoveOpen
    BY <1>4, RemoveKeeps
  <1>5. CASE RotateFails \/ Kill
    BY <1>5, StopKeeps
  <1>6. CASE Sync
    BY <1>6, SyncKeeps
  <1>7. CASE DeleteChat
    BY <1>7, DeleteKeeps
  <1>8. CASE PowerCut
    BY <1>8, PowerCutKeeps
  <1>9. CASE UNCHANGED vars
    <2>1. UNCHANGED <<closed, open, synced, memory, hot, op, issued, kept, faults>>
      BY <1>9 DEF vars, files
    <2>2. TypeOK'
      BY <2>1 DEF Inv, TypeOK, EventOf, MostBytes
    <2>3. SizeFits' /\ CopyFits'
      BY <2>1 DEF Inv, SizeFits, CopyFits, Copying
    <2>4. IdsFit'
      BY <2>1, SameFiles DEF Inv, IdsFit
    <2> QED
      BY <2>2, <2>3, <2>4 DEF Inv
  <1> QED
    BY <1>1, <1>2, <1>3, <1>4, <1>5, <1>6, <1>7, <1>8, <1>9 DEF Next

LEMMA InvAlways ==
    ASSUME EventConstants
    PROVE  Spec => []Inv
  <1>1. Init => Inv
    BY InvInit
  <1>2. Inv /\ [Next]_vars => Inv'
    BY InvNext
  <1> QED
    BY <1>1, <1>2, PTL DEF Spec

\* Every variable has its type: the segment a process believes not full gets at
\* most a batch larger, the bytes of failed writes aside (store.rs, append).
THEOREM TypeCorrect ==
    ASSUME EventConstants
    PROVE  Spec => []TypeOK
  <1>1. Inv => TypeOK
    BY DEF Inv
  <1> QED
    BY <1>1, InvAlways, PTL

-----------------------------------------------------------------------------
(* The parsed log of a hot chat.                                           *)

LEMMA HotNext ==
    ASSUME EventConstants, Inv, HotFits, [Next]_vars
    PROVE  HotFits'
  <1>0. TypeOK /\ SizeFits /\ CopyFits /\ IdsFit
    BY DEF Inv
  <1>n. /\ Len(closed) \in Nat /\ open.size \in Nat
        /\ hot # None => hot \in [stamp : Nat \X Nat, events : Seq(EventOf)]
    BY <1>0, Typed DEF TypeOK
  <1>1. CASE ReadShared
    <2>1. /\ op = Idle /\ hot' = [stamp |-> <<Len(closed), open.size>>, events |-> Read]
          /\ UNCHANGED <<closed, open, synced, op>>
      BY <1>1 DEF ReadShared, Stamp, files
    <2>2. Read' = Read
      BY <2>1, SameFiles
    <2>3. /\ hot'.stamp[1] = Len(closed) /\ hot'.stamp[2] = open.size /\ hot'.events = Read
      BY <2>1
    <2> QED
      BY <1>n, <2>1, <2>2, <2>3 DEF HotFits
  <1>2. CASE EvictHot \/ DeleteChat \/ Kill \/ PowerCut
    BY <1>2 DEF EvictHot, DeleteChat, Kill, PowerCut, HotFits
  <1>3. ASSUME NEW k \in 1..MaxBatch, AppendEvents(k)
        PROVE  HotFits'
    <2> DEFINE new == NewEvents(Loaded, k)
               b == Fresh(Loaded).bytes
    <2>1. PICK e \in {0, 1} :
            /\ Grows(k, k, e, 0)
            /\ memory' = [next |-> Loaded.next + k, bytes |-> Loaded.bytes + e + 2 * k]
            /\ b = Loaded.bytes + e
      BY <1>0, <1>3, AppendGrows
    <2>2. hot' = IF hot = None \/ hot.stamp # <<Len(closed), b>> THEN None
                 ELSE [stamp |-> <<Len(closed), b + 2 * k>>, events |-> hot.events \o new]
      BY <1>3 DEF AppendEvents, Extended
    <2>3. closed' = closed /\ op' = Idle /\ open'.size = open.size + e + 2 * k + 0
      BY <2>1 DEF Grows
    <2>4. k \in Nat /\ Loaded.bytes \in Nat /\ Loaded.bytes <= open.size
      <3>1. k \in Nat
        BY DEF EventConstants
      <3> QED
        BY <1>0, <3>1, LoadedFits
    <2>5. Read' = Read \o new
      BY <1>0, <2>1, <2>4, GrowsRead
    <2> SUFFICES ASSUME hot' # None PROVE HotFits'
      BY DEF HotFits
    <2>6. hot # None /\ hot.stamp = <<Len(closed), b>>
      BY <2>2
    <2>7. hot'.stamp[1] = Len(closed) /\ hot'.stamp[2] = b + 2 * k /\ hot'.events = hot.events \o new
      BY <2>2, <2>6
    <2>8. hot.stamp[1] = Len(closed) /\ hot.stamp[2] = b
      BY <2>6
    <2>9. b <= open.size /\ (b = open.size => hot.events = Read)
      BY <2>6, <2>8 DEF HotFits
    <2>10. hot'.stamp[2] <= open'.size
      BY <1>n, <2>1, <2>3, <2>4, <2>7, <2>9
    <2>11. hot'.stamp[2] = open'.size => hot'.events = Read'
      <3> SUFFICES ASSUME hot'.stamp[2] = open'.size PROVE hot'.events = Read'
        OBVIOUS
      <3>1. b = open.size
        BY <1>n, <2>1, <2>3, <2>4, <2>7, <2>9
      <3> QED
        BY <2>5, <2>7, <2>9, <3>1
    <2> QED
      BY <1>n, <2>3, <2>7, <2>10, <2>11 DEF HotFits
  <1>4. ASSUME NEW k \in 1..MaxBatch, AppendFails(k)
        PROVE  HotFits'
    <2>1. PICK e \in {0, 1}, n \in 0..(k - 1), cut \in {0, 1} : Grows(k, n, e, cut)
      BY <1>0, <1>4, FailGrows
    <2>2. /\ closed' = closed /\ synced' = synced /\ op' = Idle /\ open'.size = open.size + e + 2 * n + cut
          /\ e + 2 * n + cut = 0 => open' = open
      BY <2>1 DEF Grows
    <2>3. k \in Nat /\ n \in Nat /\ hot' = hot
      BY <1>4 DEF EventConstants, AppendFails
    <2> SUFFICES ASSUME hot # None, hot.stamp[1] = Len(closed)
                 PROVE  hot.stamp[2] <= open'.size /\ (hot.stamp[2] = open'.size => hot.events = Read')
      BY <2>2, <2>3 DEF HotFits
    <2>4. hot.stamp[2] <= open.size /\ (hot.stamp[2] = open.size => hot.events = Read) /\ hot.stamp[2] \in Nat
      BY <1>n DEF HotFits
    <2>5. hot.stamp[2] <= open'.size
      BY <1>n, <2>2, <2>3, <2>4
    <2>6. hot.stamp[2] = open'.size => hot.events = Read'
      <3> SUFFICES ASSUME hot.stamp[2] = open'.size PROVE hot.events = Read'
        OBVIOUS
      <3>1. e + 2 * n + cut = 0 /\ hot.stamp[2] = open.size
        BY <1>n, <2>2, <2>3, <2>4
      <3>2. Read' = Read
        BY <2>2, <3>1, SameFiles
      <3> QED
        BY <2>4, <3>1, <3>2
    <2> QED
      BY <2>5, <2>6
  <1>5. ASSUME NEW k \in 1..MaxBatch, BeginRotate(k)
        PROVE  HotFits'
    <2>1. Len(closed') = Len(closed) + 1 /\ hot' = hot
      BY <1>5, BeginKeeps DEF BeginRotate
    <2>2. hot # None => hot.stamp[1] <= Len(closed) /\ hot.stamp[1] \in Nat
      BY <1>n DEF HotFits
    <2> QED
      BY <1>n, <2>1, <2>2 DEF HotFits
  <1>6. CASE CopySegment
    <2>1. Len(closed') = Len(closed) /\ hot' = hot /\ op # Idle
      <3>1. Len(closed') = Len(closed)
        BY <1>0, <1>6, CopyKeeps
      <3>2. hot' = hot /\ op.kind = "copy"
        BY <1>6 DEF CopySegment
      <3> QED
        BY <3>1, <3>2 DEF Idle
    <2>2. hot # None => hot.stamp[1] < Len(closed) /\ hot.stamp[1] \in Nat
      BY <1>n, <2>1 DEF HotFits
    <2> QED
      BY <1>n, <2>1, <2>2 DEF HotFits
  <1>7. CASE RemoveOpen \/ RotateFails
    <2>1. closed' = closed /\ hot' = hot /\ op # Idle
      BY <1>7 DEF RemoveOpen, RotateFails, Idle, files
    <2>2. hot # None => hot.stamp[1] < Len(closed) /\ hot.stamp[1] \in Nat
      BY <1>n, <2>1 DEF HotFits
    <2> QED
      BY <1>n, <2>1, <2>2 DEF HotFits
  <1>8. CASE Sync
    <2>1. UNCHANGED <<closed, open, hot, op>>
      BY <1>8 DEF Sync
    <2>2. Read' = Read
      BY <2>1 DEF Read
    <2> QED
      BY <2>1, <2>2 DEF HotFits
  <1>9. CASE UNCHANGED vars
    <2>1. UNCHANGED <<closed, open, hot, op>>
      BY <1>9 DEF vars, files
    <2>2. Read' = Read
      BY <2>1 DEF Read
    <2> QED
      BY <2>1, <2>2 DEF HotFits
  <1> QED
    BY <1>1, <1>2, <1>3, <1>4, <1>5, <1>6, <1>7, <1>8, <1>9 DEF Next

\* A parsed log whose stamp is that of the files holds what a read of them
\* gives, whatever failed in between (store.rs, read_shared and append).
THEOREM HotLogsAreLogs ==
    ASSUME EventConstants
    PROVE  Spec => []HotLogIsTheLog
  <1>1. Init => HotFits
    BY DEF Init, HotFits
  <1>2. Inv /\ HotFits /\ [Next]_vars => HotFits'
    BY HotNext
  <1>3. Inv /\ HotFits => HotLogIsTheLog
    <2> SUFFICES ASSUME Inv, HotFits, HotIsCurrent PROVE hot.events = Read
      BY DEF HotLogIsTheLog
    <2>1. hot # None /\ hot.stamp[1] = Len(closed) /\ hot.stamp[2] = open.size
      BY DEF HotIsCurrent, Stamp
    <2> QED
      BY <2>1 DEF HotFits
  <1> QED
    BY <1>1, <1>2, <1>3, InvAlways, PTL DEF Spec

-----------------------------------------------------------------------------
(* The files are the promised log.                                         *)

LEMMA IdsTyped ==
    ASSUME NEW l \in Seq(EventOf)
    PROVE  /\ IdsOf(l) \in Seq(1..MaxEvents) /\ Len(IdsOf(l)) = Len(l)
           /\ \A i \in 1..Len(l) : IdsOf(l)[i] = l[i].id
  <1>1. DOMAIN l = 1..Len(l) /\ Len(l) \in Nat /\ \A i \in 1..Len(l) : l[i].id \in 1..MaxEvents
    <2>1. DOMAIN l = 1..Len(l) /\ Len(l) \in Nat /\ \A i \in 1..Len(l) : l[i] \in EventOf
      OBVIOUS
    <2>2. \A x \in EventOf : x.id \in 1..MaxEvents
      BY DEF EventOf
    <2> QED
      BY <2>1, <2>2
  <1>2. IdsOf(l) = [i \in 1..Len(l) |-> l[i].id]
    BY <1>1 DEF IdsOf
  <1> DEFINE f == [i \in 1..Len(l) |-> l[i].id]
             n == Len(l)
  <1>3. f \in [1..n -> 1..MaxEvents] /\ n \in Nat /\ \A i \in 1..n : f[i] = l[i].id
    BY <1>1
  <1> HIDE DEF f, n
  <1>4. f \in Seq(1..MaxEvents) /\ Len(f) = n
    <2> DEFINE D == 1..MaxEvents
    <2>1. f \in [1..n -> D] /\ n \in Nat
      BY <1>3
    <2> HIDE DEF D
    <2>2. f \in Seq(D) /\ Len(f) = n
      BY <2>1
    <2> QED
      BY <2>2 DEF D
  <1> QED
    BY <1>2, <1>3, <1>4 DEF f, n

LEMMA IdsOfConcat ==
    ASSUME NEW a \in Seq(EventOf), NEW b \in Seq(EventOf)
    PROVE  IdsOf(a \o b) = IdsOf(a) \o IdsOf(b)
  <1> DEFINE c == a \o b
             x == IdsOf(a)
             y == IdsOf(b)
             D == 1..MaxEvents
  <1>1. /\ c \in Seq(EventOf) /\ Len(c) = Len(a) + Len(b) /\ Len(a) \in Nat /\ Len(b) \in Nat
        /\ \A i \in 1..(Len(a) + Len(b)) : c[i] = IF i <= Len(a) THEN a[i] ELSE b[i - Len(a)]
    BY ConcatProperties
  <1>2. /\ x \in Seq(D) /\ Len(x) = Len(a) /\ \A i \in 1..Len(a) : x[i] = a[i].id
        /\ y \in Seq(D) /\ Len(y) = Len(b) /\ \A i \in 1..Len(b) : y[i] = b[i].id
    BY IdsTyped
  <1> HIDE DEF c, x, y, D
  <1>3. /\ IdsOf(c) \in Seq(D) /\ Len(IdsOf(c)) = Len(c)
        /\ \A i \in 1..Len(c) : IdsOf(c)[i] = c[i].id
    BY <1>1, IdsTyped DEF D
  <1> DEFINE z == x \o y
  <1>4. /\ z \in Seq(D) /\ Len(z) = Len(x) + Len(y)
        /\ \A i \in 1..(Len(x) + Len(y)) : z[i] = IF i <= Len(x) THEN x[i] ELSE y[i - Len(x)]
    <2>1. x \in Seq(D) /\ y \in Seq(D)
      BY <1>2
    <2> QED
      BY <2>1, ConcatProperties
  <1> HIDE DEF z
  <1>5. \A i \in 1..Len(z) : IdsOf(c)[i] = z[i]
    <2> TAKE i \in 1..Len(z)
    <2>1. i \in 1..(Len(a) + Len(b)) /\ IdsOf(c)[i] = c[i].id
      BY <1>1, <1>2, <1>3, <1>4
    <2>2. CASE i <= Len(a)
      <3>1. i \in 1..Len(a)
        BY <1>1, <2>1, <2>2
      <3> QED
        BY <1>1, <1>2, <1>4, <2>1, <2>2, <3>1
    <2>3. CASE ~(i <= Len(a))
      <3>1. i - Len(a) \in 1..Len(b)
        BY <1>1, <2>1, <2>3
      <3>2. c[i] = b[i - Len(a)] /\ z[i] = y[i - Len(a)]
        BY <1>1, <1>2, <1>4, <2>1, <2>3
      <3>3. y[i - Len(a)] = b[i - Len(a)].id
        BY <1>2, <3>1
      <3> QED
        BY <2>1, <3>2, <3>3
    <2> QED
      BY <2>2, <2>3
  <1>6. IdsOf(c) = z
    <2>1. Len(IdsOf(c)) = Len(z)
      BY <1>1, <1>2, <1>3, <1>4
    <2>2. \A i \in 1..Len(IdsOf(c)) : IdsOf(c)[i] = z[i]
      BY <1>5, <2>1
    <2> QED
      BY <1>3, <1>4, <2>1, <2>2, SeqEqual
  <1> QED
    BY <1>6 DEF c, x, y, z

\* A write gives the events of a batch, or the first of them, the next ids.
LEMMA GrowsIdsOf ==
    ASSUME EventConstants, Inv, NEW k \in Nat, NEW n, NEW e, NEW cut, Grows(k, n, e, cut)
    PROVE  IdsOf(Log') = IdsOf(Log) \o PromisedLog!New(n)
  <1>1. TypeOK /\ SizeFits /\ IdsFit
    BY DEF Inv
  <1> DEFINE new == NewEvents(Loaded, n)
  <1>2. /\ new \in Seq(EventOf) /\ Len(new) = n /\ n \in 0..k
        /\ \A i \in 1..n : new[i].id = issued + i
        /\ Log' = Log \o new
    BY <1>1, GrowsRead
  <1>3. Log \in Seq(EventOf) /\ issued \in Nat
    BY <1>1, Typed
  <1> HIDE DEF new
  <1>4. IdsOf(Log \o new) = IdsOf(Log) \o IdsOf(new)
    BY <1>2, <1>3, IdsOfConcat
  <1>5. IdsOf(new) = PromisedLog!New(n)
    <2>1. DOMAIN new = 1..n
      BY <1>2
    <2>2. IdsOf(new) = [i \in 1..n |-> new[i].id]
      BY <2>1 DEF IdsOf
    <2>3. [i \in 1..n |-> new[i].id] = [i \in 1..n |-> issued + i]
      BY <1>2
    <2> QED
      BY <2>2, <2>3 DEF PromisedLog!New
  <1> QED
    BY <1>2, <1>4, <1>5

\* A power cut takes the end of the ids, and no more than no sync covered.
LEMMA PowerCutIds ==
    ASSUME EventConstants, Inv, PowerCut
    PROVE  PromisedLog!Crash
  <1>1. /\ TypeOK /\ Log' \in Seq(EventOf) /\ Len(Log') \in kept..Len(Log)
        /\ UNCHANGED <<issued, kept>>
    BY PowerCutLog DEF Inv, PowerCut
  <1>2. PICK u \in Seq(EventOf) : Log = Log' \o u
    BY PowerCutLog
  <1> DEFINE l == Log
             d == Log'
             x == IdsOf(l)
             y == IdsOf(d)
             D == 1..MaxEvents
  <1>3. l \in Seq(EventOf) /\ d \in Seq(EventOf) /\ l = d \o u /\ kept \in Nat
    BY <1>1, <1>2, Typed
  <1> HIDE DEF l, d
  <1>4. /\ x \in Seq(D) /\ Len(x) = Len(l) /\ y \in Seq(D) /\ Len(y) = Len(d)
        /\ IdsOf(u) \in Seq(D) /\ x = y \o IdsOf(u)
    BY <1>3, IdsTyped, IdsOfConcat
  <1> DEFINE v == IdsOf(u)
  <1> HIDE DEF x, y, v, D
  <1>5. /\ Len(x) = Len(y) + Len(v) /\ Len(y) \in Nat /\ Len(v) \in Nat
        /\ \A i \in 1..Len(y) : x[i] = y[i]
    <2>1. /\ v \in Seq(D) /\ x = y \o v /\ y \in Seq(D)
      BY <1>4 DEF v
    <2>2. /\ Len(y \o v) = Len(y) + Len(v) /\ Len(y) \in Nat /\ Len(v) \in Nat
          /\ \A i \in 1..(Len(y) + Len(v)) : (y \o v)[i] = IF i <= Len(y) THEN y[i] ELSE v[i - Len(y)]
      BY <2>1, ConcatProperties
    <2> QED
      BY <2>1, <2>2
  <1>6. y = SubSeq(x, 1, Len(y))
    <2>1. Len(y) \in 0..Len(x)
      BY <1>5
    <2>2. /\ SubSeq(x, 1, Len(y)) \in Seq(D) /\ Len(SubSeq(x, 1, Len(y))) = Len(y)
          /\ \A i \in 1..Len(y) : SubSeq(x, 1, Len(y))[i] = x[i]
      BY <1>4, <2>1, SplitAt
    <2> QED
      BY <1>4, <1>5, <2>2, SeqEqual
  <1>7. Len(y) \in kept..Len(x)
    BY <1>1, <1>4 DEF l, d
  <1>8. IdsOf(Log') = SubSeq(IdsOf(Log), 1, Len(y)) /\ Len(y) \in kept..Len(IdsOf(Log))
    BY <1>6, <1>7 DEF x, y, l, d
  <1> QED
    BY <1>1, <1>8 DEF PromisedLog!Crash

LEMMA NextKeepsThePromise ==
    ASSUME EventConstants, Inv, [Next]_vars
    PROVE  [PromisedLog!Next]_(PromisedLog!logVars)
  <1> DEFINE Same == IdsOf(Log') = IdsOf(Log) /\ UNCHANGED <<kept, issued>>
  <1>0. Same => UNCHANGED PromisedLog!logVars
    BY DEF PromisedLog!logVars
  <1>1. CASE ReadShared \/ EvictHot
    <2>1. UNCHANGED <<closed, open, synced, kept, issued>>
      BY <1>1 DEF ReadShared, EvictHot, files
    <2> QED
      BY <1>0, <2>1, SameFiles
  <1>2. ASSUME NEW k \in 1..MaxBatch, AppendEvents(k)
        PROVE  PromisedLog!Next
    <2>1. k \in Nat /\ TypeOK /\ SizeFits
      BY DEF EventConstants, Inv
    <2>2. PICK e \in {0, 1} : Grows(k, k, e, 0)
      BY <1>2, <2>1, AppendGrows
    <2>3. IdsOf(Log') = IdsOf(Log) \o PromisedLog!New(k)
      BY <2>1, <2>2, GrowsIdsOf
    <2>4. issued' = issued + k /\ kept' = kept
      BY <1>2 DEF AppendEvents
    <2>5. PromisedLog!AppendAll(k)
      BY <2>3, <2>4 DEF PromisedLog!AppendAll
    <2> QED
      BY <2>5 DEF PromisedLog!Next
  <1>3. ASSUME NEW k \in 1..MaxBatch, AppendFails(k)
        PROVE  PromisedLog!Next
    <2>1. k \in Nat /\ TypeOK /\ SizeFits
      BY DEF EventConstants, Inv
    <2>2. PICK e \in {0, 1}, n \in 0..(k - 1), cut \in {0, 1} : Grows(k, n, e, cut)
      BY <1>3, <2>1, FailGrows
    <2>3. IdsOf(Log') = IdsOf(Log) \o PromisedLog!New(n)
      BY <2>1, <2>2, GrowsIdsOf
    <2>4. issued' = issued + k /\ kept' = kept
      BY <1>3 DEF AppendFails
    <2>5. PromisedLog!AppendFails(k)
      BY <2>3, <2>4 DEF PromisedLog!AppendFails
    <2> QED
      BY <2>5 DEF PromisedLog!Next
  <1>4. ASSUME NEW k \in 1..MaxBatch, BeginRotate(k)
        PROVE  UNCHANGED PromisedLog!logVars
    <2>1. Log' = Log
      BY <1>4, BeginKeeps
    <2>2. UNCHANGED <<kept, issued>>
      BY <1>4 DEF BeginRotate
    <2> QED
      BY <1>0, <2>1, <2>2
  <1>5. CASE CopySegment \/ RemoveOpen \/ RotateFails \/ Kill
    <2>1. Log' = Log
      BY <1>5, CopyKeeps, RemoveKeeps, StopKeeps
    <2>2. UNCHANGED <<kept, issued>>
      BY <1>5 DEF CopySegment, RemoveOpen, RotateFails, Kill
    <2> QED
      BY <1>0, <2>1, <2>2
  <1>6. CASE Sync
    <2>1. Log' = Log /\ kept' = Len(Log')
      BY <1>6, SyncKeeps
    <2>2. issued' = issued
      BY <1>6 DEF Sync
    <2>3. Len(IdsOf(Log)) = Len(Log)
      BY Typed, IdsTyped DEF Inv
    <2>4. PromisedLog!Sync
      BY <2>1, <2>2, <2>3 DEF PromisedLog!Sync
    <2> QED
      BY <2>4 DEF PromisedLog!Next
  <1>7. CASE DeleteChat
    <2>1. Log' = <<>>
      BY <1>7, DeleteKeeps
    <2>2. issued' = issued /\ kept' = 0
      BY <1>7 DEF DeleteChat
    <2>3. IdsOf(Log') = <<>>
      <3>1. <<>> \in Seq(EventOf) /\ Len(<<>>) = 0
        BY EmptySeq
      <3>2. IdsOf(<<>>) \in Seq(1..MaxEvents) /\ Len(IdsOf(<<>>)) = 0
        BY <3>1, IdsTyped
      <3> QED
        BY <2>1, <3>2, EmptySeq
    <2>4. PromisedLog!Delete
      BY <2>2, <2>3 DEF PromisedLog!Delete
    <2> QED
      BY <2>4 DEF PromisedLog!Next
  <1>8. CASE PowerCut
    BY <1>8, PowerCutIds DEF PromisedLog!Next
  <1>9. CASE UNCHANGED vars
    <2>1. UNCHANGED <<closed, open, synced, kept, issued>>
      BY <1>9 DEF vars, files
    <2> QED
      BY <1>0, <2>1, SameFiles
  <1> QED
    BY <1>1, <1>2, <1>3, <1>4, <1>5, <1>6, <1>7, <1>8, <1>9 DEF Next

\* The files are an append-only log of the chat's events, which loses nothing
\* that a sync covered: every step of the store is a step of the promised log
\* or leaves it alone (trait EventStore and FileEventStore, store.rs).
THEOREM FilesKeepThePromise ==
    ASSUME EventConstants
    PROVE  Spec => KeepsThePromise
  <1>1. Init => PromisedLog!Init
    <2> SUFFICES ASSUME Init PROVE PromisedLog!Init
      OBVIOUS
    <2>1. Log = <<>>
      BY InvInit
    <2>2. IdsOf(Log) = <<>>
      <3>1. <<>> \in Seq(EventOf) /\ Len(<<>>) = 0
        BY EmptySeq
      <3>2. IdsOf(<<>>) \in Seq(1..MaxEvents) /\ Len(IdsOf(<<>>)) = 0
        BY <3>1, IdsTyped
      <3> QED
        BY <2>1, <3>2, EmptySeq
    <2> QED
      BY <2>2 DEF Init, PromisedLog!Init
  <1>2. Inv /\ [Next]_vars => [PromisedLog!Next]_(PromisedLog!logVars)
    BY NextKeepsThePromise
  <1> QED
    BY <1>1, <1>2, InvAlways, PTL DEF Spec, KeepsThePromise, PromisedLog!Spec

-----------------------------------------------------------------------------
(* Seqs along the log.                                                     *)

\* Repeated events are beyond the copy that an unfinished rotation left.
LEMMA SeqsOfCopy ==
    ASSUME NEW F \in Seq(EventOf), NEW p \in Seq(EventOf), NEW r \in Seq(EventOf), NEW m,
           SeqsGrowIn(F \o (p \o r), m)
    PROVE  SeqsGrowIn((F \o p) \o (p \o r), m)
  <1> DEFINE a == F \o p
             q == p \o r
             b == a \o q
             c == a \o r
  <1>1. F \o q = c
    BY SMTT(60), ConcatAssociative
  <1>2. CASE p = <<>>
    <2>1. a = F
      BY <1>2, ConcatEmptySeq
    <2> QED
      BY <2>1
  <1>3. CASE p # <<>>
    <2>1. /\ a \in Seq(EventOf) /\ Len(a) = Len(F) + Len(p) /\ Len(F) \in Nat /\ Len(p) \in Nat
          /\ \A i \in 1..(Len(F) + Len(p)) : a[i] = IF i <= Len(F) THEN F[i] ELSE p[i - Len(F)]
      BY ConcatProperties
    <2>2. /\ q \in Seq(EventOf) /\ Len(q) = Len(p) + Len(r) /\ Len(r) \in Nat
          /\ \A i \in 1..(Len(p) + Len(r)) : q[i] = IF i <= Len(p) THEN p[i] ELSE r[i - Len(p)]
      BY ConcatProperties
    <2>3. Len(p) > 0
      BY <1>3, EmptySeq
    <2>14. a \in Seq(EventOf) /\ q \in Seq(EventOf)
      BY <2>1, <2>2
    <2> HIDE DEF a, q
    <2>4. /\ b \in Seq(EventOf) /\ Len(b) = Len(a) + Len(q)
          /\ \A i \in 1..(Len(a) + Len(q)) : b[i] = IF i <= Len(a) THEN a[i] ELSE q[i - Len(a)]
      BY <2>14, ConcatProperties
    <2>5. /\ c \in Seq(EventOf) /\ Len(c) = Len(a) + Len(r)
          /\ \A i \in 1..(Len(a) + Len(r)) : c[i] = IF i <= Len(a) THEN a[i] ELSE r[i - Len(a)]
      BY <2>14, ConcatProperties
    <2>6. SeqsGrowIn(c, m)
      BY <1>1 DEF q
    <2> HIDE DEF b, c
    <2>7. b[Len(F) + 1] = b[Len(a) + 1]
      <3>1. a[Len(F) + 1] = p[1]
        <4>1. Len(F) + 1 \in 1..(Len(F) + Len(p)) /\ ~(Len(F) + 1 <= Len(F)) /\ (Len(F) + 1) - Len(F) = 1
          BY <2>1, <2>3
        <4> QED
          BY <2>1, <4>1
      <3>2. q[1] = p[1]
        BY <2>1, <2>2, <2>3
      <3>3. b[Len(F) + 1] = a[Len(F) + 1]
        BY <2>1, <2>2, <2>3, <2>4
      <3>4. b[Len(a) + 1] = q[1]
        <4>1. Len(a) + 1 \in 1..(Len(a) + Len(q)) /\ ~(Len(a) + 1 <= Len(a)) /\ (Len(a) + 1) - Len(a) = 1
          BY <2>1, <2>2, <2>3
        <4> QED
          BY <2>4, <4>1
      <3> QED
        BY <3>1, <3>2, <3>3, <3>4
    <2> SUFFICES ASSUME NEW j \in 1..Len(b), NoRepeatTo(b, j)
                 PROVE  /\ \A i \in 1..(j - 1) : b[i].seq < b[j].seq
                        /\ j = Len(b) /\ m # None => b[j].seq < m.next
      BY DEF SeqsGrowIn, b, q, a
    <2>8. j <= Len(a)
      <3> SUFFICES ASSUME j > Len(a) PROVE FALSE
        BY <2>1, <2>4
      <3>1. Len(F) + 1 \in 1..j /\ Len(a) + 1 \in 1..j /\ Len(F) + 1 # Len(a) + 1
        BY <2>1, <2>3, <2>4
      <3> QED
        BY <2>7, <3>1 DEF NoRepeatTo
    <2>9. j \in 1..Len(c) /\ j # Len(b)
      BY <2>1, <2>2, <2>3, <2>4, <2>5, <2>8
    <2>10. \A i \in 1..j : b[i] = c[i]
      BY <2>1, <2>2, <2>4, <2>5, <2>8
    <2>11. NoRepeatTo(c, j)
      BY <2>10 DEF NoRepeatTo
    <2>12. \A i \in 1..(j - 1) : c[i].seq < c[j].seq
      BY <2>6, <2>9, <2>11 DEF SeqsGrowIn
    <2>13. j \in 1..j /\ \A i \in 1..(j - 1) : i \in 1..j
      BY <2>9
    <2> QED
      BY <2>9, <2>10, <2>12, <2>13
  <1> QED
    BY <1>2, <1>3

\* A beginning of the log of which the process knows nothing.
LEMMA SeqsOfFirst ==
    ASSUME NEW b \in Seq(EventOf), NEW r \in Seq(EventOf), NEW m, SeqsGrowIn(b \o r, m)
    PROVE  SeqsGrowIn(b, None)
  <1> DEFINE c == b \o r
  <1>1. /\ Len(c) = Len(b) + Len(r) /\ Len(b) \in Nat /\ Len(r) \in Nat
        /\ \A i \in 1..(Len(b) + Len(r)) : c[i] = IF i <= Len(b) THEN b[i] ELSE r[i - Len(b)]
    BY ConcatProperties
  <1> HIDE DEF c
  <1> SUFFICES ASSUME NEW j \in 1..Len(b), NoRepeatTo(b, j)
               PROVE  \A i \in 1..(j - 1) : b[i].seq < b[j].seq
    BY DEF SeqsGrowIn
  <1>2. j \in 1..Len(c) /\ \A i \in 1..j : c[i] = b[i]
    BY <1>1
  <1>3. NoRepeatTo(c, j)
    BY <1>2 DEF NoRepeatTo
  <1>4. \A i \in 1..(j - 1) : c[i].seq < c[j].seq
    BY <1>2, <1>3 DEF SeqsGrowIn, c
  <1>5. j \in 1..j /\ \A i \in 1..(j - 1) : i \in 1..j
    BY <1>1
  <1> QED
    BY <1>2, <1>4, <1>5

\* New events, whose seqs go on from one above those of the log.
LEMMA SeqsOfAppend ==
    ASSUME NEW b \in Seq(EventOf), NEW new \in Seq(EventOf), NEW m, NEW next \in Nat,
           SeqsGrowIn(b, None),
           NoRepeatTo(b, Len(b)) => \A i \in 1..Len(b) : b[i].seq < next,
           \A i \in 1..Len(new) : new[i].seq = next + i - 1,
           m # None => m.next \in Nat /\ m.next >= next + Len(new)
    PROVE  SeqsGrowIn(b \o new, m)
  <1> DEFINE c == b \o new
             L == Len(b)
             n == Len(new)
  <1>1. /\ Len(c) = L + n /\ L \in Nat /\ n \in Nat
        /\ \A i \in 1..(L + n) : c[i] = IF i <= L THEN b[i] ELSE new[i - L]
    BY ConcatProperties
  <1>2. \A i \in 1..L : b[i].seq \in Nat
    <2>1. \A i \in 1..L : b[i] \in EventOf
      OBVIOUS
    <2> QED
      BY <2>1 DEF EventOf
  <1>3. \A i \in 1..n : new[i].seq = next + i - 1
    OBVIOUS
  <1> HIDE DEF c, L, n
  <1>4. \A i \in 1..(L + n) : i <= L => c[i] = b[i]
    BY <1>1
  <1>5. \A i \in 1..(L + n) : ~(i <= L) => c[i].seq = next + (i - L) - 1
    <2> SUFFICES ASSUME NEW i \in 1..(L + n), ~(i <= L) PROVE c[i].seq = next + (i - L) - 1
      OBVIOUS
    <2>1. i - L \in 1..n /\ c[i] = new[i - L]
      BY <1>1
    <2> QED
      BY <1>3, <2>1
  <1> SUFFICES ASSUME NEW j \in 1..(L + n), NoRepeatTo(c, j)
               PROVE  /\ \A i \in 1..(j - 1) : c[i].seq < c[j].seq
                      /\ j = L + n /\ m # None => c[j].seq < m.next
    BY <1>1 DEF SeqsGrowIn, c
  <1>6. CASE j <= L
    <2>1. j \in 1..L /\ \A i \in 1..j : c[i] = b[i]
      BY <1>1, <1>4, <1>6
    <2>2. NoRepeatTo(b, j)
      BY <2>1 DEF NoRepeatTo
    <2>3. \A i \in 1..(j - 1) : b[i].seq < b[j].seq
      BY <2>1, <2>2 DEF SeqsGrowIn, L
    <2>4. j \in 1..j /\ \A i \in 1..(j - 1) : i \in 1..j
      BY <1>1
    <2>5. \A i \in 1..(j - 1) : c[i].seq < c[j].seq
      BY <2>1, <2>3, <2>4
    <2>6. j = L + n /\ m # None => c[j].seq < m.next
      <3> SUFFICES ASSUME j = L + n, m # None PROVE c[j].seq < m.next
        OBVIOUS
      <3>1. n = 0 /\ j = L
        BY <1>1, <1>6
      <3>2. b[j].seq < next
        BY <2>1, <2>2, <3>1 DEF L
      <3>3. m.next \in Nat /\ m.next >= next
        BY <3>1 DEF n
      <3>4. c[j] = b[j] /\ b[j].seq \in Nat
        BY <1>2, <2>1, <2>4
      <3> QED
        BY <3>2, <3>3, <3>4
    <2> QED
      BY <2>5, <2>6
  <1>7. CASE ~(j <= L)
    <2>1. \A i \in 1..L : i \in 1..j /\ c[i] = b[i]
      BY <1>1, <1>4, <1>7
    <2>2. NoRepeatTo(b, L)
      BY <2>1 DEF NoRepeatTo
    <2>3. \A i \in 1..L : b[i].seq < next
      BY <2>2 DEF L
    <2>4. c[j].seq = next + (j - L) - 1
      BY <1>5, <1>7
    <2>5. \A i \in 1..(j - 1) : c[i].seq < c[j].seq
      <3> TAKE i \in 1..(j - 1)
      <3>1. i \in 1..(L + n) /\ i < j
        BY <1>1
      <3>2. CASE i <= L
        <4>1. i \in 1..L
          BY <1>1, <3>1, <3>2
        <4>2. c[i].seq \in Nat /\ c[i].seq < next
          BY <1>2, <2>1, <2>3, <4>1
        <4> QED
          BY <1>1, <1>7, <2>4, <4>2
      <3>3. CASE ~(i <= L)
        <4>1. c[i].seq = next + (i - L) - 1
          BY <1>5, <3>1, <3>3
        <4> QED
          BY <1>1, <2>4, <3>1, <4>1
      <3> QED
        BY <3>2, <3>3
    <2>6. j = L + n /\ m # None => c[j].seq < m.next
      <3> SUFFICES ASSUME j = L + n, m # None PROVE c[j].seq < m.next
        OBVIOUS
      <3>1. m.next \in Nat /\ m.next >= next + n
        BY DEF n
      <3> QED
        BY <1>1, <2>4, <3>1
    <2> QED
      BY <2>5, <2>6
  <1> QED
    BY <1>6, <1>7

LEMMA ReadSeqs ==
    ASSUME EventConstants, TypeOK, CopyFits, SeqsFit
    PROVE  SeqsGrowIn(Read, memory)
  <1>1. CASE ~Copying
    BY <1>1 DEF SeqsFit, Base
  <1>2. CASE Copying
    <2> DEFINE F == FlattenSeq(Front(closed))
               p == Last(closed)
               o == open.events
    <2>1. closed \in Seq(Seq(EventOf)) /\ closed # <<>> /\ o \in Seq(EventOf) /\ IsPrefix(p, o)
      BY <1>2, Typed DEF CopyFits
    <2>2. F \in Seq(EventOf) /\ p \in Seq(EventOf) /\ FlattenSeq(closed) = F \o p
      BY <2>1, CopyLog
    <2>3. PICK r \in Seq(EventOf) : o = p \o r
      <3>1. Begins(p, o, EventOf)
        BY <2>1, <2>2, PrefixRest
      <3> QED
        BY <3>1 DEF Begins
    <2>4. SeqsGrowIn(F \o o, memory)
      BY <1>2 DEF SeqsFit, Base
    <2>5. Read = (F \o p) \o o
      BY <2>2 DEF Read
    <2> HIDE DEF F, p, o
    <2>6. SeqsGrowIn(F \o (p \o r), memory)
      BY <2>3, <2>4
    <2>7. SeqsGrowIn((F \o p) \o (p \o r), memory)
      BY <2>2, <2>6, SeqsOfCopy
    <2> QED
      BY <2>3, <2>5, <2>7
  <1> QED
    BY <1>1, <1>2

LEMMA SeqsForgotten ==
    ASSUME NEW b, NEW m, SeqsGrowIn(b, m)
    PROVE  SeqsGrowIn(b, None)
  BY DEF SeqsGrowIn

\* The next seq is above those of the log.
LEMMA LoadedIsNext ==
    ASSUME EventConstants, TypeOK, SizeFits, CopyFits, SeqsFit, NoRepeatTo(Read, Len(Read))
    PROVE  \A i \in 1..Len(Read) : Read[i].seq < Loaded.next
  <1> SUFFICES ASSUME NEW i \in 1..Len(Read) PROVE Read[i].seq < Loaded.next
    OBVIOUS
  <1> DEFINE b == Read
             n == Len(Read)
  <1>1. Read \in Seq(EventOf)
    BY Typed
  <1>2. n \in Nat /\ n # 0 /\ i \in 1..n /\ n \in 1..n /\ Read # <<>>
    BY <1>1, EmptySeq
  <1>3. \A k \in 1..n : b[k].seq \in Nat
    <2>1. \A k \in 1..n : b[k] \in EventOf
      BY <1>1
    <2> QED
      BY <2>1 DEF EventOf
  <1>4. /\ \A k \in 1..(n - 1) : b[k].seq < b[n].seq
        /\ memory # None => b[n].seq < memory.next
    BY <1>2, ReadSeqs DEF SeqsGrowIn
  <1>5. b[n].seq < Loaded.next
    <2>1. CASE memory # None
      BY <1>4, <2>1 DEF Loaded
    <2>2. CASE memory = None
      <3>1. Loaded.next = NextSeq(b)
        BY <2>2 DEF Loaded
      <3>2. NextSeq(b) = b[n].seq + 1
        BY <1>2 DEF NextSeq, Last
      <3> QED
        BY <1>2, <1>3, <3>1, <3>2
    <2> QED
      BY <2>1, <2>2
  <1>6. Loaded.next \in Nat
    BY LoadedFits
  <1> HIDE DEF b, n
  <1>7. CASE i = n
    BY <1>5, <1>7 DEF b
  <1>8. CASE i # n
    <2>1. i \in 1..(n - 1)
      BY <1>2, <1>8
    <2>2. b[i].seq < b[n].seq
      BY <1>4, <2>1
    <2>3. b[i].seq < Loaded.next
      BY <1>2, <1>3, <1>5, <1>6, <2>2
    <2> QED
      BY <2>3 DEF b
  <1> QED
    BY <1>7, <1>8

\* A write leaves the next seq above those of all it wrote.
LEMMA SeqsOfGrows ==
    ASSUME EventConstants, Inv, SeqsFit, NEW k \in Nat, NEW n, NEW e, NEW cut, Grows(k, n, e, cut)
    PROVE  SeqsFit'
  <1>1. TypeOK /\ SizeFits /\ CopyFits /\ IdsFit
    BY DEF Inv
  <1> DEFINE new == NewEvents(Loaded, n)
             next == Loaded.next
  <1>2. /\ new \in Seq(EventOf) /\ Len(new) = n /\ n \in 0..k /\ Read' = Read \o new
        /\ \A i \in 1..n : new[i].seq = next + i - 1
    BY <1>1, GrowsRead
  <1>3. next \in Nat /\ Read \in Seq(EventOf)
    BY <1>1, LoadedFits, Typed
  <1>4. memory'.next = next + k /\ op' = Idle
    BY DEF Grows
  <1>5. NoRepeatTo(Read, Len(Read)) => \A i \in 1..Len(Read) : Read[i].seq < next
    BY <1>1, LoadedIsNext
  <1>6. SeqsGrowIn(Read, None)
    BY <1>1, ReadSeqs, SeqsForgotten
  <1> DEFINE b == Read
             m == memory'
  <1>7. m.next \in Nat /\ m.next >= next + Len(new)
    BY <1>2, <1>3, <1>4
  <1>8. /\ b \in Seq(EventOf) /\ new \in Seq(EventOf) /\ next \in Nat
        /\ SeqsGrowIn(b, None)
        /\ NoRepeatTo(b, Len(b)) => \A i \in 1..Len(b) : b[i].seq < next
        /\ \A i \in 1..Len(new) : new[i].seq = next + i - 1
        /\ m # None => m.next \in Nat /\ m.next >= next + Len(new)
    BY <1>2, <1>3, <1>5, <1>6, <1>7
  <1>9. Read' = b \o new /\ memory' = m
    BY <1>2
  <1> HIDE DEF b, new, next, m
  <1>10. SeqsGrowIn(b \o new, m)
    BY <1>8, SeqsOfAppend
  <1>11. Base' = Read'
    BY <1>4 DEF Base, Copying, Idle
  <1> QED
    BY <1>9, <1>10, <1>11 DEF SeqsFit

LEMMA SeqsNext ==
    ASSUME EventConstants, Inv, SeqsFit, [Next]_vars
    PROVE  SeqsFit'
  <1>0. TypeOK /\ SizeFits /\ CopyFits /\ IdsFit
    BY DEF Inv
  <1>1. CASE ReadShared \/ EvictHot \/ Sync \/ UNCHANGED vars
    <2>1. UNCHANGED <<closed, open, memory, op>>
      BY <1>1 DEF ReadShared, EvictHot, Sync, files, vars
    <2>2. Base' = Base
      BY <2>1 DEF Base, Copying, Read
    <2> QED
      BY <2>1, <2>2 DEF SeqsFit
  <1>2. ASSUME NEW k \in 1..MaxBatch, AppendEvents(k)
        PROVE  SeqsFit'
    <2>1. k \in Nat
      BY DEF EventConstants
    <2>2. PICK e \in {0, 1} : Grows(k, k, e, 0)
      BY <1>0, <1>2, AppendGrows
    <2> QED
      BY <2>1, <2>2, SeqsOfGrows
  <1>3. ASSUME NEW k \in 1..MaxBatch, AppendFails(k)
        PROVE  SeqsFit'
    <2>1. k \in Nat
      BY DEF EventConstants
    <2>2. PICK e \in {0, 1}, n \in 0..(k - 1), cut \in {0, 1} : Grows(k, n, e, cut)
      BY <1>0, <1>3, FailGrows
    <2> QED
      BY <2>1, <2>2, SeqsOfGrows
  <1>4. ASSUME NEW k \in 1..MaxBatch, BeginRotate(k)
        PROVE  SeqsFit'
    <2>1. op'.kind = "copy" /\ open' = open /\ memory' = Loaded
      BY <1>4 DEF BeginRotate
    <2>2. Front(closed') = closed
      BY <1>4, BeginKeeps
    <2>3. Base' = Read
      BY <2>1, <2>2 DEF Base, Copying, Read
    <2> DEFINE b == Read
               m == Loaded
    <2>4. SeqsGrowIn(b, None)
      BY <1>0, ReadSeqs, SeqsForgotten
    <2>5. \A j \in 1..Len(b) : NoRepeatTo(b, j) => (j = Len(b) /\ m # None => b[j].seq < m.next)
      BY <1>0, LoadedIsNext
    <2> HIDE DEF b, m
    <2>6. SeqsGrowIn(b, m)
      BY <2>4, <2>5 DEF SeqsGrowIn
    <2> QED
      BY <2>1, <2>3, <2>6 DEF SeqsFit, b, m
  <1>5. CASE CopySegment
    <2>1. Front(closed') = Front(closed)
      BY <1>5, CopyKeeps
    <2>2. open' = open /\ memory' = memory /\ op.kind = "copy"
      BY <1>5 DEF CopySegment
    <2>3. op'.kind \in {"copy", "remove"}
      <3>1. op \in [kind : {"none", "copy", "remove", "write"}, batch : 0..MaxBatch]
        BY <1>0 DEF TypeOK
      <3>2. op' = op \/ op' = [op EXCEPT !.kind = "remove"]
        BY <1>5 DEF CopySegment
      <3> QED
        BY <2>2, <3>1, <3>2
    <2>4. Base' = Base
      BY <2>1, <2>2, <2>3 DEF Base, Copying
    <2> QED
      BY <2>2, <2>4 DEF SeqsFit
  <1>6. CASE RemoveOpen
    <2>1. Read' = Closed /\ Closed = FlattenSeq(Front(closed)) \o open.events
      BY <1>6, RemoveKeeps
    <2>2. op.kind = "remove" /\ memory' = [memory EXCEPT !.bytes = 0] /\ op' = [op EXCEPT !.kind = "write"]
      BY <1>6 DEF RemoveOpen
    <2>3. op'.kind = "write"
      <3>1. op \in [kind : {"none", "copy", "remove", "write"}, batch : 0..MaxBatch]
        BY <1>0 DEF TypeOK
      <3> QED
        BY <2>2, <3>1
    <2>4. Base' = Base
      BY <2>1, <2>2, <2>3 DEF Base, Copying
    <2>5. memory # None /\ memory'.next = memory.next
      <3>1. memory # None
        BY <1>0, <2>2 DEF CopyFits, Copying
      <3>2. memory \in [next : Nat \ {0}, bytes : 0..MostBytes]
        BY <1>0, <3>1 DEF TypeOK
      <3> QED
        BY <2>2, <3>1, <3>2
    <2> DEFINE b == Base
               m == memory
               w == memory'
    <2>6. SeqsGrowIn(b, m) /\ m # None /\ w.next = m.next
      BY <2>5 DEF SeqsFit
    <2> HIDE DEF b, m, w
    <2>7. SeqsGrowIn(b, w)
      BY <2>6 DEF SeqsGrowIn
    <2> QED
      BY <2>4, <2>7 DEF SeqsFit, b, w
  <1>7. CASE RotateFails \/ Kill
    <2>1. UNCHANGED <<closed, open, synced>> /\ op' = Idle /\ (memory' = memory \/ memory' = None)
      BY <1>7 DEF RotateFails, Kill, files
    <2>2. Base' = Read
      BY <2>1 DEF Base, Copying, Idle, Read
    <2>3. SeqsGrowIn(Read, memory) /\ SeqsGrowIn(Read, None)
      BY <1>0, ReadSeqs, SeqsForgotten
    <2> QED
      BY <2>1, <2>2, <2>3 DEF SeqsFit
  <1>8. CASE DeleteChat
    <2>1. Read' = <<>>
      BY <1>8, DeleteKeeps
    <2>2. op' = Idle
      BY <1>8 DEF DeleteChat
    <2>3. Base' = <<>>
      BY <2>1, <2>2 DEF Base, Copying, Idle
    <2>4. 1..Len(<<>>) = {}
      BY EmptySeq
    <2> QED
      BY <2>3, <2>4 DEF SeqsFit, SeqsGrowIn
  <1>9. CASE PowerCut
    <2>1. PICK r \in Seq(EventOf) : Read = Read' \o r
      BY <1>9, PowerCutLog
    <2>2. Read' \in Seq(EventOf)
      BY <1>9, PowerCutLog
    <2>3. op' = Idle /\ memory' = None
      BY <1>9 DEF PowerCut
    <2>4. Base' = Read'
      BY <2>3 DEF Base, Copying, Idle
    <2>5. SeqsGrowIn(Read, memory)
      BY <1>0, ReadSeqs
    <2> DEFINE b == Read'
    <2>6. b \in Seq(EventOf) /\ SeqsGrowIn(b \o r, memory)
      BY <2>1, <2>2, <2>5
    <2> HIDE DEF b
    <2>7. SeqsGrowIn(b, None)
      BY <2>6, SeqsOfFirst
    <2> QED
      BY <2>3, <2>4, <2>7 DEF SeqsFit, b
  <1> QED
    BY <1>1, <1>2, <1>3, <1>4, <1>5, <1>6, <1>7, <1>8, <1>9 DEF Next

\* Seqs grow along a log without repetitions, and the next one is above them,
\* also when appends failed half-way, the process was killed, or the end of the
\* log was lost (store.rs, state and append).
THEOREM SeqsAlwaysGrow ==
    ASSUME EventConstants
    PROVE  Spec => []SeqsGrow
  <1>1. Init => SeqsFit
    <2> SUFFICES ASSUME Init PROVE SeqsFit
      OBVIOUS
    <2>1. Read = <<>>
      BY InvInit
    <2>2. Base = <<>> /\ 1..Len(<<>>) = {}
      BY <2>1, EmptySeq DEF Init, Base, Copying, Idle
    <2> QED
      BY <2>2 DEF SeqsFit, SeqsGrowIn
  <1>2. Inv /\ SeqsFit /\ [Next]_vars => SeqsFit'
    BY SeqsNext
  <1>3. Inv /\ SeqsFit => SeqsGrow
    <2> SUFFICES ASSUME Inv, SeqsFit, Read = Distinct(Read)
                 PROVE  /\ \A i \in 2..Len(Read) : Read[i - 1].seq < Read[i].seq
                        /\ memory # None => \A i \in DOMAIN Read : Read[i].seq < memory.next
      BY DEF SeqsGrow
    <2> DEFINE b == Read
    <2>1. TypeOK /\ SizeFits /\ CopyFits
      BY DEF Inv
    <2>2. b \in Seq(EventOf) /\ NoRepeat(b) /\ DOMAIN b = 1..Len(b) /\ Len(b) \in Nat
      BY <2>1, Typed, DistinctLists
    <2>3. SeqsGrowIn(b, memory)
      BY <2>1, ReadSeqs
    <2>4. NoRepeatTo(b, Len(b)) => \A i \in 1..Len(b) : b[i].seq < Loaded.next
      BY <2>1, LoadedIsNext
    <2>5. memory # None => Loaded = memory
      BY <2>1, LoadedFits
    <2> HIDE DEF b
    <2>6. \A j \in 1..Len(b) : NoRepeatTo(b, j)
      BY <2>2 DEF NoRepeat, NoRepeatTo
    <2>7. \A i \in 2..Len(b) : b[i - 1].seq < b[i].seq
      <3> TAKE i \in 2..Len(b)
      <3>1. i \in 1..Len(b) /\ i - 1 \in 1..(i - 1)
        BY <2>2
      <3> QED
        BY <2>3, <2>6, <3>1 DEF SeqsGrowIn
    <2>8. memory # None => \A i \in 1..Len(b) : b[i].seq < memory.next
      <3>1. CASE Len(b) = 0
        BY <3>1
      <3>2. CASE Len(b) # 0
        <4>1. NoRepeatTo(b, Len(b))
          BY <2>2, <2>6, <3>2
        <4> QED
          BY <2>4, <2>5, <4>1
      <3> QED
        BY <3>1, <3>2
    <2> QED
      BY <2>2, <2>7, <2>8 DEF b
  <1> QED
    BY <1>1, <1>2, <1>3, InvAlways, PTL DEF Spec
=============================================================================
