--------------------------- MODULE SequenceLemmas ---------------------------
(***************************************************************************)
(* Facts about sequences and folds that the proofs need: what FlattenSeq   *)
(* returns, how concatenations are taken apart, and sums over a finite     *)
(* set.  Induction is on a set of naturals, by its least member.           *)
(***************************************************************************)
EXTENDS Integers, Sequences, SequencesExt, FiniteSets, SequenceTheorems, FiniteSetTheorems,
        WellFoundedInduction, TLAPS

\* A set of naturals that is not empty has a least member: of the intervals below its
\* members, which are finite sets, one contains no other.
LEMMA LeastNatural ==
  ASSUME NEW S \in SUBSET Nat, S # {}
  PROVE  \E m \in S : \A y \in S : m <= y
<1> DEFINE Below(n) == 0 .. n - 1
           T == {Below(n) : n \in S}
           R == StrictSubsetOrdering(Nat)
<1>1. T \subseteq FiniteSubsetsOf(Nat)
  <2>1. ASSUME NEW n \in S PROVE Below(n) \in SUBSET Nat /\ IsFiniteSet(Below(n))
    BY FS_Interval
  <2>2. QED
    BY <2>1 DEF FiniteSubsetsOf
<1>2. PICK X \in T : \A Y \in T : <<Y, X>> \notin R
  <2>1. IsWellFoundedOn(R, FiniteSubsetsOf(Nat))
    BY FS_StrictSubsetOrderingWellFounded
  <2>2. T # {}
    OBVIOUS
  <2>3. QED
    BY <1>1, <2>1, <2>2, WFMin
<1>3. PICK m \in S : X = Below(m)
  OBVIOUS
<1>4. ASSUME NEW y \in S PROVE m <= y
  <2>1. SUFFICES ASSUME y < m PROVE FALSE
    OBVIOUS
  <2>2. Below(y) \subseteq Below(m) /\ y \in Below(m) /\ y \notin Below(y)
    BY <2>1
  <2>3. Below(y) \in SUBSET Nat /\ Below(m) \in SUBSET Nat
    OBVIOUS
  <2>4. <<Below(y), Below(m)>> \in R
    BY <2>2, <2>3 DEF StrictSubsetOrdering
  <2>5. QED
    BY <1>2, <1>3, <2>4
<1>5. QED
  BY <1>4

\* Induction, on the set of the numbers that have the property.
LEMMA Induction ==
  ASSUME NEW S, 0 \in S, \A n \in Nat : n \in S => n + 1 \in S
  PROVE  \A n \in Nat : n \in S
<1> SUFFICES ASSUME Nat \ S # {} PROVE FALSE
  OBVIOUS
<1>1. PICK m \in Nat \ S : \A y \in Nat \ S : m <= y
  BY LeastNatural
<1>2. m # 0 /\ m - 1 \in Nat /\ m - 1 \notin Nat \ S
  BY <1>1
<1>3. QED
  BY <1>1, <1>2

-----------------------------------------------------------------------------
\* What FlattenSeq computes its result with.
Flattens(f, ss, n) == f = [i \in 1 .. n |-> IF i = 1 THEN ss[i] ELSE f[i - 1] \o ss[i]]

\* There is such a function for the first n sequences.
LEMMA FlattensExists ==
  ASSUME NEW ss
  PROVE  \A n \in Nat : \E f : Flattens(f, ss, n)
<1> DEFINE S == {n \in Nat : \E f : Flattens(f, ss, n)}
<1>1. 0 \in S
  <2>1. Flattens([i \in 1 .. 0 |-> <<>>], ss, 0)
    BY DEF Flattens
  <2>2. QED
    BY <2>1
<1>2. ASSUME NEW n \in Nat, n \in S
      PROVE  n + 1 \in S
  <2>1. PICK f : Flattens(f, ss, n)
    BY <1>2
  <2> DEFINE g == [i \in 1 .. n + 1 |-> IF i = 1 THEN ss[i] ELSE f[i - 1] \o ss[i]]
  <2>2. \A i \in 1 .. n : g[i] = f[i]
    <3>1. f = [i \in 1 .. n |-> IF i = 1 THEN ss[i] ELSE f[i - 1] \o ss[i]]
      BY <2>1 DEF Flattens
    <3>2. \A i \in 1 .. n : f[i] = IF i = 1 THEN ss[i] ELSE f[i - 1] \o ss[i]
      BY <3>1
    <3>3. QED
      BY <3>2
  <2>3. \A i \in 1 .. n + 1 : g[i] = IF i = 1 THEN ss[i] ELSE g[i - 1] \o ss[i]
    <3>1. ASSUME NEW i \in 1 .. n + 1, i # 1
          PROVE  g[i] = g[i - 1] \o ss[i]
      <4>1. i - 1 \in 1 .. n
        BY <3>1
      <4>2. g[i - 1] = f[i - 1]
        BY <2>2, <4>1
      <4>3. QED
        BY <3>1, <4>2
    <3>2. QED
      BY <3>1
  <2>4. Flattens(g, ss, n + 1)
    BY <2>3 DEF Flattens
  <2>5. QED
    BY <2>4
<1>3. \A n \in Nat : n \in S
  <2> HIDE DEF S
  <2>1. QED
    BY <1>1, <1>2, Induction
<1>4. QED
  BY <1>3

\* FlattenSeq is the value of one at the end.
LEMMA FlattenDefined ==
  ASSUME NEW ss, Len(ss) \in Nat \ {0}
  PROVE  \E f : Flattens(f, ss, Len(ss)) /\ FlattenSeq(ss) = f[Len(ss)]
<1> DEFINE c == CHOOSE f : f = [i \in 1 .. Len(ss) |-> IF i = 1 THEN ss[i] ELSE f[i - 1] \o ss[i]]
<1>1. Flattens(c, ss, Len(ss))
  <2>1. \E f : f = [i \in 1 .. Len(ss) |-> IF i = 1 THEN ss[i] ELSE f[i - 1] \o ss[i]]
    BY FlattensExists DEF Flattens
  <2>2. QED
    BY <2>1 DEF Flattens
<1>2. FlattenSeq(ss) = c[Len(ss)]
  BY DEF FlattenSeq
<1>3. QED
  BY <1>1, <1>2

\* Of two sequences the flattenings are the same as far as the sequences are.
LEMMA FlattensAgree ==
  ASSUME NEW ss, NEW tt, NEW f, NEW g, NEW n \in Nat, NEW m \in Nat, n <= m,
         Flattens(f, ss, n), Flattens(g, tt, m), \A i \in 1 .. n : tt[i] = ss[i]
  PROVE  \A i \in 1 .. n : f[i] = g[i]
<1> DEFINE S == {i \in Nat : i \in 1 .. n => f[i] = g[i]}
<1>1. /\ f = [i \in 1 .. n |-> IF i = 1 THEN ss[i] ELSE f[i - 1] \o ss[i]]
      /\ g = [i \in 1 .. m |-> IF i = 1 THEN tt[i] ELSE g[i - 1] \o tt[i]]
  BY DEF Flattens
<1>2. /\ \A i \in 1 .. n : f[i] = IF i = 1 THEN ss[i] ELSE f[i - 1] \o ss[i]
      /\ \A i \in 1 .. m : g[i] = IF i = 1 THEN tt[i] ELSE g[i - 1] \o tt[i]
  BY <1>1
<1>3. 0 \in S
  OBVIOUS
<1>4. ASSUME NEW i \in Nat, i \in S PROVE i + 1 \in S
  <2>1. SUFFICES ASSUME i + 1 \in 1 .. n PROVE f[i + 1] = g[i + 1]
    OBVIOUS
  <2>2. i + 1 \in 1 .. m /\ tt[i + 1] = ss[i + 1]
    BY <2>1
  <2>3. CASE i = 0
    BY <1>2, <2>1, <2>2, <2>3
  <2>4. CASE i # 0
    <3>1. i \in 1 .. n /\ i + 1 # 1 /\ (i + 1) - 1 = i
      BY <2>1, <2>4
    <3>2. f[i] = g[i]
      BY <1>4, <3>1
    <3>3. f[i + 1] = f[i] \o ss[i + 1] /\ g[i + 1] = g[i] \o tt[i + 1]
      BY <1>2, <2>1, <2>2, <3>1
    <3>4. QED
      BY <2>2, <3>2, <3>3
  <2>5. QED
    BY <2>3, <2>4
<1>5. \A i \in Nat : i \in S
  <2> HIDE DEF S
  <2>1. QED
    BY <1>3, <1>4, Induction
<1>6. QED
  BY <1>5

\* Of no sequences FlattenSeq makes the empty one.
LEMMA FlattenEmpty == FlattenSeq(<<>>) = <<>>
BY DEF FlattenSeq

\* FlattenSeq puts what is appended to its argument at the end of its result.
LEMMA FlattenAppend ==
  ASSUME NEW S, NEW ss \in Seq(Seq(S)), NEW s \in Seq(S)
  PROVE  FlattenSeq(Append(ss, s)) = FlattenSeq(ss) \o s
<1> DEFINE n == Len(ss)
           tt == Append(ss, s)
<1>1. n \in Nat /\ tt \in Seq(Seq(S)) /\ Len(tt) = n + 1 /\ tt[n + 1] = s
  OBVIOUS
<1>2. PICK g : Flattens(g, tt, n + 1) /\ FlattenSeq(tt) = g[n + 1]
  <2>1. Len(tt) \in Nat \ {0}
    BY <1>1
  <2>2. QED
    BY <1>1, <2>1, FlattenDefined
<1>3. \A i \in 1 .. n + 1 : g[i] = IF i = 1 THEN tt[i] ELSE g[i - 1] \o tt[i]
  <2>1. g = [i \in 1 .. n + 1 |-> IF i = 1 THEN tt[i] ELSE g[i - 1] \o tt[i]]
    BY <1>2 DEF Flattens
  <2>2. QED
    BY <2>1
<1>4. CASE n = 0
  <2>1. ss = <<>>
    BY <1>4
  <2>2. g[1] = s
    BY <1>1, <1>3, <1>4
  <2>3. FlattenSeq(ss) = <<>>
    BY <2>1, FlattenEmpty
  <2>4. QED
    BY <1>2, <1>4, <2>2, <2>3
<1>5. CASE n # 0
  <2>1. PICK f : Flattens(f, ss, n) /\ FlattenSeq(ss) = f[n]
    <3>1. n \in Nat \ {0}
      BY <1>1, <1>5
    <3>2. QED
      BY <3>1, FlattenDefined
  <2>2. \A i \in 1 .. n : tt[i] = ss[i]
    OBVIOUS
  <2>3. f[n] = g[n]
    <3>1. n <= n + 1 /\ n + 1 \in Nat /\ n \in 1 .. n
      BY <1>1, <1>5
    <3>2. Flattens(f, ss, n) /\ Flattens(g, tt, n + 1)
      BY <1>2, <2>1
    <3>3. \A i \in 1 .. n : f[i] = g[i]
      <4>1. n \in Nat /\ n + 1 \in Nat /\ n <= n + 1
        BY <1>1
      <4> HIDE DEF n, tt
      <4>2. QED
        BY <2>2, <3>2, <4>1, FlattensAgree
    <3>4. QED
      BY <3>1, <3>3
  <2>4. g[n + 1] = g[n] \o s
    <3>1. n + 1 \in 1 .. n + 1 /\ n + 1 # 1 /\ (n + 1) - 1 = n
      BY <1>1, <1>5
    <3>2. QED
      BY <1>1, <1>3, <3>1
  <2>5. QED
    BY <1>2, <2>1, <2>3, <2>4
<1>6. QED
  BY <1>4, <1>5

\* Flattening sequences over a set gives a sequence over it.
LEMMA FlattenType ==
  ASSUME NEW S, NEW ss \in Seq(Seq(S))
  PROVE  FlattenSeq(ss) \in Seq(S)
<1>1. CASE ss = <<>>
  <2>1. FlattenSeq(ss) = <<>>
    BY <1>1, FlattenEmpty
  <2>2. <<>> \in Seq(S)
    OBVIOUS
  <2>3. QED
    BY <2>1, <2>2
<1>2. CASE ss # <<>>
  <2> DEFINE n == Len(ss)
    <2>1. n \in Nat \ {0}
    BY <1>2
  <2>2. PICK f : Flattens(f, ss, n) /\ FlattenSeq(ss) = f[n]
    BY <2>1, FlattenDefined
  <2>3. f = [i \in 1 .. n |-> IF i = 1 THEN ss[i] ELSE f[i - 1] \o ss[i]]
    BY <2>2 DEF Flattens
  <2>4. \A i \in 1 .. n : f[i] = IF i = 1 THEN ss[i] ELSE f[i - 1] \o ss[i]
    BY <2>3
  <2> DEFINE U == {i \in Nat : i \in 1 .. n => f[i] \in Seq(S)}
  <2>5. 0 \in U
    OBVIOUS
  <2>6. ASSUME NEW i \in Nat, i \in U PROVE i + 1 \in U
    <3>1. SUFFICES ASSUME i + 1 \in 1 .. n PROVE f[i + 1] \in Seq(S)
      OBVIOUS
    <3>2. ss[i + 1] \in Seq(S)
      BY <3>1
    <3>3. CASE i = 0
      BY <2>4, <3>1, <3>2, <3>3
    <3>4. CASE i # 0
      <4>1. i \in 1 .. n /\ i + 1 # 1 /\ (i + 1) - 1 = i
        BY <3>1, <3>4
      <4>2. f[i] \in Seq(S)
        BY <2>6, <4>1
      <4>3. f[i + 1] = f[i] \o ss[i + 1]
        BY <2>4, <3>1, <4>1
      <4>4. QED
        BY <3>2, <4>2, <4>3
    <3>5. QED
      BY <3>3, <3>4
  <2>7. \A i \in Nat : i \in U
    <3> HIDE DEF U
    <3>1. QED
      BY <2>5, <2>6, Induction
  <2>8. QED
    BY <2>1, <2>2, <2>7
<1>3. QED
  BY <1>1, <1>2

\* What a prefix flattens to is a prefix of what the whole does.
LEMMA FlattenPrefix ==
  ASSUME NEW S, NEW ss \in Seq(Seq(S)), NEW k \in 0 .. Len(ss)
  PROVE  \E r \in Seq(S) : FlattenSeq(ss) = FlattenSeq(SubSeq(ss, 1, k)) \o r
<1> DEFINE F(i) == FlattenSeq(SubSeq(ss, 1, i))
           Extended(i) == \E r \in Seq(S) : F(i) = F(k) \o r
           U == {i \in Nat : i \in k .. Len(ss) => Extended(i)}
<1>1. ASSUME NEW i \in 0 .. Len(ss) PROVE F(i) \in Seq(S)
  <2>1. SubSeq(ss, 1, i) \in Seq(Seq(S))
    OBVIOUS
  <2>2. QED
    BY <2>1, FlattenType
<1>2. ASSUME NEW i \in 1 .. Len(ss) PROVE ss[i] \in Seq(S) /\ F(i) = F(i - 1) \o ss[i]
  <2>1. SubSeq(ss, 1, i - 1) \in Seq(Seq(S)) /\ ss[i] \in Seq(S)
    OBVIOUS
  <2>2. SubSeq(ss, 1, i) = Append(SubSeq(ss, 1, i - 1), ss[i])
    OBVIOUS
  <2>3. QED
    BY <2>1, <2>2, FlattenAppend
<1>3. F(Len(ss)) = FlattenSeq(ss)
  <2>1. SubSeq(ss, 1, Len(ss)) = ss
    OBVIOUS
  <2>2. QED
    BY <2>1
<1> HIDE DEF F
<1>4. Extended(k)
  <2>1. <<>> \in Seq(S) /\ F(k) = F(k) \o <<>>
    BY <1>1
  <2>2. QED
    BY <2>1
<1>5. ASSUME NEW i \in k + 1 .. Len(ss), Extended(i - 1) PROVE Extended(i)
  <2>1. PICK r \in Seq(S) : F(i - 1) = F(k) \o r
    BY <1>5
  <2>2. i \in 1 .. Len(ss) /\ k \in 0 .. Len(ss)
    OBVIOUS
  <2>3. F(k) \in Seq(S)
    BY <1>1, <2>2
  <2>4. PICK s \in Seq(S) : F(i) = F(i - 1) \o s
    BY <1>2, <2>2
  <2>5. (F(k) \o r) \o s = F(k) \o (r \o s) /\ r \o s \in Seq(S)
    BY <2>3, ConcatAssociative
  <2>6. QED
    BY <2>1, <2>4, <2>5
<1> HIDE DEF Extended
<1>6. 0 \in U
  BY <1>4
<1>7. ASSUME NEW i \in Nat, i \in U PROVE i + 1 \in U
  <2>1. SUFFICES ASSUME i + 1 \in k .. Len(ss), i + 1 # k PROVE Extended(i + 1)
    BY <1>4
  <2>2. i \in k .. Len(ss) /\ i + 1 \in k + 1 .. Len(ss) /\ (i + 1) - 1 = i
    BY <2>1
  <2>3. QED
    BY <1>5, <1>7, <2>2
<1>8. \A i \in Nat : i \in U
  <2> HIDE DEF U
  <2>1. QED
    BY <1>6, <1>7, Induction
<1>9. Extended(Len(ss))
  <2>1. Len(ss) \in Nat /\ Len(ss) \in k .. Len(ss)
    OBVIOUS
  <2>2. QED
    BY <1>8, <2>1
<1>10. QED
  BY <1>3, <1>9 DEF Extended, F

\* A sequence is a prefix of what it begins.
LEMMA PrefixOfConcat ==
  ASSUME NEW S, NEW s \in Seq(S), NEW t \in Seq(S)
  PROVE  IsPrefix(s, s \o t)
BY DEF IsPrefix

\* A sequence is what two adjacent slices make of it.
LEMMA SplitAt ==
  ASSUME NEW S, NEW s \in Seq(S), NEW n \in 0 .. Len(s)
  PROVE  SubSeq(s, 1, n) \o SubSeq(s, n + 1, Len(s)) = s
<1>1. 1 \in 1 .. Len(s) + 1 /\ n \in 1 - 1 .. Len(s) /\ Len(s) \in n .. Len(s)
  OBVIOUS
<1>2. SubSeq(s, 1, n) \o SubSeq(s, n + 1, Len(s)) = SubSeq(s, 1, Len(s))
  BY <1>1, ConcatAdjacentSubSeq, Zenon
<1>3. QED
  BY <1>2, SubSeqFull

\* A prefix, and the next element after it.
LEMMA PrefixAndNext ==
  ASSUME NEW S, NEW s \in Seq(S), NEW k \in Nat, k < Len(s)
  PROVE  SubSeq(s, 1, k + 1) = Append(SubSeq(s, 1, k), s[k + 1])
<1> DEFINE m == k + 1
           p == SubSeq(s, 1, k)
<1>1. 1 \in 1 .. Len(s) /\ m \in 1 .. Len(s) /\ m - 1 = k /\ s[m] \in S
  OBVIOUS
<1>2. p \in Seq(S)
  OBVIOUS
<1> HIDE DEF m, p
<1>3. SubSeq(s, 1, m) = SubSeq(s, 1, m - 1) \o <<s[m]>>
  BY <1>1, SubSeqRecursiveSecond
<1>4. Append(p, s[m]) = p \o <<s[m]>>
  BY <1>1, <1>2, AppendIsConcat
<1>5. QED
  BY <1>1, <1>3, <1>4 DEF m, p

\* Concatenation is associative; the name keeps an instance of it apart from its parts.
Shifts(a, b, c) == (a \o b) \o c = a \o (b \o c)

\* It is, of all sequences.
LEMMA ConcatShifts ==
  ASSUME NEW S, NEW a \in Seq(S), NEW b \in Seq(S), NEW c \in Seq(S)
  PROVE  Shifts(a, b, c)
BY ConcatAssociative DEF Shifts

\* Concatenation can be regrouped.
LEMMA ConcatRegroup ==
  ASSUME NEW S, NEW a \in Seq(S), NEW b \in Seq(S), NEW c \in Seq(S), NEW d \in Seq(S)
  PROVE  (a \o b) \o (c \o d) = ((a \o b) \o c) \o d
<1>1. a \o b \in Seq(S)
  OBVIOUS
<1>2. QED
  BY <1>1, ConcatAssociative

\* Two sequences one after the other.
Joins(c, a, b) == c = a \o b

\* Where the elements of each are.
LEMMA JoinsElements ==
  ASSUME NEW S, NEW a \in Seq(S), NEW b \in Seq(S), NEW c, Joins(c, a, b)
  PROVE  /\ c \in Seq(S) /\ Len(c) = Len(a) + Len(b)
         /\ \A i \in 1 .. Len(a) : c[i] = a[i]
         /\ \A i \in 1 .. Len(b) : c[Len(a) + i] = b[i]
BY DEF Joins

\* A sequence that is joined in two ways: what follows the part both begin with begins
\* with what the second way has there.
LEMMA NextPart ==
  ASSUME NEW S, NEW s \in Seq(S), NEW t \in Seq(S), NEW u \in Seq(S), NEW v \in Seq(S),
         NEW a, NEW b, Joins(a, s, u), Joins(b, s, t), Joins(b, a, v), Len(u) <= Len(t)
  PROVE  \A i \in 1 .. Len(u) : t[i] = u[i]
<1>1. /\ a \in Seq(S) /\ Len(a) = Len(s) + Len(u)
      /\ \A i \in 1 .. Len(u) : a[Len(s) + i] = u[i]
  BY JoinsElements
<1>2. \A i \in 1 .. Len(t) : b[Len(s) + i] = t[i]
  BY JoinsElements
<1>3. \A i \in 1 .. Len(a) : b[i] = a[i]
  BY <1>1, JoinsElements
<1>4. ASSUME NEW i \in 1 .. Len(u) PROVE t[i] = u[i]
  <2>1. i \in 1 .. Len(t) /\ Len(s) + i \in 1 .. Len(a)
    BY <1>1
  <2>2. QED
    BY <1>1, <1>2, <1>3, <2>1
<1>5. QED
  BY <1>4

\* The last of a sequence something was appended to.
LEMMA LastAppended ==
  ASSUME NEW S, NEW s \in Seq(S), NEW e \in S
  PROVE  Append(s, e) # <<>> /\ Last(Append(s, e)) = e
BY DEF Last

-----------------------------------------------------------------------------
(* Slices, and sequences inside others. *)

\* Two of one element.
LEMMA PairJoined ==
  ASSUME NEW S, NEW x \in S, NEW y \in S
  PROVE  <<x>> \o <<y>> = <<x, y>>
<1> DEFINE a == <<x>>
           b == <<y>>
           c == <<x, y>>
<1>1. /\ a \in Seq(S) /\ b \in Seq(S) /\ c \in Seq(S)
      /\ Len(a) = 1 /\ Len(b) = 1 /\ Len(c) = 2
      /\ a[1] = x /\ b[1] = y /\ c[1] = x /\ c[2] = y
  OBVIOUS
<1> HIDE DEF a, b, c
<1>2. a \o b \in Seq(S) /\ Len(a \o b) = 2 /\ (a \o b)[1] = x /\ (a \o b)[2] = y
  BY <1>1, ConcatProperties
<1>3. a \o b = c
  BY <1>1, <1>2, SeqEqual
<1>4. QED
  BY <1>3 DEF a, b, c

\* One, and an element after it.
LEMMA AppendElements ==
  ASSUME NEW S, NEW e \in Seq(S), NEW b \in S
  PROVE  /\ Append(e, b) \in Seq(S) /\ Len(Append(e, b)) = Len(e) + 1
         /\ Append(e, b)[Len(e) + 1] = b
         /\ \A i \in 1 .. Len(e) : Append(e, b)[i] = e[i]
OBVIOUS

\* Two adjacent pieces of a sequence.
LEMMA Cut ==
  ASSUME NEW S, NEW s \in Seq(S), NEW a \in Nat, NEW b \in Nat, NEW c \in Nat,
         a <= b, b <= c, c <= Len(s)
  PROVE  /\ SubSeq(s, a + 1, c) = SubSeq(s, a + 1, b) \o SubSeq(s, b + 1, c)
         /\ SubSeq(s, a + 1, c) \in Seq(S) /\ Len(SubSeq(s, a + 1, c)) = c - a
OBVIOUS

\* Four parts, regrouped.
Regroups(a, b, c, d) == ((a \o b) \o c) \o d = a \o ((b \o c) \o d)

\* They can be, of all sequences.
LEMMA FourJoined ==
  ASSUME NEW S, NEW a \in Seq(S), NEW b \in Seq(S), NEW c \in Seq(S), NEW d \in Seq(S)
  PROVE  Regroups(a, b, c, d)
<1>1. a \o b \in Seq(S) /\ b \o c \in Seq(S)
  OBVIOUS
<1>2. Shifts(a, b, c) /\ Shifts(a, b \o c, d)
  BY <1>1, ConcatShifts
<1>3. QED
  BY <1>2 DEF Shifts, Regroups

\* The sequence s stands in m after its first k elements.
StandsAt(m, k, s) == k + Len(s) <= Len(m) /\ \A i \in 1 .. Len(s) : m[k + i] = s[i]

\* So do the two parts that it consists of.
LEMMA PartsStand ==
  ASSUME NEW S, NEW m \in Seq(S), NEW k \in Nat, NEW s, NEW a \in Seq(S), NEW b \in Seq(S),
         Joins(s, a, b), StandsAt(m, k, s)
  PROVE  StandsAt(m, k, a) /\ StandsAt(m, k + Len(a), b)
<1>1. /\ Len(s) = Len(a) + Len(b)
      /\ \A i \in 1 .. Len(a) : s[i] = a[i]
      /\ \A i \in 1 .. Len(b) : s[Len(a) + i] = b[i]
  BY JoinsElements
<1>2. Len(a) \in Nat /\ Len(b) \in Nat /\ Len(m) \in Nat
  OBVIOUS
<1>3. k + Len(s) <= Len(m) /\ \A i \in 1 .. Len(s) : m[k + i] = s[i]
  BY DEF StandsAt
<1>4. \A i \in 1 .. Len(a) : m[k + i] = a[i]
  <2>1. ASSUME NEW i \in 1 .. Len(a) PROVE m[k + i] = a[i]
    <3>1. i \in 1 .. Len(s)
      BY <1>1, <1>2
    <3>2. QED
      BY <1>1, <1>3, <3>1
  <2>2. QED
    BY <2>1
<1>5. \A i \in 1 .. Len(b) : m[k + Len(a) + i] = b[i]
  <2>1. ASSUME NEW i \in 1 .. Len(b) PROVE m[k + Len(a) + i] = b[i]
    <3>1. Len(a) + i \in 1 .. Len(s) /\ k + Len(a) + i = k + (Len(a) + i)
      BY <1>1, <1>2
    <3>2. QED
      BY <1>1, <1>3, <3>1
  <2>2. QED
    BY <2>1
<1>6. QED
  BY <1>1, <1>2, <1>3, <1>4, <1>5 DEF StandsAt

\* What stands in a message is what a slice of it gives.
LEMMA StandingSlice ==
  ASSUME NEW S, NEW m \in Seq(S), NEW k \in Nat, NEW s \in Seq(S), StandsAt(m, k, s)
  PROVE  SubSeq(m, k + 1, k + Len(s)) = s
<1> DEFINE n == Len(s)
           t == SubSeq(m, k + 1, k + n)
<1>1. n \in Nat /\ k + n <= Len(m) /\ \A i \in 1 .. n : m[k + i] = s[i]
  BY DEF StandsAt
<1>2. k \in Nat /\ k + n \in Nat /\ k <= k + n /\ (k + n) - k = n
  BY <1>1
<1>3. t \in Seq(S) /\ Len(t) = n
  <2> HIDE DEF n
  <2>1. k <= k
    OBVIOUS
  <2>2. QED
    BY <1>1, <1>2, <2>1, Cut
<1>4. \A i \in 1 .. n : t[i] = m[k + i]
  <2> HIDE DEF n
  <2>1. QED
    BY <1>1, <1>2
<1> HIDE DEF t
<1>5. QED
  BY <1>1, <1>3, <1>4, SeqEqual DEF t

\* Four parts, as two sequences one after the other.
LEMMA Together ==
  ASSUME NEW S, NEW a \in Seq(S), NEW b \in Seq(S), NEW c \in Seq(S), NEW d \in Seq(S)
  PROVE  Joins(a \o ((b \o c) \o d), (a \o b) \o c, d)
<1>1. Regroups(a, b, c, d)
  BY FourJoined
<1>2. QED
  BY <1>1 DEF Regroups, Joins

-----------------------------------------------------------------------------
(* Sums over a finite set. *)

\* The element a fold takes out of a set next.
Some(s) == CHOOSE x \in s : TRUE

\* What MapThenSumSet computes the number of the messages sent with, over a set of sets.
Sums(f, l, sets) ==
  f = [s \in sets |-> IF s = {} THEN 0
                      ELSE Len(l[Some(s)].sent) + f[s \ {Some(s)}]]

\* The subsets with n members at most.
Small(C, n) == {s \in SUBSET C : Cardinality(s) <= n}

\* An element less in a finite set.
LEMMA OneLess ==
  ASSUME NEW C, IsFiniteSet(C), NEW s \in SUBSET C, s # {}
  PROVE  /\ Some(s) \in s /\ s \ {Some(s)} \in SUBSET C
         /\ Cardinality(s) \in Nat /\ Cardinality(s \ {Some(s)}) = Cardinality(s) - 1
<1>1. Some(s) \in s
  BY DEF Some
<1>2. IsFiniteSet(s)
  BY FS_Subset
<1>3. QED
  BY <1>1, <1>2, FS_CardinalityType, FS_RemoveElement

\* A function of that kind exists for the small subsets of a finite set.
LEMMA SumsExist ==
  ASSUME NEW C, IsFiniteSet(C), NEW l
  PROVE  \A n \in Nat : \E f : Sums(f, l, Small(C, n))
<1> DEFINE S == {n \in Nat : \E f : Sums(f, l, Small(C, n))}
           Sum(f, s) == IF s = {} THEN 0
                          ELSE Len(l[Some(s)].sent) + f[s \ {Some(s)}]
<1>1. 0 \in S
  <2>1. \A s \in Small(C, 0) : s = {}
    BY FS_Subset, FS_CardinalityType, FS_EmptySet DEF Small
  <2>2. Sums([s \in Small(C, 0) |-> 0], l, Small(C, 0))
    BY <2>1 DEF Sums
  <2>3. QED
    BY <2>2
<1>2. ASSUME NEW n \in Nat, n \in S
      PROVE  n + 1 \in S
  <2>1. PICK f : Sums(f, l, Small(C, n))
    BY <1>2
  <2>2. f = [s \in Small(C, n) |-> Sum(f, s)]
    BY <2>1 DEF Sums
  <2> DEFINE g == [s \in Small(C, n + 1) |-> Sum(f, s)]
  <2>3. \A s \in Small(C, n) : g[s] = f[s]
    <3>1. ASSUME NEW s \in Small(C, n) PROVE g[s] = f[s]
      <4>1. s \in Small(C, n + 1)
        <5>1. IsFiniteSet(s) /\ Cardinality(s) \in Nat
          BY FS_Subset, FS_CardinalityType DEF Small
        <5>2. QED
          BY <5>1 DEF Small
      <4>2. f[s] = Sum(f, s)
        BY <2>2
      <4>3. QED
        BY <4>1, <4>2
    <3>2. QED
      BY <3>1
  <2>4. \A s \in Small(C, n + 1) : Sum(g, s) = Sum(f, s)
    <3>1. ASSUME NEW s \in Small(C, n + 1), s # {}
          PROVE  s \ {Some(s)} \in Small(C, n)
      BY <3>1, OneLess DEF Small
    <3>2. ASSUME NEW s \in Small(C, n + 1), s # {}
          PROVE  g[s \ {Some(s)}] = f[s \ {Some(s)}]
      BY <2>3, <3>1, <3>2
    <3> HIDE DEF g
    <3>3. QED
      BY <3>2
  <2>5. Sums(g, l, Small(C, n + 1))
    <3>1. [s \in Small(C, n + 1) |-> Sum(g, s)] = [s \in Small(C, n + 1) |-> Sum(f, s)]
      BY <2>4, Zenon
    <3>2. QED
      BY <3>1 DEF Sums
  <2>6. QED
    BY <2>5
<1>3. \A n \in Nat : n \in S
  <2> HIDE DEF S
  <2>1. QED
    BY <1>1, <1>2, Induction
<1>4. QED
  BY <1>3

\* The number of messages is at least that of any one connection.
LEMMA SumBounds ==
  ASSUME NEW C, IsFiniteSet(C), NEW l, \A c \in C : Len(l[c].sent) \in Nat,
         NEW f, Sums(f, l, SUBSET C)
  PROVE  \A n \in Nat : \A s \in Small(C, n) : f[s] \in Nat /\ \A c \in s : Len(l[c].sent) <= f[s]
<1> DEFINE Bounds(s) == f[s] \in Nat /\ \A c \in s : Len(l[c].sent) <= f[s]
           S == {n \in Nat : \A s \in Small(C, n) : Bounds(s)}
<1>1. \A s \in SUBSET C : f[s] = IF s = {} THEN 0
                      ELSE Len(l[Some(s)].sent) + f[s \ {Some(s)}]
  <2>1. f = [s \in SUBSET C |-> IF s = {} THEN 0
                      ELSE Len(l[Some(s)].sent) + f[s \ {Some(s)}]]
    BY DEF Sums
  <2>2. QED
    BY <2>1
<1>2. 0 \in S
  <2>1. ASSUME NEW s \in Small(C, 0) PROVE Bounds(s)
    <3>1. s = {} /\ s \in SUBSET C
      BY FS_Subset, FS_CardinalityType, FS_EmptySet DEF Small
    <3>2. f[s] = 0
      BY <1>1, <3>1
    <3>3. QED
      BY <3>1, <3>2
  <2>2. QED
    BY <2>1
<1>3. ASSUME NEW n \in Nat, n \in S
      PROVE  n + 1 \in S
  <2>1. ASSUME NEW s \in Small(C, n + 1), s # {} PROVE Bounds(s)
    <3> DEFINE x == Some(s)
    <3>1. x \in s /\ s \in SUBSET C /\ s \ {x} \in Small(C, n)
      BY <2>1, OneLess DEF Small
    <3>2. Bounds(s \ {x})
      BY <1>3, <3>1
    <3>3. f[s] = Len(l[x].sent) + f[s \ {x}]
      BY <1>1, <2>1, <3>1
    <3> HIDE DEF x
    <3>4. Len(l[x].sent) \in Nat
      BY <3>1
    <3>5. \A c \in s : c = x \/ c \in s \ {x}
      OBVIOUS
    <3>6. f[s] \in Nat /\ Len(l[x].sent) <= f[s] /\ f[s \ {x}] <= f[s]
      BY <3>2, <3>3, <3>4
    <3>7. ASSUME NEW c \in s PROVE Len(l[c].sent) <= f[s]
      <4>1. Len(l[c].sent) \in Nat
        BY <3>1
      <4>2. CASE c = x
        BY <3>6, <4>2
      <4>3. CASE c \in s \ {x}
        <5>1. Len(l[c].sent) <= f[s \ {x}] /\ f[s \ {x}] \in Nat
          BY <3>2, <4>3
        <5>2. QED
          BY <3>6, <4>1, <5>1
      <4>4. QED
        BY <3>5, <4>2, <4>3
    <3>8. QED
      BY <3>6, <3>7
  <2>2. ASSUME NEW s \in Small(C, n + 1), s = {} PROVE Bounds(s)
    <3>1. {} \in SUBSET C /\ f[{}] = 0
      BY <1>1
    <3>2. QED
      BY <2>2, <3>1
  <2>3. QED
    BY <2>1, <2>2
<1>4. \A n \in Nat : n \in S
  <2> HIDE DEF S
  <2>1. QED
    BY <1>2, <1>3, Induction
<1>5. QED
  BY <1>4

\* The messages all the clients have sent, as Sessions counts them.
TotalSent(l, C) == MapThenSumSet(LAMBDA d : Len(l[d].sent), C)

\* So the bound on the messages of all the clients bounds those of each.
LEMMA SumOfSent ==
  ASSUME NEW C, IsFiniteSet(C), NEW l, \A c \in C : Len(l[c].sent) \in Nat, NEW c \in C
  PROVE  TotalSent(l, C) \in Nat /\ Len(l[c].sent) <= TotalSent(l, C)
<1> DEFINE f == CHOOSE f : f = [s \in SUBSET C |-> IF s = {} THEN 0
                      ELSE Len(l[Some(s)].sent) + f[s \ {Some(s)}]]
<1>1. Cardinality(C) \in Nat /\ SUBSET C = Small(C, Cardinality(C)) /\ C \in SUBSET C
  BY FS_CardinalityType, FS_Subset DEF Small
<1>2. Sums(f, l, SUBSET C)
  <2>1. \E g : Sums(g, l, SUBSET C)
    <3>1. \E g : Sums(g, l, Small(C, Cardinality(C)))
      BY <1>1, SumsExist
    <3>2. QED
      BY <1>1, <3>1
  <2>2. QED
    BY <2>1 DEF Sums
<1>3. TotalSent(l, C) = f[C]
  BY DEF TotalSent, MapThenSumSet, MapThenFoldSet, Some
<1>4. \A s \in Small(C, Cardinality(C)) : f[s] \in Nat /\ \A d \in s : Len(l[d].sent) <= f[s]
  <2> HIDE DEF f
  <2>1. QED
    BY <1>1, <1>2, SumBounds
<1>5. QED
  BY <1>1, <1>3, <1>4

=============================================================================
