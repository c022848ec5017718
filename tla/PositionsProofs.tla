-------------------------- MODULE PositionsProofs --------------------------
(***************************************************************************)
(* Positions keeps the order of the entries in step with the map and       *)
(* implements Server, for all the values of the constants: a pass over     *)
(* positions is a pass over keys.                                          *)
(***************************************************************************)
EXTENDS Positions, SequenceLemmas

-----------------------------------------------------------------------------
(* Sequences that have each member of a set at one position. *)

\* All of a sequence but its last.
LEMMA FrontOf ==
  ASSUME NEW S, NEW s \in Seq(S), NEW h \in 1 .. Len(s)
  PROVE  /\ Front(s) \in Seq(S) /\ Len(Front(s)) = Len(s) - 1
         /\ \A i \in 1 .. Len(s) - 1 : Front(s)[i] = s[i]
<1>1. Len(s) \in Nat /\ Len(s) - 1 \in Nat
  OBVIOUS
<1>2. \A i \in 1 .. Len(s) - 1 : s[i] \in S
  BY <1>1
<1> DEFINE n == Len(s) - 1
<1>3. n \in Nat /\ Len(s) = n + 1
  BY <1>1
<1>4. \A i \in 1 .. n : s[i] \in S
  BY <1>2
<1>5. Front(s) = [i \in 1 .. n |-> s[i]]
  <2>1. Front(s) = SubSeq(s, 1, n)
    BY DEF Front
  <2>2. SubSeq(s, 1, n) = [i \in 1 .. n |-> s[i]]
    BY <1>1, <1>2, <1>3
  <2>3. QED
    BY <2>1, <2>2
<1> HIDE DEF n
<1>6. Front(s) \in Seq(S) /\ Len(Front(s)) = n
  BY <1>3, <1>4, <1>5
<1>7. \A i \in 1 .. n : Front(s)[i] = s[i]
  BY <1>5
<1>8. QED
  BY <1>6, <1>7 DEF n

\* The sequence has each member of the set at one position.
Arranged(o, D) == o \in Seq(D) /\ IsInjective(o) /\ ToSet(o) = D

\* A key at the end.
LEMMA AppendArranged ==
  ASSUME NEW D, NEW o, Arranged(o, D), NEW k, k \notin D
  PROVE  Arranged(Append(o, k), D \cup {k})
<1>1. /\ o \in Seq(D) /\ DOMAIN o = 1 .. Len(o) /\ Len(o) \in Nat
      /\ \A a, b \in 1 .. Len(o) : o[a] = o[b] => a = b
      /\ D = {o[i] : i \in 1 .. Len(o)}
  BY DEF Arranged, IsInjective, ToSet
<1> DEFINE p == Append(o, k)
<1>2. o \in Seq(D \cup {k}) /\ k \in D \cup {k}
  BY <1>1
<1>3. /\ p \in Seq(D \cup {k}) /\ DOMAIN p = 1 .. Len(o) + 1
      /\ p[Len(o) + 1] = k /\ \A i \in 1 .. Len(o) : p[i] = o[i]
  BY <1>2
<1> HIDE DEF p
<1>4. IsInjective(p)
  BY <1>1, <1>3 DEF IsInjective
<1>5. ToSet(p) = D \cup {k}
  BY <1>1, <1>3 DEF ToSet
<1>6. QED
  BY <1>3, <1>4, <1>5 DEF Arranged, p

\* A key put in: at the end, unless it has a position.
LEMMA PlacedArranged ==
  ASSUME NEW D, NEW o, Arranged(o, D), NEW k
  PROVE  Arranged(Placed(o, k), D \cup {k})
<1>1. CASE k \in D
  <2>1. Placed(o, k) = o /\ D \cup {k} = D
    BY <1>1 DEF Arranged, Placed
  <2>2. QED
    BY <2>1
<1>2. CASE k \notin D
  <2>1. Placed(o, k) = Append(o, k)
    BY <1>2 DEF Arranged, Placed
  <2>2. QED
    BY <1>2, <2>1, AppendArranged
<1>3. QED
  BY <1>1, <1>2

\* A key taken out, the last one moved into the gap.
LEMMA SwapRemovedArranged ==
  ASSUME NEW D, NEW o, Arranged(o, D), NEW k
  PROVE  Arranged(SwapRemoved(o, k), D \ {k})
<1>1. /\ o \in Seq(D) /\ DOMAIN o = 1 .. Len(o) /\ Len(o) \in Nat
      /\ \A a, b \in 1 .. Len(o) : o[a] = o[b] => a = b
      /\ D = {o[i] : i \in 1 .. Len(o)}
  BY DEF Arranged, IsInjective, ToSet
<1>2. CASE k \notin D
  <2>1. SwapRemoved(o, k) = o /\ D \ {k} = D
    BY <1>2 DEF Arranged, SwapRemoved
  <2>2. QED
    BY <2>1
<1>3. CASE k \in D
  <2> DEFINE n == Len(o)
             g == [i \in 1 .. n |-> IF o[i] = k THEN o[n] ELSE o[i]]
             p == SwapRemoved(o, k)
  <2>0. n \in Nat
    BY <1>1
  <2> HIDE DEF n
  <2>1. PICK h \in 1 .. n : o[h] = k
    BY <1>1, <1>3 DEF n
  <2>2. \A i \in 1 .. n : o[i] \in D
    BY <1>1 DEF n
  <2>3. g \in Seq(D) /\ Len(g) = n
    BY <2>0, <2>1, <2>2
  <2>4. p = Front(g)
    BY <1>1, <1>3 DEF SwapRemoved, Last, Arranged, n
  <2>5. /\ p \in Seq(D) /\ Len(p) = n - 1
        /\ \A i \in 1 .. n - 1 : p[i] = IF i = h THEN o[n] ELSE o[i]
    <3>1. \A i \in 1 .. n : g[i] = IF i = h THEN o[n] ELSE o[i]
      BY <1>1, <2>1 DEF n
    <3> HIDE DEF g
    <3>2. /\ p \in Seq(D) /\ Len(p) = n - 1
          /\ \A i \in 1 .. n - 1 : p[i] = g[i]
      BY <2>1, <2>3, <2>4, FrontOf
    <3>3. QED
      BY <2>0, <3>1, <3>2
  <2> HIDE DEF p
  <2>6. \A i \in 1 .. n - 1 : p[i] # k
    BY <1>1, <2>0, <2>1, <2>5 DEF n
  <2>7. DOMAIN p = 1 .. n - 1
    BY <2>5
  <2>8. IsInjective(p)
    <3>1. ASSUME NEW a \in 1 .. n - 1, NEW b \in 1 .. n - 1, p[a] = p[b]
          PROVE  a = b
      <4>1. a \in 1 .. n /\ b \in 1 .. n /\ n \in 1 .. n /\ a # n /\ b # n
        BY <2>0
      <4>2. CASE a = h /\ b # h
        BY <1>1, <2>5, <3>1, <4>1, <4>2 DEF n
      <4>3. CASE a # h /\ b = h
        BY <1>1, <2>5, <3>1, <4>1, <4>3 DEF n
      <4>4. CASE a # h /\ b # h
        BY <1>1, <2>5, <3>1, <4>1, <4>4 DEF n
      <4>5. QED
        BY <4>2, <4>3, <4>4
    <3>2. QED
      BY <2>7, <3>1 DEF IsInjective
  <2>9. ToSet(p) = D \ {k}
    <3>1. ASSUME NEW x \in D \ {k} PROVE x \in ToSet(p)
      <4>1. PICK i \in 1 .. n : o[i] = x
        BY <1>1 DEF n
      <4>2. i # h
        BY <2>1, <3>1, <4>1
      <4>3. CASE i = n
        <5>1. h \in 1 .. n - 1 /\ p[h] = x
          BY <2>0, <2>1, <2>5, <4>1, <4>2, <4>3
        <5>2. QED
          BY <2>7, <5>1 DEF ToSet
      <4>4. CASE i # n
        <5>1. i \in 1 .. n - 1
          BY <2>0, <4>4
        <5>2. p[i] = x
          BY <2>5, <4>1, <4>2, <5>1
        <5>3. QED
          BY <2>7, <5>1, <5>2 DEF ToSet
      <4>5. QED
        BY <4>3, <4>4
    <3>2. ASSUME NEW x \in ToSet(p) PROVE x \in D \ {k}
      <4>1. PICK i \in 1 .. n - 1 : x = p[i]
        BY <2>7 DEF ToSet
      <4>2. QED
        BY <2>5, <2>6, <4>1
    <3>3. QED
      BY <3>1, <3>2
  <2>10. p \in Seq(D \ {k})
    <3>1. \A i \in 1 .. n - 1 : p[i] \in D \ {k}
      BY <2>5, <2>6
    <3>2. QED
      BY <2>5, <3>1
  <2>11. QED
    BY <2>8, <2>9, <2>10 DEF Arranged, p
<1>4. QED
  BY <1>2, <1>3

\* A set has as many members as a sequence that has each at one position.
LEMMA ArrangedLen ==
  ASSUME NEW D, NEW o, Arranged(o, D)
  PROVE  IsFiniteSet(D) /\ Cardinality(D) = Len(o) /\ Len(o) \in Nat
<1>1. o \in Bijection(1 .. Len(o), D) /\ Len(o) \in Nat
  BY DEF Arranged, Bijection, Injection, Surjection, IsInjective, ToSet
<1>2. ExistsBijection(1 .. Len(o), D)
  BY <1>1 DEF ExistsBijection
<1>3. QED
  BY <1>1, <1>2, FS_NatBijection, FS_CountingElements

-----------------------------------------------------------------------------
(* Removals one after the other. *)

\* As Del and PassEnd have them.
Removal(o, ks) == FoldLeft(SwapRemoved, o, ks)

\* What FoldLeft computes it with.
Removes(f, o, ks, sets) ==
  f = [s \in sets |-> IF s = {} THEN o ELSE SwapRemoved(f[s \ {Max(s)}], ks[Max(s)])]

\* A finite set of naturals has a greatest member.
LEMMA MaxExists ==
  ASSUME NEW n \in Nat, NEW s \in SUBSET (1 .. n), s # {}
  PROVE  Max(s) \in s /\ \A y \in s : Max(s) >= y
<1> DEFINE B == {b \in Nat : \A y \in s : y <= b}
<1>1. n \in B
  OBVIOUS
<1>2. PICK b \in B : \A c \in B : b <= c
  BY <1>1, LeastNatural
<1>3. \E x \in s : \A y \in s : x >= y
  <2>1. SUFFICES ASSUME \A x \in s : ~(\A y \in s : x >= y) PROVE FALSE
    OBVIOUS
  <2>2. PICK z \in s : TRUE
    OBVIOUS
  <2>3. b \in Nat /\ \A y \in s : y <= b /\ y \in Nat
    OBVIOUS
  <2>4. \A x \in s : x # b
    BY <2>1, <2>3
  <2>5. b - 1 \in Nat
    BY <2>2, <2>3, <2>4
  <2>6. \A y \in s : y <= b - 1
    BY <2>3, <2>4
  <2>7. b - 1 \in B
    BY <2>5, <2>6
  <2>8. b <= b - 1
    BY <1>2, <2>7
  <2>9. QED
    BY <2>3, <2>8
<1>4. QED
  BY <1>3 DEF Max

\* The elements up to the n-th without the n-th.
LEMMA MaxOfInterval ==
  ASSUME NEW n \in Nat \ {0}
  PROVE  Max(1 .. n) = n /\ (1 .. n) \ {n} = 1 .. n - 1
<1>1. n \in 1 .. n /\ 1 .. n # {} /\ 1 .. n \in SUBSET (1 .. n) /\ n \in Nat
  OBVIOUS
<1>2. Max(1 .. n) \in 1 .. n /\ \A y \in 1 .. n : Max(1 .. n) >= y
  BY <1>1, MaxExists
<1> DEFINE x == Max(1 .. n)
<1>3. x \in 1 .. n /\ x >= n
  BY <1>1, <1>2
<1> HIDE DEF x
<1>4. x = n /\ (1 .. n) \ {n} = 1 .. n - 1
  BY <1>3
<1>5. QED
  BY <1>4 DEF x

\* Such a function exists for the sets of up to n positions.
LEMMA RemovesExist ==
  ASSUME NEW o, NEW ks, NEW m \in Nat
  PROVE  \A n \in Nat : \E f : Removes(f, o, ks, Small(1 .. m, n))
<1> DEFINE C == 1 .. m
           S == {n \in Nat : \E f : Removes(f, o, ks, Small(C, n))}
           Next1(f, s) == IF s = {} THEN o ELSE SwapRemoved(f[s \ {Max(s)}], ks[Max(s)])
<1>0. IsFiniteSet(C)
  BY FS_Interval
<1> HIDE DEF C
<1>1. 0 \in S
  <2>1. \A s \in Small(C, 0) : s = {}
    BY <1>0, FS_Subset, FS_CardinalityType, FS_EmptySet DEF Small
  <2>2. Removes([s \in Small(C, 0) |-> o], o, ks, Small(C, 0))
    BY <2>1 DEF Removes
  <2>3. QED
    BY <2>2
<1>2. ASSUME NEW n \in Nat, n \in S
      PROVE  n + 1 \in S
  <2>1. PICK f : Removes(f, o, ks, Small(C, n))
    BY <1>2
  <2>2. f = [s \in Small(C, n) |-> Next1(f, s)]
    BY <2>1 DEF Removes
  <2> DEFINE g == [s \in Small(C, n + 1) |-> Next1(f, s)]
  <2>3. \A s \in Small(C, n) : g[s] = f[s]
    <3>1. ASSUME NEW s \in Small(C, n) PROVE g[s] = f[s]
      <4>1. s \in Small(C, n + 1)
        <5>1. IsFiniteSet(s) /\ Cardinality(s) \in Nat
          BY <1>0, FS_Subset, FS_CardinalityType DEF Small
        <5>2. QED
          BY <5>1 DEF Small
      <4>2. f[s] = Next1(f, s)
        BY <2>2
      <4>3. QED
        BY <4>1, <4>2
    <3>2. QED
      BY <3>1
  <2>4. \A s \in Small(C, n + 1) : Next1(g, s) = Next1(f, s)
    <3>1. ASSUME NEW s \in Small(C, n + 1), s # {}
          PROVE  s \ {Max(s)} \in Small(C, n)
      <4>1. Max(s) \in s /\ s \in SUBSET C
        BY <3>1, MaxExists DEF Small, C
      <4>2. IsFiniteSet(s) /\ Cardinality(s) \in Nat /\ Cardinality(s) <= n + 1
        BY <1>0, <4>1, FS_Subset, FS_CardinalityType DEF Small
      <4>3. Cardinality(s \ {Max(s)}) = Cardinality(s) - 1
        BY <4>1, <4>2, FS_RemoveElement
      <4>4. QED
        BY <4>1, <4>2, <4>3 DEF Small
    <3>2. ASSUME NEW s \in Small(C, n + 1), s # {}
          PROVE  g[s \ {Max(s)}] = f[s \ {Max(s)}]
      BY <2>3, <3>1, <3>2
    <3> HIDE DEF g
    <3>3. QED
      BY <3>2
  <2>5. Removes(g, o, ks, Small(C, n + 1))
    <3>1. [s \in Small(C, n + 1) |-> Next1(g, s)] = [s \in Small(C, n + 1) |-> Next1(f, s)]
      BY <2>4, Zenon
    <3>2. QED
      BY <3>1 DEF Removes
  <2>6. QED
    BY <2>5
<1>3. \A n \in Nat : n \in S
  <2> HIDE DEF S
  <2>1. QED
    BY <1>1, <1>2, Induction
<1>4. QED
  BY <1>3 DEF C

\* All the keys of a sequence go, in whatever order the others move.
LEMMA RemovalArranged ==
  ASSUME NEW D, NEW o, Arranged(o, D), NEW T, NEW ks \in Seq(T)
  PROVE  Arranged(Removal(o, ks), D \ ToSet(ks))
<1> DEFINE m == Len(ks)
           f == CHOOSE f : f = [s \in SUBSET DOMAIN ks |->
                  IF s = {} THEN o ELSE SwapRemoved(f[s \ {Max(s)}], ks[Max(s)])]
           Gone(n) == {ks[i] : i \in 1 .. n}
           S == {n \in Nat : n <= m => Arranged(f[1 .. n], D \ Gone(n))}
<1>0. m \in Nat /\ DOMAIN ks = 1 .. m
  OBVIOUS
<1> HIDE DEF m
<1>1. m \in Nat /\ DOMAIN ks = 1 .. m /\ IsFiniteSet(1 .. m) /\ Cardinality(1 .. m) = m
  <2>1. IsFiniteSet(1 .. m)
    BY <1>0, FS_Interval
  <2>2. Cardinality(1 .. m) = IF 1 > m THEN 0 ELSE m - 1 + 1
    BY <1>0, FS_Interval
  <2>3. (IF 1 > m THEN 0 ELSE m - 1 + 1) = m
    BY <1>0
  <2>4. QED
    BY <1>0, <2>1, <2>2, <2>3
<1>2. SUBSET (1 .. m) = Small(1 .. m, m)
  <2>1. ASSUME NEW s \in SUBSET (1 .. m) PROVE Cardinality(s) <= m
    <3> DEFINE C == 1 .. m
    <3>1. IsFiniteSet(C) /\ Cardinality(C) = m /\ s \in SUBSET C
      BY <1>1
    <3> HIDE DEF C
    <3>2. Cardinality(s) <= Cardinality(C)
      BY <3>1, FS_Subset, Zenon
    <3>3. QED
      BY <3>1, <3>2
  <2>2. QED
    BY <2>1 DEF Small
<1>3. Removes(f, o, ks, SUBSET (1 .. m))
  <2>1. \E g : Removes(g, o, ks, SUBSET (1 .. m))
    <3>1. \E g : Removes(g, o, ks, Small(1 .. m, m))
      BY <1>1, RemovesExist
    <3>2. QED
      BY <1>2, <3>1
  <2>2. QED
    BY <1>1, <2>1 DEF Removes
<1>4. Removal(o, ks) = f[1 .. m]
  BY <1>1 DEF Removal, FoldLeft, MapThenFoldSet, m
<1> HIDE DEF f
<1>5. \A s \in SUBSET (1 .. m) :
        f[s] = IF s = {} THEN o ELSE SwapRemoved(f[s \ {Max(s)}], ks[Max(s)])
  <2>1. f = [s \in SUBSET (1 .. m) |->
               IF s = {} THEN o ELSE SwapRemoved(f[s \ {Max(s)}], ks[Max(s)])]
    BY <1>3 DEF Removes
  <2>2. QED
    BY <2>1
<1>6. 0 \in S
  <2>1. 1 .. 0 = {} /\ {} \in SUBSET (1 .. m)
    OBVIOUS
  <2>2. f[1 .. 0] = o /\ D \ Gone(0) = D
    BY <1>5, <2>1
  <2>3. QED
    BY <2>2
<1>7. ASSUME NEW n \in Nat, n \in S
      PROVE  n + 1 \in S
  <2>1. SUFFICES ASSUME n + 1 <= m PROVE Arranged(f[1 .. n + 1], D \ Gone(n + 1))
    BY <1>1
  <2>2. 1 .. n + 1 \in SUBSET (1 .. m) /\ 1 .. n + 1 # {} /\ n <= m
    <3>1. n \in Nat /\ n <= m /\ n + 1 \in 1 .. n + 1
      BY <1>1, <2>1
    <3>2. ASSUME NEW i \in 1 .. n + 1 PROVE i \in 1 .. m
      BY <1>1, <2>1
    <3>3. QED
      BY <3>1, <3>2, Zenon
  <2>3. Max(1 .. n + 1) = n + 1 /\ (1 .. n + 1) \ {n + 1} = 1 .. n
    BY MaxOfInterval
  <2>4. f[1 .. n + 1] = SwapRemoved(f[1 .. n], ks[n + 1])
    BY <1>5, <2>2, <2>3
  <2>5. Arranged(f[1 .. n], D \ Gone(n))
    BY <1>7, <2>2
  <2>6. D \ Gone(n + 1) = (D \ Gone(n)) \ {ks[n + 1]}
    OBVIOUS
  <2>7. QED
    BY <2>4, <2>5, <2>6, SwapRemovedArranged
<1>8. \A n \in Nat : n \in S
  <2> HIDE DEF S
  <2>1. QED
    BY <1>6, <1>7, Induction
<1>9. ToSet(ks) = Gone(m)
  BY <1>1 DEF ToSet, m
<1>10. Arranged(f[1 .. m], D \ Gone(m))
  <2>1. m \in S
    BY <1>1, <1>8
  <2>2. QED
    BY <1>1, <2>1
<1>11. QED
  BY <1>4, <1>9, <1>10

-----------------------------------------------------------------------------
(* The keys a pass has to do with. *)

\* The locals of the expiry task as Server has them.
Sample == [at |-> pass.at,
           left |-> {order[i + 1] : i \in pass.indexes},
           doomed |-> ToSet(pass.keys),
           size |-> pass.size]

\* Server with them, and what is proved of it.
S == INSTANCE ServerProofs WITH expiry <- Sample

\* Parsing has nothing to do with the expiry task.
LEMMA SameParsing ==
  ASSUME NEW m, NEW t
  PROVE  S!TryFrom(m, t) = Clients!TryFrom(m, t)
<1>1. Clients!TryFrom(m, t) = TryFrom(m, t)
  BY DEF Clients!TryFrom, TryFrom, Clients!Dispatch, Dispatch, Clients!Arity, Arity,
     Clients!SetParse, SetParse, Clients!Expiration, Expiration, Clients!IntegerParse,
     IntegerParse, Clients!ListParse, ListParse, Clients!ParsedValue, ParsedValue, Clients!Ok,
     Ok, Clients!Err, Err, Clients!UnknownCommand, UnknownCommand,
     Clients!WrongNumberOfArguments, WrongNumberOfArguments, Clients!SyntaxError, SyntaxError,
     Clients!IntegerError, IntegerError, Clients!Commands, Commands, Clients!MultiKeyCommands,
     MultiKeyCommands, Clients!PushCommands, PushCommands, Clients!IntegerValue, IntegerValue,
     Clients!StringValue, StringValue
<1>2. S!TryFrom(m, t) = TryFrom(m, t)
  BY DEF S!TryFrom, TryFrom, S!Dispatch, Dispatch, S!Arity, Arity, S!SetParse, SetParse,
     S!Expiration, Expiration, S!IntegerParse, IntegerParse, S!ListParse, ListParse,
     S!ParsedValue, ParsedValue, S!Ok, Ok, S!Err, Err, S!UnknownCommand, UnknownCommand,
     S!WrongNumberOfArguments, WrongNumberOfArguments, S!SyntaxError, SyntaxError,
     S!IntegerError, IntegerError, S!Commands, Commands, S!MultiKeyCommands, MultiKeyCommands,
     S!PushCommands, PushCommands, S!IntegerValue, IntegerValue, S!StringValue, StringValue
<1>3. QED
  BY <1>1, <1>2

\* A message that is answered, or taken for a request, is so by Server.
LEMMA SameReceives ==
  ASSUME NEW c \in Conns, Sample' = Sample
  PROVE  /\ Clients!ReceiveInvalid(c) => S!ReceiveInvalid(c)
         /\ Clients!ReceiveLocal(c) => S!ReceiveLocal(c)
         /\ Clients!ReceiveRequest(c) => S!ReceiveRequest(c)
<1>1. Clients!CanReceive(c) => S!CanReceive(c)
  BY DEF Clients!CanReceive, S!CanReceive
<1>2. ASSUME NEW r, Clients!Answer(c, r) PROVE S!Answer(c, r)
  BY <1>2 DEF Clients!Answer, S!Answer
<1>3. ASSUME NEW r PROVE Clients!SimpleError(r) = S!SimpleError(r)
  BY DEF Clients!SimpleError, S!SimpleError
<1>4. ASSUME NEW r PROVE Clients!LocalReply(r) = S!LocalReply(r)
  BY DEF Clients!LocalReply, S!LocalReply, Clients!SimpleString, S!SimpleString,
         Clients!BulkString, S!BulkString
<1>5. ASSUME NEW m PROVE Clients!TryFrom(m, now) = S!TryFrom(m, now)
  BY SameParsing
<1>6. ASSUME Clients!ReceiveInvalid(c) PROVE S!ReceiveInvalid(c)
  <2>1. PICK m \in Messages : /\ ~Clients!TryFrom(m, now).ok
                            /\ Clients!Answer(c, Clients!SimpleError(Clients!TryFrom(m, now).val))
    BY <1>6 DEF Clients!ReceiveInvalid
  <2>2. ~S!TryFrom(m, now).ok
    BY <2>1, <1>5
  <2>3. S!Answer(c, S!SimpleError(S!TryFrom(m, now).val))
    BY <2>1, <1>2, <1>3, <1>5
  <2>4. S!CanReceive(c)
    BY <1>1, <1>6 DEF Clients!ReceiveInvalid
  <2>5. QED
    BY <2>2, <2>3, <2>4 DEF S!ReceiveInvalid
<1>7. ASSUME Clients!ReceiveLocal(c) PROVE S!ReceiveLocal(c)
  <2>1. PICK m \in Messages : /\ Clients!TryFrom(m, now).ok
                            /\ Clients!TryFrom(m, now).val.cmd \in {"ping", "echo"}
                            /\ Clients!Answer(c, Clients!LocalReply(Clients!TryFrom(m, now).val))
    BY <1>7 DEF Clients!ReceiveLocal
  <2>2. S!TryFrom(m, now).ok /\ S!TryFrom(m, now).val.cmd \in {"ping", "echo"}
    BY <2>1, <1>5
  <2>3. S!Answer(c, S!LocalReply(S!TryFrom(m, now).val))
    BY <2>1, <1>2, <1>4, <1>5
  <2>4. S!CanReceive(c)
    BY <1>1, <1>7 DEF Clients!ReceiveLocal
  <2>5. QED
    BY <2>2, <2>3, <2>4 DEF S!ReceiveLocal
<1>8. ASSUME Clients!ReceiveRequest(c) PROVE S!ReceiveRequest(c)
  <2>1. PICK m \in Messages : /\ Clients!TryFrom(m, now).ok
                            /\ Clients!TryFrom(m, now).val.cmd \notin {"ping", "echo"}
                            /\ req' = [req EXCEPT ![c] = Clients!TryFrom(m, now).val]
    BY <1>8 DEF Clients!ReceiveRequest
  <2>2. /\ S!TryFrom(m, now).ok
        /\ S!TryFrom(m, now).val.cmd \notin {"ping", "echo"}
        /\ req' = [req EXCEPT ![c] = S!TryFrom(m, now).val]
    BY <2>1, <1>5
  <2>3. pc' = [pc EXCEPT ![c] = "waiting"] /\ UNCHANGED reply
    BY <1>8 DEF Clients!ReceiveRequest
  <2>4. S!CanReceive(c)
    BY <1>1, <1>8 DEF Clients!ReceiveRequest
  <2>5. QED
    BY <2>2, <2>3, <2>4 DEF S!ReceiveRequest
<1>9. QED
  BY <1>6, <1>7, <1>8

\* A step of a connection that leaves the locals of the pass alone is one of Server.
LEMMA SameSteps ==
  ASSUME NEW c \in Conns, Connection(c), Sample' = Sample
  PROVE  S!Connection(c)
<1> USE DEF Sample
<1> USE DEF Clients!Insert, S!Insert, Clients!SwapRemove, S!SwapRemove, Clients!Restrict,
     S!Restrict, Clients!IsExpired, S!IsExpired, Clients!NewObject, S!NewObject,
     Clients!IntegerValue, S!IntegerValue, Clients!ListValue, S!ListValue, Clients!Display,
     S!Display, Clients!BulkString, S!BulkString, Clients!IntegerReply, S!IntegerReply,
     Clients!SimpleString, S!SimpleString, Clients!SimpleError, S!SimpleError, Clients!Null,
     S!Null, Clients!DeserializeError, S!DeserializeError, Clients!IntegerError, S!IntegerError,
     Clients!OverflowError, S!OverflowError, Clients!WrongType, S!WrongType,
     Clients!ArithmeticCommands, S!ArithmeticCommands, Clients!PushCommands, S!PushCommands,
     Clients!Panics, S!Panics, Clients!Operation, S!Operation, Clients!UncheckedOperation,
     S!UncheckedOperation, Clients!Checked, S!Checked, Clients!Int64, S!Int64, Clients!Ok, S!Ok,
     Clients!Err, S!Err, Clients!InitialValue, S!InitialValue, Clients!WrappingNeg,
     S!WrappingNeg, Clients!Adds, S!Adds, Clients!Pushed, S!Pushed, Clients!Reverse, S!Reverse,
     Clients!ToSet, S!ToSet, Clients!Cardinality, S!Cardinality, Clients!LocalReply,
     S!LocalReply, Clients!Live, S!Live, Clients!Answer, S!Answer, Clients!CanReceive,
     S!CanReceive, Clients!CanLock, S!CanLock, Clients!Run, S!Run, Clients!NoScan, S!NoScan
<1>1. Clients!Accept(c) => S!Accept(c)
  BY DEF Clients!Accept, S!Accept
<1>2. Clients!Close(c) => S!Close(c)
  BY DEF Clients!Close, S!Close
<1>3. Clients!WriteReply(c) => S!WriteReply(c)
  BY DEF Clients!WriteReply, S!WriteReply
<1>4. Clients!ReceiveMalformed(c) => S!ReceiveMalformed(c)
  BY DEF Clients!ReceiveMalformed, S!ReceiveMalformed
<1>5. Clients!ReceiveInvalid(c) => S!ReceiveInvalid(c)
  BY SameReceives
<1>6. Clients!ReceiveLocal(c) => S!ReceiveLocal(c)
  BY SameReceives
<1>7. Clients!ReceiveRequest(c) => S!ReceiveRequest(c)
  BY SameReceives
<1>8. Clients!Set(c) => S!Set(c)
  BY DEF Clients!Set, S!Set
<1>9. Clients!GetLive(c) => S!GetLive(c)
  BY DEF Clients!GetLive, S!GetLive
<1>10. Clients!GetMissing(c) => S!GetMissing(c)
  BY DEF Clients!GetMissing, S!GetMissing
<1>11. Clients!Del(c) => S!Del(c)
  BY DEF Clients!Del, S!Del
<1>12. Clients!ArithmeticNew(c) => S!ArithmeticNew(c)
  BY DEF Clients!ArithmeticNew, S!ArithmeticNew
<1>13. Clients!ArithmeticUpdate(c) => S!ArithmeticUpdate(c)
  BY DEF Clients!ArithmeticUpdate, S!ArithmeticUpdate
<1>14. Clients!ArithmeticFails(c) => S!ArithmeticFails(c)
  BY DEF Clients!ArithmeticFails, S!ArithmeticFails
<1>15. Clients!ArithmeticPanics(c) => S!ArithmeticPanics(c)
  BY DEF Clients!ArithmeticPanics, S!ArithmeticPanics
<1>16. Clients!PushNew(c) => S!PushNew(c)
  BY DEF Clients!PushNew, S!PushNew
<1>17. Clients!PushMore(c) => S!PushMore(c)
  BY DEF Clients!PushMore, S!PushMore
<1>18. Clients!PushFails(c) => S!PushFails(c)
  BY DEF Clients!PushFails, S!PushFails
<1>19. Clients!ExistsBegin(c) => S!ExistsBegin(c)
  BY DEF Clients!ExistsBegin, S!ExistsBegin
<1>20. Clients!ExistsLook(c) => S!ExistsLook(c)
  BY DEF Clients!ExistsLook, S!ExistsLook
<1>21. Clients!ExistsEnd(c) => S!ExistsEnd(c)
  BY DEF Clients!ExistsEnd, S!ExistsEnd
<1>22. Clients!LockPoisoned(c) => S!LockPoisoned(c)
  BY DEF Clients!LockPoisoned, S!LockPoisoned
<1> HIDE DEF Sample
<1>23. QED
  BY <1>1, <1>2, <1>3, <1>4, <1>5, <1>6, <1>7, <1>8, <1>9, <1>10, <1>11, <1>12, <1>13, <1>14,
     <1>15, <1>16, <1>17, <1>18, <1>19, <1>20, <1>21, <1>22 DEF Connection, InPlace,
     Set, GetMissing, Del, Replace, ExistsLook, S!Connection, S!Locks, S!Proceed

\* The steps of the two instances of Server are the same.
LEMMA SameNext == S!Next = Keyed!Next
BY DEF Sample, S!Dispatch, Keyed!Dispatch, S!Arity, Keyed!Arity, S!SetParse,
   Keyed!SetParse, S!Expiration, Keyed!Expiration, S!IntegerParse, Keyed!IntegerParse,
   S!ListParse, Keyed!ListParse, S!ParsedValue, Keyed!ParsedValue, S!Ok, Keyed!Ok,
   S!Err, Keyed!Err, S!UnknownCommand, Keyed!UnknownCommand, S!WrongNumberOfArguments,
   Keyed!WrongNumberOfArguments, S!SyntaxError, Keyed!SyntaxError, S!IntegerError,
   Keyed!IntegerError, S!Commands, Keyed!Commands, S!MultiKeyCommands,
   Keyed!MultiKeyCommands, S!PushCommands, Keyed!PushCommands, S!IntegerValue,
   Keyed!IntegerValue, S!StringValue, Keyed!StringValue, S!Insert, Keyed!Insert,
   S!SwapRemove, Keyed!SwapRemove, S!Restrict, Keyed!Restrict, S!IsExpired,
   Keyed!IsExpired, S!NewObject, Keyed!NewObject, S!ListValue, Keyed!ListValue,
   S!Display, Keyed!Display, S!BulkString, Keyed!BulkString, S!IntegerReply,
   Keyed!IntegerReply, S!SimpleString, Keyed!SimpleString, S!SimpleError,
   Keyed!SimpleError, S!Null, Keyed!Null, S!DeserializeError, Keyed!DeserializeError,
   S!OverflowError, Keyed!OverflowError, S!WrongType, Keyed!WrongType,
   S!ArithmeticCommands, Keyed!ArithmeticCommands, S!Panics, Keyed!Panics, S!Operation,
   Keyed!Operation, S!UncheckedOperation, Keyed!UncheckedOperation, S!Checked,
   Keyed!Checked, S!Int64, Keyed!Int64, S!InitialValue, Keyed!InitialValue,
   S!WrappingNeg, Keyed!WrappingNeg, S!Adds, Keyed!Adds, S!Pushed, Keyed!Pushed,
   S!Reverse, Keyed!Reverse, S!ToSet, Keyed!ToSet, S!Cardinality, Keyed!Cardinality,
   S!LocalReply, Keyed!LocalReply, S!Live, Keyed!Live, S!Answer, Keyed!Answer,
   S!CanReceive, Keyed!CanReceive, S!CanLock, Keyed!CanLock, S!Run, Keyed!Run, S!NoScan,
   Keyed!NoScan, S!Accept, Keyed!Accept, S!Close, Keyed!Close, S!WriteReply,
   Keyed!WriteReply, S!ReceiveMalformed, Keyed!ReceiveMalformed, S!ReceiveInvalid,
   Keyed!ReceiveInvalid, S!ReceiveLocal, Keyed!ReceiveLocal, S!ReceiveRequest,
   Keyed!ReceiveRequest, S!Set, Keyed!Set, S!GetLive, Keyed!GetLive, S!GetMissing,
   Keyed!GetMissing, S!Del, Keyed!Del, S!ArithmeticNew, Keyed!ArithmeticNew,
   S!ArithmeticUpdate, Keyed!ArithmeticUpdate, S!ArithmeticFails, Keyed!ArithmeticFails,
   S!ArithmeticPanics, Keyed!ArithmeticPanics, S!PushNew, Keyed!PushNew, S!PushMore,
   Keyed!PushMore, S!PushFails, Keyed!PushFails, S!ExistsBegin, Keyed!ExistsBegin,
   S!ExistsLook, Keyed!ExistsLook, S!ExistsEnd, Keyed!ExistsEnd, S!LockPoisoned,
   Keyed!LockPoisoned, S!Next, Keyed!Next, S!Connection, Keyed!Connection, S!Locks,
   Keyed!Locks, S!Proceed, Keyed!Proceed, S!ExpiryTask, Keyed!ExpiryTask, S!ExpiryIdle,
   Keyed!ExpiryIdle, S!ExpiryBegin, Keyed!ExpiryBegin, S!ExpiryLook, Keyed!ExpiryLook,
   S!ExpiryEnd, Keyed!ExpiryEnd, S!ExpiryWake, Keyed!ExpiryWake, S!ExpiryPanics,
   Keyed!ExpiryPanics, S!Tick, Keyed!Tick, S!Resting, Keyed!Resting, S!AnotherPass,
   Keyed!AnotherPass, S!Min, Keyed!Min, S!kSubset, Keyed!kSubset, S!Instants,
   Keyed!Instants, S!TryFrom, Keyed!TryFrom

-----------------------------------------------------------------------------
(* The invariant. *)

\* Between two passes there are no locals.
Quiet == pass.at \in {"ready", "asleep", "dead"} /\ pass = Waiting(pass.at)

\* In a pass, what is still to be looked at is in the map and has not been collected.
Sampling ==
  /\ pass = [at |-> "sampling", indexes |-> pass.indexes,
             keys |-> pass.keys, size |-> pass.size]
  /\ pass.indexes \subseteq 0 .. Len(order) - 1
  /\ pass.keys \in Seq(DOMAIN db) /\ IsInjective(pass.keys)
  /\ \A i \in pass.indexes : order[i + 1] \notin ToSet(pass.keys)
  /\ pass.size \in Nat \ {0}
  /\ Len(pass.keys) + Cardinality(pass.indexes) <= pass.size

PInv == S!IInv /\ Arranged(order, DOMAIN db) /\ (Quiet \/ Sampling)

\* Who has the mutex, and that is all a step of this module needs of Server's invariant.
LEMMA WhoHolds ==
  ASSUME S!IInv
  PROVE  /\ pass.at = "sampling" => lock = Expiry
         /\ \A c \in Conns : pc[c] = "scanning" => lock = c
         /\ scan.count \in Nat
         /\ \A c \in Conns : req[c] \in S!DbRequest \cup {None}
<1>1. S!MutexDiscipline /\ S!TypeOK
  BY DEF S!IInv
<1>2. Sample.at = pass.at
  BY DEF Sample
<1>3. QED
  BY <1>1, <1>2 DEF S!MutexDiscipline, S!TypeOK

\* No position is being looked at between two passes.
LEMMA QuietSample ==
  ASSUME Quiet
  PROVE  Sample = Keyed!Resting(pass.at) /\ pass.indexes = {} /\ pass.at # "sampling"
<1>1. /\ pass = [at |-> pass.at, indexes |-> {}, keys |-> <<>>, size |-> 0]
      /\ pass.at # "sampling"
  BY DEF Quiet, Waiting
<1>2. pass.indexes = {} /\ pass.keys = <<>> /\ pass.size = 0
  BY <1>1
<1>3. ToSet(<<>>) = {}
  BY DEF ToSet
<1>4. QED
  BY <1>1, <1>2, <1>3 DEF Sample, Keyed!Resting

\* A step that is none of the pass, and moves entries only when there is no pass.
LEMMA ApartFromPass ==
  ASSUME PInv, UNCHANGED pass, Arranged(order', DOMAIN db'),
         ~Quiet => order' = order
  PROVE  Sample' = Sample /\ Arranged(order, DOMAIN db)' /\ (Quiet \/ Sampling)'
<1>1. Arranged(order, DOMAIN db)'
  OBVIOUS
<1>2. CASE Quiet
  <2>1. Quiet'
    BY <1>2 DEF Quiet
  <2>2. pass.indexes = {}
    BY <1>2, QuietSample
  <2>3. Sample' = Sample
    BY <2>2 DEF Sample
  <2>4. QED
    BY <1>1, <2>1, <2>3
<1>3. CASE ~Quiet
  <2>1. order' = order /\ Sampling
    BY <1>3 DEF PInv
  <2>2. DOMAIN db' = DOMAIN db
    BY <2>1 DEF PInv, Arranged
  <2>3. Sample' = Sample
    BY <2>1 DEF Sample
  <2>4. Sampling'
    BY <2>1, <2>2 DEF Sampling
  <2>5. QED
    BY <1>1, <2>3, <2>4
<1>4. QED
  BY <1>2, <1>3

-----------------------------------------------------------------------------
(* The steps of the connections. *)

\* Whoever finds the mutex free, or has it for an EXISTS, is not in the way of a pass.
LEMMA NoPass ==
  ASSUME PInv, NEW c \in Conns, lock = None \/ pc[c] = "scanning"
  PROVE  Quiet
<1>1. lock # Expiry
  BY WhoHolds, TasksAssumption DEF PInv
<1>2. ~Sampling
  BY <1>1, WhoHolds DEF PInv, Sampling
<1>3. QED
  BY <1>2 DEF PInv

\* A new entry adds its key to those of the map.
LEMMA InsertDomain ==
  ASSUME NEW m, NEW k, NEW o
  PROVE  DOMAIN Clients!Insert(m, k, o) = DOMAIN m \cup {k}
BY DEF Clients!Insert

\* A removal takes its keys from those of the map.
LEMMA RemoveDomain ==
  ASSUME NEW m, NEW ks
  PROVE  DOMAIN Clients!SwapRemove(m, ks) = DOMAIN m \ ks
BY DEF Clients!SwapRemove, Clients!Restrict

\* Where no entry moves, none comes or goes.
LEMMA InPlaceStep ==
  ASSUME PInv, NEW c \in Conns, InPlace(c)
  PROVE  order' = order /\ DOMAIN db' = DOMAIN db
<1>1. order' = order
  BY DEF InPlace
<1>2. CASE \/ Clients!Accept(c) \/ Clients!Close(c) \/ Clients!WriteReply(c)
           \/ Clients!ReceiveMalformed(c) \/ Clients!ReceiveInvalid(c)
           \/ Clients!ReceiveLocal(c) \/ Clients!ReceiveRequest(c)
  BY <1>1, <1>2
     DEF Clients!Accept, Clients!Close, Clients!WriteReply, Clients!ReceiveMalformed,
         Clients!ReceiveInvalid, Clients!ReceiveLocal, Clients!ReceiveRequest,
         Clients!CanReceive
<1>3. CASE \/ Clients!GetLive(c) \/ Clients!ArithmeticFails(c) \/ Clients!PushFails(c)
           \/ Clients!ArithmeticPanics(c) \/ Clients!ExistsBegin(c) \/ Clients!ExistsEnd(c)
           \/ Clients!LockPoisoned(c)
  BY <1>1, <1>3
     DEF Clients!GetLive, Clients!ArithmeticFails, Clients!PushFails,
         Clients!ArithmeticPanics, Clients!ExistsBegin, Clients!ExistsEnd,
         Clients!LockPoisoned
<1>4. CASE Clients!ArithmeticUpdate(c) \/ Clients!PushMore(c)
  <2>1. Clients!Live(req[c].key) /\ \E o : db' = Clients!Insert(db, req[c].key, o)
    BY <1>4 DEF Clients!ArithmeticUpdate, Clients!PushMore
  <2>2. req[c].key \in DOMAIN db
    BY <2>1 DEF Clients!Live
  <2>3. DOMAIN db' = DOMAIN db \cup {req[c].key}
    BY <2>1, InsertDomain
  <2>4. QED
    BY <1>1, <2>2, <2>3
<1>5. QED
  BY <1>2, <1>3, <1>4 DEF InPlace

\* A step of a connection keeps the positions in step with the map.
LEMMA ConnectionStep ==
  ASSUME PInv, NEW c \in Conns, Connection(c)
  PROVE  Sample' = Sample /\ Arranged(order, DOMAIN db)' /\ (Quiet \/ Sampling)'
<1>1. UNCHANGED pass /\ Arranged(order, DOMAIN db)
  BY DEF Connection, PInv
<1> DEFINE k == req[c].key
<1>2. CASE InPlace(c)
  BY <1>1, <1>2, InPlaceStep, ApartFromPass
<1>3. CASE Set(c)
  <2>1. lock = None /\ \E o : db' = Clients!Insert(db, k, o)
    BY <1>3 DEF Set, Clients!Set, Clients!Run, Clients!CanLock
  <2>2. Arranged(order', DOMAIN db')
    <3>1. DOMAIN db' = DOMAIN db \cup {k}
      BY <2>1, InsertDomain
    <3>2. Arranged(Placed(order, k), DOMAIN db \cup {k})
      BY <1>1, PlacedArranged
    <3>3. QED
      BY <1>3, <3>1, <3>2 DEF Set
  <2>3. QED
    BY <1>1, <2>1, <2>2, NoPass, ApartFromPass
<1>4. CASE GetMissing(c)
  <2>1. lock = None /\ db' = Clients!SwapRemove(db, {k})
    BY <1>4 DEF GetMissing, Clients!GetMissing, Clients!Run, Clients!CanLock
  <2>2. Arranged(order', DOMAIN db')
    <3>1. DOMAIN db' = DOMAIN db \ {k}
      BY <2>1, RemoveDomain
    <3>2. Arranged(SwapRemoved(order, k), DOMAIN db \ {k})
      BY <1>1, SwapRemovedArranged
    <3>3. QED
      BY <1>4, <3>1, <3>2 DEF GetMissing
  <2>3. QED
    BY <1>1, <2>1, <2>2, NoPass, ApartFromPass
<1>5. CASE Del(c)
  <2>1. lock = None /\ db' = Clients!SwapRemove(db, Clients!ToSet(req[c].keys))
    BY <1>5 DEF Del, Clients!Del, Clients!Run, Clients!CanLock
  <2>2. Clients!ToSet(req[c].keys) = ToSet(req[c].keys)
    BY DEF Clients!ToSet, ToSet
  <2>3. order' = Removal(order, req[c].keys)
    BY <1>5 DEF Del, Removal
  <2>4. \E T : req[c].keys \in Seq(T)
    <3>1. pc[c] = "waiting" /\ req[c].cmd = "del"
      BY <1>5 DEF Del, Clients!Del, Clients!Run, Clients!CanLock
    <3>2. req[c] \in S!DbRequest
      BY <3>1 DEF PInv, S!IInv, S!MutexDiscipline
    <3>3. req[c].keys \in Seq(Texts)
      BY <3>1, <3>2 DEF S!DbRequest, S!MultiKeyCommands, S!ArithmeticCommands,
                        S!PushCommands
    <3>4. QED
      BY <3>3
  <2>5. Arranged(order', DOMAIN db')
    <3>1. DOMAIN db' = DOMAIN db \ ToSet(req[c].keys)
      BY <2>1, <2>2, RemoveDomain
    <3>2. Arranged(Removal(order, req[c].keys), DOMAIN db \ ToSet(req[c].keys))
      BY <1>1, <2>4, RemovalArranged
    <3>3. QED
      BY <2>3, <3>1, <3>2
  <2>6. QED
    BY <1>1, <2>1, <2>5, NoPass, ApartFromPass
<1>6. CASE Replace(c)
  <2>1. lock = None /\ \E o : db' = Clients!Insert(db, k, o)
    BY <1>6 DEF Replace, Clients!ArithmeticNew, Clients!PushNew, Clients!Run,
                Clients!CanLock
  <2>2. Arranged(SwapRemoved(order, k), DOMAIN db \ {k})
    BY <1>1, SwapRemovedArranged
  <2>3. Arranged(Append(SwapRemoved(order, k), k), (DOMAIN db \ {k}) \cup {k})
    BY <2>2, AppendArranged
  <2>4. Arranged(order', DOMAIN db')
    <3>1. DOMAIN db' = DOMAIN db \cup {k}
      BY <2>1, InsertDomain
    <3>2. DOMAIN db' = (DOMAIN db \ {k}) \cup {k}
      BY <3>1
    <3>3. QED
      BY <1>6, <2>3, <3>2 DEF Replace
  <2>5. QED
    BY <1>1, <2>1, <2>4, NoPass, ApartFromPass
<1>7. CASE ExistsLook(c)
  <2> DEFINE h == Head(scan.left)
  <2>1. pc[c] = "scanning"
    BY <1>7 DEF ExistsLook, Clients!ExistsLook
  <2>2. Arranged(order', DOMAIN db')
    <3>1. scan.count \in Nat
      BY WhoHolds DEF PInv
    <3>2. \/ scan'.count = scan.count + 1 /\ db' = db
          \/ scan'.count = scan.count /\ db' = Clients!SwapRemove(db, {h})
      BY <1>7, WhoHolds DEF ExistsLook, Clients!ExistsLook, PInv, S!IInv, S!TypeOK
    <3>3. CASE db' = db /\ scan'.count = scan.count + 1
      BY <1>1, <1>7, <3>1, <3>3 DEF ExistsLook
    <3>4. CASE db' = Clients!SwapRemove(db, {h}) /\ scan'.count = scan.count
      <4>1. order' = SwapRemoved(order, h)
        BY <1>7, <3>1, <3>4 DEF ExistsLook
      <4>2. DOMAIN db' = DOMAIN db \ {h}
        BY <3>4, RemoveDomain
      <4>3. Arranged(SwapRemoved(order, h), DOMAIN db \ {h})
        BY <1>1, SwapRemovedArranged
      <4>4. QED
        BY <4>1, <4>2, <4>3
    <3>5. QED
      BY <3>2, <3>3, <3>4
  <2>3. QED
    BY <1>1, <2>1, <2>2, NoPass, ApartFromPass
<1>8. QED
  BY <1>2, <1>3, <1>4, <1>5, <1>6, <1>7 DEF Connection

-----------------------------------------------------------------------------
(* The steps of the pass. *)

\* The sizes of the map and of the sequence of its keys.
LEMMA MapSize ==
  ASSUME PInv
  PROVE  /\ IsFiniteSet(DOMAIN db) /\ Len(order) \in Nat
         /\ Cardinality(DOMAIN db) = Len(order)
         /\ order = <<>> <=> DOMAIN db = {}
<1>1. Arranged(order, DOMAIN db)
  BY DEF PInv
<1>2. IsFiniteSet(DOMAIN db) /\ Len(order) \in Nat /\ Cardinality(DOMAIN db) = Len(order)
  BY <1>1, ArrangedLen
<1>3. order = <<>> <=> DOMAIN db = {}
  BY <1>1, EmptySeq DEF Arranged, ToSet
<1>4. QED
  BY <1>2, <1>3

\* As many keys as positions.
LEMMA KeysAtPositions ==
  ASSUME PInv, NEW indexes \in SUBSET (0 .. Len(order) - 1)
  PROVE  /\ IsFiniteSet(indexes) /\ Cardinality(indexes) \in Nat
         /\ \A i \in indexes : i + 1 \in 1 .. Len(order) /\ order[i + 1] \in DOMAIN db
         /\ \A i, j \in indexes : order[i + 1] = order[j + 1] => i = j
         /\ Cardinality({order[i + 1] : i \in indexes}) = Cardinality(indexes)
<1>1. /\ order \in Seq(DOMAIN db) /\ DOMAIN order = 1 .. Len(order) /\ Len(order) \in Nat
      /\ \A a, b \in 1 .. Len(order) : order[a] = order[b] => a = b
  BY DEF PInv, Arranged, IsInjective
<1> DEFINE n == Len(order)
           keys == {order[i + 1] : i \in indexes}
           f == [i \in indexes |-> order[i + 1]]
<1>2. n \in Nat
  BY <1>1
<1>3. IsFiniteSet(indexes) /\ Cardinality(indexes) \in Nat
  <2> HIDE DEF n
  <2>1. IsFiniteSet(0 .. n - 1)
    BY <1>2, FS_Interval
  <2>2. QED
    BY <2>1, FS_Subset, FS_CardinalityType DEF n
<1>4. \A i \in indexes : i + 1 \in 1 .. n /\ i \in Nat
  <2> HIDE DEF n
  <2>1. indexes \subseteq 0 .. n - 1
    BY DEF n
  <2>2. QED
    BY <1>2, <2>1
<1>5. \A i \in indexes : order[i + 1] \in DOMAIN db
  BY <1>1, <1>4
<1>6. \A i, j \in indexes : order[i + 1] = order[j + 1] => i = j
  BY <1>1, <1>4
<1>7. f \in Bijection(indexes, keys)
  BY <1>6 DEF Bijection, Injection, Surjection, IsInjective
<1>8. Cardinality(keys) = Cardinality(indexes)
  BY <1>3, <1>7, FS_Bijection DEF ExistsBijection
<1>9. QED
  BY <1>3, <1>4, <1>5, <1>6, <1>8

\* The pass is over.
LEMMA RestSample ==
  ASSUME NEW at, pass' = Waiting(at)
  PROVE  Sample' = S!Resting(at)
<1>1. pass' = [at |-> at, indexes |-> {}, keys |-> <<>>, size |-> 0]
  BY DEF Waiting
<1>2. pass'.at = at /\ pass'.indexes = {} /\ pass'.keys = <<>> /\ pass'.size = 0
  BY <1>1
<1>3. ToSet(<<>>) = {}
  BY DEF ToSet
<1>4. {order'[i + 1] : i \in pass'.indexes} = {} /\ ToSet(pass'.keys) = {}
  BY <1>2, <1>3
<1>5. QED
  BY <1>2, <1>4 DEF Sample, S!Resting

\* The map is empty: the loop ends.
LEMMA PassIdleStep ==
  ASSUME PInv, PassIdle
  PROVE  S!ExpiryIdle /\ Arranged(order, DOMAIN db)' /\ (Quiet \/ Sampling)'
<1>1. pass' = Waiting("asleep") /\ UNCHANGED <<commandVars, order>> /\ DOMAIN db = {}
  BY MapSize DEF PassIdle
<1>2. Quiet'
  BY <1>1 DEF Quiet, Waiting
<1>3. Sample' = S!Resting("asleep")
  BY <1>1, RestSample
<1>4. S!ExpiryIdle
  BY <1>1, <1>3 DEF PassIdle, S!ExpiryIdle, Sample, commandVars
<1>5. Arranged(order, DOMAIN db)'
  BY <1>1 DEF PInv, commandVars
<1>6. QED
  BY <1>2, <1>4, <1>5

\* The second of sleep is over.
LEMMA PassWakeStep ==
  ASSUME PInv, PassWake
  PROVE  S!ExpiryWake /\ Arranged(order, DOMAIN db)' /\ (Quiet \/ Sampling)'
<1>1. pass' = Waiting("ready") /\ UNCHANGED <<commandVars, order>>
  BY DEF PassWake
<1>2. Quiet'
  BY <1>1 DEF Quiet, Waiting
<1>3. Sample' = S!Resting("ready")
  BY <1>1, RestSample
<1>4. S!ExpiryWake
  BY <1>1, <1>3 DEF PassWake, S!ExpiryWake, Sample, commandVars
<1>5. Arranged(order, DOMAIN db)'
  BY <1>1 DEF PInv, commandVars
<1>6. QED
  BY <1>2, <1>4, <1>5

\* The mutex is poisoned: the task ends.
LEMMA PassPanicsStep ==
  ASSUME PInv, PassPanics
  PROVE  S!ExpiryPanics /\ Arranged(order, DOMAIN db)' /\ (Quiet \/ Sampling)'
<1>1. pass' = Waiting("dead") /\ UNCHANGED <<commandVars, order>>
  BY DEF PassPanics
<1>2. Quiet'
  BY <1>1 DEF Quiet, Waiting
<1>3. Sample' = S!Resting("dead")
  BY <1>1, RestSample
<1>4. S!ExpiryPanics
  BY <1>1, <1>3 DEF PassPanics, S!ExpiryPanics, Sample, commandVars
<1>5. Arranged(order, DOMAIN db)'
  BY <1>1 DEF PInv, commandVars
<1>6. QED
  BY <1>2, <1>4, <1>5

\* Positions are drawn, and so the keys at them.
LEMMA PassBeginStep ==
  ASSUME PInv, PassBegin
  PROVE  S!ExpiryBegin /\ Arranged(order, DOMAIN db)' /\ (Quiet \/ Sampling)'
<1> DEFINE size == Min({SampleSize, Len(order)})
<1>1. PICK indexes \in kSubset(size, 0 .. Len(order) - 1) :
        pass' = [at |-> "sampling", indexes |-> indexes, keys |-> <<>>, size |-> size]
  BY DEF PassBegin
<1>2. UNCHANGED <<now, db, poisoned, pc, req, reply, scan, budget, order>>
  BY DEF PassBegin
<1>3. /\ indexes \in SUBSET (0 .. Len(order) - 1)
      /\ Cardinality(indexes) = size
  BY DEF kSubset
<1>4. /\ size \in Nat \ {0} /\ size = S!Min({SampleSize, S!Cardinality(DOMAIN db)})
  <2>1. Len(order) \in Nat \ {0}
    BY MapSize, EmptySeq DEF PassBegin, PInv, Arranged
  <2>2. size \in Nat \ {0}
    <3> DEFINE T == {SampleSize, Len(order)}
    <3>1. \E x \in T : \A y \in T : x <= y
      BY <2>1, SampleAssumption
    <3>2. Min(T) \in T
      BY <3>1 DEF Min
    <3>3. QED
      BY <2>1, <3>2, SampleAssumption
  <2>3. S!Cardinality(DOMAIN db) = Len(order)
    BY MapSize DEF S!Cardinality, Cardinality
  <2>4. size = S!Min({SampleSize, S!Cardinality(DOMAIN db)})
    BY <2>3 DEF S!Min, Min
  <2>5. QED
    BY <2>2, <2>4
<1> HIDE DEF size
<1> DEFINE sample == {order[i + 1] : i \in indexes}
<1>5. sample \in S!kSubset(size, DOMAIN db)
  <2>1. sample \in SUBSET DOMAIN db /\ Cardinality(sample) = size
    <3>1. /\ \A i \in indexes : order[i + 1] \in DOMAIN db
          /\ Cardinality(sample) = Cardinality(indexes)
      BY <1>3, KeysAtPositions, Zenon
    <3>2. QED
      BY <1>3, <3>1
  <2>2. S!Cardinality(sample) = size
    BY <2>1 DEF S!Cardinality, Cardinality
  <2>3. QED
    BY <2>1, <2>2 DEF S!kSubset
<1>6. Sample' = [at |-> "sampling", left |-> sample, doomed |-> {}, size |-> size]
  <2>1. /\ pass'.at = "sampling" /\ pass'.indexes = indexes /\ pass'.keys = <<>>
        /\ pass'.size = size /\ order' = order
    BY <1>1, <1>2
  <2>2. ToSet(<<>>) = {}
    BY DEF ToSet
  <2>3. QED
    BY <2>1, <2>2 DEF Sample
<1>7. S!ExpiryBegin
  <2>1. DOMAIN db # {} /\ lock' = Expiry /\ pass.at = "ready" /\ lock = None /\ ~poisoned
    BY MapSize DEF PassBegin
  <2>2. Sample.at = pass.at
    BY DEF Sample
  <2> HIDE DEF sample
  <2>3. QED
    BY <1>2, <1>4, <1>5, <1>6, <2>1, <2>2 DEF S!ExpiryBegin
<1>8. Arranged(order, DOMAIN db)'
  BY <1>2 DEF PInv
<1>9. Sampling'
  <2>1. /\ pass' = [at |-> "sampling", indexes |-> pass'.indexes,
                    keys |-> pass'.keys, size |-> pass'.size]
        /\ pass'.indexes = indexes /\ pass'.keys = <<>> /\ pass'.size = size
    BY <1>1
  <2>2. <<>> \in Seq(DOMAIN db) /\ IsInjective(<<>>) /\ ToSet(<<>>) = {}
    BY EmptySeq DEF IsInjective, ToSet
  <2>3. Len(<<>>) + Cardinality(indexes) <= size
    BY <1>3, <1>4
  <2>4. QED
    BY <1>2, <1>3, <1>4, <2>1, <2>2, <2>3 DEF Sampling
<1>10. QED
  BY <1>7, <1>8, <1>9

\* One position is looked at, and so its key.
LEMMA PassLookStep ==
  ASSUME PInv, PassLook
  PROVE  S!ExpiryLook /\ Arranged(order, DOMAIN db)' /\ (Quiet \/ Sampling)'
<1> DEFINE Collected(i) == IF ExpiredAt(i) THEN Append(pass.keys, order[i + 1]) ELSE pass.keys
<1>1. PICK i \in pass.indexes :
        pass' = [pass EXCEPT !.indexes = pass.indexes \ {i}, !.keys = Collected(i)]
  BY Zenon DEF PassLook
<1>2. UNCHANGED <<now, db, lock, poisoned, pc, req, reply, scan, budget, order>>
  BY DEF PassLook, commandVars
<1>3. Sampling
  BY QuietSample DEF PassLook, PInv
<1> DEFINE k == order[i + 1]
           indexes == pass.indexes
           keys == pass.keys
           seen == Collected(i)
<1>4. /\ IsFiniteSet(indexes) /\ Cardinality(indexes) \in Nat
      /\ \A j \in indexes : j + 1 \in 1 .. Len(order) /\ order[j + 1] \in DOMAIN db
      /\ \A a, b \in indexes : order[a + 1] = order[b + 1] => a = b
  <2>1. indexes \in SUBSET (0 .. Len(order) - 1)
    BY <1>3 DEF Sampling
  <2>2. QED
    BY <2>1, KeysAtPositions, Zenon
<1>5. ExpiredAt(i) <=> IsExpired(db[k], now)
  <2>1. i \in 0 .. Len(order) - 1 /\ Len(order) \in Nat
    BY <1>3, MapSize DEF Sampling
  <2>2. i < Len(order)
    BY <2>1
  <2>3. QED
    BY <2>2 DEF ExpiredAt
<1>6. pass' = [at |-> "sampling", indexes |-> indexes \ {i}, keys |-> seen,
               size |-> pass.size]
  <2> DEFINE rest == indexes \ {i}
             size == pass.size
  <2>1. pass' = [pass EXCEPT !.indexes = rest, !.keys = seen]
    BY <1>1
  <2>2. pass = [at |-> "sampling", indexes |-> indexes, keys |-> keys, size |-> size]
    BY <1>3 DEF Sampling
  <2> HIDE DEF seen, Collected, rest, indexes, keys, size
  <2>3. pass' = [at |-> "sampling", indexes |-> rest, keys |-> seen, size |-> size]
    BY <2>1, <2>2
  <2>4. QED
    BY <2>3 DEF rest, size
<1>7. seen = IF IsExpired(db[k], now) THEN Append(keys, k) ELSE keys
  BY <1>5
<1> HIDE DEF Collected, seen
<1>8. /\ keys \in Seq(DOMAIN db) /\ Arranged(keys, ToSet(keys))
      /\ k \in DOMAIN db /\ k \notin ToSet(keys)
  <2>1. keys \in Seq(DOMAIN db) /\ IsInjective(keys) /\ k \notin ToSet(keys)
    BY <1>3 DEF Sampling
  <2>2. keys \in Seq(ToSet(keys))
    <3>1. \A j \in 1 .. Len(keys) : keys[j] \in ToSet(keys)
      BY <2>1 DEF ToSet
    <3>2. QED
      BY <2>1, <3>1
  <2>3. QED
    BY <1>4, <2>1, <2>2 DEF Arranged
<1>9. /\ seen \in Seq(DOMAIN db) /\ IsInjective(seen)
      /\ ToSet(seen) = IF IsExpired(db[k], now) THEN ToSet(keys) \cup {k} ELSE ToSet(keys)
      /\ Len(seen) <= Len(keys) + 1 /\ Len(seen) \in Nat /\ Len(keys) \in Nat
      /\ \A x \in ToSet(seen) : x \in ToSet(keys) \/ x = k
  <2>1. CASE IsExpired(db[k], now)
    <3>1. seen = Append(keys, k)
      BY <1>7, <2>1
    <3>2. Arranged(seen, ToSet(keys) \cup {k})
      BY <1>8, <3>1, AppendArranged
    <3>3. IsInjective(seen) /\ ToSet(seen) = ToSet(keys) \cup {k}
      BY <3>2 DEF Arranged
    <3>4. /\ seen \in Seq(DOMAIN db) /\ Len(seen) = Len(keys) + 1
          /\ Len(keys) \in Nat
      BY <1>8, <3>1
    <3>5. QED
      BY <2>1, <3>3, <3>4
  <2>2. CASE ~IsExpired(db[k], now)
    <3>1. seen = keys
      BY <1>7, <2>2
    <3>2. Len(keys) \in Nat
      BY <1>8
    <3>3. QED
      BY <1>8, <2>2, <3>1, <3>2 DEF Arranged
  <2>3. QED
    BY <2>1, <2>2
<1>10. Sample' = [at |-> "sampling", left |-> {order[j + 1] : j \in indexes \ {i}},
                  doomed |-> ToSet(seen), size |-> pass.size]
  <2>1. /\ pass'.at = "sampling" /\ pass'.indexes = indexes \ {i} /\ pass'.keys = seen
        /\ pass'.size = pass.size /\ order' = order
    BY <1>2, <1>6
  <2>2. QED
    BY <2>1 DEF Sample
<1>11. {order[j + 1] : j \in indexes \ {i}} = Sample.left \ {k}
  BY <1>4 DEF Sample
<1>12. S!ExpiryLook
  <2>1. /\ Sample = [at |-> "sampling", left |-> Sample.left, doomed |-> ToSet(keys),
                     size |-> pass.size]
        /\ k \in Sample.left
    BY DEF Sample, PassLook
  <2>2. IsExpired(db[k], now) <=> S!IsExpired(db[k], now)
    BY DEF IsExpired, S!IsExpired
  <2>3. Sample' = [Sample EXCEPT
                     !.left = Sample.left \ {k},
                     !.doomed = IF S!IsExpired(db[k], now) THEN Sample.doomed \cup {k}
                                                           ELSE Sample.doomed]
    <3> DEFINE left == Sample.left \ {k}
               doomed == IF S!IsExpired(db[k], now) THEN Sample.doomed \cup {k}
                                                    ELSE Sample.doomed
               size == pass.size
               before == Sample.left
               found == ToSet(keys)
    <3>1. Sample.doomed = ToSet(keys)
      BY <2>1
    <3>2. ToSet(seen) = doomed
      BY <1>9, <2>2, <3>1
    <3>3. Sample = [at |-> "sampling", left |-> before, doomed |-> found, size |-> size]
      BY <2>1
    <3>4. Sample' = [at |-> "sampling", left |-> left, doomed |-> ToSet(seen), size |-> size]
      BY <1>10, <1>11
    <3> HIDE DEF left, doomed, size, before, found
    <3>5. [Sample EXCEPT !.left = left, !.doomed = doomed] =
            [at |-> "sampling", left |-> left, doomed |-> doomed, size |-> size]
      <4>1. ASSUME NEW x, x = [Sample EXCEPT !.left = left, !.doomed = doomed]
            PROVE  x = [at |-> "sampling", left |-> left, doomed |-> doomed, size |-> size]
        BY <3>3, <4>1
      <4>2. QED
        BY <4>1, Zenon
    <3>6. QED
      BY <3>2, <3>4, <3>5, Zenon DEF left, doomed
  <2>4. Sample.at = "sampling"
    BY <2>1
  <2> HIDE DEF k
  <2>5. \E x \in Sample.left :
          Sample' = [Sample EXCEPT
                       !.left = Sample.left \ {x},
                       !.doomed = IF S!IsExpired(db[x], now) THEN Sample.doomed \cup {x}
                                                             ELSE Sample.doomed]
    BY <2>1, <2>3, Zenon
  <2>6. QED
    BY <1>2, <2>4, <2>5, Zenon DEF S!ExpiryLook
<1>13. Arranged(order, DOMAIN db)'
  BY <1>2 DEF PInv
<1>14. Sampling'
  <2>1. /\ pass'.indexes = indexes \ {i} /\ pass'.keys = seen /\ pass'.size = pass.size
        /\ pass' = [at |-> "sampling", indexes |-> pass'.indexes,
                    keys |-> pass'.keys, size |-> pass'.size]
    BY <1>6
  <2>2. Cardinality(indexes \ {i}) = Cardinality(indexes) - 1
    BY <1>4, FS_RemoveElement
  <2>3. Len(seen) + Cardinality(indexes \ {i}) <= pass.size
    <3>1. Len(keys) + Cardinality(indexes) <= pass.size /\ pass.size \in Nat
      BY <1>3 DEF Sampling
    <3>2. QED
      BY <1>4, <1>9, <2>2, <3>1
  <2>4. \A j \in indexes \ {i} : order[j + 1] \notin ToSet(seen)
    <3>1. \A j \in indexes : order[j + 1] \notin ToSet(keys)
      BY <1>3 DEF Sampling
    <3>2. QED
      BY <1>4, <1>9, <3>1
  <2>5. indexes \ {i} \subseteq 0 .. Len(order) - 1 /\ pass.size \in Nat \ {0}
    BY <1>3 DEF Sampling
  <2> HIDE DEF indexes
  <2>6. QED
    BY <1>2, <1>9, <2>1, <2>3, <2>4, <2>5 DEF Sampling
<1>15. QED
  BY <1>12, <1>13, <1>14

\* The keys collected are removed one after the other.
LEMMA PassEndStep ==
  ASSUME PInv, PassEnd
  PROVE  S!ExpiryEnd /\ Arranged(order, DOMAIN db)' /\ (Quiet \/ Sampling)'
<1> DEFINE keys == pass.keys
           at == IF Clients!AnotherPass(Len(keys), pass.size) THEN "ready" ELSE "asleep"
<1>1. Sampling
  BY QuietSample DEF PassEnd, PInv
<1>2. /\ db' = SwapRemove(db, ToSet(keys)) /\ order' = Removal(order, keys)
      /\ pass' = Waiting(at) /\ lock' = None
      /\ UNCHANGED <<now, poisoned, pc, req, reply, scan, budget>>
  BY DEF PassEnd, Removal
<1>3. Arranged(order, DOMAIN db)'
  <2>1. Arranged(Removal(order, keys), DOMAIN db \ ToSet(keys))
    BY <1>1, RemovalArranged DEF Sampling, PInv
  <2>2. DOMAIN db' = DOMAIN db \ ToSet(keys)
    BY <1>2 DEF SwapRemove, Restrict
  <2>3. QED
    BY <1>2, <2>1, <2>2
<1>4. Quiet'
  <2>1. at \in {"ready", "asleep"}
    OBVIOUS
  <2> HIDE DEF at
  <2>2. QED
    BY <1>2, <2>1 DEF Quiet, Waiting
<1>5. S!Cardinality(ToSet(keys)) = Len(keys)
  <2>1. Arranged(keys, ToSet(keys))
    <3>1. keys \in Seq(DOMAIN db) /\ IsInjective(keys)
      BY <1>1 DEF Sampling
    <3>2. \A j \in 1 .. Len(keys) : keys[j] \in ToSet(keys)
      BY <3>1 DEF ToSet
    <3>3. keys \in Seq(ToSet(keys))
      BY <3>1, <3>2
    <3>4. QED
      BY <3>1, <3>3 DEF Arranged
  <2>2. Cardinality(ToSet(keys)) = Len(keys)
    BY <2>1, ArrangedLen
  <2>3. QED
    BY <2>2 DEF S!Cardinality, Cardinality
<1>6. /\ Sample.at = "sampling" /\ Sample.left = {} /\ Sample.doomed = ToSet(keys)
      /\ Sample.size = pass.size
  BY DEF Sample, PassEnd
<1>7. Sample' = S!Resting(IF S!AnotherPass(S!Cardinality(Sample.doomed), Sample.size)
                          THEN "ready" ELSE "asleep")
  <2>1. Sample' = S!Resting(at)
    BY <1>2, RestSample
  <2>2. QED
    BY <1>5, <1>6, <2>1 DEF S!AnotherPass, Clients!AnotherPass
<1>8. db' = S!SwapRemove(db, Sample.doomed)
  BY <1>2, <1>6 DEF S!SwapRemove, SwapRemove, S!Restrict, Restrict
<1>9. S!ExpiryEnd
  BY <1>2, <1>6, <1>7, <1>8 DEF S!ExpiryEnd
<1>10. QED
  BY <1>3, <1>4, <1>9

-----------------------------------------------------------------------------
(* The theorems. *)

\* The initial states.
LEMMA PInvInit == Init => S!Init /\ Keyed!Init /\ PInv
<1> SUFFICES ASSUME Init PROVE S!Init /\ Keyed!Init /\ PInv
  OBVIOUS
<1>1. order = <<>> /\ pass = Waiting("ready") /\ Clients!Init
  BY DEF Init
<1>2. Quiet
  BY <1>1 DEF Quiet, Waiting
<1>3. Sample = Keyed!Resting("ready")
  BY <1>1, <1>2, QuietSample DEF Waiting
<1>4. Keyed!Init
  BY <1>1, <1>3 DEF Sample, Keyed!Init, Clients!Init, Keyed!NoScan, Clients!NoScan,
     Keyed!Instants, Clients!Instants, Keyed!EmptyMap, Clients!EmptyMap
<1>5. S!Init
  BY <1>4 DEF Sample, Keyed!Init, S!Init, Keyed!NoScan, S!NoScan, Keyed!Instants, S!Instants,
     Keyed!EmptyMap, S!EmptyMap, Keyed!Resting, S!Resting
<1>6. S!IInv
  BY <1>5, S!InitInvariant, TextsAssumption, WidthAssumption, InstantAssumption,
     NoneAssumption, LowerAssumption, ParseAssumption, SecondAssumption, OverflowAssumption,
     MessagesAssumption, BoundAssumption, SampleAssumption, ClockAssumption, TasksAssumption,
     Zenon DEF S!Int64, Int64
<1>7. Arranged(order, DOMAIN db)
  <2>1. DOMAIN db = {}
    BY <1>1 DEF Clients!Init, Clients!EmptyMap
  <2>2. <<>> \in Seq({}) /\ IsInjective(<<>>) /\ ToSet(<<>>) = {}
    BY EmptySeq DEF IsInjective, ToSet
  <2>3. QED
    BY <1>1, <2>1, <2>2 DEF Arranged
<1>8. QED
  BY <1>2, <1>4, <1>5, <1>6, <1>7 DEF PInv

\* Each step keeps the invariant and is one of Server.
LEMMA PInvStep == PInv /\ [Next]_vars => PInv' /\ [S!Next]_(S!vars)
<1> SUFFICES ASSUME PInv, [Next]_vars PROVE PInv' /\ [S!Next]_(S!vars)
  OBVIOUS
<1>1. [S!Next]_(S!vars) /\ Arranged(order, DOMAIN db)' /\ (Quiet \/ Sampling)'
  <2>1. ASSUME NEW c \in Conns, Connection(c)
        PROVE  S!Next /\ Arranged(order, DOMAIN db)' /\ (Quiet \/ Sampling)'
    BY <2>1, ConnectionStep, SameSteps DEF S!Next
  <2>2. CASE Pass
    <3>1. S!ExpiryTask /\ Arranged(order, DOMAIN db)' /\ (Quiet \/ Sampling)'
      BY <2>2, PassIdleStep, PassBeginStep, PassLookStep, PassEndStep, PassWakeStep,
         PassPanicsStep DEF Pass, S!ExpiryTask
    <3>2. QED
      BY <3>1 DEF S!Next
  <2>3. CASE Tick
    <3>1. UNCHANGED <<db, order, pass>>
      BY <2>3 DEF Tick, Clients!Tick
    <3>2. Arranged(order', DOMAIN db')
      BY <3>1 DEF PInv
    <3>3. Sample' = Sample /\ Arranged(order, DOMAIN db)' /\ (Quiet \/ Sampling)'
      BY <3>1, <3>2, ApartFromPass
    <3>4. S!Tick
      BY <2>3, <3>3 DEF Tick, Clients!Tick, S!Tick, Clients!Instants, S!Instants
    <3>5. QED
      BY <3>3, <3>4 DEF S!Next
  <2>4. CASE UNCHANGED vars
    <3>1. UNCHANGED <<commandVars, order, pass>>
      BY <2>4 DEF vars
    <3>2. Arranged(order', DOMAIN db')
      BY <3>1 DEF PInv, commandVars
    <3>3. Sample' = Sample /\ Arranged(order, DOMAIN db)' /\ (Quiet \/ Sampling)'
      BY <3>1, <3>2, ApartFromPass
    <3>4. UNCHANGED S!vars
      BY <3>1, <3>3 DEF commandVars, S!vars
    <3>5. QED
      BY <3>3, <3>4
  <2>5. QED
    BY <2>1, <2>2, <2>3, <2>4 DEF Next
<1>2. S!IInv'
  <2>1. S!IInv /\ [S!Next]_(S!vars)
    BY <1>1 DEF PInv
  <2>2. QED
    BY <2>1, S!InvariantStep, TextsAssumption, WidthAssumption, InstantAssumption,
       NoneAssumption, LowerAssumption, ParseAssumption, SecondAssumption, OverflowAssumption,
       MessagesAssumption, BoundAssumption, SampleAssumption, ClockAssumption,
       TasksAssumption, Zenon DEF S!Int64, Int64
<1>3. QED
  BY <1>1, <1>2 DEF PInv

\* The invariant.
THEOREM PositionsInvariant == Spec => []PInv
<1>1. Init => PInv
  BY PInvInit
<1>2. PInv /\ [Next]_vars => PInv'
  BY PInvStep
<1>3. QED
  BY <1>1, <1>2, PTL DEF Spec

(***************************************************************************)
(* During a pass no position of the sample runs off the end of the map, no *)
(* key is collected twice, and no more are collected than were drawn       *)
(* (src/src/db.rs:48-76).                                                  *)
(***************************************************************************)
THEOREM SamplesStand == Spec => []SampleStands
<1>1. PInv => SampleStands
  <2>1. SUFFICES ASSUME PInv, pass.at = "sampling" PROVE SampleStands
    BY DEF SampleStands
  <2>2. Sampling
    BY <2>1, QuietSample DEF PInv
  <2>3. ToSet(pass.keys) \subseteq DOMAIN db
    BY <2>2 DEF Sampling, ToSet
  <2>4. QED
    BY <2>2, <2>3 DEF SampleStands, Sampling
<1>2. QED
  BY <1>1, PositionsInvariant, PTL

(***************************************************************************)
(* A pass over positions is a pass over keys: Positions implements Server. *)
(***************************************************************************)
THEOREM PassesAreOverKeys == Spec => KeyedSpec
<1>1. Init => Keyed!Init
  BY PInvInit
<1>2. PInv /\ [Next]_vars => [Keyed!Next]_(Keyed!vars)
  <2>1. S!vars = Keyed!vars /\ S!vars' = Keyed!vars'
    BY DEF S!vars, Keyed!vars, Sample
  <2>2. QED
    BY <2>1, PInvStep, SameNext
<1>3. QED
  BY <1>1, <1>2, PositionsInvariant, PTL DEF Spec, KeyedSpec, Keyed!Spec
====
