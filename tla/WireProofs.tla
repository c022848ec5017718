----------------------------- MODULE WireProofs -----------------------------
(***************************************************************************)
(* For any requests, responses, read buffer and cuts of the stream: the    *)
(* loop of main.rs over bytes implements the loop over messages, and the   *)
(* client that reads the replies off the stream finds the answers to its   *)
(* messages.                                                               *)
(*                                                                         *)
(* The invariant IInv puts together what each part knows of the bytes: the *)
(* deserializer is on its way through the buffer (Midway, from             *)
(* DeserializerProofs), each buffer handled so far has an answer, and one  *)
(* to its strings if it encodes an array (Answered), and the stream is     *)
(* what the answers written so far are serialized to (Streamed).  Which    *)
(* message a buffer is comes from ConnectionProofs, of which Wire is an    *)
(* instance once ImplementsConnection is known.  That the client reads the *)
(* replies back is a fact about any stream made of them: its reader is     *)
(* right at the end of a reply if it was right at the beginning.           *)
(***************************************************************************)
EXTENDS Wire, SequenceLemmas

-----------------------------------------------------------------------------
(* Numbers, spelled and read. *)

\* A digit says what it is the digit of.
LEMMA DigitsAreDigits ==
  \A n \in 0 .. 9 : Digits[n + 1] \in DOMAIN DigitValue /\ DigitValue[Digits[n + 1]] = n
<1>1. \A n \in 0 .. 9 : Digits[n + 1] \in DOMAIN DigitValue
  <2>1. DOMAIN DigitValue = {Digits[i] : i \in DOMAIN Digits} /\ DOMAIN Digits = 1 .. 10
    BY DEF DigitValue, ToSet, Digits
  <2>2. QED
    BY <2>1
<1>2. \A n \in 0 .. 9, k \in 0 .. 9 : Digits[n + 1] = Digits[k + 1] => n = k
  BY DEF Digits
<1>3. \A d \in DOMAIN DigitValue : DigitValue[d] = CHOOSE k \in 0 .. 9 : Digits[k + 1] = d
  BY DEF DigitValue
<1>4. QED
  BY <1>1, <1>2, <1>3

\* They are natural numbers, and no byte of a line break or type is one.
LEMMA DigitTypes ==
  /\ \A d \in DOMAIN DigitValue : DigitValue[d] \in 0 .. 9
  /\ CR \notin DOMAIN DigitValue /\ "+" \notin DOMAIN DigitValue
<1>1. DOMAIN DigitValue = {Digits[i] : i \in DOMAIN Digits} /\ DOMAIN Digits = 1 .. 10
  BY DEF DigitValue, ToSet, Digits
<1>2. \A d \in DOMAIN DigitValue : \E n \in 0 .. 9 : d = Digits[n + 1]
  <2>1. \A i \in 1 .. 10 : i - 1 \in 0 .. 9 /\ (i - 1) + 1 = i
    OBVIOUS
  <2>2. QED
    BY <1>1, <2>1
<1>3. \A i \in 1 .. 10 : Digits[i] # "CR" /\ Digits[i] # "+"
  BY DEF Digits
<1>4. \A d \in DOMAIN DigitValue : DigitValue[d] \in 0 .. 9
  BY <1>2, DigitsAreDigits
<1>5. \A d \in DOMAIN DigitValue : d # "CR" /\ d # "+"
  BY <1>2, <1>3
<1>6. QED
  BY <1>4, <1>5 DEF CR

\* What ValueOf computes its result with.
Values(f, digits, n) ==
  f = [i \in 0 .. n |-> IF i = 0 THEN 0 ELSE 10 * f[i - 1] + DigitValue[digits[i]]]

\* There is such a function for the first n digits.
LEMMA ValuesExist ==
  ASSUME NEW digits
  PROVE  \A n \in Nat : \E f : Values(f, digits, n)
<1> DEFINE S == {n \in Nat : \E f : Values(f, digits, n)}
<1>1. 0 \in S
  <2>1. Values([i \in 0 .. 0 |-> 0], digits, 0)
    BY DEF Values
  <2>2. QED
    BY <2>1
<1>2. ASSUME NEW n \in Nat, n \in S
      PROVE  n + 1 \in S
  <2>1. PICK f : Values(f, digits, n)
    BY <1>2
  <2> DEFINE g == [i \in 0 .. n + 1 |-> IF i = 0 THEN 0 ELSE 10 * f[i - 1] + DigitValue[digits[i]]]
  <2>2. \A i \in 0 .. n : g[i] = f[i]
    <3>1. f = [i \in 0 .. n |-> IF i = 0 THEN 0 ELSE 10 * f[i - 1] + DigitValue[digits[i]]]
      BY <2>1 DEF Values
    <3>2. \A i \in 0 .. n : f[i] = IF i = 0 THEN 0 ELSE 10 * f[i - 1] + DigitValue[digits[i]]
      BY <3>1
    <3>3. QED
      BY <3>2
  <2>3. \A i \in 0 .. n + 1 : g[i] = IF i = 0 THEN 0 ELSE 10 * g[i - 1] + DigitValue[digits[i]]
    <3>1. ASSUME NEW i \in 0 .. n + 1, i # 0
          PROVE  g[i] = 10 * g[i - 1] + DigitValue[digits[i]]
      <4>1. i - 1 \in 0 .. n
        BY <3>1
      <4>2. g[i - 1] = f[i - 1]
        BY <2>2, <4>1
      <4>3. g[i] = 10 * f[i - 1] + DigitValue[digits[i]]
        BY <3>1
      <4>4. QED
        BY <4>2, <4>3
    <3>2. g[0] = 0
      OBVIOUS
    <3>3. QED
      BY <3>1, <3>2
  <2>4. Values(g, digits, n + 1)
    BY <2>3 DEF Values
  <2>5. QED
    BY <2>4
<1>3. \A n \in Nat : n \in S
  <2> HIDE DEF S
  <2>1. QED
    BY <1>1, <1>2, Induction
<1>4. QED
  BY <1>3

\* ValueOf is the value of one at the end.
LEMMA ValueDefined ==
  ASSUME NEW digits, Len(digits) \in Nat
  PROVE  \E f : Values(f, digits, Len(digits)) /\ ValueOf(digits) = f[Len(digits)]
<1> DEFINE c == CHOOSE f : f = [i \in 0 .. Len(digits) |->
                  IF i = 0 THEN 0 ELSE 10 * f[i - 1] + DigitValue[digits[i]]]
<1>1. Values(c, digits, Len(digits))
  <2>1. \E f : f = [i \in 0 .. Len(digits) |->
                      IF i = 0 THEN 0 ELSE 10 * f[i - 1] + DigitValue[digits[i]]]
    BY ValuesExist DEF Values
  <2>2. QED
    BY <2>1 DEF Values
<1>2. ValueOf(digits) = c[Len(digits)]
  BY DEF ValueOf
<1>3. QED
  BY <1>1, <1>2

\* Of no digits ValueOf makes 0...
LEMMA ValueOfNone == ValueOf(<<>>) = 0
<1>1. PICK f : Values(f, <<>>, 0) /\ ValueOf(<<>>) = f[0]
  <2>1. Len(<<>>) = 0
    OBVIOUS
  <2>2. QED
    BY <2>1, ValueDefined
<1>2. f[0] = 0
  BY <1>1 DEF Values
<1>3. QED
  BY <1>1, <1>2

\* ... and of one more, ten times what it makes of those before, and the digit.
LEMMA ValueOfMore ==
  ASSUME NEW A, NEW s \in Seq(A), NEW d \in A
  PROVE  ValueOf(s \o <<d>>) = 10 * ValueOf(s) + DigitValue[d]
<1> DEFINE t == s \o <<d>>
           n == Len(s)
<1>1. /\ n \in Nat /\ Len(t) = n + 1 /\ t[n + 1] = d
      /\ \A i \in 1 .. n : t[i] = s[i]
  OBVIOUS
<1> HIDE DEF t, n
<1>2. PICK f : Values(f, s, n) /\ ValueOf(s) = f[n]
  BY <1>1, ValueDefined DEF n
<1>3. PICK g : Values(g, t, n + 1) /\ ValueOf(t) = g[n + 1]
  <2>1. n + 1 \in Nat
    BY <1>1
  <2>2. QED
    BY <1>1, <2>1, ValueDefined
<1>4. \A i \in 0 .. n : f[i] = IF i = 0 THEN 0 ELSE 10 * f[i - 1] + DigitValue[s[i]]
  <2>1. f = [i \in 0 .. n |-> IF i = 0 THEN 0 ELSE 10 * f[i - 1] + DigitValue[s[i]]]
    BY <1>2 DEF Values
  <2>2. QED
    BY <2>1
<1>5. \A i \in 0 .. n + 1 : g[i] = IF i = 0 THEN 0 ELSE 10 * g[i - 1] + DigitValue[t[i]]
  <2>1. g = [i \in 0 .. n + 1 |-> IF i = 0 THEN 0 ELSE 10 * g[i - 1] + DigitValue[t[i]]]
    BY <1>3 DEF Values
  <2>2. QED
    BY <2>1
<1> DEFINE S == {i \in Nat : i \in 0 .. n => f[i] = g[i]}
<1>6. 0 \in S
  BY <1>1, <1>4, <1>5
<1>7. ASSUME NEW i \in Nat, i \in S PROVE i + 1 \in S
  <2>1. SUFFICES ASSUME i + 1 \in 0 .. n PROVE f[i + 1] = g[i + 1]
    OBVIOUS
  <2>2. /\ i \in 0 .. n /\ i + 1 \in 1 .. n /\ i + 1 \in 0 .. n + 1
        /\ i + 1 # 0 /\ (i + 1) - 1 = i
    BY <1>1, <2>1
  <2>3. f[i] = g[i] /\ t[i + 1] = s[i + 1]
    BY <1>1, <1>7, <2>2
  <2>4. /\ f[i + 1] = 10 * f[i] + DigitValue[s[i + 1]]
        /\ g[i + 1] = 10 * g[i] + DigitValue[t[i + 1]]
    BY <1>4, <1>5, <2>1, <2>2
  <2>5. QED
    BY <2>3, <2>4
<1>8. \A i \in Nat : i \in S
  <2> HIDE DEF S
  <2>1. QED
    BY <1>6, <1>7, Induction
<1>9. f[n] = g[n]
  BY <1>1, <1>8
<1>10. g[n + 1] = 10 * g[n] + DigitValue[t[n + 1]]
  <2>1. n + 1 \in 0 .. n + 1 /\ n + 1 # 0 /\ (n + 1) - 1 = n
    BY <1>1
  <2>2. QED
    BY <1>5, <2>1
<1>11. QED
  BY <1>1, <1>2, <1>3, <1>9, <1>10 DEF t

\* What digits spell is a natural number.
LEMMA ValueType ==
  ASSUME NEW digits, IsNumber(digits), Len(digits) \in Nat, DOMAIN digits = 1 .. Len(digits)
  PROVE  ValueOf(digits) \in Nat
<1> DEFINE n == Len(digits)
<1>1. PICK f : Values(f, digits, n) /\ ValueOf(digits) = f[n]
  BY ValueDefined
<1>2. \A i \in 0 .. n : f[i] = IF i = 0 THEN 0 ELSE 10 * f[i - 1] + DigitValue[digits[i]]
  <2>1. f = [i \in 0 .. n |-> IF i = 0 THEN 0 ELSE 10 * f[i - 1] + DigitValue[digits[i]]]
    BY <1>1 DEF Values
  <2>2. QED
    BY <2>1
<1>3. \A i \in 1 .. n : DigitValue[digits[i]] \in Nat
  BY DigitTypes DEF IsNumber
<1>4. n \in Nat
  OBVIOUS
<1> HIDE DEF n
<1> DEFINE S == {i \in Nat : i \in 0 .. n => f[i] \in Nat}
<1>5. 0 \in S
  BY <1>2, <1>4
<1>6. ASSUME NEW i \in Nat, i \in S PROVE i + 1 \in S
  <2>1. SUFFICES ASSUME i + 1 \in 0 .. n PROVE f[i + 1] \in Nat
    OBVIOUS
  <2>2. i \in 0 .. n /\ i + 1 \in 1 .. n /\ i + 1 # 0 /\ (i + 1) - 1 = i
    BY <1>4, <2>1
  <2>3. f[i] \in Nat /\ DigitValue[digits[i + 1]] \in Nat
    BY <1>3, <1>6, <2>2
  <2>4. f[i + 1] = 10 * f[i] + DigitValue[digits[i + 1]]
    BY <1>2, <2>1, <2>2
  <2>5. QED
    BY <2>3, <2>4
<1>7. \A i \in Nat : i \in S
  <2> HIDE DEF S
  <2>1. QED
    BY <1>5, <1>6, Induction
<1>8. QED
  BY <1>1, <1>4, <1>7

\* What Decimal computes its result with.
Decimals(f, n) ==
  f = [k \in 0 .. n |-> (IF k < 10 THEN <<>> ELSE f[k \div 10]) \o <<Digits[(k % 10) + 1]>>]

\* A number of more than one digit is larger than it is without the last.
LEMMA FewerDigits ==
  ASSUME NEW k \in Nat
  PROVE  /\ k % 10 \in 0 .. 9 /\ k \div 10 \in Nat /\ k = 10 * (k \div 10) + (k % 10)
         /\ k >= 10 => k \div 10 < k
         /\ k < 10 => k % 10 = k
OBVIOUS

\* There is such a function for the numbers up to n.
LEMMA DecimalsExist == \A n \in Nat : \E f : Decimals(f, n)
<1> DEFINE S == {n \in Nat : \E f : Decimals(f, n)}
           D(f, k) == (IF k < 10 THEN <<>> ELSE f[k \div 10]) \o <<Digits[(k % 10) + 1]>>
<1>1. 0 \in S
  <2> DEFINE f == [k \in 0 .. 0 |-> <<>> \o <<Digits[(k % 10) + 1]>>]
  <2>1. f = [k \in 0 .. 0 |-> D(f, k)]
    OBVIOUS
  <2>2. QED
    BY <2>1 DEF Decimals
<1>2. ASSUME NEW n \in Nat, n \in S
      PROVE  n + 1 \in S
  <2>1. PICK f : Decimals(f, n)
    BY <1>2
  <2>2. f = [k \in 0 .. n |-> D(f, k)]
    BY <2>1 DEF Decimals
  <2> DEFINE g == [k \in 0 .. n + 1 |-> IF k \in 0 .. n THEN f[k] ELSE D(f, k)]
  <2>3. \A k \in 0 .. n + 1 : D(g, k) = D(f, k)
    <3>1. ASSUME NEW k \in 0 .. n + 1, k >= 10 PROVE g[k \div 10] = f[k \div 10]
      <4>1. k \div 10 \in 0 .. n
        BY <3>1, FewerDigits
      <4>2. QED
        BY <4>1
    <3> HIDE DEF g
    <3>2. ASSUME NEW k \in 0 .. n + 1 PROVE D(g, k) = D(f, k)
      <4>1. CASE k >= 10
        BY <3>1, <4>1
      <4>2. CASE k < 10
        BY <4>2
      <4>3. k >= 10 \/ k < 10
        OBVIOUS
      <4> HIDE DEF D
      <4>4. QED
        BY <4>1, <4>2, <4>3
    <3> HIDE DEF D
    <3>3. QED
      BY <3>2
  <2>4. \A k \in 0 .. n + 1 : g[k] = D(f, k)
    <3> HIDE DEF D
    <3>1. \A k \in 0 .. n : f[k] = D(f, k)
      BY <2>2
    <3>2. QED
      BY <3>1
  <2>5. g = [k \in 0 .. n + 1 |-> D(g, k)]
    <3>1. g = [k \in 0 .. n + 1 |-> g[k]]
      OBVIOUS
    <3> HIDE DEF D, g
    <3>2. QED
      BY <2>3, <2>4, <3>1
  <2>6. Decimals(g, n + 1)
    <3> HIDE DEF g
    <3>1. QED
      BY <2>5 DEF Decimals
  <2>7. QED
    <3> HIDE DEF g
    <3>1. QED
      BY <2>6
<1>3. \A n \in Nat : n \in S
  <2> HIDE DEF S
  <2>1. QED
    BY <1>1, <1>2, Induction
<1>4. QED
  BY <1>3

\* Decimal is the value of one at the end.
LEMMA DecimalDefined ==
  ASSUME NEW n \in Nat
  PROVE  \E f : Decimals(f, n) /\ Decimal(n) = f[n]
<1> DEFINE P(f) == f = [k \in 0 .. n |->
                  (IF k < 10 THEN <<>> ELSE f[k \div 10]) \o <<Digits[(k % 10) + 1]>>]
           c == CHOOSE f : P(f)
<1>1. \E f : P(f)
  BY DecimalsExist DEF Decimals
<1>2. P(c)
  <2> HIDE DEF P
  <2>1. QED
    BY <1>1
<1>3. Decimal(n) = c[n]
  BY DEF Decimal
<1> HIDE DEF c
<1>4. QED
  BY <1>2, <1>3 DEF Decimals

\* The digits of text spell n.
Spelled(text, n) ==
  text \in Seq(DOMAIN DigitValue) /\ Len(text) > 0 /\ ValueOf(text) = n

\* What Decimal makes of a number is digits, and they spell it.
LEMMA DecimalSpells ==
  ASSUME NEW n \in Nat
  PROVE  Spelled(Decimal(n), n)
<1>1. PICK f : Decimals(f, n) /\ Decimal(n) = f[n]
  BY DecimalDefined
<1>2. \A k \in 0 .. n :
        f[k] = (IF k < 10 THEN <<>> ELSE f[k \div 10]) \o <<Digits[(k % 10) + 1]>>
  <2>1. f = [k \in 0 .. n |-> (IF k < 10 THEN <<>> ELSE f[k \div 10]) \o <<Digits[(k % 10) + 1]>>]
    BY <1>1 DEF Decimals
  <2>2. QED
    BY <2>1
<1>3. ASSUME NEW k \in 0 .. n, NEW rest \in Seq(DOMAIN DigitValue), ValueOf(rest) \in Nat,
             k = 10 * ValueOf(rest) + (k % 10), f[k] = rest \o <<Digits[(k % 10) + 1]>>
      PROVE  Spelled(f[k], k)
  <2> DEFINE d == Digits[(k % 10) + 1]
  <2>1. d \in DOMAIN DigitValue /\ DigitValue[d] = k % 10
    BY FewerDigits, DigitsAreDigits
  <2> HIDE DEF d
  <2>2. ValueOf(rest \o <<d>>) = 10 * ValueOf(rest) + DigitValue[d]
    BY <2>1, ValueOfMore
  <2>3. rest \o <<d>> \in Seq(DOMAIN DigitValue) /\ Len(rest \o <<d>>) > 0
    BY <2>1
  <2>4. f[k] = rest \o <<d>>
    BY <1>3 DEF d
  <2>5. QED
    BY <1>3, <2>1, <2>2, <2>3, <2>4 DEF Spelled
<1> DEFINE S == {m \in Nat : \A k \in 0 .. n : k < m => Spelled(f[k], k)}
<1>4. 0 \in S
  OBVIOUS
<1>5. ASSUME NEW m \in Nat, m \in S PROVE m + 1 \in S
  <2>1. SUFFICES ASSUME m \in 0 .. n PROVE Spelled(f[m], m)
    BY <1>5
  <2>2. CASE m < 10
    <3>1. <<>> \in Seq(DOMAIN DigitValue) /\ ValueOf(<<>>) = 0
      BY EmptySeq, ValueOfNone
    <3>2. ValueOf(<<>>) \in Nat /\ m = 10 * ValueOf(<<>>) + (m % 10)
      BY <2>2, <3>1, FewerDigits
    <3>3. f[m] = <<>> \o <<Digits[(m % 10) + 1]>>
      BY <1>2, <2>1, <2>2
    <3>4. QED
      BY <1>3, <2>1, <3>1, <3>2, <3>3
  <2>3. CASE m >= 10
    <3> DEFINE v == m \div 10
    <3>1. v \in Nat /\ v \in 0 .. n /\ v < m /\ m = 10 * v + (m % 10)
      BY <2>1, <2>3, FewerDigits
    <3>2. Spelled(f[v], v)
      BY <1>5, <3>1
    <3>3. f[m] = f[v] \o <<Digits[(m % 10) + 1]>>
      BY <1>2, <2>1, <2>3
    <3> HIDE DEF v
    <3>4. QED
      BY <1>3, <2>1, <3>1, <3>2, <3>3 DEF Spelled
  <2>4. QED
    BY <2>2, <2>3
<1>6. \A m \in Nat : m \in S
  <2> HIDE DEF S
  <2>1. QED
    BY <1>4, <1>5, Induction
<1>7. n + 1 \in S /\ n \in 0 .. n /\ n < n + 1
  BY <1>6
<1>8. QED
  BY <1>1, <1>7

\* So it reads back as the number, as long as a u32 can say it.
LEMMA DecimalReads ==
  ASSUME NEW n \in Nat
  PROVE  /\ IsNumber(Decimal(n)) /\ ValueOf(Decimal(n)) = n
         /\ n <= MaxU32 => U32(Decimal(n)) = n
<1> DEFINE t == Decimal(n)
<1>1. t \in Seq(DOMAIN DigitValue) /\ Len(t) > 0 /\ ValueOf(t) = n
  BY DecimalSpells DEF Spelled
<1> HIDE DEF t
<1>2. t # <<>> /\ \A i \in DOMAIN t : t[i] \in DOMAIN DigitValue
  BY <1>1
<1>3. IsNumber(t)
  BY <1>2 DEF IsNumber
<1>4. t[1] # "+"
  BY <1>1, <1>2, DigitTypes
<1>5. n <= MaxU32 => U32(t) = n
  BY <1>1, <1>3, <1>4, U32Assumption DEF U32
<1>6. QED
  BY <1>1, <1>3, <1>5 DEF t

-----------------------------------------------------------------------------
(* The deserializer, given any bytes. *)

D == INSTANCE DeserializerProofs WITH Inputs <- Seq(Bytes), Arrays <- Seq(Strings) \ {<<>>}

\* Its messages are those of this module.
LEMMA SameNumbers ==
  /\ \A t : D!U32(t) = U32(t)
  /\ D!Strings = Strings
<1>1. \A t : D!ValueOf(t) = ValueOf(t)
  BY DEF D!ValueOf, ValueOf, D!DigitValue, DigitValue, D!Digits, Digits, D!ToSet, ToSet
<1>2. \A t : D!IsNumber(t) <=> IsNumber(t)
  BY DEF D!IsNumber, IsNumber, D!DigitValue, DigitValue, D!Digits, Digits, D!ToSet, ToSet
<1>3. \A t : D!U32(t) = U32(t)
  BY <1>1, <1>2 DEF D!U32, U32
<1>4. D!Strings = Strings
  BY DEF D!Strings, Strings, D!IsUtf8, IsUtf8, D!Lead, Lead, D!Continuation, Continuation
<1>5. QED
  BY <1>3, <1>4

\* And an array is encoded as it is here.
LEMMA SameEncodings ==
  /\ \A count, sizes, ps : D!Encode(count, sizes, ps) = Encode(count, sizes, ps)
  /\ \A m, ps, numerals : D!Encodes(m, ps, numerals) <=> Encodes(m, ps, numerals)
<1>1. \A count, sizes, ps : D!Encode(count, sizes, ps) = Encode(count, sizes, ps)
  BY DEF D!Encode, Encode, D!BulkString, BulkString, D!CRLF, CRLF, D!CR, CR, D!LF, LF,
         D!ARRAY, ARRAY, D!BULK_STRING, BULK_STRING, D!FlattenSeq, FlattenSeq
<1>2. \A m, ps, numerals : D!Encodes(m, ps, numerals) <=> Encodes(m, ps, numerals)
  BY <1>1, SameNumbers DEF D!Encodes, Encodes
<1>3. QED
  BY <1>1, <1>2

\* What it assumes.
LEMMA InputsHold ==
  Seq(Bytes) \subseteq Seq(Bytes) /\ Seq(Strings) \ {<<>>} \subseteq Seq(D!Strings) \ {<<>>}
BY SameNumbers

\* Its steps are those of the task.
LEMMA SameSteps == Deserialize!Next => D!Next
BY Zenon DEF Deserialize!Next, D!Next, Deserialize!InvalidStart, D!InvalidStart,
       Deserialize!ArraySize, D!ArraySize, Deserialize!CheckBulkStringType,
       D!CheckBulkStringType, Deserialize!BulkStringSize, D!BulkStringSize,
       Deserialize!BulkStringData, D!BulkStringData, Deserialize!JumpToLf, D!JumpToLf,
       Deserialize!EndOfMsg, D!EndOfMsg, Deserialize!Refuse, D!Refuse, Deserialize!Has, D!Has,
       Deserialize!Slice, D!Slice, Deserialize!CrLfs, D!CrLfs, Deserialize!Min, D!Min,
       Deserialize!U32, D!U32, Deserialize!IsNumber, D!IsNumber, Deserialize!ValueOf, D!ValueOf,
       Deserialize!DigitValue, D!DigitValue, Deserialize!Digits, D!Digits, Deserialize!ToSet,
       D!ToSet, Deserialize!IsUtf8, D!IsUtf8, Deserialize!Lead, D!Lead,
       Deserialize!Continuation, D!Continuation, Deserialize!ARRAY, D!ARRAY,
       Deserialize!BULK_STRING, D!BULK_STRING, Deserialize!CR, D!CR, Deserialize!LF, D!LF

\* What is known of it on its way through a message.
Midway == D!Inv /\ D!Followed

\* Arrays of one string or more, and the texts that are numbers.
Arrays == Seq(Strings) \ {<<>>}
Numerals == {t \in Seq(Bytes) : U32(t) # None}

\* It is known at the beginning...
LEMMA MidwayAtFirst == D!Init => Midway
BY BytesAssumption, U32Assumption, NoNumberAssumption, InputsHold,
   D!InitInvariant, D!InitParsed, D!InitFollowed, Zenon DEF Midway, D!Inv

\* ... and after each step.
LEMMA MidwayStep == Midway /\ [D!Next]_(D!vars) => Midway'
<1> SUFFICES ASSUME Midway, [D!Next]_(D!vars) PROVE Midway'
  OBVIOUS
<1>1. D!IInv /\ D!Inv /\ D!Followed /\ [D!Next]_(D!vars)
  BY DEF Midway, D!Inv
<1>2. D!IInv'
  BY <1>1, BytesAssumption, U32Assumption, NoNumberAssumption, InputsHold, D!InvariantStep, Zenon
<1>3. D!Parsed'
  BY <1>1, BytesAssumption, U32Assumption, NoNumberAssumption, InputsHold, D!ParsedStep, Zenon
<1>4. D!Followed'
  BY <1>1, BytesAssumption, U32Assumption, NoNumberAssumption, InputsHold, D!FollowedStep, Zenon
<1>5. QED
  BY <1>2, <1>3, <1>4 DEF Midway, D!Inv

\* What it accepts is an encoding of the strings it returns.
LEMMA AcceptedEncodes ==
  ASSUME Midway, at = "accepted"
  PROVE  params \in Arrays /\ Encodes(msg, params, Numerals)
<1>1. D!Sound
  BY BytesAssumption, U32Assumption, NoNumberAssumption, InputsHold, D!ParsedIsSound, Zenon
     DEF Midway
<1>2. params # <<>> /\ Encodes(msg, params, D!NumeralsIn(msg))
  BY <1>1, SameEncodings DEF D!Sound
<1>3. msg \in Seq(Bytes) /\ params \in Seq(Strings)
  BY SameNumbers DEF Midway, D!Inv, D!IInv, D!TypeOK
<1>4. D!NumeralsIn(msg) \subseteq Seq(Bytes)
  BY <1>3, BytesAssumption, U32Assumption, NoNumberAssumption, InputsHold, D!NumeralsType, Zenon
<1>5. D!NumeralsIn(msg) \subseteq Numerals
  BY <1>4, SameNumbers DEF D!NumeralsIn, Numerals
<1>6. Encodes(msg, params, Numerals)
  BY <1>2, <1>5 DEF Encodes
<1>7. QED
  BY <1>2, <1>3, <1>6 DEF Arrays

\* Of an encoding it returns the strings.
LEMMA EncodedAccepted ==
  ASSUME Midway, at \in {"accepted", "refused"}, NEW ps \in Arrays, Encodes(msg, ps, Numerals)
  PROVE  at = "accepted" /\ params = ps
<1>1. D!IInv /\ D!Followed
  BY DEF Midway, D!Inv
<1>2. ps \in Seq(D!Strings) \ {<<>>} /\ Numerals \in SUBSET Seq(Bytes)
  BY SameNumbers DEF Arrays, Numerals
<1>3. D!Encodes(msg, ps, Numerals)
  BY SameEncodings
<1>4. QED
  BY <1>1, <1>2, <1>3, BytesAssumption, U32Assumption, NoNumberAssumption, InputsHold,
     D!FollowedToTheEnd, Zenon

\* What a client sends is an encoding.
LEMMA MessageEncodes ==
  ASSUME NEW ps \in Requests
  PROVE  ps \in Arrays /\ Message(ps) \in Seq(Bytes) /\ Encodes(Message(ps), ps, Numerals)
<1>1. /\ ps \in Seq(Strings) \ {<<>>} /\ Len(ps) \in Nat /\ DOMAIN ps = 1 .. Len(ps)
      /\ \A i \in 1 .. Len(ps) : ps[i] \in Seq(Bytes) /\ Len(ps[i]) \in Nat
  <2>1. ps \in Seq(Strings) \ {<<>>}
    BY RequestsAssumption
  <2>2. \A i \in 1 .. Len(ps) : ps[i] \in Strings
    BY <2>1
  <2>3. \A x \in Strings : x \in Seq(Bytes) /\ Len(x) \in Nat
    BY DEF Strings
  <2>4. QED
    BY <2>1, <2>2, <2>3
<1>2. \A n \in {Len(ps)} \cup {Len(ps[i]) : i \in DOMAIN ps} :
        n <= MaxU32 /\ Decimal(n) \in Seq(Bytes)
  BY RequestsAssumption
<1>3. ASSUME NEW n \in Nat, n <= MaxU32, Decimal(n) \in Seq(Bytes)
      PROVE  Decimal(n) \in Numerals /\ U32(Decimal(n)) = n
  BY <1>3, DecimalReads, NoNumberAssumption DEF Numerals
<1>4. Decimal(Len(ps)) \in Numerals /\ U32(Decimal(Len(ps))) = Len(ps)
  BY <1>1, <1>2, <1>3
<1>5. \A i \in DOMAIN ps : Decimal(Len(ps[i])) \in Numerals /\ U32(Decimal(Len(ps[i]))) = Len(ps[i])
  BY <1>1, <1>2, <1>3
<1>6. /\ Sizes(ps) \in [DOMAIN ps -> Numerals]
      /\ \A i \in DOMAIN ps : U32(Sizes(ps)[i]) = Len(ps[i])
  BY <1>5 DEF Sizes
<1>7. Encodes(Message(ps), ps, Numerals)
  BY <1>4, <1>6 DEF Encodes, Message
<1>8. Message(ps) \in Seq(Bytes)
  <2> DEFINE count == Decimal(Len(ps))
             sizes == Sizes(ps)
  <2>1. count \in Seq(Bytes)
    BY <1>4 DEF Numerals
  <2>2. \A i \in 1 .. Len(ps) : sizes[i] \in Seq(Bytes)
    BY <1>1, <1>6 DEF Numerals
  <2>3. ps \in Seq(Seq(Bytes))
    <3>1. Strings \subseteq Seq(Bytes)
      BY DEF Strings
    <3>2. QED
      BY <1>1, <3>1, SeqMonotonic
  <2> DEFINE a == D!Count(count)
             b == D!FlattenSeq(D!Elements(sizes, ps))
  <2> HIDE DEF count, sizes
  <2>4. D!Encode(count, sizes, ps) = a \o b /\ a \in Seq(Bytes) /\ b \in Seq(Bytes)
    BY <2>1, <2>2, <2>3, BytesAssumption, U32Assumption, NoNumberAssumption, InputsHold,
       D!EncodeParts, Zenon
  <2>5. a \o b \in Seq(Bytes)
    <3> HIDE DEF a, b
    <3>1. QED
      BY <2>4
  <2>6. Encode(count, sizes, ps) \in Seq(Bytes)
    BY <2>4, <2>5, SameEncodings
  <2>7. QED
    BY <2>6 DEF Message, count, sizes
<1>9. QED
  BY <1>1, <1>7, <1>8 DEF Arrays

-----------------------------------------------------------------------------
(* The task. *)

\* A sequence that has a last element.
LEMMA FrontAndLast ==
  ASSUME NEW S, NEW s \in Seq(S), s # <<>>
  PROVE  /\ Front(s) \in Seq(S) /\ Len(Front(s)) = Len(s) - 1 /\ Last(s) \in S
         /\ s = Append(Front(s), Last(s))
<1> DEFINE n == Len(s) - 1
<1>1. n \in Nat /\ Len(s) = n + 1 /\ n < Len(s) /\ n + 1 \in 1 .. Len(s)
  BY EmptySeq
<1>2. Last(s) = s[n + 1] /\ Last(s) \in S
  BY <1>1 DEF Last
<1>3. Front(s) = SubSeq(s, 1, n)
  BY <1>1 DEF Front
<1> HIDE DEF n
<1>4. SubSeq(s, 1, n) \in Seq(S) /\ Len(SubSeq(s, 1, n)) = n
  BY <1>1
<1>5. SubSeq(s, 1, n + 1) = Append(SubSeq(s, 1, n), s[n + 1])
  BY <1>1, PrefixAndNext
<1>6. SubSeq(s, 1, n + 1) = s
  BY <1>1, SubSeqFull
<1>7. n = Len(s) - 1
  BY DEF n
<1>8. QED
  BY <1>2, <1>3, <1>4, <1>5, <1>6, <1>7

\* One that something was appended to.
LEMMA FrontAppended ==
  ASSUME NEW S, NEW s \in Seq(S), NEW e \in S
  PROVE  Append(s, e) # <<>> /\ Front(Append(s, e)) = s /\ Last(Append(s, e)) = e
<1> DEFINE t == Append(s, e)
<1>1. t \in Seq(S) /\ Len(t) = Len(s) + 1 /\ \A i \in 1 .. Len(s) : t[i] = s[i]
  OBVIOUS
<1>2. t # <<>> /\ Last(t) = e
  BY LastAppended
<1> HIDE DEF t
<1>3. Front(t) \in Seq(S) /\ Len(Front(t)) = Len(s) /\ t = Append(Front(t), Last(t))
  BY <1>1, <1>2, FrontAndLast
<1>4. \A i \in 1 .. Len(s) : Front(t)[i] = t[i]
  <2> DEFINE u == Front(t)
  <2>1. u \in Seq(S) /\ Len(u) = Len(s) /\ t = Append(u, e)
    BY <1>2, <1>3
  <2> HIDE DEF u
  <2>2. \A i \in 1 .. Len(s) : u[i] = t[i]
    BY <2>1
  <2>3. QED
    BY <2>2 DEF u
<1>5. Front(t) = s
  BY <1>1, <1>3, <1>4, SeqEqual
<1>6. QED
  BY <1>2, <1>5 DEF t

\* What replies are made of.
Alphabet == Bytes \cup DOMAIN DigitValue \cup Lines \cup {"x"}
Reply == [kind : Lines \cup {BULK_STRING}, text : Seq(Alphabet)]
AnswerType == [to : Seq(Bytes) \cup {Refused}, response : Reply]

Types ==
  /\ sent \in Seq({Message(ps) : ps \in Requests})
  /\ wire \in Seq(Bytes)
  /\ pc \in {"reading", "handling", "writing"}
  /\ buf \in Seq(Bytes)
  /\ handled \in Seq(Seq(Bytes))
  /\ answers \in Seq(AnswerType)

\* The deserializer has the buffer and is on its way through it.
Deserializing == pc = "handling" => msg = buf /\ Midway

\* What was a message has an answer to it; what was not has one too.
Answered ==
  /\ Len(answers) = Len(handled)
  /\ pc = "writing" => answers # <<>>
  /\ \A i \in 1 .. Len(handled), ps \in Arrays :
       Encodes(handled[i], ps, Numerals) => answers[i].response \in Responses(ps)

\* The stream is the replies written to it.
Serialized(given) == [i \in DOMAIN given |-> Serialize(given[i].response)]
Streamed == stream = FlattenSeq(Serialized(Written))

IInv == Types /\ Deserializing /\ Answered /\ Streamed

\* What a command answers is a reply.
LEMMA ResponsesType ==
  /\ AnError \in Reply
  /\ \A ps \in Seq(Strings) : Responses(ps) \subseteq Reply
<1>1. Bytes \subseteq Alphabet /\ "x" \in Alphabet
  BY DEF Alphabet
<1>2. Seq(Bytes) \subseteq Seq(Alphabet)
  BY <1>1, SeqMonotonic
<1>3. <<"x">> \in Seq(Alphabet)
  BY <1>1
<1>4. \A text \in Seq(Alphabet) : SimpleError(text) \in Reply /\ BulkStringReply(text) \in Reply
  BY DEF SimpleError, BulkStringReply, Reply, Lines
<1>5. AnError \in Reply
  BY <1>3, <1>4 DEF AnError
<1>6. OtherResponses \subseteq Reply
  BY <1>2, ResponsesAssumption DEF Reply
<1>7. ASSUME NEW name \in Seq(Alphabet) PROVE Unknown(name) \in Reply
  <2> DEFINE x == <<"x">>
  <2>1. x \in Seq(Alphabet)
    BY <1>3
  <2> HIDE DEF x
  <2>2. x \o name \o x \in Seq(Alphabet)
    BY <2>1
  <2>3. QED
    BY <1>4, <2>2 DEF Unknown, x
<1>8. ASSUME NEW ps \in Seq(Strings) PROVE Responses(ps) \subseteq Reply
  <2> DEFINE name == IF ps = <<>> THEN <<>> ELSE ps[1]
  <2>1. \A i \in 1 .. Len(ps) : ps[i] \in Seq(Alphabet)
    BY <1>2 DEF Strings
  <2>2. name \in Seq(Alphabet)
    <3>1. ps # <<>> => 1 \in 1 .. Len(ps)
      BY EmptySeq
    <3>2. <<>> \in Seq(Alphabet)
      BY EmptySeq
    <3>3. QED
      BY <2>1, <3>1, <3>2
  <2>3. Len(ps) = 2 => BulkStringReply(ps[2]) \in Reply
    BY <1>4, <2>1
  <2>4. Responses(ps) =
          CASE name = Echo -> {IF Len(ps) = 2 THEN BulkStringReply(ps[2]) ELSE AnError}
            [] name = Other -> OtherResponses
            [] OTHER -> {Unknown(name)}
    BY DEF Responses
  <2>5. Unknown(name) \in Reply
    BY <1>7, <2>2
  <2> HIDE DEF name
  <2>6. \/ Responses(ps) = {IF Len(ps) = 2 THEN BulkStringReply(ps[2]) ELSE AnError}
        \/ Responses(ps) = OtherResponses
        \/ Responses(ps) = {Unknown(name)}
    BY <2>4
  <2>7. QED
    BY <1>5, <1>6, <2>3, <2>5, <2>6
<1>9. QED
  BY <1>5, <1>8

\* Its bytes are in the alphabet.
LEMMA SerializeType ==
  ASSUME NEW r \in Reply
  PROVE  Serialize(r) \in Seq(Alphabet)
<1>1. /\ <<r.kind>> \in Seq(Alphabet) /\ r.text \in Seq(Alphabet) /\ CRLF \in Seq(Alphabet)
      /\ <<BULK_STRING>> \in Seq(Alphabet)
  BY BytesAssumption DEF Reply, Alphabet, CRLF, CR, LF, BULK_STRING
<1>2. Decimal(Len(r.text)) \in Seq(Alphabet)
  <2>1. Len(r.text) \in Nat
    BY <1>1
  <2>2. DOMAIN DigitValue \subseteq Alphabet
    BY DEF Alphabet
  <2>3. Decimal(Len(r.text)) \in Seq(DOMAIN DigitValue)
    BY <2>1, DecimalSpells DEF Spelled
  <2>4. QED
    BY <2>2, <2>3, SeqMonotonic
<1>3. ASSUME NEW a \in Seq(Alphabet), NEW b \in Seq(Alphabet), NEW c \in Seq(Alphabet),
             NEW d \in Seq(Alphabet)
      PROVE  (a \o b) \o c \in Seq(Alphabet) /\ (((a \o b) \o c) \o d) \o c \in Seq(Alphabet)
  OBVIOUS
<1>4. QED
  BY <1>1, <1>2, <1>3 DEF Serialize, BulkString

\* A sequence, by its elements.
LEMMA ElementsOf ==
  ASSUME NEW S, NEW s \in Seq(S)
  PROVE  Len(s) \in Nat /\ DOMAIN s = 1 .. Len(s) /\ \A i \in 1 .. Len(s) : s[i] \in S
OBVIOUS

\* A function that is a sequence with one element more.
LEMMA AppendedFunction ==
  ASSUME NEW S, NEW s \in Seq(S), NEW e \in S, NEW f, NEW n, n = Len(s), f \in [1 .. n + 1 -> S],
         f[n + 1] = e, \A i \in 1 .. n : f[i] = s[i]
  PROVE  f = Append(s, e)
<1> DEFINE t == Append(s, e)
<1>1. /\ n \in Nat /\ t \in Seq(S) /\ Len(t) = n + 1 /\ t[n + 1] = e
      /\ \A i \in 1 .. n : t[i] = s[i]
  BY AppendElements
<1>2. f \in Seq(S) /\ Len(f) = n + 1
  BY <1>1
<1> HIDE DEF t
<1>3. \A i \in 1 .. n + 1 : f[i] = t[i]
  <2>1. \A i \in 1 .. n + 1 : i = n + 1 \/ i \in 1 .. n
    BY <1>1
  <2>2. QED
    BY <1>1, <2>1
<1>4. f = t
  BY <1>1, <1>2, <1>3, SeqEqual
<1>5. QED
  BY <1>4 DEF t

\* The bytes of answers, as many sequences as there are answers.
LEMMA SerializedType ==
  ASSUME NEW given \in Seq(AnswerType)
  PROVE  /\ Serialized(given) \in Seq(Seq(Alphabet)) /\ Len(Serialized(given)) = Len(given)
         /\ \A i \in 1 .. Len(given) : Serialized(given)[i] = Serialize(given[i].response)
<1> DEFINE ss == Serialized(given)
<1>1. \A a \in AnswerType : Serialize(a.response) \in Seq(Alphabet)
  BY SerializeType DEF AnswerType
<1>2. /\ Len(given) \in Nat /\ DOMAIN given = 1 .. Len(given)
      /\ \A i \in 1 .. Len(given) : given[i] \in AnswerType
  BY ElementsOf
<1>3. /\ ss \in [1 .. Len(given) -> Seq(Alphabet)]
      /\ \A i \in 1 .. Len(given) : ss[i] = Serialize(given[i].response)
  BY <1>1, <1>2 DEF Serialized
<1> HIDE DEF ss
<1>4. ss \in Seq(Seq(Alphabet)) /\ Len(ss) = Len(given)
  BY <1>2, <1>3
<1>5. QED
  BY <1>3, <1>4 DEF ss

\* What one answer more adds.
LEMMA SerializedMore ==
  ASSUME NEW given \in Seq(AnswerType), NEW a \in AnswerType
  PROVE  /\ Serialized(given) \in Seq(Seq(Alphabet))
         /\ Serialize(a.response) \in Seq(Alphabet)
         /\ Serialized(Append(given, a)) = Append(Serialized(given), Serialize(a.response))
<1> DEFINE more == Append(given, a)
           s == Serialized(given)
           e == Serialize(a.response)
           n == Len(given)
<1>1. /\ n \in Nat /\ DOMAIN given = 1 .. n /\ \A i \in 1 .. n : given[i] \in AnswerType
  BY ElementsOf
<1>2. /\ more \in Seq(AnswerType) /\ Len(more) = n + 1 /\ more[n + 1] = a
      /\ \A i \in 1 .. n : more[i] = given[i]
  BY AppendElements
<1> HIDE DEF more, n
<1>3. DOMAIN more = 1 .. n + 1 /\ \A i \in 1 .. n + 1 : more[i] \in AnswerType
  BY <1>2, ElementsOf
<1>4. \A b \in AnswerType : Serialize(b.response) \in Seq(Alphabet)
  BY SerializeType DEF AnswerType
<1>5. s \in [1 .. n -> Seq(Alphabet)] /\ \A i \in 1 .. n : s[i] = Serialize(given[i].response)
  BY <1>1, <1>4 DEF Serialized
<1>6. /\ Serialized(more) \in [1 .. n + 1 -> Seq(Alphabet)]
      /\ \A i \in 1 .. n + 1 : Serialized(more)[i] = Serialize(more[i].response)
  BY <1>3, <1>4 DEF Serialized
<1>7. e \in Seq(Alphabet)
  BY <1>4
<1> HIDE DEF s, e
<1>8. s \in Seq(Seq(Alphabet)) /\ Len(s) = n
  BY <1>1, <1>5
<1>9. /\ Serialized(more)[n + 1] = e
      /\ \A i \in 1 .. n : Serialized(more)[i] = s[i]
  <2>1. n + 1 \in 1 .. n + 1 /\ \A i \in 1 .. n : i \in 1 .. n + 1
    BY <1>1
  <2>2. QED
    BY <1>2, <1>5, <1>6, <2>1 DEF e
<1>10. Serialized(more) = Append(s, e)
  BY <1>6, <1>7, <1>8, <1>9, AppendedFunction
<1>11. QED
  BY <1>7, <1>8, <1>10 DEF more, s, e

-----------------------------------------------------------------------------
(* One lemma per action. *)

\* The initial state.
LEMMA InitInvariant == Init => IInv
<1> SUFFICES ASSUME Init PROVE IInv
  OBVIOUS
<1>1. Types
  BY EmptySeq DEF Init, Types
<1>2. Deserializing
  BY DEF Init, Deserializing
<1>3. Answered
  <2>1. Len(<<>>) = 0
    OBVIOUS
  <2>2. QED
    BY <2>1 DEF Init, Answered
<1>4. Streamed
  <2>1. Written = <<>>
    BY DEF Init, Written
  <2>2. Serialized(<<>>) = <<>>
    BY DEF Serialized
  <2>3. QED
    BY <2>1, <2>2, FlattenEmpty DEF Init, Streamed
<1>5. QED
  BY <1>1, <1>2, <1>3, <1>4 DEF IInv

\* A step that answers nothing and writes nothing.
LEMMA NoAnswerStep ==
  ASSUME IInv, UNCHANGED <<handled, answers, stream>>, pc # "writing", pc' # "writing"
  PROVE  Answered' /\ Streamed'
BY DEF IInv, Answered, Streamed, Written, Serialized

\* The client sends a message.
LEMMA SendStep == IInv /\ Send => IInv'
<1> SUFFICES ASSUME IInv, Send PROVE IInv'
  OBVIOUS
<1>1. PICK ps \in Requests : sent' = Append(sent, Message(ps)) /\ wire' = wire \o Message(ps)
  BY DEF Send
<1>2. Message(ps) \in Seq(Bytes)
  BY MessageEncodes
<1>3. /\ pc = "reading" /\ UNCHANGED <<pc, buf, handled, answers, stream>>
  BY DEF Send
<1>4. sent' \in Seq({Message(qs) : qs \in Requests})
  <2> DEFINE S == {Message(qs) : qs \in Requests}
             m == Message(ps)
  <2>1. sent \in Seq(S) /\ m \in S
    BY DEF IInv, Types
  <2> HIDE DEF S, m
  <2>2. Append(sent, m) \in Seq(S)
    BY <2>1
  <2>3. QED
    BY <1>1, <2>2 DEF S, m
<1>5. wire' \in Seq(Bytes)
  BY <1>1, <1>2 DEF IInv, Types
<1>6. Types'
  BY <1>3, <1>4, <1>5 DEF IInv, Types
<1>7. Deserializing'
  BY <1>3 DEF Deserializing
<1>8. QED
  BY <1>3, <1>6, <1>7, NoAnswerStep DEF IInv

\* What arrives is read, and a deserializer begins with it.
LEMMA ReadStep == IInv /\ Read => IInv'
<1> SUFFICES ASSUME IInv, Read PROVE IInv'
  OBVIOUS
<1>1. PICK n \in 1 .. Len(wire) :
        buf' = buf \o SubSeq(wire, 1, n) /\ wire' = SubSeq(wire, n + 1, Len(wire))
  BY DEF Read, From
<1>2. /\ pc = "reading" /\ pc' = "handling" /\ UNCHANGED <<sent, handled, answers, stream>>
  BY DEF Read
<1>3. wire \in Seq(Bytes) /\ buf \in Seq(Bytes)
  BY DEF IInv, Types
<1>4. buf' \in Seq(Bytes) /\ wire' \in Seq(Bytes)
  <2>1. SubSeq(wire, 1, n) \in Seq(Bytes) /\ SubSeq(wire, n + 1, Len(wire)) \in Seq(Bytes)
    BY <1>3
  <2>2. QED
    BY <1>1, <1>3, <2>1
<1>5. Types'
  BY <1>2, <1>4 DEF IInv, Types
<1>6. msg' = buf' /\ D!Init'
  BY <1>4 DEF Read, D!Init
<1>7. (D!Init => Midway)'
  BY MidwayAtFirst, PTL
<1>8. Deserializing'
  BY <1>6, <1>7 DEF Deserializing
<1>9. QED
  BY <1>2, <1>5, <1>8, NoAnswerStep DEF IInv

\* The deserializer goes on.
LEMMA ParseStep == IInv /\ Parse => IInv'
<1> SUFFICES ASSUME IInv, Parse PROVE IInv'
  OBVIOUS
<1>1. pc = "handling" /\ UNCHANGED loopVars /\ D!Next
  BY SameSteps DEF Parse
<1>2. msg' = msg
  BY <1>1 DEF D!Next, D!InvalidStart, D!ArraySize, D!CheckBulkStringType, D!BulkStringSize,
              D!BulkStringData, D!JumpToLf, D!EndOfMsg, D!Refuse
<1>3. Deserializing'
  BY <1>1, <1>2, MidwayStep DEF IInv, Deserializing, loopVars
<1>4. Types'
  BY <1>1 DEF IInv, Types, loopVars
<1>5. QED
  BY <1>1, <1>3, <1>4, NoAnswerStep DEF IInv, loopVars

\* What the buffer is answered: as the strings of the array that it encodes, or refused.
LEMMA AnswerGiven ==
  ASSUME IInv, Execute \/ RefuseMessage
  PROVE  \E a \in AnswerType :
           /\ answers' = Append(answers, a)
           /\ a.to = buf \/ a.to = Refused
           /\ a.to = buf <=> \E ps \in Arrays : Encodes(buf, ps, Numerals)
           /\ \A ps \in Arrays : Encodes(buf, ps, Numerals) => a.response \in Responses(ps)
<1>1. msg = buf /\ Midway /\ buf \in Seq(Bytes)
  BY DEF IInv, Deserializing, Types, Execute, RefuseMessage
<1>2. buf # Refused
  BY <1>1, RefusedAssumption
<1>3. CASE Execute
  <2>1. PICK r \in Responses(params) : answers' = Append(answers, [to |-> buf, response |-> r])
    BY <1>3 DEF Execute, Answer
  <2>2. params \in Arrays /\ Encodes(buf, params, Numerals)
    BY <1>1, <1>3, AcceptedEncodes DEF Execute
  <2>3. r \in Reply
    BY <2>2, ResponsesType DEF Arrays
  <2>4. [to |-> buf, response |-> r] \in AnswerType
    BY <1>1, <2>3 DEF AnswerType
  <2>5. \A ps \in Arrays : Encodes(buf, ps, Numerals) => params = ps
    BY <1>1, <1>3, EncodedAccepted DEF Execute
  <2>6. QED
    BY <2>1, <2>2, <2>4, <2>5
<1>4. CASE RefuseMessage
  <2>1. answers' = Append(answers, [to |-> Refused, response |-> AnError])
    BY <1>4 DEF RefuseMessage, Answer
  <2>2. [to |-> Refused, response |-> AnError] \in AnswerType
    BY ResponsesType DEF AnswerType
  <2>3. \A ps \in Arrays : ~Encodes(buf, ps, Numerals)
    BY <1>1, <1>4, EncodedAccepted DEF RefuseMessage
  <2>4. QED
    BY <1>2, <2>1, <2>2, <2>3
<1>5. QED
  BY <1>3, <1>4

\* The rest of that step, and what the client has been written in it, which is nothing.
LEMMA AnswerFrame ==
  ASSUME IInv, Execute \/ RefuseMessage
  PROVE  /\ pc = "handling" /\ pc' = "writing" /\ handled' = Append(handled, buf)
         /\ UNCHANGED <<sent, wire, buf, stream, whole>>
         /\ Written = answers /\ Written' = answers
<1>1. /\ pc = "handling" /\ pc' = "writing" /\ handled' = Append(handled, buf)
      /\ UNCHANGED <<sent, wire, buf, stream, whole>>
  BY DEF Execute, RefuseMessage, Answer
<1>2. PICK a \in AnswerType : answers' = Append(answers, a)
  BY AnswerGiven
<1>3. answers \in Seq(AnswerType)
  BY DEF IInv, Types
<1>4. Front(answers') = answers
  BY <1>2, <1>3, FrontAppended
<1>5. QED
  BY <1>1, <1>4 DEF Written

\* The buffer is answered.
LEMMA AnswerStep == IInv /\ (Execute \/ RefuseMessage) => IInv'
<1> SUFFICES ASSUME IInv, Execute \/ RefuseMessage PROVE IInv'
  OBVIOUS
<1>1. PICK a \in AnswerType :
        /\ answers' = Append(answers, a)
        /\ \A ps \in Arrays : Encodes(buf, ps, Numerals) => a.response \in Responses(ps)
  BY AnswerGiven
<1>2. /\ pc = "handling" /\ pc' = "writing" /\ handled' = Append(handled, buf)
      /\ UNCHANGED <<sent, wire, buf, stream>>
      /\ Written = answers /\ Written' = answers
  BY AnswerFrame
<1>3. /\ answers \in Seq(AnswerType) /\ handled \in Seq(Seq(Bytes)) /\ buf \in Seq(Bytes)
      /\ Len(answers) = Len(handled)
  BY DEF IInv, Types, Answered
<1>4. /\ answers' \in Seq(AnswerType) /\ Len(answers') = Len(answers) + 1
      /\ answers'[Len(answers) + 1] = a
      /\ \A i \in 1 .. Len(answers) : answers'[i] = answers[i]
  BY <1>1, <1>3, AppendElements
<1>5. /\ handled' \in Seq(Seq(Bytes)) /\ Len(handled') = Len(handled) + 1
      /\ handled'[Len(handled) + 1] = buf
      /\ \A i \in 1 .. Len(handled) : handled'[i] = handled[i]
  BY <1>2, <1>3, AppendElements
<1>6. Types'
  BY <1>2, <1>4, <1>5 DEF IInv, Types
<1>7. Deserializing'
  BY <1>2 DEF Deserializing
<1>8. Answered'
  <2>1. Len(handled) \in Nat
    BY <1>3
  <2>2. answers' # <<>>
    BY <1>1, <1>3, FrontAppended
  <2>3. ASSUME NEW i \in 1 .. Len(handled'), NEW ps \in Arrays, Encodes(handled'[i], ps, Numerals)
        PROVE  answers'[i].response \in Responses(ps)
    <3>1. CASE i \in 1 .. Len(handled)
      BY <1>3, <1>4, <1>5, <2>3, <3>1 DEF IInv, Answered
    <3>2. CASE i = Len(handled) + 1
      BY <1>1, <1>3, <1>4, <1>5, <2>3, <3>2
    <3>3. QED
      BY <1>5, <2>1, <3>1, <3>2
  <2>4. Len(answers') = Len(handled')
    BY <1>3, <1>4, <1>5
  <2>5. QED
    BY <2>2, <2>3, <2>4 DEF Answered
<1>9. Streamed'
  BY <1>2 DEF IInv, Streamed, Serialized
<1>10. QED
  BY <1>6, <1>7, <1>8, <1>9 DEF IInv

\* What the step that writes a reply has to do with it.
LEMMA WriteFrame ==
  ASSUME IInv, Write
  PROVE  /\ pc = "writing" /\ pc' = "reading" /\ buf' = <<>>
         /\ UNCHANGED <<sent, wire, handled, answers, whole>>
         /\ answers # <<>> /\ Written = Front(answers) /\ Written' = answers
         /\ Front(answers) \in Seq(AnswerType) /\ Last(answers) \in AnswerType
         /\ answers = Append(Front(answers), Last(answers))
<1>1. /\ pc = "writing" /\ pc' = "reading" /\ buf' = <<>>
      /\ UNCHANGED <<sent, wire, handled, answers, whole>>
  BY DEF Write
<1>2. answers # <<>> /\ answers \in Seq(AnswerType)
  BY <1>1 DEF IInv, Answered, Types
<1>3. Written = Front(answers) /\ Written' = answers
  BY <1>1 DEF Written
<1>4. QED
  BY <1>1, <1>2, <1>3, FrontAndLast

\* A reply is written.
LEMMA WriteStep == IInv /\ Write => IInv'
<1> SUFFICES ASSUME IInv, Write PROVE IInv'
  OBVIOUS
<1> DEFINE before == Front(answers)
           a == Last(answers)
<1>1. /\ pc = "writing" /\ pc' = "reading" /\ buf' = <<>>
      /\ UNCHANGED <<sent, wire, handled, answers>>
      /\ Written = before /\ Written' = answers
      /\ before \in Seq(AnswerType) /\ a \in AnswerType /\ answers = Append(before, a)
  BY WriteFrame
<1>2. stream = FlattenSeq(Serialized(before)) /\ stream' = stream \o Serialize(a.response)
  BY <1>1 DEF IInv, Streamed, Write
<1> HIDE DEF before, a
<1>3. Types'
  BY <1>1, EmptySeq DEF IInv, Types
<1>4. Deserializing'
  BY <1>1 DEF Deserializing
<1>5. Answered'
  BY <1>1 DEF IInv, Answered
<1>6. stream' = FlattenSeq(Serialized(answers))
  <2>1. /\ Serialized(before) \in Seq(Seq(Alphabet)) /\ Serialize(a.response) \in Seq(Alphabet)
        /\ Serialized(answers) = Append(Serialized(before), Serialize(a.response))
    BY <1>1, SerializedMore
  <2>2. QED
    BY <1>2, <2>1, FlattenAppend
<1>7. Streamed'
  BY <1>1, <1>6 DEF Streamed, Serialized
<1>8. QED
  BY <1>3, <1>4, <1>5, <1>7 DEF IInv

\* So every step keeps the invariant.
LEMMA InvariantStep == IInv /\ [Next]_vars => IInv'
<1>1. ASSUME IInv, UNCHANGED vars PROVE IInv'
  <2>1. UNCHANGED <<loopVars, desVars>>
    BY <1>1 DEF vars
  <2>2. Types'
    BY <1>1, <2>1 DEF IInv, Types, loopVars
  <2>3. Midway => Midway'
    BY <2>1, MidwayStep DEF desVars, D!vars
  <2>4. Deserializing'
    BY <1>1, <2>1, <2>3 DEF IInv, Deserializing, loopVars, desVars
  <2>5. Answered' /\ Streamed'
    BY <1>1, <2>1 DEF IInv, Answered, Streamed, Written, Serialized, loopVars
  <2>6. QED
    BY <2>2, <2>4, <2>5 DEF IInv
<1>2. QED
  BY <1>1, SendStep, ReadStep, ParseStep, AnswerStep, WriteStep DEF Next

-----------------------------------------------------------------------------
(* The loop over pieces of messages. *)

\* All there are: what encodes an array of one string or more.
AllMessages == {m \in Seq(Bytes) : \E ps \in Arrays : Encodes(m, ps, Numerals)}

\* The reply in hand, and the replies written, as Connection has them.
LastReply == IF answers = <<>> THEN Refused ELSE Last(answers).to
RepliesTo == [i \in DOMAIN Written |-> Written[i].to]

\* Connection with all messages, and what is proved of it.
C == INSTANCE ConnectionProofs WITH
  Pieces <- Bytes,
  Messages <- AllMessages,
  Panicking <- {},
  peer <- "open",
  reply <- LastReply,
  replies <- RepliesTo

\* A message has bytes.
LEMMA MessagesHaveBytes == <<>> \notin AllMessages
<1> SUFFICES ASSUME NEW ps \in Arrays, Encodes(<<>>, ps, Numerals) PROVE FALSE
  BY DEF AllMessages
<1>1. PICK count \in Numerals, sizes \in [DOMAIN ps -> Numerals] : <<>> = Encode(count, sizes, ps)
  BY DEF Encodes
<1> DEFINE a == D!Count(count)
           b == D!FlattenSeq(D!Elements(sizes, ps))
<1>2. count \in Seq(Bytes) /\ Len(count) \in Nat
  BY DEF Numerals
<1>3. ps \in Seq(Seq(Bytes)) /\ \A i \in 1 .. Len(ps) : sizes[i] \in Seq(Bytes)
  <2>1. ps \in Seq(Strings) /\ DOMAIN ps = 1 .. Len(ps)
    BY DEF Arrays
  <2>2. Strings \subseteq Seq(Bytes)
    BY DEF Strings
  <2>3. QED
    BY <2>1, <2>2, SeqMonotonic DEF Numerals
<1>4. /\ D!Encode(count, sizes, ps) = a \o b /\ a \in Seq(Bytes) /\ b \in Seq(Bytes)
      /\ Len(a) = Len(count) + 3
  BY <1>2, <1>3, BytesAssumption, U32Assumption, NoNumberAssumption, InputsHold, D!EncodeParts,
     Zenon
<1>5. Joins(<<>>, a, b)
  BY <1>1, <1>4, SameEncodings DEF Joins
<1> HIDE DEF a, b
<1>6. a \in Seq(Bytes) /\ b \in Seq(Bytes)
  BY <1>4
<1>7. Len(<<>>) = Len(a) + Len(b)
  BY <1>5, <1>6, JoinsElements
<1>8. Len(<<>>) = 0 /\ Len(a) \in Nat /\ Len(b) \in Nat
  BY <1>6, ElementsOf
<1>9. Len(a) = Len(count) + 3 /\ Len(count) \in Nat
  BY <1>2, <1>4
<1>10. QED
  BY <1>7, <1>8, <1>9

\* What Connection assumes of them.
LEMMA PiecesHold ==
  /\ AllMessages \subseteq Seq(Bytes) \ {<<>>} /\ {} \subseteq AllMessages
  /\ Capacity \in Nat \ {0} /\ MaxSent \in Nat
  /\ Refused \notin AllMessages
BY MessagesHaveBytes, LimitsAssumption, RefusedAssumption DEF AllMessages

\* The reply to what was handled.
LEMMA HandleReplies ==
  ASSUME IInv, Execute \/ RefuseMessage
  PROVE  /\ LastReply' = (IF buf \in AllMessages THEN buf ELSE Refused)
         /\ RepliesTo' = RepliesTo
<1>1. PICK a \in AnswerType :
        /\ answers' = Append(answers, a)
        /\ a.to = buf \/ a.to = Refused
        /\ a.to = buf <=> \E ps \in Arrays : Encodes(buf, ps, Numerals)
  BY AnswerGiven
<1>2. answers \in Seq(AnswerType) /\ buf \in Seq(Bytes)
  BY DEF IInv, Types
<1>3. answers' # <<>> /\ Last(answers') = a
  BY <1>1, <1>2, FrontAppended
<1>4. LastReply' = a.to
  BY <1>3 DEF LastReply
<1>5. buf \in AllMessages <=> a.to = buf
  BY <1>1, <1>2 DEF AllMessages
<1>6. Written' = Written
  BY AnswerFrame
<1>7. QED
  BY <1>1, <1>4, <1>5, <1>6 DEF RepliesTo

\* The replies when one more is written.
LEMMA WriteReplies ==
  ASSUME IInv, Write
  PROVE  RepliesTo' = Append(RepliesTo, LastReply) /\ LastReply' = LastReply
<1> DEFINE before == Front(answers)
           a == Last(answers)
           n == Len(before)
           S == Seq(Bytes) \cup {Refused}
           f == [i \in DOMAIN before |-> before[i].to]
           g == [i \in DOMAIN answers |-> answers[i].to]
<1>1. /\ answers # <<>> /\ UNCHANGED answers /\ Written = before /\ Written' = answers
      /\ before \in Seq(AnswerType) /\ a \in AnswerType /\ answers = Append(before, a)
  BY WriteFrame
<1>2. LastReply = a.to /\ LastReply' = a.to
  BY <1>1 DEF LastReply
<1>3. RepliesTo = f /\ RepliesTo' = g
  BY <1>1 DEF RepliesTo
<1> HIDE DEF before, a
<1>4. /\ answers \in Seq(AnswerType) /\ Len(answers) = n + 1 /\ answers[n + 1] = a
      /\ \A i \in 1 .. n : answers[i] = before[i]
  BY <1>1, AppendElements
<1>5. /\ n \in Nat /\ DOMAIN before = 1 .. n /\ DOMAIN answers = 1 .. n + 1
      /\ \A i \in 1 .. n : before[i] \in AnswerType
      /\ \A i \in 1 .. n + 1 : answers[i] \in AnswerType
  BY <1>1, <1>4, ElementsOf
<1> HIDE DEF n
<1>6. \A b \in AnswerType : b.to \in S
  BY DEF AnswerType
<1>7. /\ f \in [1 .. n -> S] /\ \A i \in 1 .. n : f[i] = before[i].to
      /\ g \in [1 .. n + 1 -> S] /\ \A i \in 1 .. n + 1 : g[i] = answers[i].to
  BY <1>5, <1>6
<1> HIDE DEF f, g
<1>8. f \in Seq(S) /\ Len(f) = n /\ a.to \in S
  <2> HIDE DEF S
  <2>1. QED
    BY <1>1, <1>5, <1>6, <1>7
<1>9. g[n + 1] = a.to /\ \A i \in 1 .. n : g[i] = f[i]
  <2>1. n + 1 \in 1 .. n + 1 /\ \A i \in 1 .. n : i \in 1 .. n + 1
    BY <1>5
  <2>2. QED
    BY <1>4, <1>7, <2>1
<1>10. g = Append(f, a.to)
  <2> HIDE DEF S
  <2>1. QED
    BY <1>7, <1>8, <1>9, AppendedFunction
<1>11. QED
  BY <1>2, <1>3, <1>10

\* A step that answers nothing and writes nothing.
LEMMA SameReplies ==
  ASSUME UNCHANGED answers, pc # "writing", pc' # "writing"
  PROVE  LastReply' = LastReply /\ RepliesTo' = RepliesTo
BY DEF LastReply, RepliesTo, Written

\* Each step is one of Connection, or none.
LEMMA ConnectionStep == IInv /\ [Next]_vars => [C!Next]_(C!vars)
<1> SUFFICES ASSUME IInv, [Next]_vars PROVE [C!Next]_(C!vars)
  OBVIOUS
<1>1. CASE Send
  <2>1. PICK ps \in Requests : sent' = Append(sent, Message(ps)) /\ wire' = wire \o Message(ps)
    BY <1>1 DEF Send
  <2>2. Message(ps) \in AllMessages
    BY MessageEncodes DEF AllMessages
  <2>3. LastReply' = LastReply /\ RepliesTo' = RepliesTo
    BY <1>1, SameReplies DEF Send
  <2>4. C!Send(Message(ps))
    BY <1>1, <2>1, <2>3 DEF Send, C!Send
  <2>5. QED
    BY <2>2, <2>4 DEF C!Next
<1>2. CASE Read
  <2>1. LastReply' = LastReply /\ RepliesTo' = RepliesTo
    BY <1>2, SameReplies DEF Read
  <2>2. C!Read
    BY <1>2, <2>1 DEF Read, From, C!Read, C!IsWhole
  <2>3. QED
    BY <2>2 DEF C!Next, C!Task
<1>3. CASE Parse \/ UNCHANGED vars
  <2>1. UNCHANGED <<sent, wire, pc, buf, handled, answers, whole>>
    BY <1>3 DEF Parse, loopVars, vars
  <2>2. LastReply' = LastReply /\ RepliesTo' = RepliesTo
    BY <2>1 DEF LastReply, RepliesTo, Written
  <2>3. QED
    BY <2>1, <2>2 DEF C!vars
<1>4. CASE Execute \/ RefuseMessage
  <2>1. C!Handle
    BY <1>4, AnswerFrame, HandleReplies DEF C!Handle
  <2>2. QED
    BY <2>1 DEF C!Next, C!Task
<1>5. CASE Write
  <2>1. C!Write
    BY <1>5, WriteFrame, WriteReplies DEF C!Write
  <2>2. QED
    BY <2>1 DEF C!Next, C!Task
<1>6. QED
  BY <1>1, <1>2, <1>3, <1>4, <1>5 DEF Next

(***************************************************************************)
(* Byte by byte, the loop of main.rs:45-96 with the deserializer in it is  *)
(* the loop over messages that are not looked into: it answers what it has *)
(* read as a message exactly when the bytes are those of one, whatever the *)
(* client sends and wherever the reads cut it.                             *)
(***************************************************************************)
THEOREM ImplementsConnection == Spec => C!Spec
<1>1. Init => C!Init
  BY DEF Init, C!Init, LastReply, RepliesTo, Written
<1>2. QED
  BY <1>1, InitInvariant, InvariantStep, ConnectionStep, PTL DEF Spec, C!Spec

\* The invariant of the task and its deserializer.
THEOREM Invariant == Spec => []IInv
BY InitInvariant, InvariantStep, PTL DEF Spec

\* What ConnectionProofs shows of the loop holds of this one.
THEOREM InStepWithConnection == Spec => []C!StepInv
<1>1. C!Spec => []C!StepInv
  BY PiecesHold, C!StepInvHolds, PTL
<1>2. QED
  BY <1>1, ImplementsConnection, PTL

\* The messages of Wire's own refinement are those of the requests.  It needs them to be told
\* from the rest: what reads like a message anywhere in a stream of requests is one of them.
Messages == {Message(ps) : ps \in Requests}
Unambiguous ==
  \A ss \in Seq(Messages), m \in AllMessages :
    (\E a, b \in Seq(Bytes) : FlattenSeq(ss) = (a \o m) \o b) => m \in Messages

\* What is handed to the deserializer is a part of the stream.
LEMMA HandledIsPart ==
  ASSUME Unambiguous, IInv, C!StepInv, pc = "handling"
  PROVE  buf \in AllMessages <=> buf \in Messages
<1>1. /\ sent \in Seq(Messages) /\ buf \in Seq(Bytes) /\ wire \in Seq(Bytes)
      /\ handled \in Seq(Seq(Bytes))
  BY DEF IInv, Types, Messages
<1>2. C!FlattenSeq(handled) = FlattenSeq(handled) /\ C!FlattenSeq(sent) = FlattenSeq(sent)
  BY DEF C!FlattenSeq, FlattenSeq
<1>3. (FlattenSeq(handled) \o buf) \o wire = FlattenSeq(sent)
  BY <1>2 DEF C!StepInv, C!PartitionInv, C!StreamPartitioned
<1>4. FlattenSeq(handled) \in Seq(Bytes)
  BY <1>1, FlattenType
<1>5. buf \in AllMessages => buf \in Messages
  BY <1>1, <1>3, <1>4 DEF Unambiguous
<1>6. buf \in Messages => buf \in AllMessages
  BY MessageEncodes DEF Messages, AllMessages
<1>7. QED
  BY <1>5, <1>6

\* Each step is one of the loop over those messages, or none.
LEMMA TaskStep ==
  ASSUME Unambiguous, IInv, C!StepInv, [Next]_vars
  PROVE  [Task!Next]_(Task!vars)
<1>1. CASE Send
  <2>1. PICK ps \in Requests : sent' = Append(sent, Message(ps)) /\ wire' = wire \o Message(ps)
    BY <1>1 DEF Send
  <2>2. LastReply' = LastReply /\ RepliesTo' = RepliesTo
    BY <1>1, SameReplies DEF Send
  <2>3. Task!Send(Message(ps))
    BY <1>1, <2>1, <2>2 DEF Send, Task!Send, LastReply, RepliesTo
  <2>4. QED
    BY <2>3 DEF Task!Next
<1>2. CASE Read
  <2>1. LastReply' = LastReply /\ RepliesTo' = RepliesTo
    BY <1>2, SameReplies DEF Read
  <2>2. Task!Read
    BY <1>2, <2>1 DEF Read, From, Task!Read, Task!IsWhole, LastReply, RepliesTo
  <2>3. QED
    BY <2>2 DEF Task!Next, Task!Task
<1>3. CASE Parse \/ UNCHANGED vars
  <2>1. UNCHANGED <<sent, wire, pc, buf, handled, answers, whole>>
    BY <1>3 DEF Parse, loopVars, vars
  <2>2. LastReply' = LastReply /\ RepliesTo' = RepliesTo
    BY <2>1 DEF LastReply, RepliesTo, Written
  <2>3. QED
    BY <2>1, <2>2 DEF Task!vars, LastReply, RepliesTo
<1>4. CASE Execute \/ RefuseMessage
  <2>1. buf \in AllMessages <=> buf \in Messages
    BY <1>4, HandledIsPart DEF Execute, RefuseMessage
  <2>2. LastReply' = (IF buf \in Messages THEN buf ELSE Refused) /\ RepliesTo' = RepliesTo
    BY <1>4, <2>1, HandleReplies
  <2>3. Task!Handle
    BY <1>4, <2>2, AnswerFrame DEF Task!Handle, LastReply, RepliesTo, Messages
  <2>4. QED
    BY <2>3 DEF Task!Next, Task!Task
<1>5. CASE Write
  <2>1. Task!Write
    BY <1>5, WriteFrame, WriteReplies DEF Task!Write, LastReply, RepliesTo
  <2>2. QED
    BY <2>1 DEF Task!Next, Task!Task
<1>6. QED
  BY <1>1, <1>2, <1>3, <1>4, <1>5 DEF Next

(***************************************************************************)
(* So the loop over bytes (main.rs:45-96) is the loop over the messages    *)
(* its client sends: no read that cuts through one of them, or takes parts *)
(* of two, is answered as a message, unless its bytes are one.             *)
(***************************************************************************)
THEOREM ImplementsTask ==
  ASSUME Unambiguous
  PROVE  Spec => ConnectionSpec
<1>1. Init => Task!Init
  BY DEF Init, Task!Init, Written
<1>2. QED
  BY <1>1, Invariant, InStepWithConnection, TaskStep, PTL DEF Spec, ConnectionSpec, Task!Spec

-----------------------------------------------------------------------------
(* The client's reader. *)

\* The least of a set of numbers is one of them.
LEMMA LeastOf ==
  ASSUME NEW S \in SUBSET Nat, S # {}
  PROVE  Min(S) \in S /\ \A y \in S : Min(S) <= y
<1>1. \E m \in S : \A y \in S : m <= y
  BY LeastNatural
<1>2. QED
  BY <1>1 DEF Min

\* Where the line ends that begins after the first i bytes, if it has an end.
LEMMA LineEnds ==
  ASSUME NEW A, NEW s \in Seq(A), NEW i \in Nat, Breaks(s, i) # {}
  PROVE  /\ LineEnd(s, i) \in Breaks(s, i) /\ \A j \in Breaks(s, i) : LineEnd(s, i) <= j
         /\ LineEnd(s, i) \in Nat /\ i + 1 <= LineEnd(s, i) /\ LineEnd(s, i) + 1 <= Len(s)
         /\ Line(s, i) \in Seq(A)
<1>1. Breaks(s, i) \in SUBSET Nat
  BY DEF Breaks
<1>2. LineEnd(s, i) \in Breaks(s, i) /\ \A j \in Breaks(s, i) : LineEnd(s, i) <= j
  BY <1>1, LeastOf DEF LineEnd
<1>3. \A j \in Breaks(s, i) : j \in Nat /\ i + 1 <= j /\ j + 1 <= Len(s)
  BY DEF Breaks
<1>4. \A j \in Nat : j + 1 <= Len(s) => SubSeq(s, i + 2, j - 1) \in Seq(A)
  OBVIOUS
<1>5. QED
  BY <1>2, <1>3, <1>4 DEF Line

\* A reply that has arrived has bytes, all of them in the stream.
LEMMA ReplyEnds ==
  ASSUME NEW A, NEW s \in Seq(A), NEW i \in Nat, Arrived(s, i)
  PROVE  ReplyEnd(s, i) \in i + 1 .. Len(s)
<1>1. Breaks(s, i) # {} /\ ReplyEnd(s, i) <= Len(s)
  BY DEF Arrived
<1> DEFINE e == LineEnd(s, i)
           line == Line(s, i)
<1>2. e \in Nat /\ i + 1 <= e /\ line \in Seq(A)
  BY <1>1, LineEnds
<1>3. Announces(s, i) => Announced(s, i) \in Nat
  <2>1. Announces(s, i) => IsNumber(line)
    BY DEF Announces
  <2> HIDE DEF line
  <2>2. Len(line) \in Nat /\ DOMAIN line = 1 .. Len(line)
    BY <1>2, ElementsOf
  <2>3. IsNumber(line) => ValueOf(line) \in Nat
    BY <2>2, ValueType
  <2>4. QED
    BY <2>1, <2>3 DEF Announced, line
<1>4. ReplyEnd(s, i) = e + 1 + IF Announces(s, i) THEN Announced(s, i) + 2 ELSE 0
  BY DEF ReplyEnd
<1> HIDE DEF e
<1>5. ReplyEnd(s, i) \in Nat /\ i + 1 <= ReplyEnd(s, i)
  BY <1>2, <1>3, <1>4
<1>6. Len(s) \in Nat
  OBVIOUS
<1>7. QED
  BY <1>1, <1>5, <1>6

\* What Decode computes its result with, from the n-th byte on.
Rest(f, s, i) == IF Arrived(s, i) THEN <<ReplyAt(s, i)>> \o f[ReplyEnd(s, i)] ELSE <<>>
Decodes(f, s, n) == f = [i \in n .. Len(s) |-> Rest(f, s, i)]

\* There is such a function.
LEMMA DecodesExist ==
  ASSUME NEW A, NEW s \in Seq(A)
  PROVE  \E f : Decodes(f, s, 0)
<1> DEFINE l == Len(s)
           S == {k \in Nat : k <= l => \E f : Decodes(f, s, l - k)}
<1>1. l \in Nat
  OBVIOUS
<1>2. 0 \in S
  <2>1. ~Arrived(s, l)
    <3>1. l + 1 .. l = {}
      BY <1>1
    <3>2. QED
      BY <1>1, <3>1, ReplyEnds
  <2> HIDE DEF l
  <2> DEFINE f == [i \in l - 0 .. l |-> <<>>]
  <2>2. \A i \in l - 0 .. l : i = l
    BY <1>1
  <2>3. \A i \in l - 0 .. l : Rest(f, s, i) = <<>>
    BY <2>1, <2>2 DEF Rest
  <2>4. f = [i \in l - 0 .. l |-> Rest(f, s, i)]
    BY <2>3
  <2>5. Decodes(f, s, l - 0)
    BY <2>4 DEF Decodes, l
  <2>6. QED
    BY <2>5
<1>3. ASSUME NEW k \in Nat, k \in S PROVE k + 1 \in S
  <2>1. SUFFICES ASSUME k + 1 <= l PROVE \E f : Decodes(f, s, l - (k + 1))
    BY <1>3
  <2> DEFINE n == l - (k + 1)
  <2>2. n \in Nat /\ n + 1 = l - k /\ k <= l /\ n <= l
    BY <1>1, <2>1
  <2>3. PICK f : Decodes(f, s, n + 1)
    BY <1>3, <2>2
  <2> HIDE DEF n, S
  <2> DEFINE g == [i \in n .. l |-> IF i \in n + 1 .. l THEN f[i] ELSE Rest(f, s, i)]
  <2>4. ASSUME NEW i \in n .. l PROVE Rest(g, s, i) = Rest(f, s, i)
    <3>1. i \in Nat
      BY <2>2
    <3>2. Arrived(s, i) => ReplyEnd(s, i) \in n + 1 .. l
      <4>1. Arrived(s, i) => ReplyEnd(s, i) \in i + 1 .. l
        BY <3>1, ReplyEnds
      <4>2. \A e \in i + 1 .. l : e \in n + 1 .. l
        BY <1>1, <2>2
      <4>3. QED
        BY <4>1, <4>2
    <3>3. \A e \in n + 1 .. l : g[e] = f[e]
      <4>1. \A e \in n + 1 .. l : e \in n .. l
        BY <1>1, <2>2
      <4>2. QED
        BY <4>1
    <3> HIDE DEF g, l
    <3>4. QED
      BY <3>2, <3>3 DEF Rest
  <2>5. ASSUME NEW i \in n .. l PROVE g[i] = Rest(f, s, i)
    <3>1. CASE i \in n + 1 .. l
      <4>1. f = [j \in n + 1 .. l |-> Rest(f, s, j)]
        BY <2>3 DEF Decodes
      <4>2. f[i] = Rest(f, s, i)
        BY <3>1, <4>1
      <4>3. QED
        BY <3>1, <4>2
    <3>2. CASE i \notin n + 1 .. l
      BY <3>2
    <3>3. QED
      BY <3>1, <3>2
  <2>6. g = [i \in n .. l |-> g[i]]
    OBVIOUS
  <2> HIDE DEF g
  <2>7. g = [i \in n .. l |-> Rest(g, s, i)]
    BY <2>4, <2>5, <2>6
  <2>8. Decodes(g, s, n)
    BY <2>7 DEF Decodes, l
  <2>9. QED
    BY <2>8 DEF n
<1>4. \A k \in Nat : k \in S
  <2> HIDE DEF S
  <2>1. QED
    BY <1>2, <1>3, Induction
<1>5. \E f : Decodes(f, s, l - l)
  BY <1>1, <1>4
<1>6. l - l = 0
  BY <1>1
<1>7. QED
  BY <1>5, <1>6

\* Decode is what one of them makes of the whole stream.
LEMMA DecodeDefined ==
  ASSUME NEW A, NEW s \in Seq(A)
  PROVE  \E f : Decode(s) = f[0] /\ \A i \in 0 .. Len(s) : f[i] = Rest(f, s, i)
<1> DEFINE P(f) == f = [i \in 0 .. Len(s) |->
                  IF Arrived(s, i) THEN <<ReplyAt(s, i)>> \o f[ReplyEnd(s, i)] ELSE <<>>]
           c == CHOOSE f : P(f)
<1>1. \E f : P(f)
  BY DecodesExist DEF Decodes, Rest
<1>2. P(c)
  <2> HIDE DEF P
  <2>1. QED
    BY <1>1
<1>3. Decode(s) = c[0]
  BY DEF Decode
<1> HIDE DEF c
<1>4. \A i \in 0 .. Len(s) : c[i] = Rest(c, s, i)
  BY <1>2 DEF Rest
<1>5. QED
  BY <1>3, <1>4

\* The replies that begin anywhere in a stream.
Found(s) == {ReplyAt(s, i) : i \in 0 .. Len(s)}

\* What is made of the rest of it is a sequence of them.
LEMMA RestType ==
  ASSUME NEW A, NEW s \in Seq(A), NEW f, \A i \in 0 .. Len(s) : f[i] = Rest(f, s, i)
  PROVE  \A i \in 0 .. Len(s) : f[i] \in Seq(Found(s))
<1> DEFINE l == Len(s)
           S == {k \in Nat : \A i \in 0 .. l : l < i + k => f[i] \in Seq(Found(s))}
<1>1. l \in Nat
  OBVIOUS
<1>2. 0 \in S
  BY <1>1
<1>3. ASSUME NEW k \in Nat, k \in S PROVE k + 1 \in S
  <2>1. SUFFICES ASSUME NEW i \in 0 .. l, l < i + (k + 1) PROVE f[i] \in Seq(Found(s))
    OBVIOUS
  <2>2. f[i] = Rest(f, s, i)
    OBVIOUS
  <2>3. CASE Arrived(s, i)
    <3> DEFINE e == ReplyEnd(s, i)
    <3>1. e \in i + 1 .. l
      BY <2>3, ReplyEnds
    <3> HIDE DEF e, l
    <3>2. e \in 0 .. l /\ l < e + k
      BY <1>1, <2>1, <3>1
    <3>3. f[e] \in Seq(Found(s))
      BY <1>3, <3>2
    <3>4. ReplyAt(s, i) \in Found(s)
      BY DEF Found, l
    <3>5. ASSUME NEW T, NEW x \in T, NEW y \in Seq(T) PROVE <<x>> \o y \in Seq(T)
      OBVIOUS
    <3>6. <<ReplyAt(s, i)>> \o f[e] \in Seq(Found(s))
      BY <3>3, <3>4, <3>5
    <3>7. QED
      BY <2>2, <2>3, <3>6 DEF Rest, e
  <2>4. CASE ~Arrived(s, i)
    BY <2>2, <2>4, EmptySeq DEF Rest
  <2>5. QED
    BY <2>3, <2>4
<1>4. \A k \in Nat : k \in S
  <2> HIDE DEF S
  <2>1. QED
    BY <1>2, <1>3, Induction
<1>5. l + 1 \in S
  <2> HIDE DEF S
  <2>1. QED
    BY <1>1, <1>4
<1>6. \A i \in 0 .. l : l < i + (l + 1)
  BY <1>1
<1>7. QED
  BY <1>5, <1>6

\* Three sequences one after the other.
Joins3(m, a, b, c) == m = (a \o b) \o c

\* Where each of them stands when they stand in a stream so.
LEMMA ThreeStand ==
  ASSUME NEW A, NEW s \in Seq(A), NEW i \in Nat, NEW a \in Seq(A), NEW b \in Seq(A),
         NEW c \in Seq(A), NEW m, Joins3(m, a, b, c), StandsAt(s, i, m)
  PROVE  /\ StandsAt(s, i, a) /\ StandsAt(s, i + Len(a), b) /\ StandsAt(s, i + Len(a) + Len(b), c)
         /\ Len(m) = Len(a) + Len(b) + Len(c)
<1> DEFINE h == a \o b
<1>1. Joins(h, a, b) /\ Joins(m, h, c)
  BY DEF Joins, Joins3
<1> HIDE DEF h
<1>2. h \in Seq(A) /\ Len(h) = Len(a) + Len(b) /\ Len(a) \in Nat /\ Len(b) \in Nat
  BY <1>1, JoinsElements
<1>3. m \in Seq(A) /\ Len(m) = Len(h) + Len(c)
  BY <1>1, <1>2, JoinsElements
<1>4. StandsAt(s, i, h) /\ StandsAt(s, i + Len(h), c)
  BY <1>1, <1>2, PartsStand
<1>5. StandsAt(s, i, a) /\ StandsAt(s, i + Len(a), b)
  BY <1>1, <1>4, PartsStand
<1>6. i + Len(h) = i + Len(a) + Len(b)
  BY <1>2
<1>7. QED
  BY <1>2, <1>3, <1>4, <1>5, <1>6

\* A line that stands in a stream, after a byte that is not CR: where it ends and what it says.
LEMMA LineStands ==
  ASSUME NEW A, NEW s \in Seq(A), NEW i \in Nat, s[i + 1] # CR, NEW text \in Seq(A), OneLine(text),
         StandsAt(s, i + 1, text), StandsAt(s, i + 1 + Len(text), CRLF)
  PROVE  Breaks(s, i) # {} /\ LineEnd(s, i) = i + 2 + Len(text) /\ Line(s, i) = text
<1> DEFINE n == Len(text)
<1>1. n \in Nat
  OBVIOUS
<1> HIDE DEF n
<1>2. i + 1 + n <= Len(s) /\ \A j \in 1 .. n : s[i + 1 + j] = text[j]
  BY DEF StandsAt, n
<1>3. i + n + 3 <= Len(s) /\ s[i + n + 2] = CR /\ s[i + n + 3] = LF
  <2>1. Len(CRLF) = 2 /\ CRLF[1] = CR /\ CRLF[2] = LF
    BY DEF CRLF
  <2>2. (i + 1 + n) + 2 <= Len(s) /\ s[(i + 1 + n) + 1] = CR /\ s[(i + 1 + n) + 2] = LF
    BY <2>1 DEF StandsAt, n
  <2>3. (i + 1 + n) + 1 = i + n + 2 /\ (i + 1 + n) + 2 = i + n + 3
    BY <1>1
  <2>4. QED
    BY <2>2, <2>3
<1>4. Len(s) \in Nat
  OBVIOUS
<1> DEFINE e == i + n + 2
<1>5. e \in Breaks(s, i)
  <2>1. e \in i + 1 .. Len(s) - 1 /\ e + 1 = i + n + 3
    BY <1>1, <1>3, <1>4
  <2>2. QED
    BY <1>3, <2>1 DEF Breaks
<1>6. ASSUME NEW j \in Breaks(s, i) PROVE e <= j
  <2>1. SUFFICES ASSUME j < e PROVE FALSE
    BY <1>1 DEF Breaks
  <2>2. j \in Nat /\ i + 1 <= j /\ s[j] = CR /\ s[j + 1] = LF
    BY DEF Breaks
  <2>3. CASE j = i + 1
    BY <2>2, <2>3
  <2>4. CASE j = i + n + 1 /\ n > 0
    <3>1. j + 1 = i + n + 2
      BY <1>1, <2>4
    <3>2. QED
      BY <1>3, <2>2, <3>1 DEF CR, LF
  <2>5. CASE i + 2 <= j /\ j <= i + n
    <3> DEFINE q == j - (i + 1)
    <3>1. /\ q \in 1 .. n - 1 /\ q \in 1 .. n /\ q + 1 \in 1 .. n
          /\ i + 1 + q = j /\ i + 1 + (q + 1) = j + 1
      BY <1>1, <2>2, <2>5
    <3>2. text[q] = CR /\ text[q + 1] = LF
      BY <1>2, <2>2, <3>1
    <3>3. QED
      BY <3>1, <3>2 DEF OneLine, n
  <2>6. QED
    BY <1>1, <2>1, <2>2, <2>3, <2>4, <2>5
<1>7. LineEnd(s, i) = e
  <2> DEFINE l == LineEnd(s, i)
  <2>1. l \in Breaks(s, i) /\ l \in Nat /\ l <= e
    BY <1>5, LineEnds
  <2>2. e <= l /\ e \in Nat
    BY <1>1, <1>6, <2>1
  <2> HIDE DEF l, e
  <2>3. l = e
    BY <2>1, <2>2
  <2>4. QED
    BY <2>3 DEF l
<1>8. Line(s, i) = text
  <2>1. SubSeq(s, (i + 1) + 1, (i + 1) + n) = text
    <3>1. i + 1 \in Nat
      OBVIOUS
    <3>2. QED
      BY <3>1, StandingSlice DEF n
  <2>2. (i + 1) + 1 = i + 2 /\ (i + 1) + n = e - 1
    BY <1>1
  <2>3. QED
    BY <1>7, <2>1, <2>2 DEF Line
<1>9. e = i + 2 + n
  BY <1>1
<1>10. QED
  BY <1>5, <1>7, <1>8, <1>9 DEF n

\* A reply that stands in a stream is found there, where it ends and with the text it was given.
LEMMA ReplyStands ==
  ASSUME NEW s \in Seq(Alphabet), NEW r \in Reply, IsLine(r),
         NEW i \in Nat, StandsAt(s, i, Serialize(r))
  PROVE  Arrived(s, i) /\ ReplyEnd(s, i) = i + Len(Serialize(r)) /\ ReplyAt(s, i) = r
<1> DEFINE text == r.text
           kind == <<r.kind>>
           l == Len(Serialize(r))
           n == Len(text)
<1>1. text \in Seq(Alphabet) /\ kind \in Seq(Alphabet) /\ CRLF \in Seq(Alphabet)
  BY BytesAssumption DEF Reply, Alphabet, CRLF, CR, LF, BULK_STRING
<1>2. r = [kind |-> r.kind, text |-> text] /\ r.kind \in Lines \cup {BULK_STRING} /\ r.kind # CR
  <2>1. r = [kind |-> r.kind, text |-> text] /\ r.kind \in Lines \cup {BULK_STRING}
    BY DEF Reply
  <2>2. CR \notin Lines \cup {BULK_STRING}
    BY DEF Lines, SIMPLE_STRING, ERROR, INTEGER, NULL, BULK_STRING, CR
  <2>3. QED
    BY <2>1, <2>2
<1>3. n \in Nat /\ Len(s) \in Nat
  BY <1>1
<1>4. i + l <= Len(s)
  BY DEF StandsAt
<1>5. Len(kind) = 1 /\ kind[1] = r.kind /\ Len(CRLF) = 2
  BY DEF CRLF
<1>6. CASE r.kind # BULK_STRING
  <2>1. Joins3(Serialize(r), kind, text, CRLF)
    BY <1>6 DEF Serialize, Joins3
  <2> HIDE DEF kind, text
  <2>2. /\ StandsAt(s, i, kind) /\ StandsAt(s, i + Len(kind), text)
        /\ StandsAt(s, i + Len(kind) + Len(text), CRLF)
        /\ Len(Serialize(r)) = Len(kind) + Len(text) + Len(CRLF)
    BY <1>1, <2>1, ThreeStand
  <2>3. StandsAt(s, i + 1, text) /\ StandsAt(s, i + 1 + n, CRLF) /\ l = 1 + n + 2
    BY <1>5, <2>2
  <2> HIDE DEF n, l
  <2>4. s[i + 1] = r.kind
    BY <1>5, <2>2 DEF StandsAt
  <2>5. OneLine(text)
    BY <1>6 DEF IsLine, text
  <2>6. Breaks(s, i) # {} /\ LineEnd(s, i) = i + 2 + n /\ Line(s, i) = text
    BY <1>1, <1>2, <2>3, <2>4, <2>5, LineStands DEF n
  <2>7. ~Announces(s, i)
    BY <1>6, <2>4 DEF Announces
  <2>8. ReplyEnd(s, i) = i + l
    BY <1>3, <2>3, <2>6, <2>7 DEF ReplyEnd
  <2>9. ReplyAt(s, i) = r
    BY <1>2, <1>6, <2>4, <2>6, <2>7 DEF ReplyAt
  <2>10. QED
    BY <1>4, <2>6, <2>8, <2>9 DEF Arrived, l
<1>7. CASE r.kind = BULK_STRING
  <2> DEFINE d == Decimal(n)
             a == (kind \o d) \o CRLF
  <2>1. Joins3(Serialize(r), a, text, CRLF) /\ Joins3(a, kind, d, CRLF)
    BY <1>7 DEF Serialize, BulkString, Joins3
  <2>2. IsNumber(d) /\ ValueOf(d) = n
    BY <1>3, DecimalReads
  <2>3. d \in Seq(DOMAIN DigitValue) /\ \A j \in 1 .. Len(d) : d[j] # CR
    <3>1. d \in Seq(DOMAIN DigitValue)
      BY <1>3, DecimalSpells DEF Spelled
    <3> HIDE DEF d
    <3>2. \A j \in 1 .. Len(d) : d[j] \in DOMAIN DigitValue
      BY <3>1, ElementsOf
    <3>3. QED
      BY <3>1, <3>2, DigitTypes
  <2>4. d \in Seq(Alphabet)
    <3>1. DOMAIN DigitValue \subseteq Alphabet
      BY DEF Alphabet
    <3>2. QED
      BY <2>3, <3>1, SeqMonotonic
  <2> HIDE DEF d, kind, text
  <2>5. a \in Seq(Alphabet)
    BY <1>1, <2>4
  <2> DEFINE w == Len(d)
  <2>6. w \in Nat
    BY <2>4
  <2> HIDE DEF a
  <2>7. /\ StandsAt(s, i, a) /\ StandsAt(s, i + Len(a), text)
        /\ Len(Serialize(r)) = Len(a) + Len(text) + Len(CRLF)
    BY <1>1, <2>1, <2>5, ThreeStand
  <2>8. /\ StandsAt(s, i, kind) /\ StandsAt(s, i + Len(kind), d)
        /\ StandsAt(s, i + Len(kind) + Len(d), CRLF)
        /\ Len(a) = Len(kind) + Len(d) + Len(CRLF)
    BY <1>1, <2>1, <2>4, <2>7, ThreeStand
  <2>9. /\ StandsAt(s, i + 1, d) /\ StandsAt(s, i + 1 + w, CRLF)
        /\ Len(a) = 1 + w + 2 /\ l = Len(a) + n + 2
    BY <1>5, <2>7, <2>8
  <2> HIDE DEF n, l, w
  <2>10. s[i + 1] = r.kind
    BY <1>5, <2>8 DEF StandsAt
  <2>11. OneLine(d)
    <3>1. \A j \in 1 .. Len(d) - 1 : j \in 1 .. Len(d)
      BY <2>6 DEF w
    <3>2. QED
      BY <2>3, <3>1 DEF OneLine
  <2>12. Breaks(s, i) # {} /\ LineEnd(s, i) = i + 2 + w /\ Line(s, i) = d
    BY <1>2, <2>4, <2>9, <2>10, <2>11, LineStands DEF w
  <2>13. Announces(s, i) /\ Announced(s, i) = n
    BY <1>7, <2>2, <2>10, <2>12 DEF Announces, Announced
  <2>14. ReplyEnd(s, i) = i + l
    BY <1>3, <2>6, <2>9, <2>12, <2>13 DEF ReplyEnd
  <2>15. SubSeq(s, LineEnd(s, i) + 2, ReplyEnd(s, i) - 2) = text
    <3> DEFINE q == i + Len(a)
    <3>1. q \in Nat /\ q + 1 = (i + 2 + w) + 2 /\ q + n = (i + l) - 2
      BY <1>3, <2>6, <2>9
    <3> HIDE DEF q
    <3>2. SubSeq(s, q + 1, q + n) = text
      BY <1>1, <2>7, <3>1, StandingSlice DEF n, q
    <3>3. QED
      BY <2>12, <2>14, <3>1, <3>2
  <2>16. ReplyAt(s, i) = r
    BY <1>2, <1>7, <2>13, <2>15 DEF ReplyAt, BulkStringReply
  <2>17. QED
    BY <1>4, <2>12, <2>14, <2>16 DEF Arrived, l
<1>8. QED
  BY <1>6, <1>7

\* One element, taken from the beginning of a sequence to the end of another.
Moves(q, e, w) == q \o (<<e>> \o w) = Append(q, e) \o w

\* It makes no difference to the two together.
LEMMA OneMoved ==
  ASSUME NEW S, NEW q \in Seq(S), NEW e \in S, NEW w \in Seq(S)
  PROVE  Moves(q, e, w)
<1>1. <<e>> \in Seq(S) /\ Append(q, e) = q \o <<e>>
  OBVIOUS
<1>2. Shifts(q, <<e>>, w)
  BY <1>1, ConcatShifts
<1>3. QED
  BY <1>1, <1>2 DEF Shifts, Moves

\* The middle one of three parts of a sequence stands in it.
LEMMA PartStands ==
  ASSUME NEW A, NEW m \in Seq(A), NEW a \in Seq(A), NEW b \in Seq(A), NEW c \in Seq(A),
         Joins3(m, a, b, c)
  PROVE  StandsAt(m, Len(a), b) /\ Len(m) = Len(a) + Len(b) + Len(c)
<1>1. StandsAt(m, 0, m)
  BY DEF StandsAt
<1>2. 0 + Len(a) = Len(a) /\ 0 \in Nat
  OBVIOUS
<1>3. StandsAt(m, 0 + Len(a), b) /\ Len(m) = Len(a) + Len(b) + Len(c)
  BY <1>1, <1>2, ThreeStand
<1>4. QED
  BY <1>2, <1>3

\* The responses given, and the bytes of the first k of them.
ResponsesOf(given) == [i \in DOMAIN given |-> given[i].response]
Before(given, k) == FlattenSeq(SubSeq(Serialized(given), 1, k))

\* One of them, in the stream of all.
LEMMA GivenStands ==
  ASSUME NEW given \in Seq(AnswerType), NEW k \in Nat, k < Len(given),
         IsLine(given[k + 1].response), NEW s, s = FlattenSeq(Serialized(given))
  PROVE  /\ s \in Seq(Alphabet) /\ Before(given, k) \in Seq(Alphabet)
         /\ Len(Before(given, k)) \in 0 .. Len(s) /\ Len(Before(given, k + 1)) \in 0 .. Len(s)
         /\ Arrived(s, Len(Before(given, k)))
         /\ ReplyEnd(s, Len(Before(given, k))) = Len(Before(given, k + 1))
         /\ ReplyAt(s, Len(Before(given, k))) = given[k + 1].response
<1> DEFINE ss == Serialized(given)
           x == Before(given, k)
           y == Before(given, k + 1)
           r == given[k + 1].response
           e == Serialize(r)
<1>1. /\ Len(given) \in Nat /\ DOMAIN given = 1 .. Len(given) /\ k + 1 \in 1 .. Len(given)
      /\ \A i \in 1 .. Len(given) : given[i] \in AnswerType
  BY ElementsOf
<1>2. r \in Reply /\ e \in Seq(Alphabet)
  BY <1>1, SerializeType DEF AnswerType
<1>3. ss \in Seq(Seq(Alphabet)) /\ Len(ss) = Len(given) /\ ss[k + 1] = e
  BY <1>1, SerializedType
<1> HIDE DEF ss, r, e
<1>4. s \in Seq(Alphabet) /\ s = FlattenSeq(ss)
  BY <1>3, FlattenType DEF ss
<1>5. x = FlattenSeq(SubSeq(ss, 1, k)) /\ y = FlattenSeq(SubSeq(ss, 1, k + 1))
  BY DEF Before, ss
<1> HIDE DEF x, y
<1>6. SubSeq(ss, 1, k) \in Seq(Seq(Alphabet)) /\ SubSeq(ss, 1, k + 1) = Append(SubSeq(ss, 1, k), e)
  <2>1. k < Len(ss) /\ k <= Len(ss)
    BY <1>1, <1>3
  <2>2. SubSeq(ss, 1, k + 1) = Append(SubSeq(ss, 1, k), ss[k + 1])
    BY <1>3, <2>1, PrefixAndNext
  <2>3. SubSeq(ss, 1, k) \in Seq(Seq(Alphabet))
    BY <1>3, <2>1
  <2>4. QED
    BY <1>3, <2>2, <2>3
<1>7. x \in Seq(Alphabet) /\ y = x \o e
  BY <1>2, <1>5, <1>6, FlattenType, FlattenAppend
<1>8. PICK rest \in Seq(Alphabet) : s = y \o rest
  <2>1. k + 1 \in 0 .. Len(ss)
    BY <1>1, <1>3
  <2>2. \E q \in Seq(Alphabet) : FlattenSeq(ss) = FlattenSeq(SubSeq(ss, 1, k + 1)) \o q
    BY <1>3, <2>1, FlattenPrefix
  <2>3. QED
    BY <1>4, <1>5, <2>2
<1>9. Joins3(s, x, e, rest)
  BY <1>7, <1>8 DEF Joins3
<1>10. StandsAt(s, Len(x), e) /\ Len(s) = Len(x) + Len(e) + Len(rest)
  BY <1>2, <1>4, <1>7, <1>9, PartStands
<1>11. Len(x) \in Nat /\ Len(e) \in Nat /\ Len(rest) \in Nat /\ Len(y) = Len(x) + Len(e)
  <2>1. Joins(y, x, e)
    BY <1>7 DEF Joins
  <2>2. QED
    BY <1>2, <1>7, <2>1, ElementsOf, JoinsElements
<1>12. Arrived(s, Len(x)) /\ ReplyEnd(s, Len(x)) = Len(x) + Len(e) /\ ReplyAt(s, Len(x)) = r
  BY <1>2, <1>4, <1>10, <1>11, ReplyStands DEF r, e
<1>13. Len(x) \in 0 .. Len(s) /\ Len(y) \in 0 .. Len(s)
  BY <1>10, <1>11
<1>14. QED
  BY <1>4, <1>7, <1>11, <1>12, <1>13 DEF x, y, r

\* What the reader makes of the stream: the first responses one by one, as long as each that
\* is no bulk string is one line, and then what it makes of the rest.
LEMMA RepliesFound ==
  ASSUME NEW given \in Seq(AnswerType),
         NEW s \in Seq(Alphabet), s = FlattenSeq(Serialized(given)),
         NEW f, \A i \in 0 .. Len(s) : f[i] = Rest(f, s, i),
         NEW n \in 0 .. Len(given), \A i \in 1 .. n : IsLine(given[i].response)
  PROVE  f[0] = SubSeq(ResponsesOf(given), 1, n) \o f[Len(Before(given, n))]
<1> DEFINE rs == ResponsesOf(given)
           p(k) == Len(Before(given, k))
           T == Reply \cup Found(s)
           Q(k) == f[0] = SubSeq(rs, 1, k) \o f[p(k)]
           S == {k \in Nat : k <= n => Q(k)}
<1>1. Len(given) \in Nat /\ n \in Nat /\ n <= Len(given) /\ Len(s) \in Nat
  BY ElementsOf
<1>2. /\ rs \in Seq(T) /\ Len(rs) = Len(given)
      /\ \A i \in 1 .. Len(given) : rs[i] = given[i].response /\ rs[i] \in T
  <2>1. DOMAIN given = 1 .. Len(given) /\ \A i \in 1 .. Len(given) : given[i] \in AnswerType
    BY ElementsOf
  <2>2. /\ rs \in [1 .. Len(given) -> T]
        /\ \A i \in 1 .. Len(given) : rs[i] = given[i].response /\ rs[i] \in T
    BY <2>1 DEF ResponsesOf, AnswerType
  <2> HIDE DEF rs, T
  <2>3. QED
    BY <1>1, <2>2
<1>3. \A i \in 0 .. Len(s) : f[i] \in Seq(T)
  <2>1. \A i \in 0 .. Len(s) : f[i] \in Seq(Found(s))
    BY RestType
  <2>2. Seq(Found(s)) \subseteq Seq(T)
    BY SeqMonotonic
  <2>3. QED
    BY <2>1, <2>2
<1> HIDE DEF rs, T
<1>4. 0 \in S
  <2>1. SubSeq(rs, 1, 0) = <<>>
    BY <1>2
  <2>2. p(0) = 0
    <3>1. SubSeq(Serialized(given), 1, 0) = <<>>
      OBVIOUS
    <3>2. Len(<<>>) = 0
      OBVIOUS
    <3>3. QED
      BY <3>1, <3>2, FlattenEmpty DEF Before
  <2>3. f[0] \in Seq(T)
    BY <1>1, <1>3
  <2>4. <<>> \o f[0] = f[0]
    BY <2>3
  <2>5. QED
    BY <2>1, <2>2, <2>4
<1>5. ASSUME NEW k \in Nat, k \in S PROVE k + 1 \in S
  <2>1. SUFFICES ASSUME k + 1 <= n PROVE Q(k + 1)
    <3> HIDE DEF Q
    <3>1. QED
      OBVIOUS
  <2>2. k <= n /\ k < Len(given) /\ k + 1 \in 1 .. n /\ k + 1 \in 1 .. Len(given)
    BY <1>1, <2>1
  <2>3. f[0] = SubSeq(rs, 1, k) \o f[p(k)]
    BY <1>5, <2>2
  <2>4. IsLine(given[k + 1].response)
    BY <2>2
  <2>5. /\ p(k) \in 0 .. Len(s) /\ p(k + 1) \in 0 .. Len(s) /\ Arrived(s, p(k))
        /\ ReplyEnd(s, p(k)) = p(k + 1) /\ ReplyAt(s, p(k)) = given[k + 1].response
    BY <2>2, <2>4, GivenStands
  <2> HIDE DEF p, S
  <2>6. f[p(k)] = <<rs[k + 1]>> \o f[p(k + 1)]
    BY <1>2, <2>2, <2>5 DEF Rest
  <2>7. SubSeq(rs, 1, k + 1) = Append(SubSeq(rs, 1, k), rs[k + 1])
    BY <1>2, <2>2, PrefixAndNext
  <2>8. SubSeq(rs, 1, k) \in Seq(T) /\ rs[k + 1] \in T /\ f[p(k + 1)] \in Seq(T)
    <3>1. SubSeq(rs, 1, k) \in Seq(T)
      BY <1>2, <2>2
    <3>2. QED
      BY <1>2, <1>3, <2>2, <2>5, <3>1
  <2>9. Moves(SubSeq(rs, 1, k), rs[k + 1], f[p(k + 1)])
    BY <2>8, OneMoved
  <2>10. QED
    BY <2>3, <2>6, <2>7, <2>9 DEF Moves
<1>6. \A k \in Nat : k \in S
  <2> HIDE DEF S
  <2>1. QED
    BY <1>4, <1>5, Induction
<1>7. Q(n)
  <2> HIDE DEF Q
  <2>1. QED
    BY <1>1, <1>6
<1>8. QED
  BY <1>7 DEF rs

\* The answers written are the first of the answers, and the stream is their bytes.
LEMMA WrittenAnswers ==
  ASSUME IInv
  PROVE  /\ Written \in Seq(AnswerType) /\ Len(Written) \in Nat /\ DOMAIN Written = 1 .. Len(Written)
         /\ Len(Written) <= Len(handled) /\ Len(handled) \in Nat
         /\ \A i \in 1 .. Len(Written) : Written[i] = answers[i]
         /\ stream = FlattenSeq(Serialized(Written)) /\ stream \in Seq(Alphabet)
         /\ Replied = ResponsesOf(Written) /\ Replied \in Seq(Reply) /\ Len(Replied) = Len(Written)
         /\ \A i \in 1 .. Len(Written) : Replied[i] = Written[i].response
<1>1. /\ answers \in Seq(AnswerType) /\ Len(answers) = Len(handled) /\ Len(answers) \in Nat
      /\ pc = "writing" => answers # <<>>
  BY ElementsOf DEF IInv, Types, Answered
<1>2. /\ Written \in Seq(AnswerType) /\ Len(Written) <= Len(answers)
      /\ \A i \in 1 .. Len(Written) : Written[i] = answers[i]
  <2>1. CASE pc = "writing"
    <3> DEFINE before == Front(answers)
    <3>1. /\ before \in Seq(AnswerType) /\ Len(before) = Len(answers) - 1
          /\ answers = Append(before, Last(answers)) /\ Last(answers) \in AnswerType
      BY <1>1, <2>1, FrontAndLast
    <3>2. Written = before
      BY <2>1 DEF Written
    <3> HIDE DEF before
    <3>3. \A i \in 1 .. Len(before) : answers[i] = before[i]
      BY <3>1, AppendElements
    <3>4. QED
      BY <1>1, <3>1, <3>2, <3>3
  <2>2. CASE pc # "writing"
    BY <1>1, <2>2 DEF Written
  <2>3. QED
    BY <2>1, <2>2
<1>3. /\ Len(Written) \in Nat /\ DOMAIN Written = 1 .. Len(Written)
      /\ \A i \in 1 .. Len(Written) : Written[i] \in AnswerType
  BY <1>2, ElementsOf
<1>4. Serialized(Written) \in Seq(Seq(Alphabet))
  BY <1>2, SerializedType
<1>5. stream = FlattenSeq(Serialized(Written)) /\ stream \in Seq(Alphabet)
  BY <1>4, FlattenType DEF IInv, Streamed
<1>6. Replied = ResponsesOf(Written)
  BY DEF Replied, ResponsesOf
<1>7. /\ Replied \in [1 .. Len(Written) -> Reply]
      /\ \A i \in 1 .. Len(Written) : Replied[i] = Written[i].response
  BY <1>3 DEF Replied, AnswerType
<1>8. Replied \in Seq(Reply) /\ Len(Replied) = Len(Written)
  BY <1>3, <1>7
<1>9. QED
  BY <1>1, <1>2, <1>3, <1>5, <1>6, <1>7, <1>8

\* When each of them is one line or has its length in front, the client reads them all.
LEMMA AllReadBack ==
  ASSUME IInv, \A i \in DOMAIN Replied : IsLine(Replied[i])
  PROVE  Decode(stream) = Replied
<1> DEFINE n == Len(Written)
           l == Len(stream)
<1>1. /\ Written \in Seq(AnswerType) /\ n \in Nat /\ DOMAIN Written = 1 .. n
      /\ stream = FlattenSeq(Serialized(Written)) /\ stream \in Seq(Alphabet)
      /\ Replied = ResponsesOf(Written) /\ Replied \in Seq(Reply) /\ Len(Replied) = n
      /\ \A i \in 1 .. n : Replied[i] = Written[i].response
  BY WrittenAnswers
<1>2. \A i \in 1 .. n : IsLine(Written[i].response)
  <2>1. DOMAIN Replied = 1 .. n
    BY <1>1, ElementsOf
  <2>2. QED
    BY <1>1, <2>1
<1>3. PICK f : Decode(stream) = f[0] /\ \A i \in 0 .. l : f[i] = Rest(f, stream, i)
  BY <1>1, DecodeDefined
<1>4. f[0] = SubSeq(Replied, 1, n) \o f[Len(Before(Written, n))]
  <2>1. n \in 0 .. n
    BY <1>1
  <2>2. f[0] = SubSeq(ResponsesOf(Written), 1, n) \o f[Len(Before(Written, n))]
    BY <1>1, <1>2, <1>3, <2>1, RepliesFound
  <2>3. QED
    BY <1>1, <2>2
<1>5. Before(Written, n) = stream
  <2> DEFINE ss == Serialized(Written)
  <2>1. ss \in Seq(Seq(Alphabet)) /\ Len(ss) = n
    BY <1>1, SerializedType
  <2>2. Before(Written, n) = FlattenSeq(SubSeq(ss, 1, n))
    BY DEF Before
  <2> HIDE DEF ss, n
  <2>3. SubSeq(ss, 1, n) = ss
    BY <2>1, SubSeqFull
  <2>4. QED
    BY <1>1, <2>2, <2>3 DEF ss
<1>6. f[l] = <<>>
  <2>1. l \in Nat /\ l \in 0 .. l /\ l + 1 .. l = {}
    BY <1>1
  <2>2. ~Arrived(stream, l)
    BY <1>1, <2>1, ReplyEnds
  <2>3. QED
    BY <1>3, <2>1, <2>2 DEF Rest
<1>7. SubSeq(Replied, 1, n) = Replied /\ Replied \o <<>> = Replied
  BY <1>1, SubSeqFull
<1>8. QED
  BY <1>3, <1>4, <1>5, <1>6, <1>7

\* Up to the first reply that is neither, it reads what it was given.
LEMMA FirstReadBack ==
  ASSUME IInv, NEW b \in DOMAIN Replied,
         \A i \in DOMAIN Replied : ~IsLine(Replied[i]) => b <= i
  PROVE  IsPrefix(SubSeq(Replied, 1, b - 1), Decode(stream))
<1> DEFINE n == b - 1
           l == Len(stream)
<1>1. /\ Written \in Seq(AnswerType) /\ Len(Written) \in Nat
      /\ stream = FlattenSeq(Serialized(Written)) /\ stream \in Seq(Alphabet)
      /\ Replied = ResponsesOf(Written) /\ Replied \in Seq(Reply) /\ Len(Replied) = Len(Written)
      /\ \A i \in 1 .. Len(Written) : Replied[i] = Written[i].response
  BY WrittenAnswers
<1>2. DOMAIN Replied = 1 .. Len(Written)
  BY <1>1, ElementsOf
<1>3. n \in 0 .. Len(Written) /\ n + 1 = b /\ n \in Nat /\ n + 1 \in 1 .. Len(Written)
  BY <1>1, <1>2
<1>4. \A i \in 1 .. n : IsLine(Written[i].response)
  <2>1. \A i \in 1 .. n : i \in 1 .. Len(Written) /\ ~(b <= i)
    BY <1>1, <1>3
  <2>2. QED
    BY <1>1, <1>2, <2>1
<1> HIDE DEF n
<1>5. PICK f : Decode(stream) = f[0] /\ \A i \in 0 .. l : f[i] = Rest(f, stream, i)
  BY <1>1, DecodeDefined
<1>6. f[0] = SubSeq(Replied, 1, n) \o f[Len(Before(Written, n))]
  <2>1. f[0] = SubSeq(ResponsesOf(Written), 1, n) \o f[Len(Before(Written, n))]
    BY <1>1, <1>3, <1>4, <1>5, RepliesFound
  <2>2. QED
    BY <1>1, <2>1
<1> DEFINE T == Reply \cup Found(stream)
           rest == f[Len(Before(Written, n))]
<1>7. rest \in Seq(T)
  <2>1. Len(Before(Written, n)) \in 0 .. l
    <3> DEFINE ss == Serialized(Written)
    <3>1. ss \in Seq(Seq(Alphabet)) /\ Len(ss) = Len(Written)
      BY SerializedType, <1>1
    <3> HIDE DEF ss
    <3>2. n \in 0 .. Len(ss)
      BY <1>3, <3>1
    <3>3. PICK r \in Seq(Alphabet) : FlattenSeq(ss) = FlattenSeq(SubSeq(ss, 1, n)) \o r
      BY <3>1, <3>2, FlattenPrefix
    <3>4. SubSeq(ss, 1, n) \in Seq(Seq(Alphabet))
      BY <3>1, <3>2
    <3>5. FlattenSeq(SubSeq(ss, 1, n)) \in Seq(Alphabet)
      BY <3>4, FlattenType
    <3> DEFINE x == Before(Written, n)
    <3>6. x \in Seq(Alphabet) /\ Joins(stream, x, r)
      BY <1>1, <3>3, <3>5 DEF Before, Joins, ss
    <3> HIDE DEF x
    <3>7. Len(stream) = Len(x) + Len(r) /\ Len(x) \in Nat /\ Len(r) \in Nat
      BY <3>6, JoinsElements, ElementsOf
    <3>8. QED
      BY <3>7 DEF x
  <2>2. rest \in Seq(Found(stream))
    BY <1>1, <1>5, <2>1, RestType
  <2>3. Seq(Found(stream)) \subseteq Seq(T)
    BY SeqMonotonic
  <2>4. QED
    BY <2>2, <2>3
<1>8. SubSeq(Replied, 1, n) \in Seq(T)
  <2>1. SubSeq(Replied, 1, n) \in Seq(Reply)
    BY <1>1, <1>3
  <2>2. Seq(Reply) \subseteq Seq(T)
    BY SeqMonotonic
  <2>3. QED
    BY <2>1, <2>2
<1> HIDE DEF T, rest
<1>9. IsPrefix(SubSeq(Replied, 1, n), SubSeq(Replied, 1, n) \o rest)
  BY <1>7, <1>8, PrefixOfConcat
<1>10. QED
  BY <1>5, <1>6, <1>9 DEF n, rest

\* The client finds each reply in the stream where it ends and with the text it was given
\* (Response::serialize), whatever bytes the text has, up to the first error that repeats the
\* name of an unknown command (error.rs:5) in which there is a CRLF.
THEOREM RepliesAreRead == Spec => []RepliesReadBack
<1>1. IInv => RepliesReadBack
  <2> SUFFICES ASSUME IInv PROVE RepliesReadBack
    OBVIOUS
  <2> DEFINE broken == {i \in DOMAIN Replied : ~IsLine(Replied[i])}
  <2>1. CASE broken = {}
    <3>1. \A i \in DOMAIN Replied : IsLine(Replied[i])
      BY <2>1
    <3>2. Decode(stream) = Replied
      BY <3>1, AllReadBack
    <3>3. QED
      BY <2>1, <3>2 DEF RepliesReadBack
  <2>2. CASE broken # {}
    <3>1. Replied \in Seq(Reply)
      BY WrittenAnswers
    <3>2. broken \in SUBSET Nat
      BY <3>1
    <3>3. Min(broken) \in broken /\ \A i \in broken : Min(broken) <= i
      BY <2>2, <3>2, LeastOf
    <3> DEFINE b == Min(broken)
    <3>4. b \in DOMAIN Replied /\ \A i \in DOMAIN Replied : ~IsLine(Replied[i]) => b <= i
      BY <3>3
    <3> HIDE DEF b
    <3>5. IsPrefix(SubSeq(Replied, 1, b - 1), Decode(stream))
      BY <3>4, FirstReadBack
    <3>6. QED
      BY <2>2, <3>5 DEF RepliesReadBack, b
  <2>3. QED
    BY <2>1, <2>2
<1>2. QED
  BY <1>1, Invariant, PTL

\* From end to end, through the deserializer, the command and the serializer: as long as each
\* read returns one message (main.rs:49), the replies the client reads answer its messages one
\* by one, and the text of an ECHO comes back byte for byte.
THEOREM AnsweredEndToEnd == Spec => []EndToEnd
<1>1. IInv /\ C!StepInv => EndToEnd
  <2> SUFFICES ASSUME IInv, C!StepInv, whole, \A i \in DOMAIN Replied : IsLine(Replied[i])
               PROVE  /\ Len(Decode(stream)) <= Len(sent)
                      /\ \A i \in DOMAIN Decode(stream) :
                           \E ps \in Requests :
                             sent[i] = Message(ps) /\ Decode(stream)[i] \in Responses(ps)
    BY DEF EndToEnd
  <2>1. Decode(stream) = Replied
    BY AllReadBack
  <2>2. /\ Replied \in Seq(Reply) /\ Len(Replied) = Len(Written) /\ Len(Written) \in Nat
        /\ Len(Written) <= Len(handled) /\ Len(handled) \in Nat
        /\ \A i \in 1 .. Len(Written) : Written[i] = answers[i]
        /\ \A i \in 1 .. Len(Written) : Replied[i] = Written[i].response
    BY WrittenAnswers
  <2>3. DOMAIN Replied = 1 .. Len(Written)
    BY <2>2, ElementsOf
  <2>4. /\ Len(handled) <= Len(sent) /\ Len(sent) \in Nat
        /\ \A i \in 1 .. Len(handled) : handled[i] = sent[i]
        /\ \A i \in 1 .. Len(sent) : sent[i] \in Messages
    <3>1. sent \in Seq(Messages)
      BY DEF IInv, Types, Messages
    <3>2. Len(sent) \in Nat /\ \A i \in 1 .. Len(sent) : sent[i] \in Messages
      BY <3>1, ElementsOf
    <3>3. QED
      BY <3>2 DEF C!StepInv, C!OneByOne
  <2>5. ASSUME NEW i \in 1 .. Len(Written)
        PROVE  \E ps \in Requests : sent[i] = Message(ps) /\ Replied[i] \in Responses(ps)
    <3>1. i \in 1 .. Len(handled) /\ i \in 1 .. Len(sent)
      BY <2>2, <2>4
    <3>2. PICK ps \in Requests : sent[i] = Message(ps)
      BY <2>4, <3>1 DEF Messages
    <3>3. ps \in Arrays /\ Encodes(handled[i], ps, Numerals)
      BY <2>4, <3>1, <3>2, MessageEncodes
    <3>4. answers[i].response \in Responses(ps)
      BY <3>1, <3>3 DEF IInv, Answered
    <3>5. QED
      BY <2>2, <3>2, <3>4
  <2>6. Len(Replied) <= Len(sent)
    BY <2>2, <2>4
  <2>7. QED
    BY <2>1, <2>3, <2>5, <2>6
<1>2. QED
  BY <1>1, Invariant, InStepWithConnection, PTL
=============================================================================
