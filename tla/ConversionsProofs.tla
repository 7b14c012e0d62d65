------------------------- MODULE ConversionsProofs -------------------------
(***************************************************************************)
(* What the conversions compute, for every width of a word and every base: *)
(* recursion and induction in the form the other proofs use them, numbers  *)
(* as digits, and that the hex and decimal conversions keep the number.    *)
(***************************************************************************)
EXTENDS Conversions, SequenceTheorems, WellFoundedInduction, TLAPS

----------------------------------------------------------------------------
(* Bytes, digits and numbers *)

\* Every nonempty set of naturals has a least element: induction, in the form
\* used below (look at the least counterexample).
LEMMA LeastElement ==
  ASSUME NEW S, S \subseteq Nat, S # {}
  PROVE  \E m \in S : \A k \in S : m <= k
<1>1. PICK m \in S : \A k \in S : <<k, m>> \notin OpToRel(<, Nat)
  BY WFMin, NatLessThanWellFounded
<1>2. \A k \in S : ~(k < m)
  BY <1>1 DEF OpToRel
<1> QED BY <1>2

\* What is before a place that is not the first.
LEMMA OneBefore ==
  ASSUME NEW len \in Nat, NEW n \in 0..len, n # 0
  PROVE  n \in 1..len /\ n - 1 \in 0..len /\ ~(n <= n - 1)
OBVIOUS

\* One digit more of a number.
NextValue(base, digits, f, n) == f[n - 1] * base + digits[n]

\* ValueUpTo satisfies its own recursion.
LEMMA ValueExists ==
  ASSUME NEW base, NEW digits, NEW len \in Nat
  PROVE  \E f : f = [n \in 0..len |-> IF n = 0 THEN 0 ELSE NextValue(base, digits, f, n)]
<1> DEFINE Upto(m) == \E f : f = [n \in 0..m |-> IF n = 0 THEN 0 ELSE NextValue(base, digits, f, n)]
           Bad == {m \in Nat : ~Upto(m)}
<1> HIDE DEF Upto
<1>1. Bad = {}
  <2> SUFFICES ASSUME Bad # {} PROVE FALSE
    OBVIOUS
  <2>1. PICK m \in Bad : \A k \in Bad : m <= k
    <3>1. Bad \subseteq Nat
      OBVIOUS
    <3> QED BY <3>1, LeastElement
  <2>2. m # 0
    <3>1. [n \in 0..0 |-> 0]
            = [n \in 0..0 |-> IF n = 0 THEN 0 ELSE NextValue(base, digits, [k \in 0..0 |-> 0], n)]
      BY \A n \in 0..0 : n = 0
    <3>2. Upto(0)
      BY <3>1 DEF Upto
    <3> QED BY <3>2
  <2>3. m \in Nat /\ m - 1 \in Nat /\ Upto(m - 1)
    BY <2>1, <2>2
  <2>4. PICK f : f = [n \in 0..(m - 1) |-> IF n = 0 THEN 0 ELSE NextValue(base, digits, f, n)]
    BY <2>3 DEF Upto
  <2> DEFINE g == [n \in 0..m |-> IF n = m THEN NextValue(base, digits, f, m) ELSE f[n]]
  <2>5. \A n \in 0..m : g[n] = IF n = 0 THEN 0 ELSE NextValue(base, digits, g, n)
    <3> SUFFICES ASSUME NEW n \in 0..m
                 PROVE  g[n] = IF n = 0 THEN 0 ELSE NextValue(base, digits, g, n)
      OBVIOUS
    <3>1. CASE n = m
      <4>1. g[n - 1] = f[m - 1]
        BY <2>2, <2>3, <3>1
      <4> QED BY <2>2, <3>1, <4>1 DEF NextValue
    <3>2. CASE n # m
      <4>1. n \in 0..(m - 1)
        BY <2>3, <3>2
      <4>2. f[n] = IF n = 0 THEN 0 ELSE NextValue(base, digits, f, n)
        BY <2>4, <4>1
      <4>3. n # 0 => g[n - 1] = f[n - 1]
        BY <2>3, <4>1
      <4> QED BY <3>2, <4>1, <4>2, <4>3 DEF NextValue
    <3> QED BY <3>1, <3>2
  <2>6. g = [n \in 0..m |-> IF n = 0 THEN 0 ELSE NextValue(base, digits, g, n)]
    BY <2>5
  <2>7. Upto(m)
    BY <2>6 DEF Upto
  <2> QED BY <2>1, <2>7
<1>2. Upto(len)
  BY <1>1
<1> QED BY <1>2 DEF Upto

\* So ValueUpTo is one, and its values are numbers.
LEMMA ValueRecursion ==
  ASSUME NEW base \in Nat, NEW digits \in Seq(Nat)
  PROVE  LET v == ValueUpTo(base, digits)
         IN  /\ v[0] = 0
             /\ \A n \in 1..Len(digits) : v[n] = v[n - 1] * base + digits[n]
             /\ \A n \in 0..Len(digits) : v[n] \in Nat
<1> DEFINE v == ValueUpTo(base, digits)
           len == Len(digits)
<1>1. v = CHOOSE g : g = [n \in 0..len |-> IF n = 0 THEN 0 ELSE NextValue(base, digits, g, n)]
  BY DEF ValueUpTo, NextValue
<1>2. len \in Nat
  OBVIOUS
<1>3. v = [n \in 0..len |-> IF n = 0 THEN 0 ELSE NextValue(base, digits, v, n)]
  <2> HIDE DEF v, len
  <2> QED BY <1>1, <1>2, ValueExists
<1> HIDE DEF v, len
<1>4. v[0] = 0
  BY <1>2, <1>3
<1>5. \A n \in 1..len : v[n] = v[n - 1] * base + digits[n]
  BY <1>2, <1>3 DEF NextValue
<1>6. \A n \in 0..len : v[n] \in Nat
  <2> DEFINE Bad == {n \in 0..len : v[n] \notin Nat}
  <2> SUFFICES ASSUME Bad # {} PROVE FALSE
    OBVIOUS
  <2>1. PICK n \in Bad : \A k \in Bad : n <= k
    <3>1. Bad \subseteq Nat
      BY <1>2
    <3> QED BY <3>1, LeastElement
  <2>2. n \in 1..len /\ n - 1 \in 0..len /\ n - 1 \notin Bad
    BY <1>2, <1>4, <2>1
  <2>3. v[n - 1] \in Nat /\ digits[n] \in Nat
    BY <2>2 DEF len
  <2>4. v[n] \in Nat
    <3>1. \A x, d \in Nat : x * base + d \in Nat
      OBVIOUS
    <3>2. v[n] = v[n - 1] * base + digits[n]
      BY <1>5, <2>2
    <3> QED BY <2>3, <3>1, <3>2
  <2> QED BY <2>1, <2>4
<1> QED BY <1>4, <1>5, <1>6 DEF v, len

\* Two words up to byte n: equal so far, or the first one greater.
LEMMA LexValue ==
  ASSUME NEW B \in Nat, NEW len \in Nat,
         NEW a \in Seq(0..(B - 1)), NEW b \in Seq(0..(B - 1)), Len(a) = len, Len(b) = len
  PROVE  /\ (\A j \in 1..len : a[j] = b[j]) => Denotes(B, a) = Denotes(B, b)
         /\ (\E i \in 1..len : a[i] > b[i] /\ \A j \in 1..(i - 1) : a[j] = b[j])
              => Denotes(B, a) > Denotes(B, b)
<1> DEFINE va == ValueUpTo(B, a)
           vb == ValueUpTo(B, b)
           Same(n) == \A j \in 1..n : a[j] = b[j]
           More(n) == \E i \in 1..n : a[i] > b[i] /\ Same(i - 1)
           Bad == {n \in 0..len : ~((Same(n) => va[n] = vb[n]) /\ (More(n) => va[n] > vb[n]))}
<1>1. a \in Seq(Nat) /\ b \in Seq(Nat)
  OBVIOUS
<1>2. /\ va[0] = 0 /\ vb[0] = 0
      /\ \A n \in 1..len : va[n] = va[n - 1] * B + a[n] /\ vb[n] = vb[n - 1] * B + b[n]
      /\ \A n \in 0..len : va[n] \in Nat /\ vb[n] \in Nat
  BY <1>1, ValueRecursion
<1>3. \A n \in 1..len : a[n] \in 0..(B - 1) /\ b[n] \in 0..(B - 1)
  OBVIOUS
<1> HIDE DEF va, vb
<1>4. Bad = {}
  <2> SUFFICES ASSUME Bad # {} PROVE FALSE
    OBVIOUS
  <2>1. PICK n \in Bad : \A k \in Bad : n <= k
    <3>1. Bad \subseteq Nat
      OBVIOUS
    <3> QED BY <3>1, LeastElement
  <2>2. n # 0
    BY <1>2, <2>1
  <2>3. n \in 1..len /\ n - 1 \in 0..len /\ n - 1 \notin Bad
    <3>1. n \in 0..len
      BY <2>1
    <3>2. n \in 1..len /\ n - 1 \in 0..len /\ ~(n <= n - 1)
      BY <2>2, <3>1
    <3> HIDE DEF Bad
    <3> QED BY <2>1, <3>2
  <2>4. /\ Same(n - 1) => va[n - 1] = vb[n - 1]
        /\ More(n - 1) => va[n - 1] > vb[n - 1]
    BY <2>3
  <2>5. /\ va[n] = va[n - 1] * B + a[n] /\ vb[n] = vb[n - 1] * B + b[n]
        /\ va[n - 1] \in Nat /\ vb[n - 1] \in Nat
        /\ a[n] \in 0..(B - 1) /\ b[n] \in 0..(B - 1)
    BY <1>2, <1>3, <2>3
  <2>6. ASSUME Same(n) PROVE va[n] = vb[n]
    <3>1. Same(n - 1) /\ a[n] = b[n]
      BY <2>3, <2>6
    <3> QED BY <2>4, <2>5, <3>1
  <2>7. ASSUME More(n) PROVE va[n] > vb[n]
    <3>1. PICK i \in 1..n : a[i] > b[i] /\ Same(i - 1)
      BY <2>7
    <3>2. CASE i = n
      <4>1. va[n - 1] = vb[n - 1] /\ a[n] > b[n]
        BY <2>4, <3>1, <3>2
      <4>2. va[n - 1] * B = vb[n - 1] * B /\ va[n - 1] * B \in Int
        BY <2>5, <4>1
      <4> QED BY <2>5, <4>1, <4>2
    <3>3. CASE i # n
      <4>1. More(n - 1)
        <5>1. i \in 1..(n - 1)
          BY <2>3, <3>3
        <5> QED BY <3>1, <5>1
      <4>2. va[n - 1] >= vb[n - 1] + 1
        <5> HIDE DEF More, Same
        <5>1. va[n - 1] > vb[n - 1]
          BY <2>4, <4>1
        <5>2. \A x, y \in Nat : x > y => x >= y + 1
          OBVIOUS
        <5>3. va[n - 1] \in Nat /\ vb[n - 1] \in Nat
          BY <2>5
        <5> QED BY <5>1, <5>2, <5>3, Zenon
      <4>3. \A x, y \in Nat : x >= y + 1 => x * B >= y * B + B
        <5> SUFFICES ASSUME NEW x \in Nat, NEW y \in Nat, x >= y + 1 PROVE x * B >= y * B + B
          OBVIOUS
        <5>1. (x - (y + 1)) * B >= 0
          OBVIOUS
        <5> QED BY <5>1
      <4>4. va[n - 1] * B >= vb[n - 1] * B + B
        BY <2>5, <4>2, <4>3
      <4>5. \A x, y \in Nat : x * B \in Int /\ y * B \in Int
        OBVIOUS
      <4>6. PICK p, q \in Int : p = va[n - 1] * B /\ q = vb[n - 1] * B
        BY <2>5, <4>5
      <4>7. va[n] = p + a[n] /\ vb[n] = q + b[n] /\ p >= q + B
        BY <2>5, <4>4, <4>6
      <4> QED BY <2>5, <4>7
    <3> QED BY <3>2, <3>3
  <2> QED BY <2>1, <2>6, <2>7
<1>5. (Same(len) => va[len] = vb[len]) /\ (More(len) => va[len] > vb[len])
  <2> HIDE DEF Same, More
  <2>1. len \in 0..len /\ len \notin Bad
    BY <1>4
  <2> QED BY <2>1
<1> QED BY <1>5 DEF va, vb, Denotes

\* A byte has at least one value.
LEMMA ByteNat == Byte \in Nat /\ Byte > 0
BY ConversionsAssumption DEF Byte

\* A function on 1..n is a sequence of length n.
LEMMA FunctionIsSeq ==
  ASSUME NEW S, NEW n \in Nat, NEW f \in [1..n -> S]
  PROVE  f \in Seq(S) /\ Len(f) = n
OBVIOUS

\* memcmp compares numbers.
LEMMA GreaterIsGreater ==
  ASSUME NEW a \in Word, NEW b \in Word
  PROVE  greater_be_256(a, b) <=> Denotes(Byte, a) > Denotes(Byte, b)
<1> DEFINE Above(x, y) == \E i \in 1..WordWidth : x[i] > y[i] /\ \A j \in 1..(i - 1) : x[j] = y[j]
<1>1. /\ WordWidth \in Nat
      /\ a \in Seq(0..(Byte - 1)) /\ Len(a) = WordWidth
      /\ b \in Seq(0..(Byte - 1)) /\ Len(b) = WordWidth
      /\ \A i \in 1..WordWidth : a[i] \in Int /\ b[i] \in Int
  <2>1. WordWidth \in Nat
    BY ConversionsAssumption
  <2>2. a \in Seq(0..(Byte - 1)) /\ Len(a) = WordWidth
    BY <2>1, FunctionIsSeq, Zenon DEF Word
  <2>3. b \in Seq(0..(Byte - 1)) /\ Len(b) = WordWidth
    BY <2>1, FunctionIsSeq, Zenon DEF Word
  <2>4. \A i \in 1..WordWidth : a[i] \in Int /\ b[i] \in Int
    BY <2>2, <2>3, ByteNat
  <2> QED BY <2>1, <2>2, <2>3, <2>4
<1>2. Denotes(Byte, a) \in Nat /\ Denotes(Byte, b) \in Nat
  <2>1. a \in Seq(Nat) /\ b \in Seq(Nat)
    BY <1>1, ByteNat
  <2> QED BY <1>1, <2>1, ByteNat, ValueRecursion DEF Denotes
<1>3. /\ (\A j \in 1..WordWidth : a[j] = b[j]) => Denotes(Byte, a) = Denotes(Byte, b)
      /\ Above(a, b) => Denotes(Byte, a) > Denotes(Byte, b)
  BY <1>1, ByteNat, LexValue
<1>4. Above(b, a) => Denotes(Byte, b) > Denotes(Byte, a)
  BY <1>1, ByteNat, LexValue
<1>5. (\A j \in 1..WordWidth : a[j] = b[j]) \/ Above(a, b) \/ Above(b, a)
  <2> DEFINE Differ == {j \in 1..WordWidth : a[j] # b[j]}
  <2> SUFFICES ASSUME Differ # {} PROVE Above(a, b) \/ Above(b, a)
    OBVIOUS
  <2>1. PICK i \in Differ : \A k \in Differ : i <= k
    <3>1. Differ \subseteq Nat
      BY <1>1
    <3> QED BY <3>1, LeastElement
  <2>2. i \in 1..WordWidth /\ \A j \in 1..(i - 1) : a[j] = b[j]
    BY <1>1, <2>1
  <2>3. a[i] > b[i] \/ b[i] > a[i]
    BY <1>1, <2>1
  <2> QED BY <2>2, <2>3
<1>6. greater_be_256(a, b) <=> Above(a, b)
  BY DEF greater_be_256
<1> HIDE DEF Above
<1> QED BY <1>2, <1>3, <1>4, <1>5, <1>6

\* Two hex digits a byte: the same number in either base.
LEMMA HexValue ==
  ASSUME NEW N \in Nat, NEW len \in Nat, NEW d \in Seq(Nat), NEW w \in Seq(Nat),
         Len(d) = 2 * len, Len(w) = len, \A i \in 1..len : w[i] = d[2 * i - 1] * N + d[2 * i]
  PROVE  Denotes(N * N, w) = Denotes(N, d)
<1> DEFINE vd == ValueUpTo(N, d)
           vw == ValueUpTo(N * N, w)
           Bad == {n \in 0..len : vw[n] # vd[2 * n]}
<1>1. N * N \in Nat
  OBVIOUS
<1>2. /\ vd[0] = 0
      /\ \A n \in 1..(2 * len) : vd[n] = vd[n - 1] * N + d[n]
      /\ \A n \in 0..(2 * len) : vd[n] \in Nat
  BY ValueRecursion
<1>3. /\ vw[0] = 0
      /\ \A n \in 1..len : vw[n] = vw[n - 1] * (N * N) + w[n]
  BY <1>1, ValueRecursion
<1> HIDE DEF vd, vw
<1>4. Bad = {}
  <2> SUFFICES ASSUME Bad # {} PROVE FALSE
    OBVIOUS
  <2>1. PICK n \in Bad : \A k \in Bad : n <= k
    <3>1. Bad \subseteq Nat
      OBVIOUS
    <3> QED BY <3>1, LeastElement
  <2>2. n # 0
    BY <1>2, <1>3, <2>1
  <2>3. n \in 1..len /\ n - 1 \in 0..len /\ n - 1 \notin Bad
    <3>1. n \in 0..len
      BY <2>1
    <3>2. n \in 1..len /\ n - 1 \in 0..len /\ ~(n <= n - 1)
      BY <2>2, <3>1, OneBefore, Zenon
    <3> HIDE DEF Bad
    <3> QED BY <2>1, <3>2, Zenon
  <2>4. /\ 2 * n \in 1..(2 * len) /\ 2 * n - 1 \in 1..(2 * len)
        /\ 2 * n - 1 - 1 = 2 * (n - 1) /\ 2 * (n - 1) \in 0..(2 * len)
    BY <2>3
  <2>5. vw[n - 1] = vd[2 * (n - 1)] /\ vd[2 * (n - 1)] \in Nat
    BY <1>2, <2>3, <2>4
  <2>6. PICK x, y, z \in Nat : x = vd[2 * (n - 1)] /\ y = d[2 * n - 1] /\ z = d[2 * n]
    <3>1. d[2 * n - 1] \in Nat /\ d[2 * n] \in Nat
      <4>1. \A i \in 1..Len(d) : d[i] \in Nat
        BY ElementOfSeq
      <4>2. \A i \in 1..(2 * len) : d[i] \in Nat
        BY <4>1
      <4> QED BY <2>4, <4>2
    <3> QED BY <2>5, <3>1
  <2>7. vd[2 * n - 1] = x * N + y
    BY <1>2, <2>4, <2>6
  <2>8. vd[2 * n] = (x * N + y) * N + z
    BY <1>2, <2>4, <2>6, <2>7
  <2>9. vw[n] = x * (N * N) + (y * N + z)
    BY <1>3, <2>3, <2>5, <2>6
  <2>10. (x * N + y) * N + z = x * (N * N) + (y * N + z)
    OBVIOUS
  <2> QED BY <2>1, <2>8, <2>9, <2>10
<1>5. vw[len] = vd[2 * len]
  <2>1. len \in 0..len
    OBVIOUS
  <2> QED BY <1>4, <2>1
<1> QED BY <1>5 DEF vd, vw, Denotes

----------------------------------------------------------------------------
(* Numbers as decimal text *)

\* Division with remainder.
LEMMA DivRem ==
  ASSUME NEW n \in Nat, NEW p \in Nat, p > 0
  PROVE  \E q \in Nat, r \in 0..(p - 1) : q = n \div p /\ r = n % p /\ n = p * q + r
<1> DEFINE q == n \div p
           r == n % p
<1>1. q \in Nat
  OBVIOUS
<1>2. r \in 0..(p - 1)
  OBVIOUS
<1>3. r = n - p * q
  OBVIOUS
<1> HIDE DEF q, r
<1>4. p * q \in Int
  BY <1>1
<1>5. n = p * q + r
  BY <1>2, <1>3, <1>4
<1>6. q = n \div p /\ r = n % p
  BY DEF q, r
<1> QED BY <1>1, <1>2, <1>5, <1>6

\* One byte more of a division.
NextRest(word, f, n) == (f[n - 1] * Byte + word[n]) % Radix

\* RestUpTo satisfies its own recursion.
LEMMA RestExists ==
  ASSUME NEW word, NEW len \in Nat
  PROVE  \E f : f = [n \in 0..len |-> IF n = 0 THEN 0 ELSE NextRest(word, f, n)]
<1> DEFINE Upto(m) == \E f : f = [n \in 0..m |-> IF n = 0 THEN 0 ELSE NextRest(word, f, n)]
           Bad == {m \in Nat : ~Upto(m)}
<1> HIDE DEF Upto
<1>1. Bad = {}
  <2> SUFFICES ASSUME Bad # {} PROVE FALSE
    OBVIOUS
  <2>1. PICK m \in Bad : \A k \in Bad : m <= k
    <3>1. Bad \subseteq Nat
      OBVIOUS
    <3> QED BY <3>1, LeastElement
  <2>2. m # 0
    <3>1. [n \in 0..0 |-> 0]
            = [n \in 0..0 |-> IF n = 0 THEN 0 ELSE NextRest(word, [k \in 0..0 |-> 0], n)]
      BY \A n \in 0..0 : n = 0
    <3>2. Upto(0)
      BY <3>1 DEF Upto
    <3> QED BY <3>2
  <2>3. m \in Nat /\ m - 1 \in Nat /\ Upto(m - 1)
    BY <2>1, <2>2
  <2>4. PICK f : f = [n \in 0..(m - 1) |-> IF n = 0 THEN 0 ELSE NextRest(word, f, n)]
    BY <2>3 DEF Upto
  <2> DEFINE g == [n \in 0..m |-> IF n = m THEN NextRest(word, f, m) ELSE f[n]]
  <2>5. \A n \in 0..m : g[n] = IF n = 0 THEN 0 ELSE NextRest(word, g, n)
    <3> SUFFICES ASSUME NEW n \in 0..m
                 PROVE  g[n] = IF n = 0 THEN 0 ELSE NextRest(word, g, n)
      OBVIOUS
    <3>1. CASE n = m
      <4>1. g[n - 1] = f[m - 1]
        BY <2>2, <2>3, <3>1
      <4> QED BY <2>2, <3>1, <4>1 DEF NextRest
    <3>2. CASE n # m
      <4>1. n \in 0..(m - 1)
        BY <2>3, <3>2
      <4>2. f[n] = IF n = 0 THEN 0 ELSE NextRest(word, f, n)
        BY <2>4, <4>1
      <4>3. n # 0 => g[n - 1] = f[n - 1]
        BY <2>3, <4>1
      <4> QED BY <3>2, <4>1, <4>2, <4>3 DEF NextRest
    <3> QED BY <3>1, <3>2
  <2>6. g = [n \in 0..m |-> IF n = 0 THEN 0 ELSE NextRest(word, g, n)]
    BY <2>5
  <2>7. Upto(m)
    BY <2>6 DEF Upto
  <2> QED BY <2>1, <2>7
<1>2. Upto(len)
  BY <1>1
<1> QED BY <1>2 DEF Upto

\* So RestUpTo is one, and its values are remainders.
LEMMA RestRecursion ==
  ASSUME NEW word \in Word
  PROVE  LET rest == RestUpTo(word)
         IN  /\ rest[0] = 0
             /\ \A n \in 1..WordWidth : rest[n] = (rest[n - 1] * Byte + word[n]) % Radix
             /\ \A n \in 0..WordWidth : rest[n] \in 0..(Radix - 1)
<1> DEFINE rest == RestUpTo(word)
<1>1. rest = CHOOSE g : g = [n \in 0..WordWidth |-> IF n = 0 THEN 0 ELSE NextRest(word, g, n)]
  BY DEF RestUpTo, NextRest
<1>2. WordWidth \in Nat /\ Radix \in Nat /\ Radix > 1
  BY ConversionsAssumption
<1>3. rest = [n \in 0..WordWidth |-> IF n = 0 THEN 0 ELSE NextRest(word, rest, n)]
  <2> HIDE DEF rest
  <2> QED BY <1>1, <1>2, RestExists
<1> HIDE DEF rest
<1>4. rest[0] = 0
  BY <1>2, <1>3
<1>5. \A n \in 1..WordWidth : rest[n] = (rest[n - 1] * Byte + word[n]) % Radix
  BY <1>2, <1>3 DEF NextRest
<1>6. \A n \in 0..WordWidth : rest[n] \in 0..(Radix - 1)
  <2> DEFINE Bad == {n \in 0..WordWidth : rest[n] \notin 0..(Radix - 1)}
  <2> SUFFICES ASSUME Bad # {} PROVE FALSE
    OBVIOUS
  <2>1. PICK n \in Bad : \A k \in Bad : n <= k
    <3>1. Bad \subseteq Nat
      BY <1>2
    <3> QED BY <3>1, LeastElement
  <2>2. n \in 1..WordWidth /\ n - 1 \in 0..WordWidth /\ n - 1 \notin Bad
    BY <1>2, <1>4, <2>1
  <2>3. rest[n - 1] \in Nat /\ word[n] \in Nat
    BY <1>2, <2>2, ByteNat DEF Word
  <2>4. \A x, y \in Nat : x * Byte + y \in Nat
    BY ByteNat
  <2>5. rest[n - 1] * Byte + word[n] \in Nat
    BY <2>3, <2>4
  <2>6. rest[n] \in 0..(Radix - 1)
    BY <1>2, <1>5, <2>2, <2>5, DivRem
  <2> QED BY <2>1, <2>6
<1> QED BY <1>4, <1>5, <1>6 DEF rest

\* A word is a sequence of bytes and denotes a number.
LEMMA WordNumber ==
  ASSUME NEW w \in Word
  PROVE  w \in Seq(Nat) /\ Len(w) = WordWidth /\ WordWidth \in Nat /\ Denotes(Byte, w) \in Nat
<1>1. w \in Seq(Nat) /\ Len(w) = WordWidth /\ WordWidth \in Nat
  BY ConversionsAssumption, ByteNat DEF Word
<1>2. Denotes(Byte, w) \in Nat
  BY <1>1, ByteNat, ValueRecursion DEF Denotes
<1> QED BY <1>1, <1>2

\* The long division of uint256_be_to_decimal divides the number.
LEMMA DivModDivides ==
  ASSUME NEW w \in Word
  PROVE  /\ DivMod(w).quotient \in Word
         /\ DivMod(w).remainder \in 0..(Radix - 1)
         /\ Denotes(Byte, w) = Radix * Denotes(Byte, DivMod(w).quotient) + DivMod(w).remainder
<1> DEFINE rest == RestUpTo(w)
           q == [i \in 1..WordWidth |-> (rest[i - 1] * Byte + w[i]) \div Radix]
           t(i) == rest[i - 1] * Byte + w[i]
           vw == ValueUpTo(Byte, w)
           vq == ValueUpTo(Byte, q)
<1>1. DivMod(w).quotient = q /\ DivMod(w).remainder = rest[WordWidth]
  BY DEF DivMod
<1>2. WordWidth \in Nat /\ Radix \in Nat /\ Radix > 1 /\ Byte \in Nat /\ Byte > 0
  BY ConversionsAssumption, ByteNat
<1>3. /\ rest[0] = 0
      /\ \A n \in 1..WordWidth : rest[n] = (rest[n - 1] * Byte + w[n]) % Radix
      /\ \A n \in 0..WordWidth : rest[n] \in 0..(Radix - 1)
  BY RestRecursion
<1> HIDE DEF rest
<1>4. \A i \in 1..WordWidth : w[i] \in 0..(Byte - 1)
  BY DEF Word
<1>5. ASSUME NEW i \in 1..WordWidth
      PROVE  /\ q[i] \in 0..(Byte - 1) /\ t(i) \in Nat
             /\ t(i) = Radix * q[i] + rest[i]
  <2>1. i - 1 \in 0..WordWidth
    BY <1>2
  <2>2. PICK r \in 0..(Radix - 1), b \in 0..(Byte - 1) : r = rest[i - 1] /\ b = w[i]
    BY <1>3, <1>4, <2>1
  <2>3. t(i) = r * Byte + b
    BY <2>2
  <2>4. r * Byte + b \in Nat
    BY <1>2
  <2>5. r * Byte + b < Radix * Byte
    <3>1. r * Byte <= (Radix - 1) * Byte /\ r * Byte \in Int
      BY <1>2
    <3>2. (Radix - 1) * Byte = Radix * Byte - Byte /\ Radix * Byte \in Int
      BY <1>2
    <3> QED BY <1>2, <3>1, <3>2
  <2>6. q[i] = t(i) \div Radix /\ rest[i] = t(i) % Radix
    BY <1>3
  <2> HIDE DEF q, t
  <2>7. q[i] \in Nat /\ t(i) = Radix * q[i] + rest[i] /\ rest[i] \in Nat
    <3>1. t(i) \in Nat
      BY <2>3, <2>4
    <3>2. PICK d \in Nat, e \in 0..(Radix - 1) :
            d = t(i) \div Radix /\ e = t(i) % Radix /\ t(i) = Radix * d + e
      BY <1>2, <3>1, DivRem
    <3>3. q[i] = d /\ rest[i] = e
      BY <2>6, <3>2
    <3>4. t(i) = Radix * q[i] + rest[i]
      BY <3>2, <3>3, Zenon
    <3>5. q[i] \in Nat /\ rest[i] \in Nat
      BY <1>2, <3>3
    <3> QED BY <3>4, <3>5, Zenon
  <2>8. q[i] < Byte
    <3> SUFFICES ASSUME q[i] >= Byte PROVE FALSE
      BY <1>2, <2>7
    <3>1. Radix * q[i] >= Radix * Byte /\ Radix * q[i] \in Int /\ Radix * Byte \in Int
      BY <1>2, <2>7
    <3>2. t(i) < Radix * Byte
      BY <2>3, <2>5
    <3> QED BY <2>7, <3>1, <3>2
  <2> QED BY <1>2, <2>3, <2>4, <2>7, <2>8
<1>6. q \in Word
  BY <1>5 DEF Word
<1> HIDE DEF q
<1>7. /\ vw[0] = 0 /\ vq[0] = 0
      /\ \A n \in 1..WordWidth : vw[n] = vw[n - 1] * Byte + w[n] /\ vq[n] = vq[n - 1] * Byte + q[n]
      /\ \A n \in 0..WordWidth : vw[n] \in Nat /\ vq[n] \in Nat
  BY <1>2, <1>6, WordNumber, ValueRecursion
<1> HIDE DEF vw, vq
<1> DEFINE Bad == {n \in 0..WordWidth : vw[n] # Radix * vq[n] + rest[n]}
<1>8. Bad = {}
  <2> SUFFICES ASSUME Bad # {} PROVE FALSE
    OBVIOUS
  <2>1. PICK n \in Bad : \A k \in Bad : n <= k
    <3>1. Bad \subseteq Nat
      BY <1>2
    <3> QED BY <3>1, LeastElement
  <2>2. n # 0
    <3>1. Radix * 0 + 0 = 0
      BY <1>2
    <3>2. 0 \notin Bad
      BY <1>3, <1>7, <3>1
    <3> QED BY <2>1, <3>2
  <2>3. n \in 1..WordWidth /\ n - 1 \in 0..WordWidth /\ n - 1 \notin Bad
    <3>1. n \in 0..WordWidth /\ n - 1 \in Int /\ ~(n <= n - 1)
      BY <1>2, <2>1
    <3>2. n - 1 \notin Bad
      BY <2>1, <3>1
    <3> QED BY <1>2, <2>2, <3>1, <3>2
  <2>4. PICK x, y, z, b, c, r \in Nat :
          /\ x = vw[n - 1] /\ y = vq[n - 1] /\ z = rest[n - 1] /\ b = w[n] /\ c = q[n] /\ r = rest[n]
    <3>1. vw[n - 1] \in Nat /\ vq[n - 1] \in Nat
      BY <1>7, <2>3
    <3>2. rest[n - 1] \in Nat /\ rest[n] \in Nat
      BY <1>2, <1>3, <2>3
    <3>3. w[n] \in Nat /\ q[n] \in Nat
      BY <1>2, <1>4, <1>5, <2>3
    <3> QED BY <3>1, <3>2, <3>3
  <2>5. x = Radix * y + z
    BY <2>3, <2>4
  <2>6. z * Byte + b = Radix * c + r
    BY <1>5, <2>3, <2>4
  <2>7. vw[n] = x * Byte + b /\ vq[n] = y * Byte + c
    BY <1>7, <2>3, <2>4
  <2>8. x * Byte + b = Radix * (y * Byte + c) + r
    <3>1. x * Byte = (Radix * y) * Byte + z * Byte
      BY <1>2, <2>5
    <3>2. Radix * (y * Byte + c) = (Radix * y) * Byte + Radix * c
      BY <1>2
    <3>3. z * Byte \in Int /\ Radix * c \in Int /\ (Radix * y) * Byte \in Int
      BY <1>2
    <3> QED BY <2>6, <3>1, <3>2, <3>3
  <2>9. vw[n] = Radix * vq[n] + rest[n]
    BY <2>4, <2>7, <2>8
  <2> QED BY <2>1, <2>9
<1>9. vw[WordWidth] = Radix * vq[WordWidth] + rest[WordWidth]
  <2>1. WordWidth \in 0..WordWidth
    BY <1>2
  <2> QED BY <1>8, <2>1
<1>10. Denotes(Byte, w) = vw[WordWidth] /\ Denotes(Byte, q) = vq[WordWidth]
  BY <1>6, WordNumber DEF Denotes, vw, vq
<1>11. rest[WordWidth] \in 0..(Radix - 1)
  BY <1>2, <1>3
<1> QED BY <1>1, <1>6, <1>9, <1>10, <1>11

\* One digit more: the number is multiplied and the digit added.
LEMMA DenotesAppend ==
  ASSUME NEW base \in Nat, NEW s \in Seq(Nat), NEW d \in Nat
  PROVE  Denotes(base, Append(s, d)) = Denotes(base, s) * base + d
<1> DEFINE t == Append(s, d)
           vs == ValueUpTo(base, s)
           vt == ValueUpTo(base, t)
           Bad == {n \in 0..Len(s) : vt[n] # vs[n]}
<1>1. /\ t \in Seq(Nat) /\ Len(t) = Len(s) + 1 /\ Len(s) \in Nat
      /\ \A n \in 1..Len(s) : t[n] = s[n]
      /\ t[Len(s) + 1] = d
  OBVIOUS
<1> HIDE DEF t
<1>2. /\ vs[0] = 0
      /\ \A n \in 1..Len(s) : vs[n] = vs[n - 1] * base + s[n]
  BY ValueRecursion
<1>3. /\ vt[0] = 0
      /\ \A n \in 1..(Len(s) + 1) : vt[n] = vt[n - 1] * base + t[n]
  BY <1>1, ValueRecursion
<1> HIDE DEF vs, vt
<1>4. Bad = {}
  <2> SUFFICES ASSUME Bad # {} PROVE FALSE
    OBVIOUS
  <2>1. PICK n \in Bad : \A k \in Bad : n <= k
    <3>1. Bad \subseteq Nat
      BY <1>1
    <3> QED BY <3>1, LeastElement
  <2>2. n # 0
    BY <1>1, <1>2, <1>3, <2>1
  <2>3. n \in 1..Len(s) /\ n \in 1..(Len(s) + 1) /\ n - 1 \in 0..Len(s) /\ n - 1 \notin Bad
    <3>1. n \in 0..Len(s) /\ n - 1 \in Int /\ ~(n <= n - 1)
      BY <1>1, <2>1
    <3>2. n - 1 \notin Bad
      BY <2>1, <3>1
    <3> QED BY <1>1, <2>2, <3>1, <3>2
  <2>4. vt[n - 1] = vs[n - 1] /\ t[n] = s[n]
    BY <1>1, <2>3
  <2>5. vt[n] = vs[n]
    <3>1. vt[n] = vt[n - 1] * base + t[n] /\ vs[n] = vs[n - 1] * base + s[n]
      BY <1>2, <1>3, <2>3
    <3> QED BY <2>4, <3>1, Zenon
  <2> QED BY <2>1, <2>5
<1>5. vt[Len(s)] = vs[Len(s)]
  BY <1>1, <1>4
<1>6. vt[Len(s) + 1] = vt[Len(s)] * base + d
  <2>1. Len(s) + 1 \in 1..(Len(s) + 1) /\ (Len(s) + 1) - 1 = Len(s)
    BY <1>1
  <2>2. vt[Len(s) + 1] = vt[(Len(s) + 1) - 1] * base + t[Len(s) + 1]
    BY <1>3, <2>1
  <2> QED BY <1>1, <2>1, <2>2, Zenon
<1>7. Denotes(base, t) = vt[Len(s) + 1] /\ Denotes(base, s) = vs[Len(s)]
  BY <1>1 DEF Denotes, vs, vt
<1>8. Denotes(base, t) = Denotes(base, s) * base + d
  BY <1>5, <1>6, <1>7, Zenon
<1> QED BY <1>8 DEF t

\* No digits denote zero.
LEMMA DenotesNone == ASSUME NEW base \in Nat PROVE Denotes(base, << >>) = 0
<1>1. << >> \in Seq(Nat) /\ Len(<< >>) = 0
  OBVIOUS
<1> QED BY <1>1, ValueRecursion DEF Denotes

\* One digit denotes itself.
LEMMA DenotesDigit == ASSUME NEW base \in Nat, NEW d \in Nat PROVE Denotes(base, <<d>>) = d
<1>1. << >> \in Seq(Nat) /\ <<d>> = Append(<< >>, d)
  OBVIOUS
<1>2. Denotes(base, <<d>>) = 0 * base + d
  BY <1>1, DenotesAppend, DenotesNone
<1> QED BY <1>2

\* The recursion of both decimal conversions: the digits of what is left, and
\* one digit more.  It is defined wherever what is left is smaller.
OneMore(Base, b, p, r, f, x) == IF x \in Base THEN b[x] ELSE Append(f[p[x]], r[x])

Shrinks(S, Base, p, m, N) ==
  /\ N \in Nat
  /\ \A x \in S : m[x] \in 0..N
  /\ \A x \in S : x \notin Base => p[x] \in S /\ m[p[x]] < m[x]
Solvable(S, Base, b, p, r) == \E f : f = [x \in S |-> OneMore(Base, b, p, r, f, x)]

\* A function with that recursion exists.
LEMMA DigitsExist ==
  ASSUME NEW S, NEW Base, NEW b, NEW p, NEW r, NEW m, NEW N, Shrinks(S, Base, p, m, N)
  PROVE  Solvable(S, Base, b, p, r)
<1> USE DEF Shrinks
<1> DEFINE Low(n) == {x \in S : m[x] < n}
           Upto(n) == \E f : f = [x \in Low(n) |-> OneMore(Base, b, p, r, f, x)]
           Bad == {n \in Nat : ~Upto(n)}
<1> HIDE DEF Upto
<1>1. Bad = {}
  <2> SUFFICES ASSUME Bad # {} PROVE FALSE
    OBVIOUS
  <2>1. PICK n \in Bad : \A k \in Bad : n <= k
    <3>1. Bad \subseteq Nat
      OBVIOUS
    <3> QED BY <3>1, LeastElement
  <2>2. n # 0
    <3>1. Low(0) = {}
      OBVIOUS
    <3>2. \E f : f = [x \in {} |-> OneMore(Base, b, p, r, f, x)]
      <4>1. [x \in {} |-> 0] = [x \in {} |-> OneMore(Base, b, p, r, [y \in {} |-> 0], x)]
        OBVIOUS
      <4> QED BY <4>1
    <3>3. Upto(0)
      BY <3>1, <3>2 DEF Upto
    <3> QED BY <2>1, <3>3
  <2>3. n \in Nat /\ n - 1 \in Nat /\ Upto(n - 1)
    BY <2>1, <2>2
  <2>4. PICK f : f = [x \in Low(n - 1) |-> OneMore(Base, b, p, r, f, x)]
    BY <2>3 DEF Upto
  <2> DEFINE g == [x \in Low(n) |-> OneMore(Base, b, p, r, f, x)]
  <2>5. \A x \in Low(n - 1) : x \in Low(n) /\ f[x] = OneMore(Base, b, p, r, f, x)
    BY <2>3, <2>4
  <2>6. \A x \in Low(n - 1) : g[x] = f[x]
    BY <2>5
  <2>7. \A x \in Low(n) : x \notin Base => p[x] \in Low(n - 1)
    BY <2>3
  <2>8. \A x \in Low(n) : OneMore(Base, b, p, r, f, x) = OneMore(Base, b, p, r, g, x)
    <3> HIDE DEF g, Low
    <3> QED BY <2>6, <2>7 DEF OneMore
  <2>9. g = [x \in Low(n) |-> OneMore(Base, b, p, r, g, x)]
    <3>1. g = [x \in Low(n) |-> OneMore(Base, b, p, r, f, x)]
      OBVIOUS
    <3> HIDE DEF g, Low
    <3> QED BY <2>8, <3>1
  <2>10. Upto(n)
    <3> HIDE DEF g
    <3> QED BY <2>9 DEF Upto
  <2> QED BY <2>1, <2>10
<1>2. Low(N + 1) = S
  OBVIOUS
<1>3. Upto(N + 1)
  BY <1>1
<1> HIDE DEF Low
<1> QED BY <1>2, <1>3 DEF Upto, Solvable

\* m is what the digits denote: nothing, or what is left times Radix and a digit.
Counts(S, Base, b, p, r, m) ==
  /\ \A x \in S : m[x] \in Nat
  /\ \A x \in S : x \in Base => b[x] \in Seq(Nat) /\ Denotes(Radix, b[x]) = m[x]
  /\ \A x \in S : x \notin Base => /\ p[x] \in S /\ m[p[x]] < m[x] /\ r[x] \in Nat
                                   /\ m[x] = m[p[x]] * Radix + r[x]

\* Its digits denote m.
LEMMA DigitsDenote ==
  ASSUME NEW S, NEW Base, NEW b, NEW p, NEW r, NEW m, NEW f,
         f = [x \in S |-> OneMore(Base, b, p, r, f, x)], Counts(S, Base, b, p, r, m)
  PROVE  \A x \in S : f[x] \in Seq(Nat) /\ Denotes(Radix, f[x]) = m[x]
<1> USE DEF Counts
<1> DEFINE Good(x) == f[x] \in Seq(Nat) /\ Denotes(Radix, f[x]) = m[x]
           Bad == {n \in Nat : \E x \in S : m[x] = n /\ ~Good(x)}
<1> HIDE DEF Good
<1>1. Bad = {}
  <2> SUFFICES ASSUME Bad # {} PROVE FALSE
    OBVIOUS
  <2>1. PICK n \in Bad : \A k \in Bad : n <= k
    <3>1. Bad \subseteq Nat
      OBVIOUS
    <3> QED BY <3>1, LeastElement
  <2>2. PICK x \in S : m[x] = n /\ ~Good(x)
    BY <2>1
  <2>3. \A y \in S : m[y] < n => Good(y)
    BY <2>1
  <2>4. f[x] = OneMore(Base, b, p, r, f, x)
    OBVIOUS
  <2>5. x \notin Base
    BY <2>2, <2>4 DEF OneMore, Good
  <2>6. /\ p[x] \in S /\ m[p[x]] < m[x] /\ r[x] \in Nat
        /\ m[x] = m[p[x]] * Radix + r[x]
    BY <2>5
  <2>7. Good(p[x])
    BY <2>2, <2>3, <2>6
  <2>8. f[x] = Append(f[p[x]], r[x])
    BY <2>4, <2>5 DEF OneMore
  <2>9. PICK t \in Seq(Nat), d \in Nat : t = f[p[x]] /\ d = r[x]
    BY <2>6, <2>7, Zenon DEF Good
  <2>10. f[x] \in Seq(Nat) /\ Denotes(Radix, f[x]) = Denotes(Radix, f[p[x]]) * Radix + r[x]
    <3>1. Radix \in Nat
      BY ConversionsAssumption
    <3>2. Append(t, d) \in Seq(Nat)
      BY AppendProperties
    <3>3. Denotes(Radix, Append(t, d)) = Denotes(Radix, t) * Radix + d
      BY <3>1, DenotesAppend
    <3> QED BY <2>8, <2>9, <3>2, <3>3, Zenon
  <2>11. Denotes(Radix, f[x]) = m[x]
    BY <2>6, <2>7, <2>10, Zenon DEF Good
  <2> QED BY <2>2, <2>10, <2>11 DEF Good
<1>2. \A x \in S : Good(x)
  BY <1>1
<1> QED BY <1>2 DEF Good

\* A quotient is smaller than what it is a quotient of.
LEMMA QuotientSmaller ==
  ASSUME NEW p \in Nat, p > 1, NEW q \in Nat, NEW r \in Nat, NEW v \in Nat, v > 0, v = p * q + r
  PROVE  q < v
<1>1. (p - 2) * q >= 0 /\ (p - 2) * q = p * q - 2 * q /\ p * q \in Int
  OBVIOUS
<1> QED BY <1>1

\* uint256_be_to_decimal denotes the number its bytes denote.
LEMMA DecimalDenotes ==
  ASSUME NEW word \in Word
  PROVE  Denotes(Radix, uint256_be_to_decimal(word)) = Denotes(Byte, word)
<1> DEFINE S == Word
           Base == {Zero}
           b == [w \in S |-> << >>]
           p == [w \in S |-> DivMod(w).quotient]
           r == [w \in S |-> DivMod(w).remainder]
           m == [w \in S |-> Denotes(Byte, w)]
           Step(f, w) == IF w = Zero THEN << >> ELSE Append(f[DivMod(w).quotient], DivMod(w).remainder)
           f == CHOOSE g : g = [w \in S |-> Step(g, w)]
<1>1. /\ Radix \in Nat /\ Radix > 1 /\ WordWidth \in Nat /\ WordWidth > 0
      /\ Byte \in Nat /\ Byte > 0
  BY ConversionsAssumption, ByteNat
<1>2. uint256_be_to_decimal(word) = IF word = Zero THEN <<0>> ELSE f[word]
  BY DEF uint256_be_to_decimal
<1>3. \A g : \A w \in S : Step(g, w) = OneMore(Base, b, p, r, g, w)
  BY DEF OneMore
<1>4. Zero \in Word /\ MaxWord \in Word
  BY <1>1 DEF Zero, MaxWord, Word
<1>5. \A w \in Word : w # Zero => greater_be_256(w, Zero)
  <2> SUFFICES ASSUME NEW w \in Word, w # Zero PROVE greater_be_256(w, Zero)
    OBVIOUS
  <2> DEFINE Differ == {j \in 1..WordWidth : w[j] # 0}
  <2>1. Differ # {}
    BY DEF Zero, Word
  <2>2. PICK i \in Differ : \A k \in Differ : i <= k
    <3>1. Differ \subseteq Nat
      OBVIOUS
    <3> QED BY <2>1, <3>1, LeastElement
  <2>3. i \in 1..WordWidth /\ w[i] \in 0..(Byte - 1) /\ w[i] # 0
    BY <2>2 DEF Word
  <2>4. w[i] > Zero[i] /\ \A j \in 1..(i - 1) : w[j] = Zero[j]
    BY <1>1, <2>2, <2>3 DEF Zero
  <2> QED BY <2>3, <2>4 DEF greater_be_256
<1>6. \A w \in Word : ~greater_be_256(w, MaxWord)
  BY <1>1 DEF greater_be_256, MaxWord, Word
<1>7. \A w \in Word : /\ Denotes(Byte, w) \in Nat
                      /\ w # Zero => Denotes(Byte, w) > Denotes(Byte, Zero)
                      /\ ~(Denotes(Byte, w) > Denotes(Byte, MaxWord))
  BY <1>4, <1>5, <1>6, GreaterIsGreater, WordNumber
<1>8. Denotes(Byte, Zero) = 0
  <2>1. /\ DivMod(Zero).quotient \in Word /\ DivMod(Zero).remainder \in 0..(Radix - 1)
        /\ Denotes(Byte, Zero) = Radix * Denotes(Byte, DivMod(Zero).quotient) + DivMod(Zero).remainder
    BY <1>4, DivModDivides
  <2> DEFINE q == DivMod(Zero).quotient
  <2>2. Denotes(Byte, q) \in Nat /\ Denotes(Byte, Zero) \in Nat /\ Denotes(Byte, q) >= Denotes(Byte, Zero)
    BY <1>4, <1>7, <2>1
  <2> HIDE DEF q
  <2>3. PICK x, y, e \in Nat : /\ x = Denotes(Byte, Zero) /\ y = Denotes(Byte, q)
                               /\ e = DivMod(Zero).remainder
    BY <1>1, <2>1, <2>2
  <2>4. x = Radix * y + e /\ y >= x
    BY <2>1, <2>2, <2>3 DEF q
  <2>5. x > 0 => y < x
    BY <1>1, <2>4, QuotientSmaller
  <2> QED BY <2>3, <2>4, <2>5
<1>9. \A x \in S : m[x] \in 0..Denotes(Byte, MaxWord) /\ m[x] \in Nat
  BY <1>4, <1>7
<1>10. \A x \in S : x \in Base => b[x] \in Seq(Nat) /\ Denotes(Radix, b[x]) = m[x]
  BY <1>1, <1>4, <1>8, DenotesNone
<1>11. \A x \in S : x \notin Base => /\ p[x] \in S /\ m[p[x]] < m[x] /\ r[x] \in Nat
                                     /\ m[x] = m[p[x]] * Radix + r[x]
  <2> SUFFICES ASSUME NEW x \in S, x \notin Base
               PROVE  /\ p[x] \in S /\ m[p[x]] < m[x] /\ r[x] \in Nat
                      /\ m[x] = m[p[x]] * Radix + r[x]
    OBVIOUS
  <2>1. /\ p[x] \in Word /\ r[x] \in 0..(Radix - 1)
        /\ Denotes(Byte, x) = Radix * Denotes(Byte, p[x]) + r[x]
    BY DivModDivides
  <2>2. m[x] = Denotes(Byte, x) /\ m[p[x]] = Denotes(Byte, p[x])
    BY <2>1
  <2>3. Denotes(Byte, x) \in Nat /\ Denotes(Byte, x) > 0 /\ Denotes(Byte, p[x]) \in Nat
    BY <1>7, <1>8, <2>1
  <2> HIDE DEF p, r, m
  <2>4. PICK v, y, e \in Nat : v = m[x] /\ y = m[p[x]] /\ e = r[x]
    BY <1>1, <2>1, <2>2, <2>3
  <2>5. v = Radix * y + e /\ v > 0
    BY <2>1, <2>2, <2>3, <2>4
  <2>6. y < v /\ v = y * Radix + e
    BY <1>1, <2>5, QuotientSmaller
  <2> QED BY <2>1, <2>4, <2>6
<1>12. f = [k \in S |-> Step(f, k)]
  <2>0. Denotes(Byte, MaxWord) \in Nat
    BY <1>4, <1>7
  <2> HIDE DEF S, Base, b, p, r, m, Step
  <2>1. PICK g : g = [x \in S |-> OneMore(Base, b, p, r, g, x)]
    <3>1. Shrinks(S, Base, p, m, Denotes(Byte, MaxWord))
      BY <1>9, <1>11, <2>0 DEF Shrinks
    <3>2. Solvable(S, Base, b, p, r)
      BY <3>1, DigitsExist
    <3> QED BY <3>2 DEF Solvable
  <2>2. g = [x \in S |-> Step(g, x)]
    BY <1>3, <2>1
  <2> QED BY <2>2
<1> HIDE DEF f, Base, b, p, r, m, Step
<1>13. f = [x \in S |-> OneMore(Base, b, p, r, f, x)]
  BY <1>3, <1>12
<1>14. \A x \in S : f[x] \in Seq(Nat) /\ Denotes(Radix, f[x]) = m[x]
  <2> HIDE DEF S
  <2>1. Counts(S, Base, b, p, r, m)
    BY <1>9, <1>10, <1>11 DEF Counts
  <2> QED BY <1>13, <2>1, DigitsDenote
<1>15. CASE word = Zero
  <2>1. Denotes(Radix, <<0>>) = 0
    BY <1>1, DenotesDigit
  <2> QED BY <1>2, <1>8, <1>15, <2>1
<1>16. CASE word # Zero
  <2>1. m[word] = Denotes(Byte, word)
    BY DEF m
  <2> QED BY <1>2, <1>14, <1>16, <2>1
<1> QED BY <1>15, <1>16
----------------------------------------------------------------------------
(* Decimal text to a word *)

\* Induction up to a bound, for a set in the place of the predicate.
LEMMA Induction ==
  ASSUME NEW len \in Nat, NEW Good, 0 \in Good, \A n \in 1..len : n - 1 \in Good => n \in Good
  PROVE  \A n \in 0..len : n \in Good
<1> DEFINE Bad == {n \in 0..len : n \notin Good}
<1> SUFFICES ASSUME Bad # {} PROVE FALSE
  OBVIOUS
<1>1. PICK n \in Bad : \A k \in Bad : n <= k
  <2>1. Bad \subseteq Nat
    OBVIOUS
  <2> QED BY <2>1, LeastElement
<1>2. n \in 0..len /\ n \notin Good
  BY <1>1
<1>3. n \in 1..len /\ n - 1 \in 0..len /\ ~(n <= n - 1)
  BY <1>2
<1>4. n - 1 \in Good
  BY <1>1, <1>3
<1> QED BY <1>2, <1>3, <1>4

\* A loop whose step is a function of a value and of how far it has come.
Iterates(f, len, X, z, G) ==
  f \in [0..len -> X] /\ f[0] = z /\ \A n \in 1..len : f[n] = G[n][f[n - 1]]

\* Such a loop computes something.
LEMMA RecursionExists ==
  ASSUME NEW len \in Nat, NEW X, NEW z \in X, NEW G, G \in [1..len -> [X -> X]]
  PROVE  \E f : Iterates(f, len, X, z, G)
<1> DEFINE Runs(f, m) == f[0] = z /\ \A n \in 1..m : f[n] = G[n][f[n - 1]]
           Good == {m \in 0..len : \E f \in [0..m -> X] : Runs(f, m)}
<1>1. 0 \in Good
  <2> DEFINE f == [n \in 0..0 |-> z]
  <2>1. f \in [0..0 -> X] /\ Runs(f, 0)
    OBVIOUS
  <2> HIDE DEF f
  <2> QED BY <2>1
<1>2. ASSUME NEW m \in 1..len, m - 1 \in Good PROVE m \in Good
  <2>1. PICK f \in [0..(m - 1) -> X] : Runs(f, m - 1)
    BY <1>2
  <2>2. m - 1 \in 0..(m - 1) /\ f[m - 1] \in X /\ G[m] \in [X -> X]
    OBVIOUS
  <2> DEFINE g == [n \in 0..m |-> IF n = m THEN G[m][f[m - 1]] ELSE f[n]]
  <2>3. g \in [0..m -> X]
    BY <2>2
  <2>4. g[0] = z
    BY <2>1
  <2>5. \A n \in 1..m : g[n] = G[n][g[n - 1]]
    <3> SUFFICES ASSUME NEW n \in 1..m PROVE g[n] = G[n][g[n - 1]]
      OBVIOUS
    <3>1. n - 1 \in 0..m /\ n - 1 # m
      OBVIOUS
    <3>2. g[n - 1] = f[n - 1]
      BY <3>1
    <3>3. CASE n = m
      BY <3>2, <3>3
    <3>4. CASE n # m
      <4>1. n \in 1..(m - 1)
        BY <3>4
      <4>2. f[n] = G[n][f[n - 1]] /\ g[n] = f[n]
        BY <2>1, <3>4, <4>1
      <4> QED BY <3>2, <4>2
    <3> QED BY <3>3, <3>4
  <2> HIDE DEF g
  <2> QED BY <2>3, <2>4, <2>5
<1> HIDE DEF Good
<1>3. \A n \in 0..len : n \in Good
  BY <1>1, <1>2, Induction
<1>4. len \in Good
  BY <1>3
<1> QED BY <1>4 DEF Good, Iterates

\* The carries of a multiplication, as a number multiplied and a byte split.
LEMMA CarryRecursion ==
  ASSUME NEW word \in Word, NEW digit \in Nat
  PROVE  LET c == CarryUpTo(word, digit)
         IN  /\ c[0] = digit
             /\ \A k \in 1..WordWidth : c[k] = (word[WordWidth + 1 - k] * Radix + c[k - 1]) \div Byte
             /\ \A k \in 0..WordWidth : c[k] \in Nat
<1> DEFINE c == CarryUpTo(word, digit)
           Step(x, k) == (word[WordWidth + 1 - k] * Radix + x) \div Byte
           G == [k \in 1..WordWidth |-> [x \in Nat |-> Step(x, k)]]
<1>1. WordWidth \in Nat /\ Radix \in Nat /\ Byte \in Nat /\ Byte > 0
  BY ConversionsAssumption, ByteNat
<1>2. \A k \in 1..WordWidth, x \in Nat : Step(x, k) \in Nat
  <2> SUFFICES ASSUME NEW k \in 1..WordWidth, NEW x \in Nat PROVE Step(x, k) \in Nat
    OBVIOUS
  <2>1. WordWidth + 1 - k \in 1..WordWidth
    BY <1>1
  <2>2. word[WordWidth + 1 - k] \in Nat
    BY <1>1, <2>1 DEF Word
  <2>3. word[WordWidth + 1 - k] * Radix + x \in Nat
    BY <1>1, <2>2
  <2> QED BY <1>1, <2>3, DivRem
<1>3. c = CHOOSE g : g = [k \in 0..WordWidth |-> IF k = 0 THEN digit ELSE Step(g[k - 1], k)]
  BY DEF CarryUpTo
<1> HIDE DEF c, Step
<1>4. G \in [1..WordWidth -> [Nat -> Nat]]
  BY <1>2
<1>5. PICK f : Iterates(f, WordWidth, Nat, digit, G)
  <2> HIDE DEF G
  <2> QED BY <1>1, <1>4, RecursionExists, Zenon
<1> USE DEF Iterates
<1>6. \A k \in 1..WordWidth : k - 1 \in 0..WordWidth /\ f[k] = Step(f[k - 1], k)
  <2> SUFFICES ASSUME NEW k \in 1..WordWidth
               PROVE  k - 1 \in 0..WordWidth /\ f[k] = Step(f[k - 1], k)
    OBVIOUS
  <2>1. k - 1 \in 0..WordWidth
    BY <1>1
  <2>2. f[k - 1] \in Nat
    BY <1>5, <2>1
  <2>3. G[k][f[k - 1]] = Step(f[k - 1], k)
    BY <2>2
  <2> QED BY <1>5, <2>1, <2>3
<1>7. f = [k \in 0..WordWidth |-> IF k = 0 THEN digit ELSE Step(f[k - 1], k)]
  <2>1. \A k \in 0..WordWidth : f[k] = IF k = 0 THEN digit ELSE Step(f[k - 1], k)
    BY <1>1, <1>5, <1>6
  <2> QED BY <1>5, <2>1
<1>8. c = [k \in 0..WordWidth |-> IF k = 0 THEN digit ELSE Step(c[k - 1], k)]
  BY <1>3, <1>7
<1>9. c[0] = digit /\ \A k \in 1..WordWidth : c[k] = Step(c[k - 1], k)
  BY <1>1, <1>8
<1>10. \A k \in 0..WordWidth : c[k] \in Nat
  <2> DEFINE Good == {k \in 0..WordWidth : c[k] \in Nat}
  <2>1. 0 \in Good
    BY <1>1, <1>9
  <2>2. \A k \in 1..WordWidth : k - 1 \in Good => k \in Good
    <3>1. \A k \in 1..WordWidth : k \in 0..WordWidth
      BY <1>1
    <3> QED BY <1>2, <1>9, <3>1
  <2>3. \A k \in 0..WordWidth : k \in Good
    <3> HIDE DEF Good
    <3> QED BY <1>1, <2>1, <2>2, Induction
  <2> QED BY <2>3
<1> QED BY <1>9, <1>10 DEF c, Step

\* A byte multiplied, in front of bytes multiplied.
LEMMA ByteMultiplied ==
  ASSUME NEW v \in Nat, NEW R \in Nat, NEW B \in Nat, NEW w \in Nat,
         NEW c0 \in Nat, NEW c1 \in Nat, NEW r \in Nat, w * R + c0 = B * c1 + r
  PROVE  (v * R + c1) * B + r = (v * B + w) * R + c0
<1>1. (v * R + c1) * B + r = v * R * B + B * c1 + r
  OBVIOUS
<1>2. (v * B + w) * R + c0 = v * R * B + (w * R + c0)
  OBVIOUS
<1> QED BY <1>1, <1>2

\* Times B, a number stays ahead.
LEMMA StaysAhead ==
  ASSUME NEW x \in Nat, NEW y \in Nat, NEW B \in Nat, B > 0, NEW r \in Nat, x >= y + 1
  PROVE  x * B + r >= (y * B + (B - 1)) + 1
<1>1. (x - (y + 1)) * B >= 0 /\ (x - (y + 1)) * B = x * B - y * B - B /\ x * B \in Int /\ y * B \in Int
  OBVIOUS
<1> QED BY <1>1

\* result = result * 10 + digit, when no carry leaves the first byte; when one
\* does, the number is greater than every word.
LEMMA MulAddDenotes ==
  ASSUME NEW word \in Word, NEW digit \in Nat
  PROVE  LET m == MulAdd(word, digit)
         IN  /\ m.word \in Word /\ m.carry \in Nat
             /\ m.carry = 0 => Denotes(Byte, m.word) = Denotes(Byte, word) * Radix + digit
             /\ m.carry > 0 => Denotes(Byte, word) * Radix + digit > Denotes(Byte, MaxWord)
<1> DEFINE W == WordWidth
           c == CarryUpTo(word, digit)
           r == [i \in 1..W |-> (word[i] * Radix + c[W - i]) % Byte]
           vw == ValueUpTo(Byte, word)
           vr == ValueUpTo(Byte, r)
           cap == ValueUpTo(Byte, MaxWord)
<1>1. W \in Nat /\ Radix \in Nat /\ Byte \in Nat /\ Byte > 0
  BY ConversionsAssumption, ByteNat
<1>2. MulAdd(word, digit).word = r /\ MulAdd(word, digit).carry = c[W]
  BY DEF MulAdd
<1>3. /\ c[0] = digit
      /\ \A k \in 1..W : c[k] = (word[W + 1 - k] * Radix + c[k - 1]) \div Byte
      /\ \A k \in 0..W : c[k] \in Nat
  BY CarryRecursion
<1> HIDE DEF c
<1>4. \A i \in 1..W : /\ W - i \in 0..W /\ W - (i - 1) \in 1..W /\ W + 1 - (W - (i - 1)) = i
                      /\ (W - (i - 1)) - 1 = W - i /\ word[i] \in Nat
  BY <1>1 DEF Word
<1>5. \A i \in 1..W : /\ r[i] \in 0..(Byte - 1) /\ r[i] \in Nat
                      /\ word[i] * Radix + c[W - i] = Byte * c[W - (i - 1)] + r[i]
  <2> SUFFICES ASSUME NEW i \in 1..W
               PROVE  /\ r[i] \in 0..(Byte - 1) /\ r[i] \in Nat
                      /\ word[i] * Radix + c[W - i] = Byte * c[W - (i - 1)] + r[i]
    OBVIOUS
  <2> DEFINE x == word[i] * Radix + c[W - i]
  <2>1. c[W - i] \in Nat /\ word[i] \in Nat
    BY <1>3, <1>4
  <2>2. x \in Nat
    BY <1>1, <2>1
  <2>3. c[W - (i - 1)] = x \div Byte
    BY <1>3, <1>4
  <2>4. r[i] = x % Byte
    OBVIOUS
  <2> HIDE DEF x, r
  <2>5. PICK q \in Nat, e \in 0..(Byte - 1) : q = x \div Byte /\ e = x % Byte /\ x = Byte * q + e
    BY <1>1, <2>2, DivRem
  <2>6. e \in Nat
    BY <1>1
  <2> QED BY <2>3, <2>4, <2>5, <2>6 DEF x
<1>6. r \in Word
  BY <1>5 DEF Word
<1> HIDE DEF r
<1>7. MaxWord \in Word /\ \A i \in 1..W : MaxWord[i] = Byte - 1
  BY <1>1 DEF MaxWord, Word
<1>8. /\ \A w \in Word : w \in Seq(Nat) /\ Len(w) = W
      /\ \A w \in Word : Denotes(Byte, w) = ValueUpTo(Byte, w)[W]
  BY WordNumber DEF Denotes
<1>9. \A w \in Word : LET v == ValueUpTo(Byte, w)
                       IN  /\ v[0] = 0
                           /\ \A n \in 1..W : v[n] = v[n - 1] * Byte + w[n]
                           /\ \A n \in 0..W : v[n] \in Nat
  <2> SUFFICES ASSUME NEW w \in Word
               PROVE  LET v == ValueUpTo(Byte, w)
                       IN  /\ v[0] = 0
                           /\ \A n \in 1..W : v[n] = v[n - 1] * Byte + w[n]
                           /\ \A n \in 0..W : v[n] \in Nat
    OBVIOUS
  <2>1. w \in Seq(Nat) /\ Len(w) = W
    BY <1>8
  <2> QED BY <1>1, <2>1, ValueRecursion
<1>10. /\ vw[0] = 0 /\ vr[0] = 0 /\ cap[0] = 0
       /\ \A n \in 1..W : /\ vw[n] = vw[n - 1] * Byte + word[n]
                           /\ vr[n] = vr[n - 1] * Byte + r[n]
                           /\ cap[n] = cap[n - 1] * Byte + (Byte - 1)
       /\ \A n \in 0..W : vw[n] \in Nat /\ vr[n] \in Nat /\ cap[n] \in Nat
  BY <1>6, <1>7, <1>9
<1> HIDE DEF vw, vr, cap, W
<1>11. \A n \in 1..W : n - 1 \in 0..W /\ n \in 0..W /\ W - n \in 0..W /\ W - (n - 1) \in 0..W
  BY <1>1
<1>12. \A n \in 1..W : (vw[n - 1] * Radix + c[W - (n - 1)]) * Byte + r[n] = vw[n] * Radix + c[W - n]
  <2> SUFFICES ASSUME NEW n \in 1..W
               PROVE  (vw[n - 1] * Radix + c[W - (n - 1)]) * Byte + r[n] = vw[n] * Radix + c[W - n]
    OBVIOUS
  <2>1. /\ vw[n - 1] \in Nat /\ c[W - (n - 1)] \in Nat /\ c[W - n] \in Nat
        /\ word[n] \in Nat /\ r[n] \in Nat
    BY <1>3, <1>4, <1>5, <1>10, <1>11
  <2>2. word[n] * Radix + c[W - n] = Byte * c[W - (n - 1)] + r[n]
    BY <1>5
  <2>3. (vw[n - 1] * Radix + c[W - (n - 1)]) * Byte + r[n]
          = (vw[n - 1] * Byte + word[n]) * Radix + c[W - n]
    <3>1. PICK v, w, c0, c1, e \in Nat : /\ v = vw[n - 1] /\ w = word[n] /\ c0 = c[W - n]
                                          /\ c1 = c[W - (n - 1)] /\ e = r[n]
      BY <2>1, Zenon
    <3>2. w * Radix + c0 = Byte * c1 + e
      BY <2>2, <3>1, Zenon
    <3>3. (v * Radix + c1) * Byte + e = (v * Byte + w) * Radix + c0
      BY <1>1, <3>2, ByteMultiplied
    <3> QED BY <3>1, <3>3, Zenon
  <2>4. vw[n] = vw[n - 1] * Byte + word[n]
    BY <1>10
  <2> QED BY <2>3, <2>4, Zenon
<1>13. W - 0 = W /\ W - W = 0 /\ W \in 0..W /\ 0 \in 0..W
  BY <1>1
<1>14. ASSUME c[W] = 0 PROVE vr[W] = vw[W] * Radix + digit
  <2> DEFINE Good == {n \in 0..W : vr[n] = vw[n] * Radix + c[W - n]}
  <2>1. 0 \in Good
    <3>1. vw[0] * Radix + c[W - 0] = 0 * Radix + 0
      BY <1>10, <1>13, <1>14, Zenon
    <3>2. 0 * Radix + 0 = 0
      BY <1>1
    <3> QED BY <1>10, <1>13, <3>1, <3>2
  <2>2. ASSUME NEW n \in 1..W, n - 1 \in Good PROVE n \in Good
    <3>1. vr[n - 1] = vw[n - 1] * Radix + c[W - (n - 1)]
      BY <2>2
    <3>2. vr[n] = vr[n - 1] * Byte + r[n]
      BY <1>10
    <3>3. vr[n] = vw[n] * Radix + c[W - n]
      BY <1>12, <3>1, <3>2, Zenon
    <3> QED BY <1>11, <3>3
  <2> HIDE DEF Good
  <2>3. \A n \in 0..W : n \in Good
    BY <1>1, <2>1, <2>2, Induction
  <2>4. W \in Good
    BY <1>13, <2>3
  <2>5. vr[W] = vw[W] * Radix + c[W - W]
    BY <2>4 DEF Good
  <2> QED BY <1>3, <1>13, <2>5, Zenon
<1>15. ASSUME c[W] > 0 PROVE vw[W] * Radix + digit > cap[W]
  <2> DEFINE Good == {n \in 0..W : vw[n] * Radix + c[W - n] >= cap[n] + 1}
  <2>1. 0 \in Good
    <3>1. c[W] \in Nat
      BY <1>3, <1>13
    <3>2. vw[0] * Radix + c[W - 0] = c[W]
      BY <1>1, <1>10, <1>13, <3>1
    <3> QED BY <1>10, <1>13, <1>15, <3>1, <3>2
  <2>2. ASSUME NEW n \in 1..W, n - 1 \in Good PROVE n \in Good
    <3>1. vw[n - 1] * Radix + c[W - (n - 1)] >= cap[n - 1] + 1
      BY <2>2
    <3>2. /\ vw[n - 1] \in Nat /\ c[W - (n - 1)] \in Nat /\ cap[n - 1] \in Nat /\ r[n] \in Nat
      BY <1>3, <1>5, <1>10, <1>11
    <3>3. vw[n - 1] * Radix + c[W - (n - 1)] \in Nat
      BY <1>1, <3>2
    <3>4. (vw[n - 1] * Radix + c[W - (n - 1)]) * Byte + r[n] >= (cap[n - 1] * Byte + (Byte - 1)) + 1
      BY <1>1, <3>1, <3>2, <3>3, StaysAhead
    <3>5. cap[n] = cap[n - 1] * Byte + (Byte - 1)
      BY <1>10
    <3>6. vw[n] * Radix + c[W - n] >= cap[n] + 1
      BY <1>12, <3>4, <3>5, Zenon
    <3> QED BY <1>11, <3>6
  <2> HIDE DEF Good
  <2>3. \A n \in 0..W : n \in Good
    BY <1>1, <2>1, <2>2, Induction
  <2>4. W \in Good
    BY <1>13, <2>3
  <2>5. vw[W] * Radix + c[W - W] >= cap[W] + 1
    BY <2>4 DEF Good
  <2>6. vw[W] * Radix + digit \in Int /\ cap[W] \in Nat
    BY <1>1, <1>10, <1>13
  <2>7. vw[W] * Radix + digit >= cap[W] + 1
    BY <1>3, <1>13, <2>5, Zenon
  <2> QED BY <2>6, <2>7
<1>16. /\ Denotes(Byte, word) = vw[W] /\ Denotes(Byte, r) = vr[W] /\ Denotes(Byte, MaxWord) = cap[W]
       /\ c[W] \in Nat
  BY <1>3, <1>6, <1>7, <1>8, <1>13 DEF vw, vr, cap
<1> QED BY <1>2, <1>6, <1>14, <1>15, <1>16

\* The zero word denotes zero.
LEMMA ZeroDenotes == Zero \in Word /\ Denotes(Byte, Zero) = 0
<1> DEFINE v == ValueUpTo(Byte, Zero)
           Good == {n \in 0..WordWidth : v[n] = 0}
<1>1. WordWidth \in Nat /\ Byte \in Nat /\ Byte > 0
  BY ConversionsAssumption, ByteNat
<1>2. Zero \in Word /\ \A n \in 1..WordWidth : Zero[n] = 0
  BY <1>1 DEF Zero, Word
<1>3. Zero \in Seq(Nat) /\ Len(Zero) = WordWidth
  BY <1>2, WordNumber
<1>4. v[0] = 0 /\ \A n \in 1..WordWidth : v[n] = v[n - 1] * Byte + Zero[n]
  BY <1>1, <1>3, ValueRecursion
<1> HIDE DEF v
<1>5. 0 \in Good
  BY <1>1, <1>4
<1>6. ASSUME NEW n \in 1..WordWidth, n - 1 \in Good PROVE n \in Good
  <2>1. v[n] = 0 * Byte + 0
    BY <1>2, <1>4, <1>6
  <2>2. 0 * Byte + 0 = 0 /\ n \in 0..WordWidth
    BY <1>1
  <2> QED BY <2>1, <2>2
<1> HIDE DEF Good
<1>7. WordWidth \in Good
  <2>1. \A n \in 0..WordWidth : n \in Good
    BY <1>1, <1>5, <1>6, Induction
  <2> QED BY <1>1, <2>1
<1>8. v[WordWidth] = 0
  BY <1>7 DEF Good
<1> QED BY <1>2, <1>3, <1>8 DEF v, Denotes

\* uint256.max is the greatest word.
LEMMA LargestWord == MaxWord \in Word /\ \A w \in Word : ~greater_be_256(w, MaxWord)
<1>1. WordWidth \in Nat /\ Byte \in Nat /\ Byte > 0
  BY ConversionsAssumption, ByteNat
<1>2. MaxWord \in Word /\ \A i \in 1..WordWidth : MaxWord[i] = Byte - 1
  BY <1>1 DEF MaxWord, Word
<1> QED BY <1>1, <1>2 DEF greater_be_256, Word

\* A number is at most its multiples.
LEMMA TimesAtLeast ==
  ASSUME NEW x \in Nat, NEW R \in Nat, R > 0
  PROVE  x * R >= x /\ x * R \in Nat
<1>1. (R - 1) * x >= 0 /\ (R - 1) * x = x * R - x /\ x * R \in Nat
  OBVIOUS
<1> QED BY <1>1

\* One character of decimal_to_be_256.
NextResult(text, x, n) ==
  IF x = Throws \/ text[n] \notin 0..(Radix - 1) THEN Throws
  ELSE LET step == MulAdd(x, text[n])
       IN  IF step.carry > 0 THEN Throws ELSE step.word

\* ResultUpTo satisfies its own recursion.
LEMMA ResultRecursion ==
  ASSUME NEW text \in Seq(Int)
  PROVE  LET res == ResultUpTo(text)
         IN  /\ res[0] = Zero
             /\ \A n \in 1..Len(text) : res[n] = NextResult(text, res[n - 1], n)
             /\ \A n \in 0..Len(text) : res[n] \in Word \cup {Throws}
<1> DEFINE res == ResultUpTo(text)
           len == Len(text)
           X == Word \cup {Throws}
           G == [n \in 1..len |-> [x \in X |-> NextResult(text, x, n)]]
<1>1. len \in Nat /\ Radix \in Nat
  BY ConversionsAssumption
<1>2. \A n \in 1..len, x \in X : NextResult(text, x, n) \in X
  <2> SUFFICES ASSUME NEW n \in 1..len, NEW x \in X PROVE NextResult(text, x, n) \in X
    OBVIOUS
  <2>1. CASE x = Throws \/ text[n] \notin 0..(Radix - 1)
    BY <2>1 DEF NextResult
  <2>2. CASE x # Throws /\ text[n] \in 0..(Radix - 1)
    <3>1. x \in Word /\ text[n] \in Nat
      BY <1>1, <2>2
    <3>2. MulAdd(x, text[n]).word \in Word
      BY <3>1, MulAddDenotes
    <3> QED BY <2>2, <3>2 DEF NextResult
  <2> QED BY <2>1, <2>2
<1>3. res = CHOOSE g : g = [n \in 0..len |-> IF n = 0 THEN Zero ELSE NextResult(text, g[n - 1], n)]
  BY DEF ResultUpTo, NextResult
<1>4. Zero \in X
  BY ZeroDenotes
<1> HIDE DEF res, len, X
<1>5. G \in [1..len -> [X -> X]]
  BY <1>2
<1>6. PICK f : Iterates(f, len, X, Zero, G)
  <2> HIDE DEF G
  <2> QED BY <1>1, <1>4, <1>5, RecursionExists, Zenon
<1>7. \A n \in 1..len : f[n] = NextResult(text, f[n - 1], n)
  <2> SUFFICES ASSUME NEW n \in 1..len PROVE f[n] = NextResult(text, f[n - 1], n)
    OBVIOUS
  <2>1. n - 1 \in 0..len
    BY <1>1
  <2>2. f[n - 1] \in X /\ f[n] = G[n][f[n - 1]]
    BY <1>6, <2>1 DEF Iterates
  <2> QED BY <2>2
<1>8. f = [n \in 0..len |-> IF n = 0 THEN Zero ELSE NextResult(text, f[n - 1], n)]
  <2>1. \A n \in 0..len : n # 0 => n \in 1..len
    BY <1>1
  <2>2. \A n \in 0..len : f[n] = IF n = 0 THEN Zero ELSE NextResult(text, f[n - 1], n)
    BY <1>6, <1>7, <2>1 DEF Iterates
  <2> QED BY <1>6, <2>2 DEF Iterates
<1>9. res = [n \in 0..len |-> IF n = 0 THEN Zero ELSE NextResult(text, res[n - 1], n)]
  BY <1>3, <1>8
<1>10. res[0] = Zero /\ \A n \in 1..len : res[n] = NextResult(text, res[n - 1], n)
  BY <1>1, <1>9
<1>11. \A n \in 0..len : res[n] \in X
  <2> DEFINE Good == {n \in 0..len : res[n] \in X}
  <2>1. 0 \in Good
    BY <1>1, <1>4, <1>10
  <2>2. \A n \in 1..len : n - 1 \in Good => n \in Good
    <3>1. \A n \in 1..len : n \in 0..len
      BY <1>1
    <3> QED BY <1>2, <1>10, <3>1
  <2>3. \A n \in 0..len : n \in Good
    <3> HIDE DEF Good
    <3> QED BY <1>1, <2>1, <2>2, Induction
  <2> QED BY <2>3
<1> QED BY <1>10, <1>11 DEF res, len, X

\* decimal_to_be_256 of hex.hpp returns the word that denotes the number of its
\* text, and throws exactly on a text that is not decimal or whose number needs
\* more than a word: no threshold is cut to fit.
THEOREM DecimalToWord ==
  ASSUME NEW text \in Seq(Int)
  PROVE  /\ decimal_to_be_256(text) \in Word \cup {Throws}
         /\ decimal_to_be_256(text) # Throws <=> Fits(text)
         /\ decimal_to_be_256(text) # Throws =>
              Denotes(Byte, decimal_to_be_256(text)) = Denotes(Radix, text)
<1> DEFINE res == ResultUpTo(text)
           len == Len(text)
           Digit(i) == text[i] \in 0..(Radix - 1)
           Cap == Denotes(Byte, MaxWord)
<1>1. len \in Nat /\ Radix \in Nat /\ Radix > 0
  BY ConversionsAssumption
<1>2. /\ res[0] = Zero
      /\ \A n \in 1..len : res[n] = NextResult(text, res[n - 1], n)
      /\ \A n \in 0..len : res[n] \in Word \cup {Throws}
  BY ResultRecursion
<1>3. decimal_to_be_256(text) = res[len] /\ (IsDecimal(text) <=> \A i \in 1..len : Digit(i))
  BY DEF decimal_to_be_256, IsDecimal
<1> HIDE DEF res
<1>4. res[len] # Throws => IsDecimal(text)
  <2> DEFINE Good == {n \in 0..len : res[n] # Throws => \A i \in 1..n : Digit(i)}
  <2>1. 0 \in Good
    BY <1>1
  <2>2. ASSUME NEW n \in 1..len, n - 1 \in Good PROVE n \in Good
    <3> SUFFICES ASSUME res[n] # Throws PROVE \A i \in 1..n : Digit(i)
      BY <1>1
    <3>1. res[n - 1] # Throws /\ Digit(n)
      BY <1>2 DEF NextResult
    <3>2. \A i \in 1..(n - 1) : Digit(i)
      BY <2>2, <3>1
    <3> HIDE DEF Digit
    <3> QED BY <1>1, <3>1, <3>2
  <2> HIDE DEF Good
  <2>3. len \in Good
    <3>1. \A n \in 0..len : n \in Good
      BY <1>1, <2>1, <2>2, Induction
    <3> QED BY <1>1, <3>1
  <2> QED BY <1>3, <2>3 DEF Good
<1>5. ASSUME IsDecimal(text)
      PROVE  /\ res[len] # Throws => Denotes(Byte, res[len]) = Denotes(Radix, text)
             /\ res[len] = Throws => Denotes(Radix, text) > Cap
             /\ Denotes(Radix, text) \in Nat
  <2> DEFINE v == ValueUpTo(Radix, text)
             Right(n) == res[n] # Throws => Denotes(Byte, res[n]) = v[n]
             Large(n) == res[n] = Throws => v[n] > Cap
             Good == {n \in 0..len : Right(n) /\ Large(n)}
  <2>1. \A i \in 1..len : text[i] \in Nat
    BY <1>1, <1>3, <1>5
  <2>2. text \in Seq(Nat)
    BY <2>1
  <2>3. /\ v[0] = 0
        /\ \A n \in 1..len : v[n] = v[n - 1] * Radix + text[n]
        /\ \A n \in 0..len : v[n] \in Nat
    BY <1>1, <2>2, ValueRecursion
  <2>4. Denotes(Radix, text) = v[len]
    BY DEF Denotes
  <2> HIDE DEF v
  <2>5. Cap \in Nat /\ MaxWord \in Word
    BY LargestWord, WordNumber
  <2> HIDE DEF Cap
  <2>6. 0 \in Good
    <3>1. Zero # Throws
      BY ZeroDenotes, ThrowsAssumption
    <3>2. Right(0) /\ Large(0)
      BY <1>2, <2>3, <3>1, ZeroDenotes
    <3> QED BY <1>1, <3>2
  <2>7. ASSUME NEW n \in 1..len, n - 1 \in Good PROVE n \in Good
    <3>1. Right(n - 1) /\ Large(n - 1)
      BY <2>7
    <3>2. /\ n - 1 \in 0..len /\ n \in 0..len /\ Digit(n) /\ text[n] \in Nat
          /\ v[n] = v[n - 1] * Radix + text[n] /\ v[n - 1] \in Nat
          /\ res[n] = NextResult(text, res[n - 1], n)
      BY <1>1, <1>2, <1>3, <1>5, <2>1, <2>3
    <3>3. CASE res[n - 1] = Throws
      <4>1. res[n] = Throws
        BY <3>2, <3>3 DEF NextResult
      <4>2. v[n - 1] > Cap
        BY <3>1, <3>3
      <4>3. v[n - 1] * Radix >= v[n - 1] /\ v[n - 1] * Radix \in Nat
        BY <1>1, <3>2, TimesAtLeast, Zenon
      <4>4. v[n] > Cap
        BY <2>5, <3>2, <4>2, <4>3
      <4> QED BY <3>2, <4>1, <4>4
    <3>4. CASE res[n - 1] # Throws
      <4> DEFINE m == MulAdd(res[n - 1], text[n])
      <4>1. res[n - 1] \in Word /\ Denotes(Byte, res[n - 1]) = v[n - 1]
        BY <1>2, <3>1, <3>2, <3>4
      <4>2. /\ m.word \in Word /\ m.carry \in Nat
            /\ m.carry = 0 => Denotes(Byte, m.word) = Denotes(Byte, res[n - 1]) * Radix + text[n]
            /\ m.carry > 0 => Denotes(Byte, res[n - 1]) * Radix + text[n] > Cap
        BY <3>2, <4>1, MulAddDenotes DEF Cap
      <4>3. res[n] = IF m.carry > 0 THEN Throws ELSE m.word
        BY <3>2, <3>4 DEF NextResult
      <4> HIDE DEF m
      <4>4. m.word # Throws
        BY <4>2, ThrowsAssumption
      <4>5. CASE m.carry = 0
        <5>1. res[n] = m.word
          BY <4>3, <4>5
        <5>2. Denotes(Byte, res[n]) = v[n]
          BY <3>2, <4>1, <4>2, <4>5, <5>1, Zenon
        <5> QED BY <3>2, <4>4, <5>1, <5>2
      <4>6. CASE m.carry > 0
        <5>1. res[n] = Throws
          BY <4>3, <4>6
        <5>2. v[n] > Cap
          BY <3>2, <4>1, <4>2, <4>6, Zenon
        <5> QED BY <3>2, <5>1, <5>2
      <4> QED BY <4>2, <4>5, <4>6
    <3> QED BY <3>3, <3>4
  <2> HIDE DEF Good
  <2>8. len \in Good
    <3>1. \A n \in 0..len : n \in Good
      BY <1>1, <2>6, <2>7, Induction
    <3> QED BY <1>1, <3>1
  <2>9. Right(len) /\ Large(len)
    BY <2>8 DEF Good
  <2>10. v[len] \in Nat
    BY <1>1, <2>3
  <2> QED BY <2>4, <2>9, <2>10
<1>6. MaxWord \in Word /\ Cap \in Nat
  BY LargestWord, WordNumber
<1>7. Fits(text) <=> IsDecimal(text) /\ Denotes(Radix, text) <= Cap
  BY DEF Fits, Capacity256
<1>8. res[len] # Throws => Denotes(Radix, text) <= Cap
  <2> SUFFICES ASSUME res[len] # Throws PROVE Denotes(Radix, text) <= Cap
    OBVIOUS
  <2>1. Denotes(Byte, res[len]) = Denotes(Radix, text) /\ res[len] \in Word
    BY <1>1, <1>2, <1>4, <1>5
  <2>2. ~greater_be_256(res[len], MaxWord)
    BY <2>1, LargestWord, Zenon
  <2>3. ~(Denotes(Byte, res[len]) > Cap)
    BY <1>6, <2>1, <2>2, GreaterIsGreater
  <2>4. Denotes(Byte, res[len]) \in Nat
    BY <2>1, WordNumber
  <2> QED BY <1>6, <2>1, <2>3, <2>4
<1> HIDE DEF Cap
<1>9. res[len] # Throws <=> Fits(text)
  BY <1>4, <1>5, <1>6, <1>7, <1>8
<1> QED BY <1>1, <1>2, <1>3, <1>4, <1>5, <1>9
----------------------------------------------------------------------------
(* Hex text to bytes *)

\* The two digits of a byte.
LEMMA TwoDigits ==
  ASSUME NEW N \in Nat, N > 0, NEW b \in 0..(N * N - 1)
  PROVE  /\ b \div N \in 0..(N - 1) /\ b % N \in 0..(N - 1)
         /\ (b \div N) * N + (b % N) = b
<1>1. b \in Nat
  OBVIOUS
<1>2. PICK q \in Nat, r \in 0..(N - 1) : q = b \div N /\ r = b % N /\ b = N * q + r
  BY <1>1, DivRem
<1>3. N * q \in Nat /\ N * q = q * N /\ N * q <= N * N - 1 /\ r \in Nat
  BY <1>2
<1>4. q <= N - 1
  <2> SUFFICES ASSUME q >= N PROVE FALSE
    OBVIOUS
  <2>1. (q - N) * N >= 0 /\ (q - N) * N = q * N - N * N /\ N * N \in Nat
    OBVIOUS
  <2> QED BY <1>3, <2>1
<1>5. q \in 0..(N - 1) /\ q * N + r = b
  BY <1>2, <1>3, <1>4
<1> QED BY <1>2, <1>5

\* What parse_hex_bytes makes of a text that is not too long.
LEMMA HexParsed ==
  ASSUME NEW text \in HexTexts, NEW width \in Nat
  PROVE  /\ parse_hex_bytes(text, width) \in [1..width -> 0..(Byte - 1)] \cup {Throws}
         /\ Len(text.digits) = 2 * width /\ text.prefix = "0x" /\ HexDigits(text) =>
              /\ parse_hex_bytes(text, width) = [i \in 1..width |-> ByteAt(text, i)]
              /\ parse_hex_bytes(text, width) \in [1..width -> 0..(Byte - 1)]
<1> DEFINE d == text.digits
           cut == IF Len(d) < 2 * width THEN Len(d) ELSE 2 * width
           used == [text EXCEPT !.digits = SubSeq(d, 1, cut)]
<1>1. d \in Seq(Int) /\ Len(d) \in Nat
  BY DEF HexTexts
<1>2. Nibble \in Nat /\ Nibble > 1 /\ Byte = Nibble * Nibble
  BY ConversionsAssumption DEF Byte
<1>3. cut \in 0..Len(d)
  BY <1>1
<1>4. parse_hex_bytes(text, width) =
        IF ~Prefixed(text) \/ ~HexDigits(used) THEN Throws
        ELSE [i \in 1..width |-> IF 2 * i <= Len(used.digits) THEN ByteAt(used, i) ELSE 0]
  BY DEF parse_hex_bytes
<1>5. used.digits = SubSeq(d, 1, cut)
  BY DEF HexTexts
<1> HIDE DEF cut
<1>6. /\ SubSeq(d, 1, cut) \in Seq(Int) /\ Len(SubSeq(d, 1, cut)) = cut
      /\ \A i \in 1..cut : SubSeq(d, 1, cut)[i] = d[i]
  BY <1>1, <1>3
<1> HIDE DEF used, d
<1>7. /\ used.digits \in Seq(Int) /\ Len(used.digits) = cut
      /\ \A i \in 1..cut : used.digits[i] = d[i]
  BY <1>5, <1>6
<1>8. ASSUME HexDigits(used), NEW i \in 1..width, 2 * i <= Len(used.digits)
      PROVE  ByteAt(used, i) \in 0..(Byte - 1)
  <2>1. 2 * i \in 1..cut /\ 2 * i - 1 \in 1..cut /\ cut \in Nat
    <3>1. cut \in Nat /\ i \in Nat /\ i >= 1 /\ 2 * i <= cut
      BY <1>1, <1>3, <1>7, <1>8
    <3> HIDE DEF HexDigits
    <3> QED BY <3>1
  <2>2. used.digits[2 * i] \in 0..(Nibble - 1) /\ used.digits[2 * i - 1] \in 0..(Nibble - 1)
    BY <1>7, <1>8, <2>1 DEF HexDigits
  <2>3. PICK a, b \in 0..(Nibble - 1) : a = used.digits[2 * i - 1] /\ b = used.digits[2 * i]
    BY <2>2
  <2>4. a * Nibble + b \in 0..(Nibble * Nibble - 1)
    <3>1. /\ (Nibble - 1 - a) * Nibble >= 0 /\ a * Nibble >= 0 /\ a * Nibble \in Int
          /\ (Nibble - 1 - a) * Nibble = Nibble * Nibble - Nibble - a * Nibble /\ Nibble * Nibble \in Int
      BY <1>2
    <3> QED BY <1>2, <3>1
  <2> QED BY <1>2, <2>3, <2>4 DEF ByteAt
<1>9. HexDigits(used) =>
        [i \in 1..width |-> IF 2 * i <= Len(used.digits) THEN ByteAt(used, i) ELSE 0]
          \in [1..width -> 0..(Byte - 1)]
  <2>1. 0 \in 0..(Byte - 1)
    BY ByteNat
  <2> QED BY <1>8, <2>1
<1>10. ASSUME Len(d) = 2 * width, text.prefix = "0x", HexDigits(text)
       PROVE  /\ parse_hex_bytes(text, width) = [i \in 1..width |-> ByteAt(text, i)]
              /\ parse_hex_bytes(text, width) \in [1..width -> 0..(Byte - 1)]
  <2>1. Prefixed(text)
    <3>1. (2 * width) % 2 = 0
      OBVIOUS
    <3> QED BY <1>10, <3>1 DEF Prefixed, d
  <2>2. cut = 2 * width
    BY <1>10 DEF cut
  <2>3. HexDigits(used)
    <3>1. \A i \in 1..cut : d[i] \in 0..(Nibble - 1)
      BY <1>1, <1>10, <2>2 DEF HexDigits, d
    <3>2. DOMAIN used.digits = 1..cut
      BY <1>7
    <3> QED BY <1>7, <3>1, <3>2 DEF HexDigits
  <2>4. \A i \in 1..width : 2 * i <= Len(used.digits) /\ ByteAt(used, i) = ByteAt(text, i)
    <3> SUFFICES ASSUME NEW i \in 1..width
                 PROVE  2 * i <= Len(used.digits) /\ ByteAt(used, i) = ByteAt(text, i)
      OBVIOUS
    <3>1. 2 * i \in 1..cut /\ 2 * i - 1 \in 1..cut /\ 2 * i <= Len(used.digits)
      BY <1>7, <2>2
    <3>2. used.digits[2 * i] = d[2 * i] /\ used.digits[2 * i - 1] = d[2 * i - 1]
      BY <1>7, <3>1
    <3> QED BY <3>1, <3>2 DEF ByteAt, d
  <2> QED BY <1>4, <1>9, <2>1, <2>3, <2>4
<1> QED BY <1>4, <1>9, <1>10 DEF d

\* parse_hex_bytes of hex.hpp returns the bytes that a text with a prefix spells.
THEOREM SpelledIsParsed ==
  ASSUME NEW text \in HexTexts, NEW width \in Nat, NEW bytes \in [1..width -> 0..(Byte - 1)],
         text.prefix = "0x", text.digits = hex_text(bytes).digits
  PROVE  parse_hex_bytes(text, width) = bytes
<1> DEFINE d == text.digits
<1>1. Nibble \in Nat /\ Nibble > 0 /\ Byte = Nibble * Nibble
  BY ConversionsAssumption DEF Byte
<1>2. bytes \in Seq(0..(Byte - 1)) /\ Len(bytes) = width
  BY FunctionIsSeq, Zenon
<1>3. d = [i \in 1..(2 * width) |-> IF i % 2 = 1 THEN bytes[(i + 1) \div 2] \div Nibble
                                    ELSE bytes[i \div 2] % Nibble]
  BY <1>2 DEF hex_text
<1>4. d \in Seq(Int) /\ Len(d) = 2 * width
  <2>1. d \in Seq(Int)
    BY DEF HexTexts
  <2>2. DOMAIN d = 1..(2 * width)
    BY <1>3
  <2> HIDE DEF d
  <2> QED BY <2>1, <2>2
<1>5. \A i \in 1..width : /\ bytes[i] \in 0..(Nibble * Nibble - 1)
                          /\ bytes[i] \div Nibble \in 0..(Nibble - 1) /\ bytes[i] % Nibble \in 0..(Nibble - 1)
                          /\ (bytes[i] \div Nibble) * Nibble + (bytes[i] % Nibble) = bytes[i]
  <2>1. \A i \in 1..width : bytes[i] \in 0..(Nibble * Nibble - 1)
    BY <1>1
  <2> QED BY <1>1, <2>1, TwoDigits
<1> HIDE DEF d
<1>6. \A i \in 1..width : d[2 * i - 1] = bytes[i] \div Nibble /\ d[2 * i] = bytes[i] % Nibble
  <2> SUFFICES ASSUME NEW i \in 1..width
               PROVE  d[2 * i - 1] = bytes[i] \div Nibble /\ d[2 * i] = bytes[i] % Nibble
    OBVIOUS
  <2>1. /\ 2 * i - 1 \in 1..(2 * width) /\ (2 * i - 1) % 2 = 1 /\ ((2 * i - 1) + 1) \div 2 = i
        /\ 2 * i \in 1..(2 * width) /\ (2 * i) % 2 # 1 /\ (2 * i) \div 2 = i
    OBVIOUS
  <2> QED BY <1>3, <2>1
<1>7. \A k \in 1..(2 * width) : d[k] \in 0..(Nibble - 1)
  <2> SUFFICES ASSUME NEW k \in 1..(2 * width) PROVE d[k] \in 0..(Nibble - 1)
    OBVIOUS
  <2>1. PICK i \in 1..width : k = 2 * i \/ k = 2 * i - 1
    <3>1. PICK q \in Nat, r \in 0..(2 - 1) : q = k \div 2 /\ r = k % 2 /\ k = 2 * q + r
      <4>1. k \in Nat /\ 2 \in Nat /\ 2 > 0
        OBVIOUS
      <4> QED BY <4>1, DivRem, Zenon
    <3>2. CASE r = 0
      BY <3>1, <3>2
    <3>3. CASE r = 1
      <4>1. q + 1 \in 1..width /\ k = 2 * (q + 1) - 1
        BY <3>1, <3>3
      <4> QED BY <4>1
    <3> QED BY <3>2, <3>3
  <2> QED BY <1>5, <1>6, <2>1
<1>8. HexDigits(text)
  BY <1>4, <1>7 DEF HexDigits, d
<1>9. parse_hex_bytes(text, width) = [i \in 1..width |-> ByteAt(text, i)]
  BY <1>4, <1>8, HexParsed DEF d
<1>10. \A i \in 1..width : ByteAt(text, i) = bytes[i]
  <2> SUFFICES ASSUME NEW i \in 1..width PROVE ByteAt(text, i) = bytes[i]
    OBVIOUS
  <2>1. ByteAt(text, i) = (bytes[i] \div Nibble) * Nibble + (bytes[i] % Nibble)
    BY <1>6 DEF ByteAt, d
  <2> QED BY <1>5, <2>1, Zenon
<1> QED BY <1>9, <1>10
=============================================================================
