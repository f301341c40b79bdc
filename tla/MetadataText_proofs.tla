------------------------ MODULE MetadataText_proofs -------------------------
(***************************************************************************)
(* The path the file system is given and the dimensions the host is given, *)
(* for paths, descriptions and dimensions of every length and size.  The   *)
(* code they go through is recursive; the induction its proof needs is     *)
(* drawn from the least element of a set of naturals, which is the form    *)
(* in which a property of n can be stated without an operator parameter.   *)
(***************************************************************************)
EXTENDS MetadataText, SequenceTheorems, WellFoundedInduction, TLAPS

-----------------------------------------------------------------------------
(***************************************************************************)
(* Induction and recursion on naturals.                                    *)
(***************************************************************************)

\* A set of naturals that is not empty has a least element.
LEMMA LeastNatural ==
  ASSUME NEW T \in SUBSET Nat, T # {}
  PROVE  \E m \in T : \A n \in T : m <= n
<1> DEFINE R == OpToRel(<, Nat)
<1>1. IsWellFoundedOn(R, Nat)
  BY NatLessThanWellFounded
<1>2. \A x, y \in Nat : <<y, x>> \in R <=> y < x
  BY DEF OpToRel
<1> HIDE DEF R
<1>3. PICK m \in T : \A y \in T : ~(<<y, m>> \in R)
  BY <1>1, WFMin
<1>4. \A n \in T : ~(n < m)
  BY <1>2, <1>3, Zenon
<1> QED
  BY <1>4

\* Induction: a set of naturals that has 0 and the successor of each of its
\* members has them all.
LEMMA Induction ==
  ASSUME NEW T, 0 \in T, \A n \in Nat : n \in T => n + 1 \in T
  PROVE  \A n \in Nat : n \in T
<1> SUFFICES ASSUME NEW k \in Nat, k \notin T
             PROVE  FALSE
  OBVIOUS
<1> DEFINE Missing == {n \in Nat : n \notin T}
<1>1. PICK m \in Missing : \A n \in Missing : m <= n
  <2>1. Missing \in SUBSET Nat /\ Missing # {}
    OBVIOUS
  <2> QED
    BY <2>1, LeastNatural, Zenon
<1>2. m # 0 /\ m \in Nat
  BY <1>1
<1>3. m - 1 \in Nat /\ m - 1 \in T
  BY <1>1, <1>2
<1>4. (m - 1) + 1 \in T
  BY <1>3
<1> QED
  BY <1>1, <1>2, <1>4

\* A finite set of naturals, bounded by k, that is not empty has a greatest element.
LEMMA GreatestNatural ==
  ASSUME NEW k \in Nat, NEW T \in SUBSET (0..k), T # {}
  PROVE  \E m \in T : \A n \in T : n <= m
<1> DEFINE Gaps == {g \in Nat : g <= k /\ k - g \in T}
<1>1. Gaps \in SUBSET Nat /\ \A n \in T : k - n \in Gaps
  BY \A n \in T : n \in Nat /\ n <= k /\ k - n \in Nat /\ k - n <= k /\ k - (k - n) = n
<1>2. Gaps # {}
  BY <1>1
<1>3. PICK g \in Gaps : \A n \in Gaps : g <= n
  <2> HIDE DEF Gaps
  <2> QED
    BY <1>1, <1>2, LeastNatural, Zenon
<1>4. k - g \in T /\ g \in Nat
  OBVIOUS
<1>5. \A n \in T : g <= k - n
  BY <1>1, <1>3
<1>6. \A n \in T : n <= k - g
  BY <1>4, <1>5
<1> QED
  BY <1>4, <1>6

\* f starts at base, and step leads from each of its values to the next.
Iterates(f, base, step) ==
  f[0] = base /\ \A n \in Nat : f[n + 1] = step[<<n, f[n]>>]

\* Recursion: every step on a set S yields a function on the naturals.
LEMMA Recursion ==
  ASSUME NEW S, NEW base \in S, NEW step \in [Nat \X S -> S]
  PROVE  \E f \in [Nat -> S] : Iterates(f, base, step)
<1> DEFINE Start(k, f) ==
             /\ f \in [0..k -> S] /\ f[0] = base
             /\ \A n \in Nat : n < k => f[n + 1] = step[<<n, f[n]>>]
           Started == {k \in Nat : \E f : Start(k, f)}
           At(k) == CHOOSE f : Start(k, f)
<1>1. \A k \in Nat : k \in Started
  <2>1. 0 \in Started
    <3>1. Start(0, [n \in 0..0 |-> base])
      OBVIOUS
    <3> QED
      BY <3>1
  <2>2. ASSUME NEW k \in Nat, k \in Started
        PROVE  k + 1 \in Started
    <3>1. PICK f : Start(k, f)
      BY <2>2
    <3> DEFINE g == [n \in 0..k + 1 |-> IF n = k + 1 THEN step[<<k, f[k]>>] ELSE f[n]]
    <3>2. f[k] \in S /\ step[<<k, f[k]>>] \in S
      BY <3>1
    <3>3. g \in [0..k + 1 -> S] /\ g[0] = base
      BY <3>1, <3>2
    <3>4. ASSUME NEW n \in Nat, n < k + 1
          PROVE  g[n + 1] = step[<<n, g[n]>>]
      <4>1. g[n] = f[n] /\ n \in 0..k
        BY <3>4
      <4>2. CASE n = k
        <5>1. g[k + 1] = step[<<k, f[k]>>]
          OBVIOUS
        <5> QED
          BY <4>1, <4>2, <5>1
      <4>3. CASE n < k
        <5>1. g[n + 1] = f[n + 1] /\ f[n + 1] = step[<<n, f[n]>>]
          BY <3>1, <4>3
        <5> QED
          BY <4>1, <5>1
      <4> QED
        BY <3>4, <4>2, <4>3
    <3>5. Start(k + 1, g)
      BY <3>3, <3>4
    <3> HIDE DEF Start, g
    <3> QED
      BY <3>5
  <2> HIDE DEF Started
  <2> QED
    BY <2>1, <2>2, Induction
<1>2. \A k \in Nat : Start(k, At(k))
  <2> TAKE k \in Nat
  <2>1. \E f : Start(k, f)
    BY <1>1
  <2> HIDE DEF Start
  <2> QED
    BY <2>1
<1>3. ASSUME NEW k \in Nat, NEW f, NEW g, Start(k, f), Start(k + 1, g)
      PROVE  f[k] = g[k]
  <2> DEFINE Agreed == {n \in Nat : n <= k => f[n] = g[n]}
  <2>1. 0 \in Agreed
    BY <1>3
  <2>2. ASSUME NEW n \in Nat, n \in Agreed
        PROVE  n + 1 \in Agreed
    <3>1. SUFFICES ASSUME n + 1 <= k
                   PROVE  f[n + 1] = g[n + 1]
      OBVIOUS
    <3>2. f[n + 1] = step[<<n, f[n]>>] /\ g[n + 1] = step[<<n, g[n]>>]
      BY <1>3, <3>1
    <3> QED
      BY <2>2, <3>1, <3>2
  <2>3. k \in Agreed
    <3> HIDE DEF Agreed
    <3> QED
      BY <2>1, <2>2, Induction
  <2> QED
    BY <2>3
<1> DEFINE F == [k \in Nat |-> At(k)[k]]
<1> HIDE DEF At
<1>4. F \in [Nat -> S] /\ F[0] = base
  BY <1>2
<1>5. ASSUME NEW n \in Nat
      PROVE  F[n + 1] = step[<<n, F[n]>>]
  <2>1. Start(n, At(n)) /\ Start(n + 1, At(n + 1))
    BY <1>2
  <2>2. At(n + 1)[n + 1] = step[<<n, At(n + 1)[n]>>]
    BY <2>1
  <2>3. At(n)[n] = At(n + 1)[n]
    <3> HIDE DEF Start
    <3> QED
      BY <1>3, <2>1
  <2> QED
    BY <2>2, <2>3
<1> HIDE DEF F
<1>6. Iterates(F, base, step)
  BY <1>4, <1>5 DEF Iterates
<1> QED
  BY <1>4, <1>6

-----------------------------------------------------------------------------
(***************************************************************************)
(* Decimal numbers: what str::parse computes from left to right is the     *)
(* number whose digits the characters are.                                 *)
(***************************************************************************)

\* The powers of ten.
LEMMA Powers ==
  /\ Power \in [Nat -> Nat \ {0}] /\ Power[0] = 1
  /\ \A k \in Nat : Power[k + 1] = 10 * Power[k]
<1> DEFINE Pos == Nat \ {0}
           step == [c \in Nat \X Pos |-> 10 * c[2]]
           P == CHOOSE P : P = [k \in Nat |-> IF k = 0 THEN 1 ELSE 10 * P[k - 1]]
<1>1. step \in [Nat \X Pos -> Pos] /\ 1 \in Pos
  OBVIOUS
<1>2. PICK f \in [Nat -> Pos] : Iterates(f, 1, step)
  <2> HIDE DEF step, Pos
  <2> QED
    BY <1>1, Recursion
<1>3. f[0] = 1 /\ \A n \in Nat : f[n + 1] = 10 * f[n]
  BY <1>2 DEF Iterates
<1>4. f = [k \in Nat |-> IF k = 0 THEN 1 ELSE 10 * f[k - 1]]
  <2>1. ASSUME NEW k \in Nat
        PROVE  f[k] = IF k = 0 THEN 1 ELSE 10 * f[k - 1]
    <3>1. k # 0 => k - 1 \in Nat /\ (k - 1) + 1 = k
      OBVIOUS
    <3>2. k # 0 => f[k] = 10 * f[k - 1]
      BY <1>3, <3>1
    <3> QED
      BY <1>3, <3>2
  <2> QED
    BY <1>2, <2>1
<1>5. P = [k \in Nat |-> IF k = 0 THEN 1 ELSE 10 * P[k - 1]]
  BY <1>4
<1>6. Power = P
  BY DEF Power
<1> HIDE DEF P
<1>7. \A k \in Nat : P[k] = IF k = 0 THEN 1 ELSE 10 * P[k - 1]
  BY <1>5
<1>8. P[0] = 1 /\ \A k \in Nat : P[k + 1] = 10 * P[k]
  <2>1. P[0] = 1
    BY <1>7
  <2>2. ASSUME NEW k \in Nat
        PROVE  P[k + 1] = 10 * P[k]
    <3>1. k + 1 \in Nat /\ k + 1 # 0 /\ (k + 1) - 1 = k
      OBVIOUS
    <3> QED
      BY <1>7, <3>1
  <2> QED
    BY <2>1, <2>2
<1>9. \A k \in Nat : k \in {n \in Nat : P[n] \in Pos}
  <2> DEFINE T == {n \in Nat : P[n] \in Pos}
  <2>1. 0 \in T
    BY <1>8
  <2>2. ASSUME NEW n \in Nat, n \in T
        PROVE  n + 1 \in T
    BY <1>8, <2>2
  <2> HIDE DEF T
  <2>3. \A k \in Nat : k \in T
    BY <2>1, <2>2, Induction
  <2> QED
    BY <2>3 DEF T
<1> QED
  BY <1>5, <1>6, <1>8, <1>9

\* Dividing by ten drops the last digit.
LEMMA LastDigit ==
  ASSUME NEW n \in Nat, NEW s, NEW m \in Nat
  PROVE  Denotes(n, s, 1, m + 1) <=>
           n % 10 = DigitValue[s[m + 1]] /\ Denotes(n \div 10, s, 1, m)
<1> DEFINE q == n \div 10
<1>1. q \in Nat /\ n = 10 * q + (n % 10) /\ n % 10 \in 0..9
  OBVIOUS
<1>2. n < Power[m + 1] <=> q < Power[m]
  <2>1. Power[m] \in Nat /\ Power[m + 1] = 10 * Power[m]
    BY Powers
  <2> HIDE DEF q
  <2> QED
    BY <1>1, <2>1
<1>3. \A i \in 1..m : n \div Power[(m + 1) - i] = q \div Power[m - i]
  <2> TAKE i \in 1..m
  <2>1. m - i \in Nat /\ (m - i) + 1 = (m + 1) - i
    OBVIOUS
  <2>2. Power[m - i] \in Nat \ {0} /\ Power[(m + 1) - i] = 10 * Power[m - i]
    BY <2>1, Powers
  <2>3. \A p \in Nat \ {0} : n \div (10 * p) = (n \div 10) \div p
    OBVIOUS
  <2> QED
    BY <2>2, <2>3
<1>4. n \div Power[(m + 1) - (m + 1)] = n
  BY Powers
<1>5. \A i \in 1..(m + 1) : i = m + 1 \/ i \in 1..m
  OBVIOUS
<1>6. (m + 1) - 1 + 1 = m + 1 /\ m - 1 + 1 = m /\ m + 1 \in 1..(m + 1) /\ 1..m \subseteq 1..(m + 1)
  OBVIOUS
<1>7. Denotes(n, s, 1, m + 1) <=>
        /\ n < Power[m + 1]
        /\ \A i \in 1..(m + 1) : (n \div Power[(m + 1) - i]) % 10 = DigitValue[s[i]]
  BY <1>6 DEF Denotes
<1>8. Denotes(q, s, 1, m) <=>
        /\ q < Power[m]
        /\ \A i \in 1..m : (q \div Power[m - i]) % 10 = DigitValue[s[i]]
  BY <1>6 DEF Denotes
<1>9. (\A i \in 1..(m + 1) : (n \div Power[(m + 1) - i]) % 10 = DigitValue[s[i]]) <=>
        /\ n % 10 = DigitValue[s[m + 1]]
        /\ \A i \in 1..m : (n \div Power[(m + 1) - i]) % 10 = DigitValue[s[i]]
  <2> DEFINE D(i) == (n \div Power[(m + 1) - i]) % 10 = DigitValue[s[i]]
  <2>1. D(m + 1) <=> n % 10 = DigitValue[s[m + 1]]
    BY <1>4
  <2> HIDE DEF D
  <2>2. (\A i \in 1..(m + 1) : D(i)) <=> D(m + 1) /\ \A i \in 1..m : D(i)
    BY <1>5, <1>6
  <2> QED
    BY <2>1, <2>2 DEF D
<1>10. (\A i \in 1..m : (n \div Power[(m + 1) - i]) % 10 = DigitValue[s[i]]) <=>
         \A i \in 1..m : (q \div Power[m - i]) % 10 = DigitValue[s[i]]
  BY <1>3
<1> QED
  BY <1>2, <1>7, <1>8, <1>9, <1>10

\* A digit is a number below ten.
LEMMA DigitValues ==
  DigitValue \in [Digits -> 0..9]
BY DEF DigitValue, Digits

\* The values of the prefixes of s, the last of which is the one of s.
LEMMA PrefixValues ==
  ASSUME NEW s \in Seq(Digits)
  PROVE  \E V \in [Nat -> Nat] :
           /\ V[0] = 0
           /\ \A n \in Nat : n < Len(s) => V[n + 1] = 10 * V[n] + DigitValue[s[n + 1]]
           /\ Decimal(s) = V[Len(s)]
<1>0. PICK last \in Nat : last = Len(s)
  BY LenProperties
<1> DEFINE step == [c \in Nat \X Nat |->
                      IF c[1] < last THEN 10 * c[2] + DigitValue[s[c[1] + 1]] ELSE 0]
           V == CHOOSE V : V = [n \in 0..last |->
                                  IF n = 0 THEN 0 ELSE 10 * V[n - 1] + DigitValue[s[n]]]
<1>1. \A n \in 1..last : DigitValue[s[n]] \in 0..9
  BY <1>0, DigitValues, ElementOfSeq
<1>2. step \in [Nat \X Nat -> Nat] /\ 0 \in Nat
  <2>1. ASSUME NEW c \in Nat \X Nat, c[1] < last
        PROVE  10 * c[2] + DigitValue[s[c[1] + 1]] \in Nat
    <3>1. c[1] + 1 \in 1..last /\ c[2] \in Nat
      BY <1>1, <2>1
    <3>2. DigitValue[s[c[1] + 1]] \in 0..9
      BY <1>1, <3>1
    <3>3. \A v \in Nat, d \in 0..9 : 10 * v + d \in Nat
      OBVIOUS
    <3> QED
      BY <3>1, <3>2, <3>3, Zenon
  <2> QED
    BY <2>1
<1>3. PICK f \in [Nat -> Nat] : Iterates(f, 0, step)
  <2> HIDE DEF step
  <2> QED
    BY <1>2, Recursion
<1>4. /\ f[0] = 0
      /\ \A n \in Nat : n < last => f[n + 1] = 10 * f[n] + DigitValue[s[n + 1]]
  BY <1>3 DEF Iterates
<1> DEFINE g == [n \in 0..last |-> f[n]]
<1>5. g = [n \in 0..last |-> IF n = 0 THEN 0 ELSE 10 * g[n - 1] + DigitValue[s[n]]]
  <2>1. ASSUME NEW n \in 0..last
        PROVE  g[n] = IF n = 0 THEN 0 ELSE 10 * g[n - 1] + DigitValue[s[n]]
    <3>1. CASE n = 0
      BY <1>4, <3>1
    <3>2. CASE n # 0
      <4>1. n - 1 \in Nat /\ n - 1 < last /\ (n - 1) + 1 = n /\ n - 1 \in 0..last
        BY <3>2
      <4>2. f[n] = 10 * f[n - 1] + DigitValue[s[n]]
        BY <1>4, <4>1
      <4> QED
        BY <3>2, <4>1, <4>2
    <3> QED
      BY <3>1, <3>2
  <2> QED
    BY <2>1
<1>6. V = [n \in 0..last |-> IF n = 0 THEN 0 ELSE 10 * V[n - 1] + DigitValue[s[n]]]
  <2> HIDE DEF g
  <2> QED
    BY <1>5
<1>7. Decimal(s) = V[last]
  BY <1>0 DEF Decimal
<1> HIDE DEF V
<1>8. V[0] = 0 /\ \A n \in Nat : n < last => V[n + 1] = 10 * V[n] + DigitValue[s[n + 1]]
  <2>1. \A n \in 0..last : V[n] = IF n = 0 THEN 0 ELSE 10 * V[n - 1] + DigitValue[s[n]]
    BY <1>6
  <2>2. ASSUME NEW n \in Nat, n < last
        PROVE  V[n + 1] = 10 * V[n] + DigitValue[s[n + 1]]
    <3>1. n + 1 \in 0..last /\ n + 1 # 0 /\ (n + 1) - 1 = n
      BY <2>2
    <3> QED
      BY <2>1, <3>1
  <2> QED
    BY <1>1, <2>1, <2>2
<1>9. ASSUME NEW n \in Nat
      PROVE  n <= last => V[n] = f[n]
  <2> DEFINE T == {k \in Nat : k <= last => V[k] = f[k]}
  <2>1. 0 \in T
    BY <1>4, <1>8
  <2>2. ASSUME NEW k \in Nat, k \in T
        PROVE  k + 1 \in T
    <3>1. SUFFICES ASSUME k + 1 <= last
                   PROVE  V[k + 1] = f[k + 1]
      OBVIOUS
    <3>2. k < last /\ k <= last
      BY <3>1
    <3>3. V[k] = f[k]
      BY <2>2, <3>2
    <3> QED
      BY <1>4, <1>8, <3>2, <3>3
  <2>3. n \in T
    <3> HIDE DEF T
    <3> QED
      BY <2>1, <2>2, Induction
  <2> QED
    BY <2>3
<1>10. Decimal(s) = f[last]
  BY <1>7, <1>9
<1> QED
  BY <1>0, <1>4, <1>10

\* What str::parse computes is the number the digits denote, and no other is:
\* the two definitions of a decimal number, one recursive and one by the
\* number's own digits, agree on every string.
THEOREM DecimalExact ==
  ASSUME NEW s \in Seq(Digits)
  PROVE  /\ Decimal(s) \in Nat
         /\ \A n \in Nat : Denotes(n, s, 1, Len(s)) <=> n = Decimal(s)
<1>0. PICK last \in Nat : last = Len(s)
  BY LenProperties
<1>1. PICK V \in [Nat -> Nat] :
        /\ V[0] = 0
        /\ \A n \in Nat : n < last => V[n + 1] = 10 * V[n] + DigitValue[s[n + 1]]
        /\ Decimal(s) = V[last]
  BY <1>0, PrefixValues
<1> DEFINE Agrees(m) == \A n \in Nat : Denotes(n, s, 1, m) <=> n = V[m]
           T == {m \in Nat : m <= last => Agrees(m)}
<1>2. 0 \in T
  <2>1. 0 - 1 + 1 = 0 /\ 1..0 = {} /\ \A n \in Nat : n < 1 <=> n = 0
    OBVIOUS
  <2>2. \A n \in Nat : Denotes(n, s, 1, 0) <=> n = 0
    BY <2>1, Powers DEF Denotes
  <2> QED
    BY <1>1, <2>2
<1>3. ASSUME NEW m \in Nat, m \in T
      PROVE  m + 1 \in T
  <2> SUFFICES ASSUME m + 1 <= last
               PROVE  Agrees(m + 1)
    <3> HIDE DEF Agrees
    <3> QED
      OBVIOUS
  <2>1. SUFFICES ASSUME NEW n \in Nat
                 PROVE  Denotes(n, s, 1, m + 1) <=> n = V[m + 1]
    OBVIOUS
  <2>2. m < last /\ m <= last /\ m + 1 \in 1..last
    OBVIOUS
  <2>3. V[m + 1] = 10 * V[m] + DigitValue[s[m + 1]]
    BY <1>1, <2>2
  <2>4. \A k \in Nat : Denotes(k, s, 1, m) <=> k = V[m]
    BY <1>3, <2>2
  <2>5. n \div 10 \in Nat
    OBVIOUS
  <2>6. Denotes(n, s, 1, m + 1) <=> n % 10 = DigitValue[s[m + 1]] /\ n \div 10 = V[m]
    <3>1. Denotes(n, s, 1, m + 1) <=> n % 10 = DigitValue[s[m + 1]] /\ Denotes(n \div 10, s, 1, m)
      BY LastDigit
    <3> QED
      BY <2>4, <2>5, <3>1, Zenon
  <2>7. DigitValue[s[m + 1]] \in 0..9
    <3>1. s[m + 1] \in Digits
      BY <1>0, <2>2, ElementOfSeq
    <3> QED
      BY <3>1, DigitValues
  <2>8. \A v \in Nat, d \in 0..9 : n % 10 = d /\ n \div 10 = v <=> n = 10 * v + d
    OBVIOUS
  <2>9. V[m] \in Nat
    OBVIOUS
  <2> QED
    BY <2>3, <2>6, <2>7, <2>8, <2>9, Zenon
<1>4. last \in T
  <2> HIDE DEF T
  <2> QED
    BY <1>2, <1>3, Induction
<1> QED
  BY <1>0, <1>1, <1>4

\* A number is denoted by the same digits at another place.
LEMMA DenotesShifted ==
  ASSUME NEW s, NEW d, NEW off \in Int, NEW i \in Int, NEW j \in Int,
         \A k \in i..j : s[k] = d[off + k],
         NEW n
  PROVE  Denotes(n, s, i, j) <=> Denotes(n, d, off + i, off + j)
<1>1. (off + j) - (off + i) + 1 = j - i + 1
  OBVIOUS
<1>2. \A k \in i..j : off + k \in (off + i)..(off + j) /\ (off + j) - (off + k) = j - k
  OBVIOUS
<1>3. \A k \in (off + i)..(off + j) :
        k - off \in i..j /\ k = off + (k - off) /\ (off + j) - k = j - (k - off)
  OBVIOUS
<1> DEFINE P(k) == (n \div Power[j - k]) % 10 = DigitValue[s[k]]
           Q(k) == (n \div Power[(off + j) - k]) % 10 = DigitValue[d[k]]
<1>4. \A k \in i..j : P(k) <=> Q(off + k)
  BY <1>2
<1>5. (\A k \in i..j : P(k)) <=> (\A k \in (off + i)..(off + j) : Q(k))
  <2> HIDE DEF P, Q
  <2>1. ASSUME \A k \in i..j : P(k), NEW k \in (off + i)..(off + j)
        PROVE  Q(k)
    BY <1>3, <1>4, <2>1
  <2>2. ASSUME \A k \in (off + i)..(off + j) : Q(k), NEW k \in i..j
        PROVE  P(k)
    BY <1>2, <1>4, <2>2
  <2> QED
    BY <2>1, <2>2
<1> QED
  BY <1>1, <1>5 DEF Denotes

-----------------------------------------------------------------------------
(***************************************************************************)
(* Positions in a string: what parse_dimensions looks for, trims and takes.*)
(***************************************************************************)

\* The least of a set of naturals.
LEMMA Least ==
  ASSUME NEW T \in SUBSET Nat, T # {}
  PROVE  Min(T) \in T /\ \A n \in T : Min(T) <= n
<1>1. \E m \in T : \A n \in T : m <= n
  BY LeastNatural
<1> QED
  BY <1>1 DEF Min

\* The greatest of a bounded set of naturals.
LEMMA Greatest ==
  ASSUME NEW k \in Nat, NEW T \in SUBSET (0..k), T # {}
  PROVE  Max(T) \in T /\ \A n \in T : n <= Max(T)
<1>1. \E m \in T : \A n \in T : n <= m
  BY GreatestNatural
<1>2. \E m \in T : \A n \in T : m >= n
  BY <1>1
<1>3. Max(T) \in T /\ \A n \in T : Max(T) >= n
  BY <1>2 DEF Max
<1> QED
  BY <1>3

\* Trimming keeps everything from the first to the last character that is no blank.
Trimmed(s, a, b) ==
  /\ a \in 1..Len(s) /\ b \in 1..Len(s) /\ a <= b
  /\ s[a] # "space" /\ s[b] # "space"
  /\ \A n \in 1..a - 1 : s[n] = "space"
  /\ \A n \in b + 1..Len(s) : s[n] = "space"

\* str::trim leaves the empty string or these characters.
LEMMA TrimMeaning ==
  ASSUME NEW s \in Seq(Chars)
  PROVE  /\ Trim(s) = <<>> \/ \E a, b \in Nat : Trimmed(s, a, b)
         /\ \A a, b \in Nat : Trimmed(s, a, b) => Trim(s) = SubSeq(s, a, b)
<1>0. PICK last \in Nat : last = Len(s) /\ DOMAIN s = 1..last
  BY LenProperties
<1> DEFINE kept == {i \in DOMAIN s : s[i] # "space"}
<1>1. kept = {} => Trim(s) = <<>> /\ \A a, b \in Nat : ~Trimmed(s, a, b)
  BY <1>0 DEF Trim, Trimmed
<1>2. ASSUME kept # {}
      PROVE  /\ Trimmed(s, Min(kept), Max(kept))
             /\ \A a, b \in Nat : Trimmed(s, a, b) => a = Min(kept) /\ b = Max(kept)
  <2>1. kept \in SUBSET Nat /\ kept \in SUBSET (0..last)
    BY <1>0
  <2>2. PICK a \in kept : a = Min(kept) /\ \A n \in kept : a <= n
    <3> HIDE DEF kept
    <3> QED
      BY <1>2, <2>1, Least
  <2>3. PICK b \in kept : b = Max(kept) /\ \A n \in kept : n <= b
    <3> HIDE DEF kept
    <3> QED
      BY <1>2, <2>1, Greatest
  <2>4. \A n \in 1..last : n \in kept <=> s[n] # "space"
    BY <1>0
  <2>5. a \in 1..last /\ b \in 1..last
    BY <1>0
  <2> HIDE DEF kept
  <2>6. a <= b
    BY <2>2, <2>3
  <2>7. \A n \in 1..a - 1 : n \in 1..last /\ ~(a <= n)
    BY <2>5
  <2>8. \A n \in b + 1..last : n \in 1..last /\ ~(n <= b)
    BY <2>5
  <2>9. Trimmed(s, a, b)
    BY <1>0, <2>2, <2>3, <2>4, <2>5, <2>6, <2>7, <2>8 DEF Trimmed
  <2>10. ASSUME NEW x \in Nat, NEW y \in Nat, Trimmed(s, x, y)
         PROVE  x = a /\ y = b
    <3>1. /\ x \in 1..last /\ y \in 1..last
          /\ x \in kept /\ y \in kept
          /\ \A n \in 1..x - 1 : s[n] = "space"
          /\ \A n \in y + 1..last : s[n] = "space"
      BY <1>0, <2>4, <2>10 DEF Trimmed
    <3>2. a <= x /\ y <= b
      BY <2>2, <2>3, <3>1
    <3>3. s[a] # "space" /\ s[b] # "space"
      BY <2>4, <2>5
    <3>4. a \notin 1..x - 1 /\ b \notin y + 1..last
      BY <3>1, <3>3
    <3> QED
      BY <2>5, <3>1, <3>2, <3>4
  <2> QED
    BY <2>2, <2>3, <2>9, <2>10
<1>3. kept # {} => Trim(s) = SubSeq(s, Min(kept), Max(kept)) /\ Min(kept) \in Nat /\ Max(kept) \in Nat
  <2>1. kept # {} => Trim(s) = SubSeq(s, Min(kept), Max(kept))
    BY DEF Trim
  <2>2. kept # {} => Min(kept) \in Nat /\ Max(kept) \in Nat
    BY <1>0, <1>2 DEF Trimmed
  <2> QED
    BY <2>1, <2>2
<1> HIDE DEF kept
<1> QED
  BY <1>1, <1>2, <1>3

\* s has digits only from its position i on, and a plus sign before that or nothing.
Number(s, i) ==
  /\ i \in 1..Len(s)
  /\ i = 1 \/ (i = 2 /\ s[1] = "plus")
  /\ \A k \in i..Len(s) : s[k] \in Digits

\* str::parse::<usize> accepts the strings that write a usize, and yields the
\* one that is written.
LEMMA ParseUsizeMeaning ==
  ASSUME NEW s \in Seq(Chars)
  PROVE  /\ ParseUsize(s) = <<>> \/ \E n \in 0..UsizeMax : ParseUsize(s) = <<n>>
         /\ \A n : ParseUsize(s) = <<n>> <=>
              \E i \in Nat : Number(s, i) /\ n \in 0..UsizeMax /\ Denotes(n, s, i, Len(s))
<1>0. PICK last \in Nat : last = Len(s) /\ DOMAIN s = 1..last
  BY LenProperties
<1>1. PICK i \in {1, 2} : /\ (i = 2 <=> last > 1 /\ s[1] = "plus")
                          /\ Unsigned(s) = SubSeq(s, i, last)
  <2>1. CASE last > 1 /\ s[1] = "plus"
    <3>1. s # <<>>
      BY <1>0, <2>1, LenProperties
    <3>2. Tail(s) = SubSeq(s, 2, last)
      BY <1>0, <3>1, TailIsSubSeq
    <3> QED
      BY <1>0, <2>1, <3>2 DEF Unsigned
  <2>2. CASE ~(last > 1 /\ s[1] = "plus")
    <3>1. s = SubSeq(s, 1, last)
      BY <1>0, SubSeqFull
    <3> QED
      BY <1>0, <2>2, <3>1 DEF Unsigned
  <2> QED
    BY <2>1, <2>2
<1> DEFINE u == Unsigned(s)
<1>2. PICK k \in Nat : /\ k = Len(u) /\ DOMAIN u = 1..k /\ u \in Seq(Chars)
                       /\ k = last - (i - 1)
                       /\ \A n \in 1..k : u[n] = s[(i - 1) + n]
  <2>1. i \in 1..(last + 1)
    BY <1>0, <1>1
  <2>2. /\ SubSeq(s, i, last) \in Seq(Chars)
        /\ Len(SubSeq(s, i, last)) = IF i <= last THEN last - i + 1 ELSE 0
        /\ \A n \in 1..last - i + 1 : SubSeq(s, i, last)[n] = s[i + n - 1]
    BY <1>0, <2>1, SubSeqProperties
  <2>3. last - (i - 1) \in Nat /\ last - i + 1 = last - (i - 1)
        /\ (IF i <= last THEN last - i + 1 ELSE 0) = last - (i - 1)
    BY <2>1
  <2>4. \A n \in 1..last - (i - 1) : i + n - 1 = (i - 1) + n
    BY <2>1
  <2>5. Len(u) = last - (i - 1) /\ u \in Seq(Chars)
        /\ \A n \in 1..last - (i - 1) : u[n] = s[(i - 1) + n]
    BY <1>1, <2>2, <2>3, <2>4
  <2>6. DOMAIN u = 1..Len(u)
    BY <2>5, LenProperties
  <2> HIDE DEF u
  <2> QED
    BY <2>3, <2>5, <2>6
<1> HIDE DEF u
<1> DEFINE written == k # 0 /\ \A n \in 1..k : u[n] \in Digits
<1>3. written <=> Number(s, i)
  <2>1. k # 0 <=> i \in 1..last
    BY <1>2
  <2>2. \A n \in 1..k : (i - 1) + n \in i..last
    BY <1>2
  <2>3. \A n \in i..last : n - (i - 1) \in 1..k /\ n = (i - 1) + (n - (i - 1))
    BY <1>2
  <2>4. (\A n \in 1..k : u[n] \in Digits) <=> \A n \in i..last : s[n] \in Digits
    <3>1. ASSUME \A n \in i..last : s[n] \in Digits, NEW n \in 1..k
          PROVE  u[n] \in Digits
      BY <1>2, <2>2, <3>1
    <3>2. ASSUME \A n \in 1..k : u[n] \in Digits, NEW n \in i..last
          PROVE  s[n] \in Digits
      BY <1>2, <2>3, <3>2
    <3> QED
      BY <3>1, <3>2
  <2> QED
    BY <1>0, <1>1, <2>1, <2>4 DEF Number
<1>4. \A j \in Nat : Number(s, j) => j = i
  <2>1. ASSUME NEW j \in Nat, Number(s, j)
        PROVE  j = i
    <3>1. /\ j \in 1..last /\ (j = 1 \/ (j = 2 /\ s[1] = "plus"))
          /\ \A n \in j..last : s[n] \in Digits
      BY <1>0, <2>1 DEF Number
    <3>2. j = 1 => s[1] \in Digits
      BY <3>1
    <3>3. "plus" \notin Digits
      BY DEF Digits
    <3> QED
      BY <1>1, <3>1, <3>2, <3>3
  <2> QED
    BY <2>1
<1>5. ASSUME written
      PROVE  /\ Decimal(u) \in Nat
             /\ \A n \in Nat : Denotes(n, s, i, last) <=> n = Decimal(u)
  <2>1. u \in Seq(Digits)
    BY <1>2, <1>5, SeqDef
  <2>2. Decimal(u) \in Nat /\ \A n \in Nat : Denotes(n, u, 1, k) <=> n = Decimal(u)
    BY <1>2, <2>1, DecimalExact
  <2>3. (i - 1) + 1 = i /\ (i - 1) + k = last /\ i - 1 \in Int
    BY <1>2
  <2>4. \A n \in Nat : Denotes(n, u, 1, k) <=> Denotes(n, s, i, last)
    <3> TAKE n \in Nat
    <3>1. PICK off \in Int : off = i - 1
      BY <2>3
    <3>2. (\A m \in 1..k : u[m] = s[off + m]) /\ k \in Int /\ 1 \in Int
      BY <1>2, <3>1
    <3>3. Denotes(n, u, 1, k) <=> Denotes(n, s, off + 1, off + k)
      BY <3>2, DenotesShifted, Zenon
    <3>4. off + 1 = i /\ off + k = last
      BY <2>3, <3>1
    <3> QED
      BY <3>3, <3>4
  <2> QED
    BY <2>2, <2>4
<1>6. ParseUsize(s) = IF ~written THEN <<>>
                      ELSE IF Decimal(u) > UsizeMax THEN <<>> ELSE <<Decimal(u)>>
  <2>1. u = <<>> <=> k = 0
    BY <1>2, EmptySeq
  <2> QED
    BY <1>2, <2>1 DEF ParseUsize, u
<1>7. CASE ~written
  <2>1. ParseUsize(s) = <<>> /\ \A j \in Nat : ~Number(s, j)
    BY <1>3, <1>4, <1>6, <1>7
  <2> QED
    BY <2>1
<1>8. CASE written
  <2>1. UsizeMax \in Nat
    BY UsizeAssumption
  <2>2. Decimal(u) \in 0..UsizeMax => ParseUsize(s) = <<Decimal(u)>>
    BY <1>5, <1>6, <1>8, <2>1
  <2>3. Decimal(u) \notin 0..UsizeMax => ParseUsize(s) = <<>>
    BY <1>5, <1>6, <1>8, <2>1
  <2>4. \A n : (\E j \in Nat : Number(s, j) /\ n \in 0..UsizeMax /\ Denotes(n, s, j, last))
                 <=> n \in 0..UsizeMax /\ n = Decimal(u)
    <3> TAKE n
    <3>1. (\E j \in Nat : Number(s, j) /\ n \in 0..UsizeMax /\ Denotes(n, s, j, last))
            <=> n \in 0..UsizeMax /\ Denotes(n, s, i, last)
      BY <1>3, <1>4, <1>8
    <3>2. n \in 0..UsizeMax => n \in Nat
      BY <2>1
    <3> QED
      BY <1>5, <1>8, <3>1, <3>2
  <2>5. \A n : <<n>> # <<>> /\ (<<Decimal(u)>> = <<n>> <=> n = Decimal(u))
    OBVIOUS
  <2> HIDE DEF written
  <2>6. \A n : ParseUsize(s) = <<n>> <=> n \in 0..UsizeMax /\ n = Decimal(u)
    BY <2>2, <2>3, <2>5
  <2> QED
    BY <1>0, <2>2, <2>3, <2>4, <2>6
<1> QED
  BY <1>7, <1>8

\* The digits s starts with are its first k characters.
Leading(s, k) ==
  /\ k \in 0..Len(s)
  /\ \A n \in 1..k : s[n] \in Digits
  /\ k = Len(s) \/ s[k + 1] \notin Digits

\* take_while yields them.
LEMMA LeadingMeaning ==
  ASSUME NEW s \in Seq(Chars)
  PROVE  /\ \E k \in Nat : Leading(s, k)
         /\ \A k \in Nat : Leading(s, k) => LeadingDigits(s) = SubSeq(s, 1, k)
<1>0. PICK last \in Nat : last = Len(s)
  BY LenProperties
<1> DEFINE t == Append(s, "other")
           I == {i \in 1..Len(t) : t[i] \notin Digits}
<1>1. /\ Len(t) = last + 1 /\ t[last + 1] = "other"
      /\ \A i \in 1..last : t[i] = s[i]
  <2>1. "other" \in Chars
    BY DEF Chars
  <2> QED
    BY <1>0, <2>1, AppendProperties
<1>2. "other" \notin Digits
  BY DEF Digits
<1>3. last + 1 \in I /\ I \in SUBSET Nat /\ I # {}
  BY <1>1, <1>2
<1>4. PICK m \in I : m = Min(I) /\ \A i \in I : m <= i
  <2> HIDE DEF I
  <2> QED
    BY <1>3, Least
<1>5. LeadingDigits(s) = SubSeq(s, 1, m - 1)
  <2>1. SelectInSeq(t, LAMBDA c : c \notin Digits) = Min(I)
    BY <1>3 DEF SelectInSeq
  <2> QED
    BY <1>4, <2>1 DEF LeadingDigits
<1>6. \A i \in 1..last + 1 : i \in I <=> i = last + 1 \/ s[i] \notin Digits
  BY <1>1, <1>2
<1>7. m \in 1..last + 1
  BY <1>1
<1> HIDE DEF I
<1>8. m - 1 \in Nat /\ Leading(s, m - 1)
  <2>1. m - 1 \in 0..last /\ (m - 1) + 1 = m /\ (m = last + 1 => m - 1 = last)
    BY <1>7
  <2>2. \A n \in 1..m - 1 : n \in 1..last + 1 /\ n # last + 1 /\ ~(m <= n)
    BY <1>7
  <2>3. \A n \in 1..m - 1 : s[n] \in Digits
    BY <1>4, <1>6, <2>2
  <2>4. m = last + 1 \/ s[m] \notin Digits
    BY <1>4, <1>6, <1>7
  <2> QED
    BY <1>0, <2>1, <2>3, <2>4 DEF Leading
<1>9. ASSUME NEW k \in Nat, Leading(s, k)
      PROVE  k = m - 1
  <2>1. /\ k \in 0..last /\ k + 1 \in 1..last + 1
        /\ \A n \in 1..k : s[n] \in Digits
        /\ k + 1 = last + 1 \/ s[k + 1] \notin Digits
    BY <1>0, <1>9 DEF Leading
  <2>2. k + 1 \in I
    BY <1>6, <2>1
  <2>3. m <= k + 1
    BY <1>4, <2>2
  <2>4. m \in 1..k => m # last + 1 /\ s[m] \in Digits
    BY <2>1
  <2>5. m \notin 1..k
    BY <1>4, <1>6, <1>7, <2>4
  <2> QED
    BY <1>7, <2>1, <2>3, <2>5
<1> QED
  BY <1>5, <1>8, <1>9

\* The first multiplication sign of a description.
FirstTimes(d, x) ==
  x \in 1..Len(d) /\ d[x] = "times" /\ \A n \in 1..x - 1 : d[n] # "times"

\* char::find returns its position.
LEMMA FirstTimesMeaning ==
  ASSUME NEW d \in Seq(Chars)
  PROVE  LET x == SelectInSeq(d, LAMBDA c : c = "times")
         IN /\ x \in Nat
            /\ x # 0 => FirstTimes(d, x)
            /\ \A y \in Nat : FirstTimes(d, y) => x = y
<1>0. PICK last \in Nat : last = Len(d)
  BY LenProperties
<1> DEFINE x == SelectInSeq(d, LAMBDA c : c = "times")
           I == {i \in 1..last : d[i] = "times"}
<1>1. x = IF I # {} THEN Min(I) ELSE 0
  BY <1>0 DEF SelectInSeq
<1>2. I \in SUBSET Nat
  OBVIOUS
<1>3. \A y \in Nat : FirstTimes(d, y) =>
        y \in I /\ \A n \in I : n \notin 1..y - 1
  BY <1>0 DEF FirstTimes
<1>4. CASE I = {}
  <2> HIDE DEF I
  <2> QED
    BY <1>1, <1>3, <1>4
<1>5. CASE I # {}
  <2>1. x \in I /\ \A n \in I : x <= n
    <3> HIDE DEF I
    <3>1. x = Min(I)
      BY <1>1, <1>5
    <3> HIDE DEF x
    <3> QED
      BY <1>2, <1>5, <3>1, Least
  <2> HIDE DEF x
  <2>2. x \in 1..last /\ d[x] = "times"
    BY <2>1
  <2>3. \A n \in 1..x - 1 : n \in 1..last /\ ~(x <= n)
    BY <2>2
  <2>4. FirstTimes(d, x)
    BY <1>0, <2>1, <2>2, <2>3 DEF FirstTimes
  <2>5. ASSUME NEW y \in Nat, FirstTimes(d, y)
        PROVE  x = y
    <3>1. y \in I /\ x \notin 1..y - 1
      BY <1>3, <2>1, <2>5
    <3>2. x <= y
      BY <2>1, <3>1
    <3> QED
      BY <2>2, <3>1, <3>2
  <2> QED
    BY <2>2, <2>4, <2>5 DEF x
<1> QED
  BY <1>4, <1>5

-----------------------------------------------------------------------------
(***************************************************************************)
(* parse_dimensions yields what the description declares.                  *)
(***************************************************************************)

\* The digits f..t are the width before the sign at x.
WidthAt(d, x, f, t) ==
  /\ f \in 1..x - 1 /\ t \in f..x - 1
  /\ \A n \in f..t : d[n] \in Digits
  /\ \A n \in t + 1..x - 1 : d[n] = "space"
  /\ \A n \in 1..f - 1 : d[n] = "space" \/ (n = f - 1 /\ d[n] = "plus")

\* The digits x + 1..e are the height after it.
HeightAt(d, x, e) ==
  /\ e \in x + 1..Len(d)
  /\ \A n \in x + 1..e : d[n] \in Digits
  /\ e = Len(d) \/ d[e + 1] \notin Digits

\* The part a..b of s as a sequence.
LEMMA Part ==
  ASSUME NEW s \in Seq(Chars), NEW a \in 1..Len(s) + 1, NEW b \in a - 1..Len(s)
  PROVE  /\ SubSeq(s, a, b) \in Seq(Chars)
         /\ Len(SubSeq(s, a, b)) = b - a + 1
         /\ \A n \in 1..b - a + 1 : SubSeq(s, a, b)[n] = s[(a - 1) + n]
<1>0. PICK last \in Nat : last = Len(s)
  BY LenProperties
<1>1. /\ SubSeq(s, a, b) \in Seq(Chars)
      /\ Len(SubSeq(s, a, b)) = IF a <= b THEN b - a + 1 ELSE 0
      /\ \A n \in 1..b - a + 1 : SubSeq(s, a, b)[n] = s[a + n - 1]
  BY SubSeqProperties
<1>2. (IF a <= b THEN b - a + 1 ELSE 0) = b - a + 1
  BY <1>0
<1>3. \A n \in 1..b - a + 1 : a + n - 1 = (a - 1) + n
  BY <1>0
<1> QED
  BY <1>1, <1>2, <1>3

\* What is left of s after trimming ends at t and is a number with the digits f..t.
TrimmedDigits(s, f, t) ==
  \E a, i \in Nat : Trimmed(s, a, t) /\ Number(SubSeq(s, a, t), i) /\ f = (a - 1) + i

\* A number that fills what is left after trimming is a width, and the other way round.
LEMMA TrimmedNumber ==
  ASSUME NEW d \in Seq(Chars), NEW x \in 1..Len(d),
         NEW s \in Seq(Chars), Len(s) = x - 1, \A n \in 1..x - 1 : s[n] = d[n]
  PROVE  /\ \A a, b, i \in Nat :
              Trimmed(s, a, b) /\ Number(SubSeq(s, a, b), i) => WidthAt(d, x, (a - 1) + i, b)
         /\ \A f, t \in Nat : WidthAt(d, x, f, t) => TrimmedDigits(s, f, t)
<1>0. x \in Nat /\ x - 1 \in Nat
  BY LenProperties
<1>1. ASSUME NEW a \in Nat, NEW b \in Nat, NEW i \in Nat,
             Trimmed(s, a, b), Number(SubSeq(s, a, b), i)
      PROVE  WidthAt(d, x, (a - 1) + i, b)
  <2>1. /\ a \in 1..x - 1 /\ b \in a..x - 1
        /\ \A n \in 1..a - 1 : s[n] = "space"
        /\ \A n \in b + 1..x - 1 : s[n] = "space"
    BY <1>0, <1>1 DEF Trimmed
  <2> DEFINE u == SubSeq(s, a, b)
  <2>2. /\ Len(u) = b - a + 1
        /\ \A n \in 1..b - a + 1 : u[n] = s[(a - 1) + n]
    BY <1>0, <2>1, Part
  <2> HIDE DEF u
  <2>3. /\ i \in 1..b - a + 1 /\ (i = 1 \/ (i = 2 /\ u[1] = "plus"))
        /\ \A n \in i..b - a + 1 : u[n] \in Digits
    BY <1>1, <2>2 DEF Number, u
  <2> DEFINE f == (a - 1) + i
  <2>4. f \in 1..x - 1 /\ b \in f..x - 1
    BY <1>0, <2>1, <2>3
  <2>5. ASSUME NEW n \in f..b
        PROVE  d[n] \in Digits
    <3>1. n - (a - 1) \in i..b - a + 1 /\ n - (a - 1) \in 1..b - a + 1 /\ n = (a - 1) + (n - (a - 1))
          /\ n \in 1..x - 1
      BY <2>1, <2>3, <2>4
    <3>2. u[n - (a - 1)] = s[n] /\ u[n - (a - 1)] \in Digits
      BY <2>2, <2>3, <3>1
    <3> QED
      BY <3>1, <3>2
  <2>6. ASSUME NEW n \in b + 1..x - 1
        PROVE  d[n] = "space"
    BY <1>0, <2>1, <2>6
  <2>7. ASSUME NEW n \in 1..f - 1
        PROVE  d[n] = "space" \/ (n = f - 1 /\ d[n] = "plus")
    <3>1. n \in 1..x - 1 /\ d[n] = s[n]
      BY <1>0, <2>4
    <3>2. CASE i = 1
      BY <2>1, <3>1, <3>2
    <3>3. CASE i = 2 /\ u[1] = "plus"
      <4>1. u[1] = s[a]
        BY <2>1, <2>2
      <4>2. n \in 1..a - 1 \/ (n = a /\ n = f - 1)
        BY <2>1, <3>3
      <4> QED
        BY <2>1, <3>1, <3>3, <4>1, <4>2
    <3> QED
      BY <2>3, <3>2, <3>3
  <2> QED
    BY <2>4, <2>5, <2>6, <2>7 DEF WidthAt
<1>2. ASSUME NEW f \in Nat, NEW t \in Nat, WidthAt(d, x, f, t)
      PROVE  TrimmedDigits(s, f, t)
  <2>1. /\ f \in 1..x - 1 /\ t \in f..x - 1 /\ t \in 1..x - 1
        /\ \A n \in f..t : s[n] \in Digits
        /\ \A n \in t + 1..x - 1 : s[n] = "space"
        /\ \A n \in 1..f - 1 : s[n] = "space" \/ (n = f - 1 /\ s[n] = "plus")
    BY <1>0, <1>2 DEF WidthAt
  <2>2. \A c \in Digits : c # "space"
    BY DEF Digits
  <2>3. s[f] # "space" /\ s[t] # "space"
    BY <2>1, <2>2
  <2>4. PICK a \in Nat, i \in {1, 2} :
          /\ f = (a - 1) + i /\ a \in 1..f
          /\ i = 2 => s[a] = "plus"
          /\ \A n \in 1..a - 1 : s[n] = "space"
    <3>1. CASE \A n \in 1..f - 1 : s[n] = "space"
      <4>1. f = (f - 1) + 1 /\ f \in 1..f
        BY <2>1
      <4> QED
        BY <3>1, <4>1
    <3>2. CASE \E n \in 1..f - 1 : s[n] # "space"
      <4>1. f - 1 \in Nat /\ f - 1 \in 1..f /\ s[f - 1] = "plus" /\ f = ((f - 1) - 1) + 2
        BY <2>1, <3>2
      <4>2. \A n \in 1..(f - 1) - 1 : n \in 1..f - 1 /\ n # f - 1
        BY <2>1
      <4>3. \A n \in 1..(f - 1) - 1 : s[n] = "space"
        BY <2>1, <4>2
      <4> QED
        BY <4>1, <4>3
    <3> QED
      BY <3>1, <3>2
  <2>5. a \in 1..x - 1 /\ a <= t /\ t \in a..x - 1 /\ s[a] # "space"
    BY <1>0, <2>1, <2>3, <2>4
  <2>6. Trimmed(s, a, t)
    BY <1>0, <2>1, <2>3, <2>4, <2>5 DEF Trimmed
  <2> DEFINE u == SubSeq(s, a, t)
  <2>7. /\ Len(u) = t - a + 1
        /\ \A n \in 1..t - a + 1 : u[n] = s[(a - 1) + n]
    <3>1. a \in 1..(x - 1) + 1 /\ t \in a - 1..x - 1
      BY <1>0, <2>5
    <3> QED
      BY <3>1, Part
  <2> HIDE DEF u
  <2>8. i \in 1..t - a + 1
    BY <2>1, <2>4
  <2>9. i = 2 => u[1] = "plus"
    BY <2>4, <2>5, <2>7
  <2>10. ASSUME NEW n \in i..t - a + 1
         PROVE  u[n] \in Digits
    <3>1. n \in 1..t - a + 1 /\ (a - 1) + n \in f..t
      BY <2>1, <2>4, <2>5
    <3> QED
      BY <2>1, <2>7, <3>1
  <2>11. Number(u, i)
    BY <2>7, <2>8, <2>9, <2>10 DEF Number
  <2> QED
    BY <2>4, <2>6, <2>11 DEF u, TrimmedDigits
<1> QED
  BY <1>1, <1>2

\* What parse_dimensions reads before the sign at x is the width written there.
LEMMA WidthRead ==
  ASSUME NEW d \in Seq(Chars), NEW x \in 1..Len(d), NEW w
  PROVE  ParseUsize(Trim(SubSeq(d, 1, x - 1))) = <<w>> <=>
           \E f, t \in Nat : WidthAt(d, x, f, t) /\ w \in 0..UsizeMax /\ Denotes(w, d, f, t)
<1>0. x \in Nat /\ x - 1 \in Nat
  BY LenProperties
<1>1. PICK s \in Seq(Chars) :
        s = SubSeq(d, 1, x - 1) /\ Len(s) = x - 1 /\ \A n \in 1..x - 1 : s[n] = d[n]
  <2>1. 1 \in 1..Len(d) + 1 /\ x - 1 \in 1 - 1..Len(d) /\ (x - 1) - 1 + 1 = x - 1
    BY <1>0, LenProperties
  <2>2. \A n \in 1..x - 1 : (1 - 1) + n = n
    BY <1>0
  <2> DEFINE u == SubSeq(d, 1, x - 1)
  <2>3. u \in Seq(Chars) /\ Len(u) = x - 1 /\ \A n \in 1..x - 1 : u[n] = d[(1 - 1) + n]
    BY <2>1, Part
  <2> HIDE DEF u
  <2> QED
    BY <2>2, <2>3 DEF u
<1>2. ASSUME NEW a \in Nat, NEW b \in Nat, Trimmed(s, a, b)
      PROVE  /\ Trim(s) = SubSeq(s, a, b)
             /\ SubSeq(s, a, b) \in Seq(Chars)
             /\ Len(SubSeq(s, a, b)) = b - a + 1
             /\ \A i \in Nat : Number(SubSeq(s, a, b), i) =>
                  (Denotes(w, SubSeq(s, a, b), i, b - a + 1) <=> Denotes(w, d, (a - 1) + i, b))
  <2>1. a \in 1..x - 1 /\ b \in a..x - 1
    BY <1>0, <1>1, <1>2 DEF Trimmed
  <2>2. a \in 1..(x - 1) + 1 /\ b \in a - 1..x - 1
    BY <1>0, <2>1
  <2> DEFINE u == SubSeq(s, a, b)
  <2>3. /\ u \in Seq(Chars) /\ Len(u) = b - a + 1
        /\ \A n \in 1..b - a + 1 : u[n] = s[(a - 1) + n]
    BY <1>1, <2>2, Part
  <2>4. Trim(s) = u
    BY <1>2, TrimMeaning
  <2> HIDE DEF u
  <2>5. ASSUME NEW i \in Nat, Number(u, i)
        PROVE  Denotes(w, u, i, b - a + 1) <=> Denotes(w, d, (a - 1) + i, b)
    <3>1. i \in 1..b - a + 1
      BY <2>3, <2>5 DEF Number
    <3>2. \A n \in i..b - a + 1 : n \in 1..b - a + 1 /\ (a - 1) + n \in 1..x - 1
      BY <2>1, <3>1
    <3>3. PICK off \in Int : off = a - 1
      BY <2>1
    <3>4. (\A n \in i..b - a + 1 : u[n] = d[off + n]) /\ i \in Int /\ b - a + 1 \in Int
      <4>1. \A n \in i..b - a + 1 : u[n] = s[(a - 1) + n] /\ s[(a - 1) + n] = d[(a - 1) + n]
        BY <1>1, <2>3, <3>2
      <4> QED
        BY <2>1, <3>3, <4>1
    <3>5. Denotes(w, u, i, b - a + 1) <=> Denotes(w, d, off + i, off + (b - a + 1))
      <4> HIDE DEF u
      <4> QED
        BY <3>4, DenotesShifted, Zenon
    <3>6. off + (b - a + 1) = b
      BY <3>3
    <3> QED
      BY <3>3, <3>5, <3>6
  <2> QED
    BY <2>3, <2>4, <2>5 DEF u
<1>3. ASSUME ParseUsize(Trim(s)) = <<w>>
      PROVE  \E f, t \in Nat : WidthAt(d, x, f, t) /\ w \in 0..UsizeMax /\ Denotes(w, d, f, t)
  <2>1. Trim(s) # <<>>
    <3>1. <<>> \in Seq(Chars) /\ Len(<<>>) = 0
      BY EmptySeq
    <3>2. \A i \in Nat : ~Number(<<>>, i)
      BY <3>1 DEF Number
    <3> QED
      BY <1>3, <3>1, <3>2, ParseUsizeMeaning
  <2>2. PICK a, b \in Nat : Trimmed(s, a, b)
    BY <2>1, TrimMeaning
  <2>3. PICK i \in Nat : /\ Number(SubSeq(s, a, b), i) /\ w \in 0..UsizeMax
                         /\ Denotes(w, SubSeq(s, a, b), i, b - a + 1)
    <3>1. /\ Trim(s) = SubSeq(s, a, b) /\ SubSeq(s, a, b) \in Seq(Chars)
          /\ Len(SubSeq(s, a, b)) = b - a + 1
      BY <1>2, <2>2
    <3> QED
      BY <1>3, <3>1, ParseUsizeMeaning, Zenon
  <2>4. WidthAt(d, x, (a - 1) + i, b)
    BY <1>1, <2>2, <2>3, TrimmedNumber
  <2>5. Denotes(w, d, (a - 1) + i, b)
    BY <1>2, <2>2, <2>3
  <2>6. (a - 1) + i \in Nat
    BY <2>4 DEF WidthAt
  <2> QED
    BY <2>3, <2>4, <2>5, <2>6
<1>4. ASSUME NEW f \in Nat, NEW t \in Nat,
             WidthAt(d, x, f, t), w \in 0..UsizeMax, Denotes(w, d, f, t)
      PROVE  ParseUsize(Trim(s)) = <<w>>
  <2>1. PICK a \in Nat, i \in Nat :
          Trimmed(s, a, t) /\ Number(SubSeq(s, a, t), i) /\ f = (a - 1) + i
    <3>1. TrimmedDigits(s, f, t)
      BY <1>1, <1>4, TrimmedNumber
    <3> QED
      BY <3>1 DEF TrimmedDigits
  <2>2. Denotes(w, SubSeq(s, a, t), i, t - a + 1)
    BY <1>2, <1>4, <2>1
  <2> QED
    <3>1. /\ Trim(s) = SubSeq(s, a, t) /\ SubSeq(s, a, t) \in Seq(Chars)
          /\ Len(SubSeq(s, a, t)) = t - a + 1
      BY <1>2, <2>1
    <3> QED
      BY <1>4, <2>1, <2>2, <3>1, ParseUsizeMeaning, Zenon
<1> QED
  BY <1>1, <1>3, <1>4

\* What it reads after the sign at x is the height written there.
LEMMA HeightRead ==
  ASSUME NEW d \in Seq(Chars), NEW x \in 1..Len(d), NEW h
  PROVE  ParseUsize(LeadingDigits(SubSeq(d, x + 1, Len(d)))) = <<h>> <=>
           \E e \in Nat : HeightAt(d, x, e) /\ h \in 0..UsizeMax /\ Denotes(h, d, x + 1, e)
<1>0. PICK last \in Nat : last = Len(d) /\ x \in Nat
  BY LenProperties
<1>1. PICK s \in Seq(Chars) :
        /\ s = SubSeq(d, x + 1, last) /\ Len(s) = last - x
        /\ \A n \in 1..last - x : s[n] = d[x + n]
  <2>1. x + 1 \in 1..last + 1 /\ last \in (x + 1) - 1..last /\ last - (x + 1) + 1 = last - x
        /\ (x + 1) - 1 = x
    BY <1>0
  <2> DEFINE u == SubSeq(d, x + 1, last)
  <2>2. u \in Seq(Chars) /\ Len(u) = last - x /\ \A n \in 1..last - x : u[n] = d[x + n]
    <3>1. /\ u \in Seq(Chars) /\ Len(u) = last - (x + 1) + 1
          /\ \A n \in 1..last - (x + 1) + 1 : u[n] = d[((x + 1) - 1) + n]
      BY <1>0, <2>1, Part
    <3> HIDE DEF u
    <3> QED
      BY <2>1, <3>1
  <2> HIDE DEF u
  <2> QED
    BY <2>2 DEF u
<1>2. PICK k \in Nat : Leading(s, k) /\ LeadingDigits(s) = SubSeq(s, 1, k)
  BY LeadingMeaning
<1>3. k \in 0..last - x /\ (\A n \in 1..k : s[n] \in Digits)
      /\ (k = last - x \/ s[k + 1] \notin Digits)
  BY <1>1, <1>2 DEF Leading
<1> DEFINE u == SubSeq(s, 1, k)
<1>4. u \in Seq(Chars) /\ Len(u) = k /\ \A n \in 1..k : u[n] = s[n]
  <2>1. 1 \in 1..(last - x) + 1 /\ k \in 1 - 1..last - x /\ k - 1 + 1 = k
    BY <1>0, <1>3
  <2>2. \A n \in 1..k : (1 - 1) + n = n
    BY <1>3
  <2> QED
    BY <1>1, <2>1, <2>2, Part
<1> HIDE DEF u
<1>5. \A i \in Nat : Number(u, i) <=> i = 1 /\ k # 0
  <2>1. "plus" \notin Digits
    BY DEF Digits
  <2>2. k # 0 => 1 \in 1..k
    BY <1>3
  <2> QED
    BY <1>3, <1>4, <2>1, <2>2 DEF Number
<1>6. ParseUsize(u) = <<h>> <=> k # 0 /\ h \in 0..UsizeMax /\ Denotes(h, u, 1, k)
  BY <1>4, <1>5, ParseUsizeMeaning
<1>7. Denotes(h, u, 1, k) <=> Denotes(h, d, x + 1, x + k)
  <2>1. \A n \in 1..k : n \in 1..last - x
    BY <1>3
  <2>2. (\A n \in 1..k : u[n] = d[x + n]) /\ x \in Int /\ 1 \in Int /\ k \in Int
    BY <1>0, <1>1, <1>4, <2>1
  <2> QED
    BY <2>2, DenotesShifted, Zenon
<1>8. k # 0 => HeightAt(d, x, x + k)
  <2>1. ASSUME NEW n \in x + 1..x + k
        PROVE  d[n] \in Digits
    <3>1. n - x \in 1..k /\ n - x \in 1..last - x /\ x + (n - x) = n
      BY <1>0, <1>3
    <3> QED
      BY <1>1, <1>3, <3>1
  <2>2. x + k = last \/ d[(x + k) + 1] \notin Digits
    <3>1. k # last - x => k + 1 \in 1..last - x /\ x + (k + 1) = (x + k) + 1
      BY <1>0, <1>3
    <3>2. k = last - x => x + k = last
      BY <1>0
    <3> QED
      BY <1>1, <1>3, <3>1, <3>2
  <2>3. k # 0 => x + k \in x + 1..last
    BY <1>0, <1>3
  <2> QED
    BY <1>0, <2>1, <2>2, <2>3 DEF HeightAt
<1>9. ASSUME NEW e \in Nat, HeightAt(d, x, e)
      PROVE  k # 0 /\ e = x + k
  <2>1. /\ e \in x + 1..last /\ (\A n \in x + 1..e : d[n] \in Digits)
        /\ e = last \/ d[e + 1] \notin Digits
    BY <1>0, <1>9 DEF HeightAt
  <2>2. k = last - x \/ d[x + (k + 1)] \notin Digits
    <3>1. k # last - x => k + 1 \in 1..last - x
      BY <1>0, <1>3
    <3> QED
      BY <1>1, <1>3, <3>1
  <2>3. ~(e < x + k)
    <3>1. SUFFICES ASSUME e < x + k
                   PROVE  FALSE
      OBVIOUS
    <3>2. (e + 1) - x \in 1..k /\ (e + 1) - x \in 1..last - x /\ x + ((e + 1) - x) = e + 1 /\ e # last
      BY <1>0, <1>3, <2>1, <3>1
    <3> QED
      BY <1>1, <1>3, <2>1, <3>2
  <2>4. ~(x + k < e)
    <3>1. SUFFICES ASSUME x + k < e
                   PROVE  FALSE
      OBVIOUS
    <3>2. x + (k + 1) \in x + 1..e /\ k # last - x
      BY <1>0, <1>3, <2>1, <3>1
    <3> QED
      BY <2>1, <2>2, <3>2
  <2> QED
    BY <1>0, <1>3, <2>1, <2>3, <2>4
<1>10. x + k \in Nat
  BY <1>0
<1> QED
  BY <1>0, <1>1, <1>2, <1>6, <1>7, <1>8, <1>9, <1>10 DEF u

\* A width and a height around a sign at x, which is the first one then.
LEMMA LayoutFirst ==
  ASSUME NEW d \in Seq(Chars), NEW x \in 1..Len(d), d[x] = "times",
         NEW f \in Nat, NEW t \in Nat, WidthAt(d, x, f, t)
  PROVE  FirstTimes(d, x)
<1>0. x \in Nat
  BY LenProperties
<1>1. /\ f \in 1..x - 1 /\ t \in f..x - 1
      /\ \A n \in f..t : d[n] \in Digits
      /\ \A n \in t + 1..x - 1 : d[n] = "space"
      /\ \A n \in 1..f - 1 : d[n] = "space" \/ d[n] = "plus"
  BY DEF WidthAt
<1>2. \A n \in 1..x - 1 : n \in f..t \/ n \in t + 1..x - 1 \/ n \in 1..f - 1
  BY <1>0, <1>1
<1>3. \A c \in Digits : c # "times"
  BY DEF Digits
<1> QED
  BY <1>1, <1>2, <1>3 DEF FirstTimes

\* A description declares <<w, h>> when it has a sign with the width w before it
\* and the height h after it.
LEMMA DeclaredParts ==
  ASSUME NEW d \in Seq(Chars)
  PROVE  /\ Declared(d) \subseteq (0..UsizeMax) \X (0..UsizeMax)
         /\ \A w, h \in 0..UsizeMax : <<w, h>> \in Declared(d) <=>
              \E x \in 1..Len(d) : \E f, t, e \in Nat :
                /\ d[x] = "times" /\ WidthAt(d, x, f, t) /\ HeightAt(d, x, e)
                /\ Denotes(w, d, f, t) /\ Denotes(h, d, x + 1, e)
<1>0. PICK last \in Nat : last = Len(d) /\ DOMAIN d = 1..last
  BY LenProperties
<1> DEFINE Row == [from : DOMAIN d, to : DOMAIN d, sign : DOMAIN d, end : DOMAIN d]
           Pairs(l) == {w \in 0..UsizeMax : Denotes(w, d, l.from, l.to)}
                         \X {h \in 0..UsizeMax : Denotes(h, d, l.sign + 1, l.end)}
<1>1. ASSUME NEW l \in Layouts(d)
      PROVE  /\ l.sign \in 1..last /\ l.from \in Nat /\ l.to \in Nat /\ l.end \in Nat
             /\ d[l.sign] = "times" /\ WidthAt(d, l.sign, l.from, l.to) /\ HeightAt(d, l.sign, l.end)
  <2>1. /\ l.from \in 1..last /\ l.to \in 1..last /\ l.sign \in 1..last /\ l.end \in 1..last
        /\ l.from <= l.to /\ l.to < l.sign /\ l.sign < l.end
        /\ d[l.sign] = "times"
        /\ \A n \in (l.from..l.to) \cup (l.sign + 1..l.end) : d[n] \in Digits
        /\ l.end = last \/ d[l.end + 1] \notin Digits
        /\ \A n \in l.to + 1..l.sign - 1 : d[n] = "space"
        /\ \A n \in 1..l.from - 1 : d[n] = "space" \/ (n = l.from - 1 /\ d[n] = "plus")
    BY <1>0 DEF Layouts
  <2>2. l.from \in 1..l.sign - 1 /\ l.to \in l.from..l.sign - 1 /\ l.end \in l.sign + 1..last
    BY <2>1
  <2> QED
    BY <1>0, <2>1, <2>2 DEF WidthAt, HeightAt
<1>2. ASSUME NEW x \in 1..last, NEW f \in Nat, NEW t \in Nat, NEW e \in Nat,
             d[x] = "times", WidthAt(d, x, f, t), HeightAt(d, x, e)
      PROVE  [from |-> f, to |-> t, sign |-> x, end |-> e] \in Layouts(d)
  <2> DEFINE l == [from |-> f, to |-> t, sign |-> x, end |-> e]
  <2>1. /\ f \in 1..x - 1 /\ t \in f..x - 1 /\ e \in x + 1..last
        /\ \A n \in f..t : d[n] \in Digits
        /\ \A n \in x + 1..e : d[n] \in Digits
        /\ e = last \/ d[e + 1] \notin Digits
        /\ \A n \in t + 1..x - 1 : d[n] = "space"
        /\ \A n \in 1..f - 1 : d[n] = "space" \/ (n = f - 1 /\ d[n] = "plus")
    BY <1>0, <1>2 DEF WidthAt, HeightAt
  <2>2. f \in 1..last /\ t \in 1..last /\ e \in 1..last /\ f <= t /\ t < x /\ x < e
    BY <2>1
  <2>3. l \in Row /\ l.from = f /\ l.to = t /\ l.sign = x /\ l.end = e
    BY <1>0, <2>2
  <2> HIDE DEF l
  <2> QED
    BY <1>0, <1>2, <2>1, <2>2, <2>3 DEF Layouts, l
<1>3. Declared(d) = UNION {Pairs(l) : l \in Layouts(d)}
  BY DEF Declared
<1>4. \A p : p \in Declared(d) <=> \E l \in Layouts(d) : p \in Pairs(l)
  <2> HIDE DEF Pairs
  <2> QED
    BY <1>3
<1>5. Declared(d) \subseteq (0..UsizeMax) \X (0..UsizeMax)
  BY <1>4
<1>6. ASSUME NEW w \in 0..UsizeMax, NEW h \in 0..UsizeMax, <<w, h>> \in Declared(d)
      PROVE  \E x \in 1..last : \E f, t, e \in Nat :
               /\ d[x] = "times" /\ WidthAt(d, x, f, t) /\ HeightAt(d, x, e)
               /\ Denotes(w, d, f, t) /\ Denotes(h, d, x + 1, e)
  <2>1. PICK l \in Layouts(d) : <<w, h>> \in Pairs(l)
    BY <1>4, <1>6
  <2>2. Denotes(w, d, l.from, l.to) /\ Denotes(h, d, l.sign + 1, l.end)
    BY <2>1
  <2> QED
    BY <1>1, <2>2
<1>7. ASSUME NEW w \in 0..UsizeMax, NEW h \in 0..UsizeMax, NEW x \in 1..last,
             NEW f \in Nat, NEW t \in Nat, NEW e \in Nat,
             d[x] = "times", WidthAt(d, x, f, t), HeightAt(d, x, e),
             Denotes(w, d, f, t), Denotes(h, d, x + 1, e)
      PROVE  <<w, h>> \in Declared(d)
  <2> DEFINE l == [from |-> f, to |-> t, sign |-> x, end |-> e]
  <2>1. l \in Layouts(d)
    BY <1>2, <1>7
  <2>2. <<w, h>> \in Pairs(l)
    BY <1>7
  <2> HIDE DEF l, Pairs
  <2> QED
    BY <1>4, <2>1, <2>2
<1> QED
  BY <1>0, <1>5, <1>6, <1>7

\* Two sequences of one element make a pair.
LEMMA Pair ==
  ASSUME NEW w, NEW h
  PROVE  <<w>> \o <<h>> = <<w, h>>
<1> DEFINE S == {w, h}
           a == <<w>>
           b == <<h>>
           c == <<w, h>>
<1>1. /\ a \in Seq(S) /\ b \in Seq(S) /\ c \in Seq(S)
      /\ Len(a) = 1 /\ Len(b) = 1 /\ Len(c) = 2
  OBVIOUS
<1>2. a[1] = w /\ b[1] = h /\ c[1] = w /\ c[2] = h
  OBVIOUS
<1> HIDE DEF a, b, c, S
<1>3. /\ a \o b \in Seq(S) /\ Len(a \o b) = Len(a) + Len(b)
      /\ \A i \in 1 .. Len(a) + Len(b) :
           (a \o b)[i] = IF i <= Len(a) THEN a[i] ELSE b[i - Len(a)]
  BY <1>1, ConcatProperties
<1>4. \A i \in 1..2 : (a \o b)[i] = c[i]
  BY <1>1, <1>2, <1>3
<1>5. Len(a \o b) = Len(c)
  BY <1>1, <1>3
<1>6. a \o b = c
  BY <1>1, <1>3, <1>4, <1>5, SeqEqual
<1> QED
  BY <1>6 DEF a, b, c

\* Parsing meets the declaration: it yields nothing exactly if the description
\* declares nothing, and otherwise the one width and height that it declares.
THEOREM ParseMeetsDeclaration ==
  ASSUME NEW d \in Seq(Chars)
  PROVE  /\ ParseDimensions(d) = <<>> <=> Declared(d) = {}
         /\ ParseDimensions(d) # <<>> => Declared(d) = {ParseDimensions(d)[1]}
<1> DEFINE x == SelectInSeq(d, LAMBDA c : c = "times")
           width == ParseUsize(Trim(SubSeq(d, 1, x - 1)))
           height == ParseUsize(LeadingDigits(SubSeq(d, x + 1, Len(d))))
<1>1. ParseDimensions(d) = IF x = 0 THEN <<>>
                           ELSE IF width = <<>> \/ height = <<>> THEN <<>> ELSE <<width \o height>>
  BY DEF ParseDimensions
<1>2. /\ x \in Nat
      /\ x # 0 => FirstTimes(d, x)
      /\ \A y \in Nat : FirstTimes(d, y) => x = y
  BY FirstTimesMeaning
<1> HIDE DEF x
<1>3. x # 0 => x \in 1..Len(d) /\ d[x] = "times"
  BY <1>2 DEF FirstTimes
<1>4. ASSUME x # 0
      PROVE  /\ \A w : width = <<w>> <=> \E f, t \in Nat :
                  WidthAt(d, x, f, t) /\ w \in 0..UsizeMax /\ Denotes(w, d, f, t)
             /\ \A h : height = <<h>> <=> \E e \in Nat :
                  HeightAt(d, x, e) /\ h \in 0..UsizeMax /\ Denotes(h, d, x + 1, e)
  BY <1>3, <1>4, WidthRead, HeightRead
<1>5. ASSUME x # 0
      PROVE  /\ width = <<>> \/ \E w \in 0..UsizeMax : width = <<w>>
             /\ height = <<>> \/ \E h \in 0..UsizeMax : height = <<h>>
  <2>1. SubSeq(d, 1, x - 1) \in Seq(Chars) /\ SubSeq(d, x + 1, Len(d)) \in Seq(Chars)
    BY <1>3, <1>5, SubSeqProperties
  <2>2. \A s \in Seq(Chars) : Trim(s) \in Seq(Chars)
    <3> TAKE s \in Seq(Chars)
    <3>1. ASSUME NEW a \in Nat, NEW b \in Nat, Trimmed(s, a, b)
          PROVE  SubSeq(s, a, b) \in Seq(Chars)
      <4>1. a \in 1..Len(s) + 1 /\ b \in a - 1..Len(s)
        BY <3>1, LenProperties DEF Trimmed
      <4> QED
        BY <4>1, Part
    <3>2. <<>> \in Seq(Chars)
      BY EmptySeq
    <3>3. Trim(s) = <<>> \/ \E a, b \in Nat : Trimmed(s, a, b) /\ Trim(s) = SubSeq(s, a, b)
      BY TrimMeaning
    <3> QED
      BY <3>1, <3>2, <3>3, Zenon
  <2>3. \A s \in Seq(Chars) : LeadingDigits(s) \in Seq(Chars)
    BY SubSeqProperties, LeadingMeaning, LenProperties DEF Leading
  <2> QED
    BY <2>1, <2>2, <2>3, ParseUsizeMeaning
<1> HIDE DEF width, height
<1>6. ASSUME NEW w \in 0..UsizeMax, NEW h \in 0..UsizeMax
      PROVE  <<w, h>> \in Declared(d) <=> x # 0 /\ width = <<w>> /\ height = <<h>>
  <2>1. <<w, h>> \in Declared(d) <=>
          \E y \in 1..Len(d) : \E f, t, e \in Nat :
            /\ d[y] = "times" /\ WidthAt(d, y, f, t) /\ HeightAt(d, y, e)
            /\ Denotes(w, d, f, t) /\ Denotes(h, d, y + 1, e)
    BY DeclaredParts
  <2>2. ASSUME NEW y \in 1..Len(d), NEW f \in Nat, NEW t \in Nat,
               d[y] = "times", WidthAt(d, y, f, t)
        PROVE  y = x /\ x # 0
    <3>1. FirstTimes(d, y) /\ y \in Nat /\ y # 0
      BY <2>2, LayoutFirst, LenProperties
    <3> QED
      BY <1>2, <3>1
  <2>3. ASSUME <<w, h>> \in Declared(d)
        PROVE  x # 0 /\ width = <<w>> /\ height = <<h>>
    BY <1>4, <2>1, <2>2, <2>3
  <2>4. ASSUME x # 0, width = <<w>>, height = <<h>>
        PROVE  <<w, h>> \in Declared(d)
    BY <1>3, <1>4, <2>1, <2>4
  <2> QED
    BY <2>3, <2>4
<1>7. Declared(d) \subseteq (0..UsizeMax) \X (0..UsizeMax)
  BY DeclaredParts
<1>8. \A p \in Declared(d) : \E w, h \in 0..UsizeMax : p = <<w, h>>
  BY <1>7
<1>9. \A w, h \in 0..UsizeMax : <<w>> \o <<h>> = <<w, h>> /\ <<w>> # <<>> /\ <<h>> # <<>>
  <2> TAKE w, h \in 0..UsizeMax
  <2>1. <<w>> \o <<h>> = <<w, h>>
    BY Pair
  <2> QED
    BY <2>1
<1>10. CASE x = 0 \/ width = <<>> \/ height = <<>>
  <2>1. ParseDimensions(d) = <<>>
    BY <1>1, <1>10
  <2>2. Declared(d) = {}
    <3>1. \A w, h \in 0..UsizeMax : ~(<<w, h>> \in Declared(d))
      BY <1>6, <1>9, <1>10
    <3> QED
      BY <1>8, <3>1
  <2> QED
    BY <2>1, <2>2
<1>11. CASE x # 0 /\ width # <<>> /\ height # <<>>
  <2>1. PICK w \in 0..UsizeMax, h \in 0..UsizeMax : width = <<w>> /\ height = <<h>>
    BY <1>5, <1>11
  <2>2. ParseDimensions(d) = << <<w, h>> >>
    BY <1>1, <1>9, <1>11, <2>1
  <2>3. ASSUME NEW p \in Declared(d)
        PROVE  p = <<w, h>>
    <3>1. PICK v \in 0..UsizeMax, g \in 0..UsizeMax : p = <<v, g>>
      BY <1>8
    <3>2. <<v>> = <<w>> /\ <<g>> = <<h>>
      BY <1>6, <2>1, <3>1
    <3> QED
      BY <3>1, <3>2
  <2>4. <<w, h>> \in Declared(d)
    BY <1>6, <1>11, <2>1
  <2> QED
    BY <2>2, <2>3, <2>4
<1> QED
  BY <1>10, <1>11

-----------------------------------------------------------------------------
(***************************************************************************)
(* UTF-16: what from_utf16_lossy decodes, encoded again.                   *)
(***************************************************************************)

Scalars == {c \in CodePoints : IsScalar(c)}

\* V has what the first sequences of ss flatten to, up to all last + 1 of them.
Flattens(V, ss, last) ==
  /\ V[0] = ss[1]
  /\ \A n \in Nat : n < last => V[n + 1] = V[n] \o ss[n + 2]
  /\ FlattenSeq(ss) = V[last]

\* FlattenSeq has such values.
LEMMA FlattenedPrefixes ==
  ASSUME NEW T, NEW ss \in Seq(Seq(T)), NEW last \in Nat, Len(ss) = last + 1
  PROVE  \E V \in [Nat -> Seq(T)] : Flattens(V, ss, last)
<1> DEFINE Out == Seq(T)
           step == [c \in Nat \X Out |-> IF c[1] < last THEN c[2] \o ss[c[1] + 2] ELSE <<>>]
           V == CHOOSE V : V = [n \in 1..Len(ss) |->
                                  IF n = 1 THEN ss[n] ELSE V[n - 1] \o ss[n]]
<1>1. \A n \in 1..last + 1 : ss[n] \in Out
  BY ElementOfSeq
<1>2. step \in [Nat \X Out -> Out] /\ ss[1] \in Out
  <2>1. ASSUME NEW n \in Nat, NEW q \in Out, n < last
        PROVE  q \o ss[n + 2] \in Out
    <3>1. n + 2 \in 1..last + 1
      BY <2>1
    <3>2. ss[n + 2] \in Out
      BY <1>1, <3>1
    <3> QED
      BY <3>2, ConcatProperties
  <2>2. <<>> \in Out
    BY EmptySeq
  <2>3. ss[1] \in Out
    BY <1>1
  <2> HIDE DEF Out
  <2> QED
    BY <2>1, <2>2, <2>3
<1>3. PICK f \in [Nat -> Out] : Iterates(f, ss[1], step)
  <2> HIDE DEF step, Out
  <2> QED
    BY <1>2, Recursion
<1>4. /\ f[0] = ss[1]
      /\ \A n \in Nat : n < last => f[n + 1] = f[n] \o ss[n + 2]
  <2> HIDE DEF Out
  <2> QED
    BY <1>3 DEF Iterates
<1> DEFINE g == [n \in 1..Len(ss) |-> f[n - 1]]
<1>5. g = [n \in 1..Len(ss) |-> IF n = 1 THEN ss[n] ELSE g[n - 1] \o ss[n]]
  <2>1. ASSUME NEW n \in 1..last + 1
        PROVE  g[n] = IF n = 1 THEN ss[n] ELSE g[n - 1] \o ss[n]
    <3>1. CASE n = 1
      BY <1>4, <3>1
    <3>2. CASE n # 1
      <4>1. /\ n - 2 \in Nat /\ n - 2 < last /\ (n - 2) + 1 = n - 1 /\ (n - 2) + 2 = n
            /\ n - 1 \in 1..last + 1 /\ (n - 1) - 1 = n - 2
        BY <3>2
      <4>2. f[n - 1] = f[n - 2] \o ss[n]
        BY <1>4, <4>1
      <4> QED
        BY <3>2, <4>1, <4>2
    <3> QED
      BY <3>1, <3>2
  <2> QED
    BY <2>1
<1>6. V = [n \in 1..Len(ss) |-> IF n = 1 THEN ss[n] ELSE V[n - 1] \o ss[n]]
  <2> HIDE DEF g
  <2> QED
    BY <1>5
<1>7. FlattenSeq(ss) = V[last + 1]
  BY DEF FlattenSeq
<1> HIDE DEF V
<1>8. \A n \in 1..last + 1 : V[n] = IF n = 1 THEN ss[n] ELSE V[n - 1] \o ss[n]
  BY <1>6
<1>9. ASSUME NEW n \in Nat
      PROVE  n <= last => V[n + 1] = f[n]
  <2> DEFINE M == {k \in Nat : k <= last => V[k + 1] = f[k]}
  <2>1. 0 \in M
    BY <1>4, <1>8
  <2>2. ASSUME NEW k \in Nat, k \in M
        PROVE  k + 1 \in M
    <3>1. SUFFICES ASSUME k + 1 <= last
                   PROVE  V[(k + 1) + 1] = f[k + 1]
      OBVIOUS
    <3>2. /\ k < last /\ k <= last /\ (k + 1) + 1 = k + 2 /\ k + 2 # 1
          /\ k + 2 \in 1..last + 1 /\ (k + 2) - 1 = k + 1
      BY <3>1
    <3>3. V[k + 2] = V[k + 1] \o ss[k + 2]
      BY <1>8, <3>2
    <3>4. V[k + 1] = f[k] /\ f[k + 1] = f[k] \o ss[k + 2]
      BY <1>4, <2>2, <3>2
    <3> QED
      BY <3>2, <3>3, <3>4
  <2>3. n \in M
    <3> HIDE DEF M
    <3> QED
      BY <2>1, <2>2, Induction
  <2> QED
    BY <2>3
<1>10. FlattenSeq(ss) = f[last]
  BY <1>7, <1>9
<1>11. Flattens(f, ss, last)
  BY <1>4, <1>10 DEF Flattens
<1> QED
  BY <1>11

\* Concatenation is associative.
Associates(a, T) == \A u, v \in Seq(T) : (a \o u) \o v = a \o (u \o v)

\* Stated of the first of the three sequences.
LEMMA Associative ==
  ASSUME NEW T, NEW a \in Seq(T)
  PROVE  Associates(a, T)
BY DEF Associates

\* tt is the sequence a followed by the ones in ss.
Leads(a, ss, tt) ==
  Len(tt) = Len(ss) + 1 /\ tt[1] = a /\ \A n \in 1..Len(ss) : tt[n + 1] = ss[n]

\* Flattening takes the first sequence, then what the others flatten to.
LEMMA FlattenFirst ==
  ASSUME NEW T, NEW a \in Seq(T), NEW ss \in Seq(Seq(T)), NEW tt \in Seq(Seq(T)),
         Leads(a, ss, tt)
  PROVE  /\ FlattenSeq(ss) \in Seq(T)
         /\ FlattenSeq(tt) = a \o FlattenSeq(ss)
<1> Len(tt) = Len(ss) + 1 /\ tt[1] = a /\ \A n \in 1..Len(ss) : tt[n + 1] = ss[n]
  BY DEF Leads
<1>0. PICK last \in Nat : last = Len(ss)
  BY LenProperties
<1>1. PICK W \in [Nat -> Seq(T)] :
        /\ W[0] = tt[1]
        /\ \A n \in Nat : n < last => W[n + 1] = W[n] \o tt[n + 2]
        /\ FlattenSeq(tt) = W[last]
  <2>1. \E W \in [Nat -> Seq(T)] : Flattens(W, tt, last)
    BY <1>0, FlattenedPrefixes
  <2> QED
    BY <2>1 DEF Flattens
<1>2. Associates(a, T)
  BY Associative
<1>3. CASE last = 0
  <2>1. ss = <<>>
    BY <1>0, <1>3, EmptySeq
  <2>2. FlattenSeq(ss) = <<>> /\ FlattenSeq(ss) \in Seq(T)
    BY <2>1, EmptySeq DEF FlattenSeq
  <2>3. a \o <<>> = a
    BY ConcatEmptySeq
  <2> QED
    BY <1>1, <1>3, <2>2, <2>3
<1>4. CASE last # 0
  <2>1. PICK l \in Nat : last = l + 1
    <3>1. last - 1 \in Nat /\ last = (last - 1) + 1
      BY <1>4
    <3> QED
      BY <3>1
  <2>2. PICK V \in [Nat -> Seq(T)] :
          /\ V[0] = ss[1]
          /\ \A n \in Nat : n < l => V[n + 1] = V[n] \o ss[n + 2]
          /\ FlattenSeq(ss) = V[l]
    <3>1. \E V \in [Nat -> Seq(T)] : Flattens(V, ss, l)
      BY <1>0, <2>1, FlattenedPrefixes
    <3> QED
      BY <3>1 DEF Flattens
  <2> DEFINE Joined(n) == W[n + 1] = a \o V[n]
             M == {n \in Nat : n <= l => Joined(n)}
  <2>3. 0 \in M
    <3>1. 0 < last /\ 1 \in 1..last
      BY <2>1
    <3>2. W[0 + 1] = W[0] \o tt[2]
      <4>1. 0 + 2 = 2 /\ 0 \in Nat
        OBVIOUS
      <4> QED
        BY <1>1, <3>1, <4>1, Zenon
    <3>3. tt[2] = ss[1]
      BY <1>0, <3>1
    <3>4. Joined(0)
      BY <1>1, <2>2, <3>2, <3>3, Zenon
    <3> HIDE DEF Joined
    <3> QED
      BY <3>4
  <2>4. ASSUME NEW n \in Nat, n \in M
        PROVE  n + 1 \in M
    <3>1. SUFFICES ASSUME n + 1 <= l
                   PROVE  Joined(n + 1)
      <4> HIDE DEF Joined
      <4> QED
        OBVIOUS
    <3>2. n < l /\ n <= l /\ n + 1 < last /\ n + 1 \in Nat /\ n + 2 \in 1..last
          /\ (n + 1) + 2 = (n + 2) + 1
      BY <2>1, <3>1
    <3>3. W[(n + 1) + 1] = W[n + 1] \o ss[n + 2]
      <4>1. W[(n + 1) + 1] = W[n + 1] \o tt[(n + 1) + 2]
        BY <1>1, <3>2
      <4>2. tt[(n + 2) + 1] = ss[n + 2]
        BY <1>0, <3>2
      <4> QED
        BY <3>2, <4>1, <4>2
    <3>4. W[n + 1] = a \o V[n] /\ V[n + 1] = V[n] \o ss[n + 2]
      BY <2>2, <2>4, <3>2
    <3>5. ss[n + 2] \in Seq(T) /\ V[n] \in Seq(T)
      BY <1>0, <3>2, ElementOfSeq
    <3>6. (a \o V[n]) \o ss[n + 2] = a \o (V[n] \o ss[n + 2])
      BY <1>2, <3>5, Zenon DEF Associates
    <3> QED
      BY <3>3, <3>4, <3>6
  <2>5. l \in M
    <3> HIDE DEF M
    <3> QED
      BY <2>3, <2>4, Induction
  <2> QED
    <3>1. W[l + 1] = a \o V[l]
      <4> HIDE DEF Joined
      <4>1. Joined(l)
        BY <2>5
      <4> QED
        BY <4>1 DEF Joined
    <3> QED
      BY <1>1, <2>1, <2>2, <3>1
<1> QED
  BY <1>3, <1>4

\* What a pair carries is split into its halves as it was put together.
LEMMA HalfBounds ==
  ASSUME NEW b \in Nat, NEW q \in Int, NEW r \in 0..Half - 1
  PROVE  /\ (q * Half + r) \div Half = q /\ (q * Half + r) % Half = r
         /\ q \in 0..b - 1 <=> q * Half + r \in 0..b * Half - 1
<1>1. Half = 1024
  BY DEF Half
<1>2. r \in 0..1023
  BY <1>1
<1>3. (q * 1024 + r) \div 1024 = q /\ (q * 1024 + r) % 1024 = r
  BY <1>2, SMT
<1>4. q \in 0..b - 1 => q * 1024 + r \in 0..b * 1024 - 1
  BY <1>2, SMT
<1>5. q * 1024 + r \in 0..b * 1024 - 1 => q \in 0..b - 1
  BY <1>2, SMT
<1> QED
  BY <1>1, <1>3, <1>4, <1>5, SMT

\* Every number is.
LEMMA HalvesExist ==
  ASSUME NEW n \in Int
  PROVE  n = (n \div Half) * Half + (n % Half) /\ n % Half \in 0..Half - 1 /\ n \div Half \in Int
<1>1. Half = 1024
  BY DEF Half
<1>2. n = (n \div 1024) * 1024 + (n % 1024) /\ n % 1024 \in 0..1024 - 1 /\ n \div 1024 \in Int
  BY SMT
<1> QED
  BY <1>1, <1>2, SMT

\* The ranges of code units and code points, as multiples of Half.
LEMMA Ranges ==
  /\ Half \in Nat /\ Half > 3
  /\ FirstHigh \in Nat /\ FirstLow \in Nat /\ Basic \in Nat
  /\ FirstLow = FirstHigh + Half /\ FirstLow + Half <= Basic
  /\ FirstHigh > 0 /\ Replacement \in FirstLow + Half..Basic - 1
<1>1. Half \in Nat /\ Half > 3
  BY DEF Half
<1> QED
  BY <1>1 DEF FirstHigh, FirstLow, Basic, Replacement

\* The pair of surrogates that stands for a scalar value is the one it encodes to.
LEMMA CombinedUnits ==
  ASSUME NEW h \in HighSurrogates, NEW l \in LowSurrogates
  PROVE  Combine(h, l) \in Scalars /\ EncodeScalar(Combine(h, l)) = <<h, l>>
<1>1. PICK q \in 0..Half - 1 : h = FirstHigh + q
  <2>1. h - FirstHigh \in 0..Half - 1 /\ h = FirstHigh + (h - FirstHigh)
    BY Ranges, SMT DEF HighSurrogates
  <2> QED
    BY <2>1
<1>2. PICK r \in 0..Half - 1 : l = FirstLow + r
  <2>1. l - FirstLow \in 0..Half - 1 /\ l = FirstLow + (l - FirstLow)
    BY Ranges, SMT DEF LowSurrogates
  <2> QED
    BY <2>1
<1>3. PICK n \in Int : n = q * Half + r
  BY Ranges
<1>4. n \div Half = q /\ n % Half = r /\ n \in 0..Half * Half - 1
  BY <1>3, Ranges, HalfBounds
<1>5. Combine(h, l) = Basic + n
  <2>1. h - FirstHigh = q /\ l - FirstLow = r
    BY <1>1, <1>2, Ranges
  <2>2. Combine(h, l) = Basic + q * Half + r
    BY <2>1 DEF Combine
  <2>3. q * Half \in Int
    BY Ranges
  <2> QED
    BY <1>3, <2>2, <2>3, Ranges
<1>6. Basic + n \in CodePoints /\ Basic + n >= Basic /\ (Basic + n) - Basic = n
  <2>1. PICK m \in Int : m = Half * Half
    BY Ranges
  <2> QED
    BY <1>4, <2>1, Ranges DEF CodePoints
<1>7. Basic + n \notin Surrogates
  BY <1>6, Ranges DEF Surrogates, HighSurrogates, LowSurrogates
<1>8. EncodeScalar(Basic + n) = <<FirstHigh + q, FirstLow + r>>
  <2>1. ~(Basic + n < Basic)
    BY <1>6, Ranges
  <2> QED
    BY <1>4, <1>6, <2>1 DEF EncodeScalar
<1> QED
  BY <1>1, <1>2, <1>5, <1>6, <1>7, <1>8 DEF Scalars, IsScalar

\* A scalar value is one code unit that is no surrogate, or two that are a pair.
LEMMA ScalarUnits ==
  ASSUME NEW c \in Scalars
  PROVE  EncodeScalar(c) \in Seq(CodeUnits)
<1>1. PICK m \in Int : m = Half * Half
  BY Ranges
<1>2. c \in 0..Basic + m - 1
  BY <1>1 DEF Scalars, CodePoints
<1>3. CASE c < Basic
  <2>1. c \in CodeUnits /\ EncodeScalar(c) = <<c>>
    BY <1>2, <1>3, Ranges DEF EncodeScalar, CodeUnits
  <2> QED
    BY <2>1
<1>4. CASE ~(c < Basic)
  <2>1. PICK n \in Int : n = c - Basic /\ n \in 0..m - 1
    BY <1>1, <1>2, <1>4, Ranges
  <2>2. PICK q \in Int, r \in 0..Half - 1 : n = q * Half + r /\ q = n \div Half /\ r = n % Half
    BY HalvesExist
  <2>3. q \in 0..Half - 1
    BY <1>1, <2>1, <2>2, Ranges, HalfBounds
  <2>4. EncodeScalar(c) = <<FirstHigh + q, FirstLow + r>>
    BY <1>4, <2>1, <2>2 DEF EncodeScalar
  <2>5. FirstHigh + q \in CodeUnits /\ FirstLow + r \in CodeUnits
    BY <2>3, Ranges DEF CodeUnits
  <2> QED
    BY <2>4, <2>5
<1> QED
  BY <1>3, <1>4

\* A string is encoded character by character.
LEMMA EncodeFirst ==
  ASSUME NEW c \in Scalars, NEW s \in Seq(Scalars)
  PROVE  /\ <<c>> \o s \in Seq(Scalars)
         /\ Encode(s) \in Seq(CodeUnits)
         /\ Encode(<<c>> \o s) = EncodeScalar(c) \o Encode(s)
<1>0. PICK last \in Nat : last = Len(s) /\ DOMAIN s = 1..last
  BY LenProperties
<1>1. PICK t \in Seq(Scalars) : t = <<c>> \o s /\ Len(t) = last + 1 /\ DOMAIN t = 1..last + 1
                                /\ t[1] = c /\ \A n \in 1..last : t[n + 1] = s[n]
  <2> DEFINE a == <<c>>
  <2>1. a \in Seq(Scalars) /\ Len(a) = 1 /\ a[1] = c
    OBVIOUS
  <2> HIDE DEF a
  <2> DEFINE t == a \o s
  <2>2. /\ t \in Seq(Scalars) /\ Len(t) = 1 + last
        /\ \A i \in 1 .. 1 + last : t[i] = IF i <= 1 THEN a[i] ELSE s[i - 1]
    <3>1. /\ t \in Seq(Scalars) /\ Len(t) = Len(a) + Len(s)
          /\ \A i \in 1 .. Len(a) + Len(s) : t[i] = IF i <= Len(a) THEN a[i] ELSE s[i - Len(a)]
      BY <2>1, ConcatProperties
    <3> HIDE DEF t
    <3> QED
      BY <1>0, <2>1, <3>1
  <2>3. DOMAIN t = 1..last + 1 /\ Len(t) = last + 1
    BY <2>2, LenProperties
  <2> HIDE DEF t
  <2>4. t[1] = c
    BY <2>1, <2>2
  <2>5. \A n \in 1..last : t[n + 1] = s[n]
    BY <2>2
  <2> QED
    BY <2>2, <2>3, <2>4, <2>5 DEF a, t
<1> DEFINE ss == [i \in 1..last |-> EncodeScalar(s[i])]
           tt == [i \in 1..last + 1 |-> EncodeScalar(t[i])]
<1>2. /\ \A i \in 1..last : EncodeScalar(s[i]) \in Seq(CodeUnits)
      /\ \A i \in 1..last + 1 : EncodeScalar(t[i]) \in Seq(CodeUnits)
      /\ EncodeScalar(c) \in Seq(CodeUnits)
  BY <1>0, <1>1, ElementOfSeq, ScalarUnits
<1>3. ss \in Seq(Seq(CodeUnits)) /\ tt \in Seq(Seq(CodeUnits))
  <2>1. ss \in [1..last -> Seq(CodeUnits)] /\ tt \in [1..last + 1 -> Seq(CodeUnits)]
    BY <1>2
  <2> HIDE DEF ss, tt
  <2> QED
    BY <2>1, SeqDef
<1>4. Len(ss) = last /\ Len(tt) = last + 1
  <2>1. DOMAIN ss = 1..last /\ DOMAIN tt = 1..last + 1
    OBVIOUS
  <2> HIDE DEF ss, tt
  <2> QED
    BY <1>3, <2>1, LenProperties
<1>5. tt[1] = EncodeScalar(c) /\ \A n \in 1..last : tt[n + 1] = ss[n]
  BY <1>1
<1>6. Encode(s) = FlattenSeq(ss) /\ Encode(t) = FlattenSeq(tt)
  BY <1>0, <1>1 DEF Encode
<1> HIDE DEF ss, tt
<1>7. FlattenSeq(ss) \in Seq(CodeUnits) /\ FlattenSeq(tt) = EncodeScalar(c) \o FlattenSeq(ss)
  <2>1. Leads(EncodeScalar(c), ss, tt)
    BY <1>4, <1>5 DEF Leads
  <2> QED
    BY <1>2, <1>3, <2>1, FlattenFirst
<1> QED
  BY <1>1, <1>6, <1>7

\* The empty string is encoded as nothing.
LEMMA EncodeEmpty ==
  <<>> \in Seq(Scalars) /\ Encode(<<>>) = <<>>
<1> DEFINE ss == [i \in DOMAIN <<>> |-> EncodeScalar(<<>>[i])]
<1>1. ss = <<>>
  OBVIOUS
<1> HIDE DEF ss
<1>2. FlattenSeq(ss) = <<>>
  BY <1>1, EmptySeq DEF FlattenSeq
<1> QED
  BY <1>2, EmptySeq DEF Encode, ss

-----------------------------------------------------------------------------
\* The units at i and i + 1 are a pair.
PairAt(units, i) ==
  units[i] \in HighSurrogates /\ i < Len(units) /\ units[i + 1] \in LowSurrogates

\* G[i] is what from_utf16_lossy makes of the units from i on.
Decodes(G, units) ==
  /\ G[Len(units) + 1] = <<>>
  /\ \A i \in 1..Len(units) :
       G[i] = IF PairAt(units, i) THEN <<Combine(units[i], units[i + 1])>> \o G[i + 2]
              ELSE <<IF units[i] \in Surrogates THEN Replacement ELSE units[i]>> \o G[i + 1]

\* Units, as they come or replaced, are integers; so is what a pair stands for.
LEMMA LossyFrom ==
  ASSUME NEW units \in Seq(CodeUnits)
  PROVE  \E G : Decodes(G, units) /\ Lossy(units) = G[1]
<1>0. PICK last \in Nat : last = Len(units)
  BY LenProperties
<1>1. CodeUnits \subseteq Int /\ Replacement \in Int
  BY Ranges DEF CodeUnits
<1> DEFINE Out == Seq(Int) \X Seq(Int)
           Rep(i) == IF units[i] \in Surrogates THEN Replacement ELSE units[i]
           Read(i, p, q) == IF PairAt(units, i) THEN <<Combine(units[i], units[i + 1])>> \o q
                            ELSE <<Rep(i)>> \o p
           step == [c \in Nat \X Out |->
                      IF c[1] < last THEN <<Read(last - c[1], c[2][1], c[2][2]), c[2][1]>>
                      ELSE c[2]]
           G == CHOOSE G : G = [i \in 1..last + 2 |->
                                  IF i > last THEN <<>>
                                  ELSE IF PairAt(units, i)
                                    THEN <<Combine(units[i], units[i + 1])>> \o G[i + 2]
                                  ELSE <<Rep(i)>> \o G[i + 1]]
<1>2. ASSUME NEW i \in 1..last, NEW p \in Seq(Int), NEW q \in Seq(Int)
      PROVE  Read(i, p, q) \in Seq(Int)
  <2>1. units[i] \in Int
    BY <1>0, <1>1, ElementOfSeq
  <2>2. PairAt(units, i) => Combine(units[i], units[i + 1]) \in Int
    <3>1. SUFFICES ASSUME PairAt(units, i)
                   PROVE  Combine(units[i], units[i + 1]) \in Int
      OBVIOUS
    <3>2. units[i] \in HighSurrogates /\ units[i + 1] \in LowSurrogates
      BY <3>1 DEF PairAt
    <3>3. Combine(units[i], units[i + 1]) \in Scalars
      BY <3>2, CombinedUnits
    <3>4. Basic + Half * Half - 1 \in Int
      BY Ranges
    <3> QED
      BY <3>3, <3>4 DEF Scalars, CodePoints
  <2>3. Rep(i) \in Int
    BY <1>1, <2>1
  <2>4. \A n \in Int, s \in Seq(Int) : <<n>> \o s \in Seq(Int)
    OBVIOUS
  <2> QED
    BY <2>2, <2>3, <2>4
<1> HIDE DEF Read
<1>3. step \in [Nat \X Out -> Out] /\ << <<>>, <<>> >> \in Out
  <2>1. ASSUME NEW n \in Nat, NEW p \in Seq(Int), NEW q \in Seq(Int), n < last
        PROVE  <<Read(last - n, p, q), p>> \in Out
    <3>1. last - n \in 1..last
      BY <2>1
    <3> QED
      BY <1>2, <3>1
  <2>2. \A c \in Out : c[1] \in Seq(Int) /\ c[2] \in Seq(Int)
    OBVIOUS
  <2>3. << <<>>, <<>> >> \in Out
    BY EmptySeq
  <2> HIDE DEF Out
  <2> QED
    BY <2>1, <2>2, <2>3
<1>4. PICK f \in [Nat -> Out] : Iterates(f, << <<>>, <<>> >>, step)
  <2> HIDE DEF step, Out
  <2> QED
    BY <1>3, Recursion
<1>5. /\ f[0] = << <<>>, <<>> >>
      /\ \A n \in Nat : n < last => f[n + 1] = <<Read(last - n, f[n][1], f[n][2]), f[n][1]>>
  <2> HIDE DEF Out
  <2> QED
    BY <1>4 DEF Iterates
<1> DEFINE g == [i \in 1..last + 2 |-> IF i > last THEN <<>> ELSE f[(last + 1) - i][1]]
<1>6. ASSUME NEW i \in 1..last
      PROVE  g[i] = Read(i, g[i + 1], g[i + 2])
  <2>1. PICK n \in Nat : n = last - i
    OBVIOUS
  <2>2. n < last /\ n + 1 = (last + 1) - i /\ last - n = i /\ ~(i > last) /\ i \in 1..last + 2
    BY <2>1
  <2>3. f[n + 1] = <<Read(i, f[n][1], f[n][2]), f[n][1]>>
    BY <1>5, <2>2
  <2>4. g[i] = Read(i, f[n][1], f[n][2])
    BY <2>2, <2>3
  <2>5. g[i + 1] = f[n][1]
    <3>1. CASE i = last
      BY <1>5, <2>1, <3>1
    <3>2. CASE i # last
      BY <2>1, <3>2
    <3> QED
      BY <3>1, <3>2
  <2>6. g[i + 2] = f[n][2]
    <3>1. CASE n = 0
      BY <1>5, <2>1, <3>1
    <3>2. CASE n # 0
      <4>1. PICK k \in Nat : n = k + 1 /\ k < last /\ k + 1 = last - i
        <5>1. n - 1 \in Nat /\ n = (n - 1) + 1 /\ n - 1 < last /\ (n - 1) + 1 = last - i
          BY <2>1, <2>2, <3>2
        <5> QED
          BY <5>1
      <4>2. f[n][2] = f[k][1]
        BY <1>5, <4>1
      <4>3. CASE k = 0
        BY <1>5, <4>1, <4>2, <4>3
      <4>4. CASE k # 0
        <5>1. i + 2 \in 1..last + 2 /\ ~(i + 2 > last) /\ (last + 1) - (i + 2) = k
          BY <4>1, <4>4
        <5> QED
          BY <4>2, <5>1
      <4> QED
        BY <4>3, <4>4
    <3> QED
      BY <3>1, <3>2
  <2> QED
    BY <2>4, <2>5, <2>6
<1>7. g = [i \in 1..last + 2 |->
             IF i > last THEN <<>>
             ELSE IF PairAt(units, i) THEN <<Combine(units[i], units[i + 1])>> \o g[i + 2]
             ELSE <<Rep(i)>> \o g[i + 1]]
  <2>1. \A i \in 1..last + 2 : i > last => g[i] = <<>>
    OBVIOUS
  <2>2. \A i \in 1..last + 2 : ~(i > last) => i \in 1..last
    OBVIOUS
  <2>3. DOMAIN g = 1..last + 2 /\ g = [i \in 1..last + 2 |-> g[i]]
    OBVIOUS
  <2> HIDE DEF g, Rep
  <2> QED
    BY <1>6, <2>1, <2>2, <2>3 DEF Read
<1>8. G = [i \in 1..last + 2 |->
             IF i > last THEN <<>>
             ELSE IF PairAt(units, i) THEN <<Combine(units[i], units[i + 1])>> \o G[i + 2]
             ELSE <<Rep(i)>> \o G[i + 1]]
  <2> HIDE DEF g, Rep
  <2> QED
    BY <1>7
<1>9. Lossy(units) = G[1]
  BY <1>0 DEF Lossy, PairAt
<1> HIDE DEF G, g
<1>10. Decodes(G, units)
  <2>1. G[last + 1] = <<>>
    <3>1. last + 1 \in 1..last + 2 /\ last + 1 > last
      OBVIOUS
    <3> QED
      BY <1>8, <3>1
  <2>2. \A i \in 1..last :
          G[i] = IF PairAt(units, i) THEN <<Combine(units[i], units[i + 1])>> \o G[i + 2]
                 ELSE <<Rep(i)>> \o G[i + 1]
    <3> TAKE i \in 1..last
    <3>1. i \in 1..last + 2 /\ ~(i > last)
      OBVIOUS
    <3> HIDE DEF Rep
    <3> QED
      BY <1>8, <3>1
  <2> QED
    BY <1>0, <2>1, <2>2 DEF Decodes
<1> QED
  BY <1>9, <1>10

\* The path's units with the unpaired surrogates replaced.
Repaired(units) ==
  [i \in DOMAIN units |-> IF Unpaired(units, i) THEN Replacement ELSE units[i]]

\* i is not in the middle of a pair.
Boundary(units, i) ==
  ~(i \in 2..Len(units) /\ units[i - 1] \in HighSurrogates /\ units[i] \in LowSurrogates)

\* What is decoded from i on is a string, and encoded again it is the repaired rest.
Restored(G, units, i) ==
  /\ G[i] \in Seq(Scalars)
  /\ Encode(G[i]) = SubSeq(Repaired(units), i, Len(units))

\* A repaired unit is a unit.
LEMMA RepairedUnits ==
  ASSUME NEW units \in Seq(CodeUnits)
  PROVE  Repaired(units) \in Seq(CodeUnits) /\ Len(Repaired(units)) = Len(units)
<1>0. PICK last \in Nat : last = Len(units) /\ DOMAIN units = 1..last
  BY LenProperties
<1>1. Replacement \in CodeUnits
  BY Ranges DEF CodeUnits
<1>2. \A i \in 1..last : units[i] \in CodeUnits
  BY <1>0, ElementOfSeq
<1> DEFINE rep == Repaired(units)
<1>3. rep \in [1..last -> CodeUnits]
  BY <1>0, <1>1, <1>2 DEF Repaired
<1> HIDE DEF rep
<1>4. rep \in Seq(CodeUnits)
  BY <1>3, SeqDef
<1>5. Len(rep) = last
  BY <1>3, <1>4, LenProperties
<1> QED
  BY <1>0, <1>4, <1>5 DEF rep

\* One unit, or one pair, at a time: what from_utf16_lossy puts for it is encoded
\* as the repaired unit or as the pair.
LEMMA LossyStep ==
  ASSUME NEW units \in Seq(CodeUnits), NEW G, Decodes(G, units),
         NEW i \in 1..Len(units), Boundary(units, i),
         Boundary(units, i + 1) => Restored(G, units, i + 1),
         i < Len(units) /\ Boundary(units, i + 2) => Restored(G, units, i + 2)
  PROVE  Restored(G, units, i)
<1>0. PICK last \in Nat : last = Len(units) /\ DOMAIN units = 1..last
  BY LenProperties
<1> DEFINE rep == Repaired(units)
<1>1. rep \in Seq(CodeUnits) /\ Len(rep) = last
  BY <1>0, RepairedUnits
<1>2. \A n \in 1..last : rep[n] = IF Unpaired(units, n) THEN Replacement ELSE units[n]
  BY <1>0 DEF Repaired
<1> HIDE DEF rep
<1>3. G[i] = IF PairAt(units, i) THEN <<Combine(units[i], units[i + 1])>> \o G[i + 2]
             ELSE <<IF units[i] \in Surrogates THEN Replacement ELSE units[i]>> \o G[i + 1]
  BY DEF Decodes
<1>4. \A u : ~(u \in HighSurrogates /\ u \in LowSurrogates)
  BY Ranges DEF HighSurrogates, LowSurrogates
<1>5. \A n \in 1..last : SubSeq(rep, n, last) = <<rep[n]>> \o SubSeq(rep, n + 1, last)
  <2> TAKE n \in 1..last
  <2>1. last \in n..last
    OBVIOUS
  <2> QED
    BY <1>1, <2>1, SubSeqRecursiveFirst
<1>6. \A n \in 2..last + 1 : SubSeq(rep, n, last) \in Seq(CodeUnits)
  <2> TAKE n \in 2..last + 1
  <2>1. \A k \in n..last : rep[k] \in CodeUnits
    BY <1>1, ElementOfSeq
  <2> QED
    BY <2>1, SubSeqProperties
<1>7. CASE PairAt(units, i)
  <2> DEFINE h == units[i]
             l == units[i + 1]
  <2>1. h \in HighSurrogates /\ i < last /\ l \in LowSurrogates
    BY <1>0, <1>7 DEF PairAt
  <2>2. i + 1 \in 1..last /\ i + 2 \in 2..last + 1 /\ (i + 1) + 1 = i + 2 /\ (i + 2) - 1 = i + 1
        /\ (i + 1) - 1 = i /\ i + 1 # 1 /\ i # last
    BY <1>0, <2>1
  <2>3. Boundary(units, i + 2)
    BY <1>4, <2>1, <2>2 DEF Boundary
  <2>4. G[i + 2] \in Seq(Scalars) /\ Encode(G[i + 2]) = SubSeq(rep, i + 2, last)
    BY <1>0, <2>1, <2>3 DEF Restored, rep
  <2>5. Combine(h, l) \in Scalars /\ EncodeScalar(Combine(h, l)) = <<h, l>>
    BY <2>1, CombinedUnits
  <2>6. G[i] = <<Combine(h, l)>> \o G[i + 2]
    BY <1>3, <1>7
  <2>7. G[i] \in Seq(Scalars) /\ Encode(G[i]) = <<h, l>> \o SubSeq(rep, i + 2, last)
    BY <2>4, <2>5, <2>6, EncodeFirst
  <2>8. rep[i] = h /\ rep[i + 1] = l
    BY <1>0, <1>2, <1>4, <2>1, <2>2 DEF Unpaired
  <2>9. SubSeq(rep, i, last) = <<h>> \o (<<l>> \o SubSeq(rep, i + 2, last))
    BY <1>0, <1>5, <2>2, <2>8
  <2> HIDE DEF h, l
  <2>10. <<h>> \o (<<l>> \o SubSeq(rep, i + 2, last)) = <<h, l>> \o SubSeq(rep, i + 2, last)
    <3>1. h \in CodeUnits /\ l \in CodeUnits
      BY <1>0, <2>2, ElementOfSeq DEF h, l
    <3>2. SubSeq(rep, i + 2, last) \in Seq(CodeUnits)
      BY <1>6, <2>2
    <3>3. <<h>> \in Seq(CodeUnits) /\ <<l>> \in Seq(CodeUnits)
      BY <3>1
    <3>4. Associates(<<h>>, CodeUnits)
      BY <3>3, Associative
    <3>5. (<<h>> \o <<l>>) \o SubSeq(rep, i + 2, last) = <<h>> \o (<<l>> \o SubSeq(rep, i + 2, last))
      BY <3>2, <3>3, <3>4, Zenon DEF Associates
    <3>6. <<h>> \o <<l>> = <<h, l>>
      BY Pair
    <3> QED
      BY <3>5, <3>6, Zenon
  <2> QED
    BY <1>0, <2>7, <2>9, <2>10 DEF Restored, rep
<1>8. CASE ~PairAt(units, i)
  <2> DEFINE c == IF units[i] \in Surrogates THEN Replacement ELSE units[i]
  <2>1. c \in Scalars /\ EncodeScalar(c) = <<c>>
    <3>1. units[i] \in CodeUnits
      BY <1>0, ElementOfSeq
    <3>2. c \in CodeUnits /\ c \notin Surrogates
      BY <3>1, Ranges DEF CodeUnits, Surrogates, HighSurrogates, LowSurrogates
    <3> HIDE DEF c
    <3>3. PICK m \in Nat : m = Half * Half
      BY Ranges
    <3>4. c \in CodePoints /\ c < Basic
      BY <3>2, <3>3, Ranges DEF CodeUnits, CodePoints
    <3> QED
      BY <3>2, <3>4 DEF Scalars, IsScalar, EncodeScalar
  <2>2. G[i] = <<c>> \o G[i + 1]
    BY <1>3, <1>8
  <2>3. rep[i] = c
    <3>1. (i = last \/ units[i + 1] \notin LowSurrogates) <=> ~(i < last /\ units[i + 1] \in LowSurrogates)
      BY <1>0
    <3>2. units[i] \in HighSurrogates => Unpaired(units, i)
      BY <1>0, <1>8, <3>1 DEF PairAt, Unpaired
    <3>3. units[i] \in LowSurrogates => Unpaired(units, i)
      <4>1. i # 1 => i \in 2..Len(units)
        BY <1>0
      <4> QED
        BY <4>1 DEF Boundary, Unpaired
    <3>4. units[i] \notin Surrogates => ~Unpaired(units, i)
      BY DEF Unpaired, Surrogates
    <3> QED
      BY <1>0, <1>2, <3>2, <3>3, <3>4 DEF Surrogates
  <2> HIDE DEF c
  <2>4. Boundary(units, i + 1)
    <3>1. i + 1 \in 2..last => i < last
      BY <1>0
    <3>2. (i + 1) - 1 = i
      BY <1>0
    <3> QED
      BY <1>0, <1>8, <3>1, <3>2 DEF Boundary, PairAt
  <2>5. G[i + 1] \in Seq(Scalars) /\ Encode(G[i + 1]) = SubSeq(rep, i + 1, last)
    BY <1>0, <2>4 DEF Restored, rep
  <2>6. G[i] \in Seq(Scalars) /\ Encode(G[i]) = <<c>> \o SubSeq(rep, i + 1, last)
    BY <2>1, <2>2, <2>5, EncodeFirst
  <2>7. SubSeq(rep, i, last) = <<c>> \o SubSeq(rep, i + 1, last)
    BY <1>0, <1>5, <2>3
  <2> QED
    BY <1>0, <2>6, <2>7 DEF Restored, rep
<1> QED
  BY <1>7, <1>8

\* from_utf16_lossy yields a string of scalar values for every sequence of code
\* units; encoded again, it is that sequence with its unpaired surrogates replaced.
THEOREM LossyRestores ==
  ASSUME NEW units \in Seq(CodeUnits)
  PROVE  Lossy(units) \in Seq(Scalars) /\ Encode(Lossy(units)) = Repaired(units)
<1>0. PICK last \in Nat : last = Len(units)
  BY LenProperties
<1>1. PICK G : Decodes(G, units) /\ Lossy(units) = G[1]
  BY LossyFrom
<1> DEFINE Good(n) == n <= last /\ Boundary(units, (last + 1) - n) => Restored(G, units, (last + 1) - n)
           T == {n \in Nat : Good(n) /\ Good(n + 1)}
<1>2. Good(0)
  <2>1. G[last + 1] = <<>>
    BY <1>0, <1>1 DEF Decodes
  <2>2. SubSeq(Repaired(units), last + 1, last) = <<>>
    BY SubSeqEmpty
  <2>3. (last + 1) - 0 = last + 1
    OBVIOUS
  <2> QED
    BY <1>0, <2>1, <2>2, <2>3, EncodeEmpty DEF Restored
<1>3. ASSUME NEW n \in Nat, Good(n), n > 0 => Good(n - 1)
      PROVE  Good(n + 1)
  <2> DEFINE i == (last + 1) - (n + 1)
  <2>1. SUFFICES ASSUME n + 1 <= last, Boundary(units, i)
                 PROVE  Restored(G, units, i)
    OBVIOUS
  <2>2. i \in 1..last /\ i + 1 = (last + 1) - n /\ n <= last
    BY <2>1
  <2>3. i < last => n > 0 /\ n - 1 <= last /\ i + 2 = (last + 1) - (n - 1)
    BY <2>1
  <2> HIDE DEF i
  <2>4. Boundary(units, i + 1) => Restored(G, units, i + 1)
    BY <1>3, <2>2
  <2>5. i < last /\ Boundary(units, i + 2) => Restored(G, units, i + 2)
    BY <1>3, <2>3
  <2> QED
    BY <1>0, <1>1, <2>1, <2>2, <2>4, <2>5, LossyStep
<1> HIDE DEF Good
<1>4. 0 \in T
  <2>1. Good(0 + 1)
    BY <1>2, <1>3
  <2> QED
    BY <1>2, <2>1
<1>5. ASSUME NEW n \in Nat, n \in T
      PROVE  n + 1 \in T
  <2>1. Good(n) /\ Good(n + 1) /\ n + 1 \in Nat /\ (n + 1) - 1 = n
    BY <1>5
  <2>2. Good((n + 1) + 1)
    BY <1>3, <2>1
  <2> QED
    BY <2>1, <2>2
<1>6. Good(last)
  <2>1. last \in T
    <3> HIDE DEF T
    <3> QED
      BY <1>4, <1>5, Induction
  <2> QED
    BY <2>1
<1>7. Restored(G, units, 1)
  <2>1. (last + 1) - last = 1 /\ last <= last /\ 1 \notin 2..last
    OBVIOUS
  <2>2. Boundary(units, 1)
    BY <1>0, <2>1 DEF Boundary
  <2> QED
    BY <1>6, <2>1, <2>2 DEF Good
<1>8. SubSeq(Repaired(units), 1, Len(units)) = Repaired(units)
  BY RepairedUnits, SubSeqFull
<1> QED
  BY <1>1, <1>7, <1>8 DEF Restored

-----------------------------------------------------------------------------
(***************************************************************************)
(* The call: what it opens is the text of its path, and what it reports is *)
(* what the profiles know.                                                 *)
(***************************************************************************)

\* The cast to i32 yields an i32 and keeps what fits.
LEMMA CastI32 ==
  ASSUME NEW n \in Nat
  PROVE  FitsI32(AsI32(n)) /\ (n < HalfI32 => AsI32(n) = n)
<1> DEFINE m == 2 * HalfI32
<1>1. m \in Nat /\ m > 0
  BY HalfAssumption
<1> HIDE DEF m
<1>2. n % m \in Nat /\ n % m < m
  BY <1>1
<1>3. n < m => n % m = n
  BY <1>1
<1> QED
  BY <1>1, <1>2, <1>3, HalfAssumption DEF AsI32, FitsI32, m

\* The dimensions that the profiles of a call have.
Known(in) ==
  LET declaring == {n \in DOMAIN in.formats : Declared(in.formats[n]) # {}}
  IN IF declaring # {} THEN Declared(in.formats[Min(declaring)])
     ELSE IF in.loads THEN {in.profile} \ {<<>>} ELSE {}

\* find_map stops at the first description that declares anything.
LEMMA FirstReadableDeclares ==
  ASSUME NEW in \in Inputs
  PROVE  LET n == FirstReadable(in.formats)
         IN /\ n # 0 => Known(in) = {ParseDimensions(in.formats[n])[1]}
            /\ n = 0 => Known(in) = IF in.loads THEN {in.profile} \ {<<>>} ELSE {}
<1> DEFINE formats == in.formats
<1>1. formats \in Seq(Seq(Chars))
  BY InputsAssumption
<1>2. PICK last \in Nat : last = Len(formats) /\ DOMAIN formats = 1..last
  <2> HIDE DEF formats
  <2> QED
    BY <1>1, LenProperties
<1> DEFINE n == FirstReadable(in.formats)
           readable == {i \in 1..last : ParseDimensions(formats[i]) # <<>>}
           declaring == {i \in 1..last : Declared(formats[i]) # {}}
<1>3. \A i \in 1..last : formats[i] \in Seq(Chars)
  <2> HIDE DEF formats
  <2> QED
    BY <1>1, <1>2, ElementOfSeq
<1>4. \A i \in 1..last :
        /\ ParseDimensions(formats[i]) # <<>> <=> Declared(formats[i]) # {}
        /\ ParseDimensions(formats[i]) # <<>> =>
             Declared(formats[i]) = {ParseDimensions(formats[i])[1]}
  <2> HIDE DEF formats
  <2> QED
    BY <1>3, ParseMeetsDeclaration
<1>5. readable = declaring
  BY <1>4
<1>6. n = IF readable # {} THEN Min(readable) ELSE 0
  BY <1>2 DEF FirstReadable, SelectInSeq
<1>7. Known(in) = IF declaring # {} THEN Declared(formats[Min(declaring)])
                  ELSE IF in.loads THEN {in.profile} \ {<<>>} ELSE {}
  BY <1>2 DEF Known
<1>8. readable \in SUBSET Nat
  OBVIOUS
<1>9. readable # {} => Min(readable) \in readable
  <2> HIDE DEF readable
  <2> QED
    BY <1>8, Least
<1>10. readable # {} => /\ Min(readable) # 0
                        /\ Declared(formats[Min(readable)]) = {ParseDimensions(formats[Min(readable)])[1]}
  <2> SUFFICES ASSUME readable # {}
               PROVE  /\ Min(readable) # 0
                      /\ Declared(formats[Min(readable)]) = {ParseDimensions(formats[Min(readable)])[1]}
    OBVIOUS
  <2>1. PICK m \in 1..last : m = Min(readable) /\ ParseDimensions(formats[m]) # <<>>
    BY <1>9
  <2>2. m # 0
    OBVIOUS
  <2> HIDE DEF formats, readable
  <2>3. Declared(formats[m]) = {ParseDimensions(formats[m])[1]}
    BY <1>4, <2>1
  <2> QED
    BY <2>1, <2>2, <2>3
<1> HIDE DEF readable, declaring
<1> QED
  BY <1>5, <1>6, <1>7, <1>10

\* All dimensions known are of type usize.
LEMMA KnownUsize ==
  ASSUME NEW in \in Inputs
  PROVE  Known(in) \subseteq (0..UsizeMax) \X (0..UsizeMax)
<1>1. in.formats \in Seq(Seq(Chars))
  BY InputsAssumption
<1>2. \A n \in DOMAIN in.formats : Declared(in.formats[n]) \subseteq (0..UsizeMax) \X (0..UsizeMax)
  <2>1. \A n \in DOMAIN in.formats : in.formats[n] \in Seq(Chars)
    BY <1>1, ElementOfSeq, LenProperties
  <2> QED
    BY <2>1, DeclaredParts
<1> DEFINE declaring == {n \in DOMAIN in.formats : Declared(in.formats[n]) # {}}
<1>3. declaring # {} => Min(declaring) \in DOMAIN in.formats
  <2>1. declaring \in SUBSET Nat
    BY <1>1, LenProperties
  <2>2. declaring # {} => Min(declaring) \in declaring
    <3> HIDE DEF declaring
    <3> QED
      BY <2>1, Least
  <2> QED
    BY <2>2
<1>4. in.profile = <<>> \/ in.profile \in (0..UsizeMax) \X (0..UsizeMax)
  BY InputsAssumption
<1>5. Known(in) = IF declaring # {} THEN Declared(in.formats[Min(declaring)])
                  ELSE IF in.loads THEN {in.profile} \ {<<>>} ELSE {}
  BY DEF Known
<1> HIDE DEF declaring
<1> QED
  BY <1>2, <1>3, <1>4, <1>5

\* The invariant: the string opened is the text of a path that has one, and the
\* dimensions are written with the answer Ok only, from what is known.
PathInv == opened # NULL => ~NoText(input.path) /\ opened = Text(input.path)

\* The part about the dimensions.
InfoInv ==
  /\ answer # "Ok" => info = NULL
  /\ answer = "Ok" => \E dims \in Known(input) : info = <<AsI32(dims[1]), AsI32(dims[2])>>
  /\ answer \in {"NotImplemented", "Internal"} => Known(input) = {}

\* Both, of an input a call may meet.
IInv == input \in Inputs /\ answer \in Status \cup {NULL} /\ PathInv /\ InfoInv

\* It holds when the call begins.
LEMMA InitInv == Init => IInv
BY NullAssumption DEF Init, IInv, PathInv, InfoInv, Status

\* Every step of the call preserves it.
LEMMA StepInv == IInv /\ [Next]_vars => IInv'
<1> SUFFICES ASSUME IInv, [Next]_vars
             PROVE  IInv'
  OBVIOUS
<1> USE NullAssumption DEF IInv, Status
<1>1. CASE Refuse
  BY <1>1 DEF Refuse, Answer, PathInv, InfoInv
<1>2. CASE Open
  <2>1. PathInv'
    BY <1>2 DEF Open, PathInv
  <2> QED
    BY <1>2, <2>1 DEF Open, InfoInv
<1>3. CASE DescribeDevice
  <2> DEFINE dims == ParseDimensions(input.formats[FirstReadable(input.formats)])[1]
  <2>1. dims \in Known(input)
    BY <1>3, FirstReadableDeclares DEF DescribeDevice
  <2>2. /\ info' = <<AsI32(dims[1]), AsI32(dims[2])>> /\ answer' = "Ok"
        /\ UNCHANGED <<input, opened>>
    BY <1>3 DEF DescribeDevice, Fill, Answer
  <2> HIDE DEF dims
  <2>3. PathInv'
    BY <2>2 DEF PathInv
  <2>4. InfoInv'
    BY <2>1, <2>2 DEF InfoInv
  <2> QED
    BY <2>2, <2>3, <2>4
<1>4. CASE DescribeBuiltin
  <2>1. input.profile \in Known(input)
    BY <1>4, FirstReadableDeclares DEF DescribeBuiltin
  <2>2. /\ info' = <<AsI32(input.profile[1]), AsI32(input.profile[2])>> /\ answer' = "Ok"
        /\ UNCHANGED <<input, opened>>
    BY <1>4 DEF DescribeBuiltin, Fill, Answer
  <2>3. PathInv'
    BY <2>2 DEF PathInv
  <2>4. InfoInv'
    BY <2>1, <2>2 DEF InfoInv
  <2> QED
    BY <2>2, <2>3, <2>4
<1>5. CASE NoProfile
  <2>1. Known(input) = {}
    BY <1>5, FirstReadableDeclares, InputsAssumption DEF NoProfile
  <2>2. /\ answer = NULL /\ answer' \in {"NotImplemented", "Internal"}
        /\ UNCHANGED <<input, opened, info>>
    BY <1>5 DEF NoProfile, Answer
  <2>3. PathInv'
    BY <2>2 DEF PathInv
  <2>4. InfoInv'
    BY <2>1, <2>2 DEF InfoInv
  <2> QED
    BY <2>2, <2>3, <2>4
<1>6. CASE UNCHANGED vars
  BY <1>6 DEF vars, PathInv, InfoInv
<1> QED
  BY <1>1, <1>2, <1>3, <1>4, <1>5, <1>6 DEF Next

\* So it holds throughout.
LEMMA Invariance == Spec => []IInv
<1> QED
  BY InitInv, StepInv, PTL DEF Spec

\* The text of a path that has one: the units the host counts, restored.
LEMMA TextOfPath ==
  ASSUME NEW in \in Inputs, ~NoText(in.path)
  PROVE  LET units == SubSeq(in.path.data, 1, in.path.length)
         IN /\ units # <<>>
            /\ Text(in.path) \in Seq(Scalars)
            /\ Encode(Text(in.path)) = Repaired(units)
<1>1. /\ in.path.data \in Seq(CodeUnits) /\ in.path.length \in Int
      /\ in.path.length > 0 /\ in.path.length <= Len(in.path.data)
  BY InputsAssumption DEF NoText
<1> DEFINE units == SubSeq(in.path.data, 1, in.path.length)
<1>2. \A i \in 1..in.path.length : in.path.data[i] \in CodeUnits
  BY <1>1, ElementOfSeq, LenProperties
<1>3. units \in Seq(CodeUnits) /\ Len(units) = in.path.length - 1 + 1
  BY <1>1, <1>2, SubSeqProperties
<1> HIDE DEF units
<1>4. units # <<>>
  BY <1>1, <1>3, EmptySeq
<1> QED
  BY <1>3, <1>4, LossyRestores DEF Text, units

\* The string that is opened is made of scalar values, and the dimensions are i32s.
THEOREM TypeCorrect == Spec => []TypeOK
<1>1. IInv => TypeOK
  <2> SUFFICES ASSUME IInv
               PROVE  TypeOK
    OBVIOUS
  <2>1. opened = NULL \/ \A i \in DOMAIN opened : IsScalar(opened[i])
    <3>1. opened # NULL => opened \in Seq(Scalars)
      BY TextOfPath DEF IInv, PathInv
    <3>2. \A s \in Seq(Scalars) : \A i \in DOMAIN s : s[i] \in Scalars
      BY ElementOfSeq, LenProperties
    <3> QED
      BY <3>1, <3>2 DEF Scalars
  <2>2. info = NULL \/ \A n \in {1, 2} : FitsI32(info[n])
    <3>1. CASE answer # "Ok"
      BY <3>1 DEF IInv, InfoInv
    <3>2. CASE answer = "Ok"
      <4>1. PICK dims \in Known(input) : info = <<AsI32(dims[1]), AsI32(dims[2])>>
        BY <3>2 DEF IInv, InfoInv
      <4>2. dims[1] \in Nat /\ dims[2] \in Nat
        BY KnownUsize, UsizeAssumption DEF IInv
      <4> QED
        BY <4>1, <4>2, CastI32
    <3> QED
      BY <3>1, <3>2
  <2> QED
    BY <2>1, <2>2 DEF IInv, TypeOK
<1> QED
  BY <1>1, Invariance, PTL

\* The string that is opened is the host's path, whatever its units are: every
\* surrogate that is half of a pair and every other unit comes through.
THEOREM PathComesThrough == Spec => []PathFaithful
<1>1. IInv => PathFaithful
  BY TextOfPath DEF IInv, PathInv, PathFaithful, Repaired
<1> QED
  BY <1>1, Invariance, PTL

\* The dimensions the host is given are what the first description that declares
\* any declares, or the built-in profile's, for descriptions of every length.
THEOREM DimensionsComeThrough == Spec => []DimensionsFromProfiles
<1>1. IInv => DimensionsFromProfiles
  <2> SUFFICES ASSUME IInv
               PROVE  DimensionsFromProfiles
    OBVIOUS
  <2>1. answer = "Ok" =>
          \E dims \in Known(input) : \A n \in {1, 2} : dims[n] < HalfI32 => info[n] = dims[n]
    <3> SUFFICES ASSUME answer = "Ok"
                 PROVE  \E dims \in Known(input) :
                          \A n \in {1, 2} : dims[n] < HalfI32 => info[n] = dims[n]
      OBVIOUS
    <3>1. PICK dims \in Known(input) : info = <<AsI32(dims[1]), AsI32(dims[2])>>
      BY DEF IInv, InfoInv
    <3>2. dims[1] \in Nat /\ dims[2] \in Nat
      BY KnownUsize, UsizeAssumption DEF IInv
    <3>3. \A n \in {1, 2} : dims[n] < HalfI32 => info[n] = dims[n]
      BY <3>1, <3>2, CastI32
    <3> QED
      BY <3>3
  <2>2. answer \in {"NotImplemented", "Internal"} => Known(input) = {} /\ info = NULL
    BY DEF IInv, InfoInv
  <2> QED
    BY <2>1, <2>2 DEF DimensionsFromProfiles, Known
<1> QED
  BY <1>1, Invariance, PTL
=============================================================================
