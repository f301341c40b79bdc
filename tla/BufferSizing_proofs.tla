------------------------ MODULE BufferSizing_proofs -------------------------
(***************************************************************************)
(* The sizing arithmetic is safe for words of any width.                   *)
(***************************************************************************)
EXTENDS BufferSizing, TLAPS

\* A remainder is smaller than its divisor and not larger than its dividend.
LEMMA Remainder ==
  ASSUME NEW n \in Nat, NEW m \in Nat, m > 0
  PROVE  /\ n % m \in Nat /\ n % m < m /\ n % m <= n
         /\ n < m => n % m = n
<1>1. n % m \in Nat /\ n % m < m
  OBVIOUS
<1>2. n % m <= n
  OBVIOUS
<1>3. n < m => n % m = n
  OBVIOUS
<1> QED
  BY <1>1, <1>2, <1>3

\* The cast to i32 yields an i32, never increases a natural, and is the
\* identity on naturals that fit.
LEMMA CastI32 ==
  ASSUME NEW n \in Nat
  PROVE  /\ AsI32(n) \in Int /\ FitsI32(AsI32(n)) /\ AsI32(n) <= n
         /\ n < HalfI32 => AsI32(n) = n
<1> DEFINE m == 2 * HalfI32
<1>1. m \in Nat /\ m > 0
  BY WidthAssumption
<1>2. n % m \in Nat /\ n % m < m /\ n % m <= n /\ (n < m => n % m = n)
  BY <1>1, Remainder
<1> QED
  BY <1>2, WidthAssumption DEF AsI32, FitsI32

\* Multiplication of naturals is monotonic.
LEMMA Product ==
  ASSUME NEW a \in Nat, NEW b \in Nat, NEW c \in Nat, NEW d \in Nat, a <= b, c <= d
  PROVE  a * c <= b * d
<1>1. a * c <= b * c
  BY SMT
<1>2. b * c <= b * d
  BY SMT
<1> QED
  BY <1>1, <1>2

\* A sign-extended negative factor makes the product zero or larger than any
\* size malloc serves; otherwise both factors are the integers themselves.
LEMMA SignExtension ==
  ASSUME NEW a \in Int, NEW b \in Int, FitsI32(a), FitsI32(b),
         AsUsize(a) * AsUsize(b) <= MallocMax
  PROVE  /\ AsUsize(a) * AsUsize(b) = a * b
         /\ a * b >= 0
         /\ a * b > 0 => a > 0 /\ b > 0
<1>1. /\ AsUsize(a) \in Nat /\ AsUsize(b) \in Nat
      /\ a < 0 => AsUsize(a) > MallocMax
      /\ b < 0 => AsUsize(b) > MallocMax
      /\ a >= 0 => AsUsize(a) = a
      /\ b >= 0 => AsUsize(b) = b
  BY WidthAssumption DEF AsUsize, FitsI32
<1>2. ASSUME NEW x \in Nat, NEW y \in Nat, x > MallocMax, y > 0
      PROVE  x * y > MallocMax
  <2>1. x * 1 <= x * y
    BY <1>2, Product
  <2> QED
    BY <1>2, <2>1, WidthAssumption
<1>3. CASE a >= 0 /\ b >= 0
  <2>1. a * b > 0 => a # 0 /\ b # 0
    BY <1>3
  <2>2. a * b >= 0
    BY <1>3
  <2> QED
    BY <1>1, <1>3, <2>1, <2>2
<1>4. CASE a < 0
  <2>1. AsUsize(b) = 0
    BY <1>1, <1>2, <1>4, WidthAssumption
  <2>2. b = 0
    BY <1>1, <2>1, WidthAssumption
  <2> QED
    BY <1>1, <2>1, <2>2
<1>5. CASE b < 0
  <2>1. AsUsize(a) = 0
    <3>1. CASE AsUsize(a) > 0
      <4>1. AsUsize(b) * AsUsize(a) > MallocMax
        BY <1>1, <1>2, <1>5, <3>1
      <4> QED
        BY <1>1, <4>1, WidthAssumption
    <3> QED
      BY <1>1, <3>1
  <2>2. a = 0
    BY <1>1, <2>1, WidthAssumption
  <2> QED
    BY <1>1, <2>1, <2>2
<1> QED
  BY <1>3, <1>4, <1>5

-----------------------------------------------------------------------------
Safe == StructMatchesAllocation /\ CopyInBounds /\ DimensionsExact

\* An allocation leaves the locals as the invariants describe them.
LEMMA AllocateSafe ==
  ASSUME w \in Nat, h \in Nat, Allocate
  PROVE  Safe'
<1> DEFINE a == AsI32(w)
           b == AsI32(h)
<1>1. /\ a \in Int /\ FitsI32(a) /\ a <= w /\ (w < HalfI32 => a = w)
      /\ b \in Int /\ FitsI32(b) /\ b <= h /\ (h < HalfI32 => b = h)
  BY CastI32
<1>2. /\ width' = a /\ height' = b /\ stride' = a * 4 /\ w' = w /\ h' = h
      /\ size' = AsUsize(b) * AsUsize(a * 4) /\ size' <= MallocMax
      /\ FitsI32(a * 4)
  BY DEF Allocate, SizeFits
<1> HIDE DEF a, b
<1>3. /\ size' = b * (a * 4) /\ b * (a * 4) >= 0
      /\ b * (a * 4) > 0 => b > 0 /\ a * 4 > 0
  <2>1. a * 4 \in Int
    BY <1>1
  <2> QED
    BY <1>1, <1>2, <2>1, SignExtension
<1>4. StructMatchesAllocation'
  BY <1>1, <1>2, <1>3 DEF StructMatchesAllocation
<1>5. size' <= 4 * w * h
  <2>1. CASE size' > 0
    <3>1. a \in Nat /\ b \in Nat
      BY <1>1, <1>3, <2>1
    <3>2. a * b <= w * h
      BY <1>1, <3>1, Product
    <3>3. size' = 4 * (a * b)
      BY <1>3, <3>1
    <3>4. 4 * w * h = 4 * (w * h)
      OBVIOUS
    <3>5. a * b \in Nat /\ w * h \in Nat
      BY <3>1
    <3> QED
      BY <3>2, <3>3, <3>4, <3>5
  <2>2. CASE size' = 0
    <3>1. w * h >= 0
      OBVIOUS
    <3> QED
      BY <2>2, <3>1
  <2> QED
    BY <1>1, <1>3, <2>1, <2>2
<1>6. CopyInBounds'
  BY <1>2, <1>3, <1>5 DEF CopyInBounds
<1>7. DimensionsExact'
  BY <1>1, <1>2, <1>3 DEF DimensionsExact
<1> QED
  BY <1>4, <1>6, <1>7 DEF Safe

\* The arithmetic's invariant holds in every reachable state.
LEMMA SizingSafe == Spec => [](w \in Nat /\ h \in Nat /\ Safe)
<1> DEFINE Inv == w \in Nat /\ h \in Nat /\ Safe
<1>1. Init => Inv
  BY WidthAssumption
  DEF Init, Safe, StructMatchesAllocation, CopyInBounds, DimensionsExact
<1>2. Inv /\ [Next]_vars => Inv'
  <2> SUFFICES ASSUME Inv, [Next]_vars PROVE Inv'
    OBVIOUS
  <2>1. CASE UNCHANGED vars
    BY <2>1 DEF vars, Safe, StructMatchesAllocation, CopyInBounds, DimensionsExact
  <2>2. CASE StrideOverflows \/ SizeOverflows \/ MallocFails
    BY <2>2 DEF StrideOverflows, SizeOverflows, MallocFails, OutOfMemory, SizeFits,
                Safe, StructMatchesAllocation, CopyInBounds, DimensionsExact
  <2>3. CASE Allocate
    <3>1. w' = w /\ h' = h
      BY <2>3 DEF Allocate
    <3> QED
      BY <2>3, <3>1, AllocateSafe
  <2> QED
    BY <2>1, <2>2, <2>3 DEF Next
<1> QED
  BY <1>1, <1>2, PTL DEF Spec

\* For every image and word width, stride * height is the number of bytes
\* allocated (decode.rs:86-103, 126-131).
THEOREM StructAlwaysMatches == Spec => []StructMatchesAllocation
  BY SizingSafe, PTL DEF Safe

\* The unchecked copy never reads past decoded.data (decode.rs:105-110).
THEOREM CopyNeverOverruns == Spec => []CopyInBounds
  BY SizingSafe, PTL DEF Safe

\* Dimensions that fit an i32 reach the host unchanged.
THEOREM DimensionsPreserved == Spec => []DimensionsExact
  BY SizingSafe, PTL DEF Safe
=============================================================================
