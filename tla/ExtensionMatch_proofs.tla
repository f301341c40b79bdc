----------------------- MODULE ExtensionMatch_proofs ------------------------
(***************************************************************************)
(* The matcher's guarantee for every input, of any length.                 *)
(***************************************************************************)
EXTENDS ExtensionMatch, TLAPS

\* A code unit is a natural number.
LEMMA UnitIsNat == Unit \subseteq Nat
<1>1. MaxUnit \in Nat
  BY DEF MaxUnit
<1> QED
  BY <1>1 DEF Unit

\* On an ASCII unit the truncating, case-folding comparison with a unit of a
\* known extension is exact.
LEMMA UnitExact ==
  ASSUME NEW k \in {46, 98, 104, 105, 109, 112, 116}, NEW u \in Unit
  PROVE  /\ u \in {k, Upper(k)} => EqIgnoreCase(u, k)
         /\ u < 128 /\ EqIgnoreCase(u, k) => u \in {k, Upper(k)}
<1>1. \A b \in 0..255 : b % 256 = b
  OBVIOUS
<1>2. LowByte(k) = k
  BY <1>1 DEF LowByte
<1>3. LowByte(Upper(k)) = Upper(k)
  BY <1>1 DEF LowByte, Upper
<1>4. ASSUME u < 128 PROVE LowByte(u) = u
  <2>1. u \in 0..255
    BY <1>4, UnitIsNat
  <2> QED
    BY <1>1, <2>1 DEF LowByte
<1>5. AsciiLower(Upper(k)) = k /\ AsciiLower(k) = k
  BY DEF AsciiLower, Upper
<1>6. u \in {k, Upper(k)} => EqIgnoreCase(u, k)
  BY <1>2, <1>3, <1>5 DEF EqIgnoreCase
<1>7. ASSUME u < 128, EqIgnoreCase(u, k) PROVE u \in {k, Upper(k)}
  <2>1. AsciiLower(u) = k
    BY <1>2, <1>4, <1>5, <1>7 DEF EqIgnoreCase
  <2> QED
    BY <2>1, UnitIsNat DEF AsciiLower, Upper
<1> QED
  BY <1>6, <1>7

\* The known extensions consist of lower-case ASCII letters and a dot.
LEMMA KnownUnits ==
  ASSUME NEW known \in Extensions, NEW i \in 1..Len(known)
  PROVE  known[i] \in {46, 98, 104, 105, 109, 112, 116}
  BY DEF Extensions

\* On ASCII units the comparison is equality up to case, unit by unit.
LEMMA MatchExact ==
  ASSUME NEW e \in Seq(Unit)
  PROVE  /\ Supported(e) => \E known \in Extensions : Matches(e, known)
         /\ IsAscii(e) /\ (\E known \in Extensions : Matches(e, known)) => Supported(e)
<1>1. ASSUME NEW known \in Extensions, Len(e) = Len(known), NEW i \in 1..Len(known)
      PROVE  /\ e[i] \in {known[i], Upper(known[i])} => EqIgnoreCase(e[i], known[i])
             /\ e[i] < 128 /\ EqIgnoreCase(e[i], known[i])
                  => e[i] \in {known[i], Upper(known[i])}
  <2>1. e[i] \in Unit
    BY <1>1
  <2> QED
    BY <2>1, KnownUnits, UnitExact
<1>2. Supported(e) => \E known \in Extensions : Matches(e, known)
  BY <1>1 DEF Supported, Matches
<1>3. IsAscii(e) /\ (\E known \in Extensions : Matches(e, known)) => Supported(e)
  BY <1>1 DEF Supported, Matches, IsAscii
<1> QED
  BY <1>2, <1>3

\* For every extension the host may pass: the supported ones are accepted in
\* every case mixture, and no other ASCII extension is (codec.rs:105-142).
THEOREM AsciiMatchExact == Spec => []AsciiExact
<1> DEFINE Inv == ext \in Seq(Unit) /\ answer \in {0, 1, NULL} /\ AsciiExact
<1>1. Init => Inv
  BY InputsAssumption, NullAssumption DEF Init, AsciiExact
<1>2. Inv /\ [Next]_vars => Inv'
  <2> SUFFICES ASSUME Inv, [Next]_vars PROVE Inv'
    OBVIOUS
  <2>1. CASE UNCHANGED vars
    BY <2>1 DEF vars, AsciiExact, Supported, IsAscii
  <2>2. CASE CanHandleExtension
    <3>1. ext' = ext /\ ext \in Seq(Unit) /\ answer' \in {0, 1}
      BY <2>2 DEF CanHandleExtension
    <3>2. Supported(ext) => ext # <<>>
      BY DEF Supported, Extensions
    <3>3. answer' = 1 <=> ext # <<>> /\ \E known \in Extensions : Matches(ext, known)
      BY <2>2 DEF CanHandleExtension
    <3>4. AsciiExact'
      BY <3>1, <3>2, <3>3, MatchExact DEF AsciiExact, Supported, IsAscii
    <3> QED
      BY <3>1, <3>4
  <2> QED
    BY <2>1, <2>2 DEF Next
<1> QED
  BY <1>1, <1>2, PTL DEF Spec
=============================================================================
