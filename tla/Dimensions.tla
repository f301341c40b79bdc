----------------------------- MODULE Dimensions -----------------------------
(***************************************************************************)
(* parse_dimensions (codec.rs): the width and height a device profile's    *)
(* description begins with, as in "320<times>240, RGB565".  A description  *)
(* is a sequence of characters, told apart as far as the code does; a      *)
(* result of type Option is a sequence of at most one element.             *)
(***************************************************************************)
EXTENDS Integers, SequencesExt

CONSTANT UsizeMax  \* usize::MAX

ASSUME UsizeAssumption == UsizeMax \in Nat

Digits == {"0", "1", "2", "3", "4", "5", "6", "7", "8", "9"}

DigitValue ==
  [d \in Digits |->
     CASE d = "0" -> 0 [] d = "1" -> 1 [] d = "2" -> 2 [] d = "3" -> 3 [] d = "4" -> 4
       [] d = "5" -> 5 [] d = "6" -> 6 [] d = "7" -> 7 [] d = "8" -> 8 [] d = "9" -> 9]

\* "other" stands for the letters, the minus sign and the digits beyond ASCII.
Chars == Digits \cup {"times", "plus", "space", "other"}

\* The value of a string of digits, from left to right.
Decimal(digits) ==
  LET Value[n \in 0..Len(digits)] ==
        IF n = 0 THEN 0 ELSE 10 * Value[n - 1] + DigitValue[digits[n]]
  IN Value[Len(digits)]

\* str::parse::<usize>: one leading plus sign, digits, and no overflow.
Unsigned(s) == IF Len(s) > 1 /\ s[1] = "plus" THEN Tail(s) ELSE s

ParseUsize(s) ==
  LET digits == Unsigned(s)
  IN IF digits = <<>> \/ (\E i \in DOMAIN digits : digits[i] \notin Digits) THEN <<>>
     ELSE IF Decimal(digits) > UsizeMax THEN <<>> ELSE <<Decimal(digits)>>

\* str::trim
Trim(s) ==
  LET kept == {i \in DOMAIN s : s[i] # "space"}
  IN IF kept = {} THEN <<>> ELSE SubSeq(s, Min(kept), Max(kept))

\* take_while(char::is_ascii_digit)
LeadingDigits(s) ==
  SubSeq(s, 1, SelectInSeq(Append(s, "other"), LAMBDA c : c \notin Digits) - 1)

\* Slip: the height is everything after the sign.
ParseToEnd(desc) ==
  LET times == SelectInSeq(desc, LAMBDA c : c = "times")
  IN IF times = 0 THEN <<>>
     ELSE LET width == ParseUsize(Trim(SubSeq(desc, 1, times - 1)))
              height == ParseUsize(Trim(SubSeq(desc, times + 1, Len(desc))))
          IN IF width = <<>> \/ height = <<>> THEN <<>> ELSE <<width \o height>>

ParseDimensions(desc) ==
  LET times == SelectInSeq(desc, LAMBDA c : c = "times")
  IN IF times = 0 THEN <<>>
     ELSE LET width == ParseUsize(Trim(SubSeq(desc, 1, times - 1)))
              height == ParseUsize(LeadingDigits(SubSeq(desc, times + 1, Len(desc))))
          IN IF width = <<>> \/ height = <<>> THEN <<>> ELSE <<width \o height>>

-----------------------------------------------------------------------------
(***************************************************************************)
(* What a description declares, without a parser: it is blanks, perhaps a  *)
(* plus sign, the digits of the width, blanks, the multiplication sign,    *)
(* and the digits of the height up to the next character that is none.     *)
(***************************************************************************)
Power[k \in Nat] == IF k = 0 THEN 1 ELSE 10 * Power[k - 1]

\* The characters first..last of s are the decimal digits of n, perhaps after zeros.
Denotes(n, s, first, last) ==
  /\ n < Power[last - first + 1]
  /\ \A i \in first..last : (n \div Power[last - i]) % 10 = DigitValue[s[i]]

\* The digits from..to of the width, the sign, and the digits sign + 1..end of the height.
Layouts(desc) ==
  {l \in [from : DOMAIN desc, to : DOMAIN desc, sign : DOMAIN desc, end : DOMAIN desc] :
     /\ l.from <= l.to /\ l.to < l.sign /\ l.sign < l.end
     /\ desc[l.sign] = "times"
     /\ \A n \in (l.from..l.to) \cup (l.sign + 1..l.end) : desc[n] \in Digits
     /\ l.end = Len(desc) \/ desc[l.end + 1] \notin Digits
     /\ \A n \in l.to + 1..l.sign - 1 : desc[n] = "space"
     /\ \A n \in 1..l.from - 1 :
          desc[n] = "space" \/ (n = l.from - 1 /\ desc[n] = "plus")}

Declared(desc) ==
  UNION {{w \in 0..UsizeMax : Denotes(w, desc, l.from, l.to)}
           \X {h \in 0..UsizeMax : Denotes(h, desc, l.sign + 1, l.end)} : l \in Layouts(desc)}
=============================================================================
