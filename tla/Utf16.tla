------------------------------- MODULE Utf16 --------------------------------
(***************************************************************************)
(* The strings of the ABI (strings.rs, types.rs): an IGStringRef points at *)
(* `length` UTF-16 code units, and the plugin turns one into a String with *)
(* from_utf16_lossy.  A String is a sequence of Unicode scalar values.     *)
(***************************************************************************)
EXTENDS Integers, SequencesExt

\* A surrogate carries ten bits, so that there are Half on each side of a pair.
Half == 1024
FirstHigh == 54 * Half  \* U+D800
FirstLow == 55 * Half   \* U+DC00
Basic == 64 * Half      \* U+10000, the first code point that takes a pair

CodeUnits == 0..Basic - 1
CodePoints == 0..Basic + Half * Half - 1
HighSurrogates == FirstHigh..FirstHigh + Half - 1
LowSurrogates == FirstLow..FirstLow + Half - 1
Surrogates == HighSurrogates \cup LowSurrogates
Replacement == Basic - 3  \* U+FFFD

IsScalar(c) == c \in CodePoints /\ c \notin Surrogates

Combine(high, low) == Basic + (high - FirstHigh) * Half + (low - FirstLow)

\* encode_utf16
EncodeScalar(c) ==
  IF c < Basic THEN <<c>>
  ELSE <<FirstHigh + (c - Basic) \div Half, FirstLow + ((c - Basic) % Half)>>

Encode(string) ==
  FlattenSeq([i \in DOMAIN string |-> EncodeScalar(string[i])])

StringRef(string) ==
  [data |-> Encode(string), length |-> Len(Encode(string))]

\* Slip: an unpaired high surrogate takes the unit after it along.
LossyGreedy(units) ==
  LET From[i \in 1..Len(units) + 2] ==
        IF i > Len(units) THEN <<>>
        ELSE IF units[i] \in HighSurrogates /\ i < Len(units)
          THEN <<IF units[i + 1] \in LowSurrogates
                   THEN Combine(units[i], units[i + 1]) ELSE Replacement>> \o From[i + 2]
        ELSE <<IF units[i] \in Surrogates THEN Replacement ELSE units[i]>> \o From[i + 1]
  IN From[1]

\* String::from_utf16_lossy
Lossy(units) ==
  LET From[i \in 1..Len(units) + 2] ==
        IF i > Len(units) THEN <<>>
        ELSE IF units[i] \in HighSurrogates /\ i < Len(units) /\ units[i + 1] \in LowSurrogates
          THEN <<Combine(units[i], units[i + 1])>> \o From[i + 2]
        ELSE <<IF units[i] \in Surrogates THEN Replacement ELSE units[i]>> \o From[i + 1]
  IN From[1]

\* utf16_to_string of a reference that is not refused.
Text(ref) == Lossy(SubSeq(ref.data, 1, ref.length))

-----------------------------------------------------------------------------
\* The unit at i is a surrogate without its other half next to it.
Unpaired(units, i) ==
  \/ units[i] \in HighSurrogates /\ (i = Len(units) \/ units[i + 1] \notin LowSurrogates)
  \/ units[i] \in LowSurrogates /\ (i = 1 \/ units[i - 1] \notin HighSurrogates)
=============================================================================
