--------------------------- MODULE ExtensionMatch ---------------------------
(***************************************************************************)
(* codec_can_handle_extension (codec.rs): the UTF-16 extension the host    *)
(* passes is logged as bytes and then compared with ".ithmb" and ".ipm".   *)
(* Code units are numbers; the empty sequence stands for a null pointer or *)
(* a length that is not positive.                                          *)
(***************************************************************************)
EXTENDS Integers, Sequences

CONSTANTS
  Inputs,   \* the extensions the host may pass: sequences of code units
  NULL

\* A UTF-16 code unit.
MaxUnit == 65535
Unit == 0..MaxUnit

ASSUME InputsAssumption == Inputs \subseteq Seq(Unit)
ASSUME NullAssumption == NULL \notin {0, 1}

VARIABLES
  ext,     \* the argument
  logged,  \* the bytes of the string given to the host's log function
  answer   \* the result, NULL before the call

vars == <<ext, logged, answer>>

\* PLUGIN_EXTENSIONS: ".ithmb" and ".ipm".
Extensions == { <<46, 105, 116, 104, 109, 98>>, <<46, 105, 112, 109>> }

Init ==
  /\ ext \in Inputs
  /\ logged = <<>>
  /\ answer = NULL

\* `u as u8`
LowByte(u) == u % 256

\* u8::to_ascii_lowercase, by which eq_ignore_ascii_case compares.
AsciiLower(b) == IF b \in 65..90 THEN b + 32 ELSE b

\* u8::try_from(u).unwrap_or(b'?')
LogByte(u) == IF u <= 255 THEN u ELSE 63

\* "null" is logged for a null extension...
NullText == <<110, 117, 108, 108>>

\* ... and at most 32 units of any other.
LogBytes(e) ==
  [i \in 1..(IF Len(e) < 32 THEN Len(e) ELSE 32) |-> LogByte(e[i])]

\* Slip: the case is dropped with the bit that tells the cases of a letter apart,
\* on every byte.
WithoutCase(b) == b - 32 * ((b \div 32) % 2)
EqByBit(a, b) == WithoutCase(LowByte(a)) = WithoutCase(LowByte(b))

EqIgnoreCase(a, b) == AsciiLower(LowByte(a)) = AsciiLower(LowByte(b))

Matches(e, known) ==
  /\ Len(e) = Len(known)
  /\ \A i \in 1..Len(known) : EqIgnoreCase(e[i], known[i])

\* Without a host logger nothing is logged.  Loading fills PLUGIN_EXTENSIONS
\* before the host has the table this function is in (HandedWhenReady of
\* PluginInit), so the answer for an empty cell is left out.
CanHandleExtension ==
  /\ answer = NULL
  /\ \/ logged' = IF ext = <<>> THEN NullText ELSE LogBytes(ext)
     \/ logged' = <<>>
  /\ answer' = IF ext # <<>> /\ \E known \in Extensions : Matches(ext, known)
                 THEN 1 ELSE 0
  /\ UNCHANGED ext

Next == CanHandleExtension

Spec == Init /\ [][Next]_vars

-----------------------------------------------------------------------------
\* The upper-case form of an ASCII letter.
Upper(k) == IF k \in 97..122 THEN k - 32 ELSE k

\* SPECIFICATION.md:340 and FEATURES.md:69: ".ithmb" and ".ipm" in any mixture
\* of ASCII cases, and nothing else.
Supported(e) ==
  \E known \in Extensions :
    /\ Len(e) = Len(known)
    /\ \A i \in 1..Len(known) : e[i] \in {known[i], Upper(known[i])}

IsAscii(e) == \A i \in 1..Len(e) : e[i] < 128

\* Every supported extension is accepted, in every case mixture, and an ASCII
\* extension that is not supported is refused.
AsciiExact ==
  answer # NULL =>
    /\ Supported(ext) => answer = 1
    /\ IsAscii(ext) /\ answer = 1 => Supported(ext)

\* FEATURES.md:69: 0 for all others, non-ASCII extensions included.
OthersRejected ==
  answer = 1 => Supported(ext)

\* codec.rs:94: every byte handed to from_utf8_unchecked is ASCII.
LoggedIsAscii ==
  \A i \in 1..Len(logged) : logged[i] < 128
=============================================================================
