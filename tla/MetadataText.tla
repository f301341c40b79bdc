---------------------------- MODULE MetadataText ----------------------------
(***************************************************************************)
(* The data a call of codec_load_metadata carries (codec.rs, strings.rs):  *)
(* the path from the host's UTF-16 to the string that is opened, and the   *)
(* dimensions from the profiles to the host's IGImageInfo.  Its control -  *)
(* null arguments, the file and what can happen to it - is in FileAccess.  *)
(***************************************************************************)
EXTENDS Utf16, Dimensions, Casts

CONSTANTS
  Inputs,  \* what a call may meet: the path, and what ithmb_core knows of the prefix
  NULL

\* device_profiles::find_formats_by_id gives the descriptions `formats`; ProfileDb
\* `loads` or not, and has the dimensions of a `profile` or nothing.
ASSUME InputsAssumption ==
  \A in \in Inputs :
    /\ in.path.length \in Int
    /\ in.path.data = NULL \/ (in.path.data \in Seq(CodeUnits) /\ in.path.length <= Len(in.path.data))
    /\ in.formats \in Seq(Seq(Chars))
    /\ in.loads \in BOOLEAN
    /\ in.profile = <<>> \/ in.profile \in (0..UsizeMax) \X (0..UsizeMax)

ASSUME HalfAssumption == HalfI32 \in Nat \ {0}

Status == {"Ok", "InvalidArg", "NotImplemented", "Internal"}
ASSUME NullAssumption == NULL \notin Status

VARIABLES
  input,   \* the path and the profiles of this call
  opened,  \* the string given to the file system, NULL before that
  info,    \* width and height written into the host's IGImageInfo
  answer   \* the status, NULL while the call runs

vars == <<input, opened, info, answer>>

TypeOK ==
  /\ opened = NULL \/ \A i \in DOMAIN opened : IsScalar(opened[i])
  /\ info = NULL \/ \A n \in {1, 2} : FitsI32(info[n])
  /\ answer \in Status \cup {NULL}

Init ==
  /\ input \in Inputs
  /\ opened = NULL /\ info = NULL /\ answer = NULL

Answer(status) ==
  /\ answer = NULL
  /\ answer' = status
  /\ UNCHANGED input

\* utf16_to_string is None.
NoText(ref) == ref.data = NULL \/ ref.length <= 0

Refuse ==
  /\ opened = NULL
  /\ NoText(input.path)
  /\ Answer("InvalidArg")
  /\ UNCHANGED <<opened, info>>

Open ==
  /\ opened = NULL
  /\ ~NoText(input.path)
  /\ opened' = Text(input.path)
  /\ UNCHANGED <<input, info, answer>>

\* find_map: the first format whose description can be parsed, 0 if there is none.
FirstReadable(formats) == SelectInSeq(formats, LAMBDA d : ParseDimensions(d) # <<>>)

\* fill_image_info
Fill(dims) == info' = <<AsI32(dims[1]), AsI32(dims[2])>>

DescribeDevice ==
  /\ opened # NULL
  /\ FirstReadable(input.formats) # 0
  /\ Fill(ParseDimensions(input.formats[FirstReadable(input.formats)])[1])
  /\ Answer("Ok")
  /\ UNCHANGED opened

DescribeBuiltin ==
  /\ opened # NULL
  /\ FirstReadable(input.formats) = 0
  /\ input.loads /\ input.profile # <<>>
  /\ Fill(input.profile)
  /\ Answer("Ok")
  /\ UNCHANGED opened

NoProfile ==
  /\ opened # NULL
  /\ FirstReadable(input.formats) = 0
  /\ \/ ~input.loads /\ Answer("Internal")
     \/ input.loads /\ input.profile = <<>> /\ Answer("NotImplemented")
  /\ UNCHANGED <<opened, info>>

Next == Refuse \/ Open \/ DescribeDevice \/ DescribeBuiltin \/ NoProfile

Spec == Init /\ [][Next]_vars

-----------------------------------------------------------------------------
\* The string that is opened encodes the host's path unit by unit, with U+FFFD
\* in place of each surrogate that is not half of a pair and nothing else
\* changed, dropped or added - also where the host's length cuts a pair in two.
PathFaithful ==
  opened # NULL =>
    LET units == SubSeq(input.path.data, 1, input.path.length)
    IN /\ units # <<>>
       /\ Encode(opened) =
            [i \in DOMAIN units |-> IF Unpaired(units, i) THEN Replacement ELSE units[i]]

\* The dimensions reported are the ones the first description that declares any
\* declares, or else the built-in profile's, exactly if they fit an i32; the
\* call gives up only when neither source has any (codec.rs:190-203).
DimensionsFromProfiles ==
  LET declaring == {n \in DOMAIN input.formats : Declared(input.formats[n]) # {}}
      known == IF declaring # {} THEN Declared(input.formats[Min(declaring)])
               ELSE IF input.loads THEN {input.profile} \ {<<>>} ELSE {}
  IN /\ answer = "Ok" =>
          \E dims \in known : \A n \in {1, 2} : dims[n] < HalfI32 => info[n] = dims[n]
     /\ answer \in {"NotImplemented", "Internal"} => known = {} /\ info = NULL
=============================================================================
