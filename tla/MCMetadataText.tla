--------------------------- MODULE MCMetadataText ---------------------------
(***************************************************************************)
(* Inputs for MetadataText: every short path with one file, every short    *)
(* description with one path, and pairs of descriptions.                   *)
(***************************************************************************)
EXTENDS MetadataText

\* A letter, the ends of both surrogate ranges, and units beside them.
Units == {65, 55295, 55296, 56319, 56320, 57343}

Refs ==
  {[data |-> NULL, length |-> 0], [data |-> NULL, length |-> 2]}
    \cup {[data |-> u, length |-> Len(u) - cut] : u \in SeqOf(Units, 4), cut \in {0, 1, 5}}
    \cup {StringRef(s) : s \in SeqOf({65, 65535, 65536, 1114111}, 2)}

MCChars == {"0", "1", "4", "9", "times", "plus", "space", "other"}

APath == StringRef(<<65, 66>>)
Texts == { <<"1", "times", "4", "0">>, <<"9", "9", "times", "1", "1", "1", "other">>,
           <<"times", "9">>, <<"1", "1", "other", "times", "1">>,
           <<"1", "9", "1", "times", "1">>, <<"0", "times", "space", "1">> }
Profiles == {<<>>, <<9, 19>>, <<91, 140>>}

MCInputs ==
  [path : Refs, formats : {<<>>}, profile : {<<9, 19>>}, loads : {TRUE}]
    \cup [path : {APath}, formats : {<<d>> : d \in SeqOf(MCChars, 5)}, profile : {<<9, 19>>}, loads : {TRUE}]
    \cup [path : {APath}, formats : SeqOf(Texts, 3), profile : Profiles,
          loads : BOOLEAN]
=============================================================================
