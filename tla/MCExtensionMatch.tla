-------------------------- MODULE MCExtensionMatch --------------------------
(***************************************************************************)
(* Inputs for ExtensionMatch: the known extensions with each unit replaced *)
(* by a variant, the same without their last unit or with one more, and    *)
(* the known ones with one unit replaced by an unrelated ASCII one.        *)
(***************************************************************************)
EXTENDS ExtensionMatch

\* A unit, the unit of the other case, the unit 256 above it, and U+00E9.
Variants(k) == {k, Upper(k), k + 256, 233}

\* The first n units of a known extension, each replaced by a variant.
Build[n \in 0..6, known \in Extensions] ==
  IF n = 0 THEN {<<>>}
  ELSE {Append(e, u) : e \in Build[n - 1, known], u \in Variants(known[n])}

\* A dot without its bit 5, a neighbour of the dot, and a letter of neither.
OtherUnits == {14, 47, 120}

MCInputs ==
  UNION {Build[Len(known) - 1, known] \cup Build[Len(known), known]
           \cup {Append(known, u) : u \in {46, 98, 109}}
           \cup {[known EXCEPT ![i] = u] : i \in 1..Len(known), u \in OtherUnits} :
           known \in Extensions}
    \cup {<<>>}
=============================================================================
