---------------------------- MODULE BufferSizing ----------------------------
(***************************************************************************)
(* The arithmetic between decoding and malloc (decode.rs): the dimensions  *)
(* of the decoded image are cast to i32, the stride is an i32 product, and *)
(* the buffer's size a usize product of sign-extended casts.               *)
(*                                                                         *)
(* The widths are parameters: the code has HalfI32 = 2^31 and              *)
(* UsizeValues = 2^64 (2^32 on a 32-bit host).                             *)
(***************************************************************************)
EXTENDS Casts

CONSTANTS
  UsizeValues,  \* usize ranges over 0 .. UsizeValues - 1
  MallocMax,    \* malloc returns null above this size
  MaxDimension  \* dimensions the decoder may report

\* malloc cannot serve more than half the address space less one i32.
ASSUME WidthAssumption ==
  /\ HalfI32 \in Nat /\ HalfI32 > 0
  /\ UsizeValues \in Nat /\ UsizeValues >= 2 * HalfI32
  /\ MallocMax \in Nat /\ MallocMax < UsizeValues - HalfI32
  /\ MaxDimension \in Nat

VARIABLES
  w, h,    \* decoded.width and decoded.height
  outcome, \* "none" before the call, "OutOfMemory", or "allocated"
  width, height, stride, size   \* the locals of the same name, and buf_size

vars == <<w, h, outcome, width, height, stride, size>>

Init ==
  /\ w \in 0..MaxDimension /\ h \in 0..MaxDimension
  /\ outcome = "none"
  /\ width = 0 /\ height = 0 /\ stride = 0 /\ size = 0

\* i as usize, for an i32 i: sign extension.
AsUsize(i) == IF i >= 0 THEN i ELSE i + UsizeValues

\* Slips: the products wrap; a row too many.
AllocateWrapping ==
  /\ outcome = "none"
  /\ width' = AsI32(w)
  /\ height' = AsI32(h)
  /\ stride' = AsI32(width' * 4)
  /\ size' = (AsUsize(height') * AsUsize(stride')) % UsizeValues
  /\ size' <= MallocMax
  /\ outcome' = "allocated"
  /\ UNCHANGED <<w, h>>

AllocateRow ==
  /\ outcome = "none"
  /\ FitsI32(AsI32(w) * 4)
  /\ width' = AsI32(w)
  /\ height' = AsI32(h)
  /\ stride' = width' * 4
  /\ size' = (AsUsize(height') + 1) * AsUsize(stride')
  /\ size' <= MallocMax
  /\ outcome' = "allocated"
  /\ UNCHANGED <<w, h>>

OutOfMemory ==
  /\ outcome' = "OutOfMemory"
  /\ UNCHANGED <<w, h, width, height, stride, size>>

StrideOverflows ==
  /\ outcome = "none"
  /\ ~FitsI32(AsI32(w) * 4)
  /\ OutOfMemory

SizeOverflows ==
  /\ outcome = "none"
  /\ FitsI32(AsI32(w) * 4)
  /\ AsUsize(AsI32(h)) * AsUsize(AsI32(w) * 4) >= UsizeValues
  /\ OutOfMemory

SizeFits ==
  /\ outcome = "none"
  /\ FitsI32(AsI32(w) * 4)
  /\ AsUsize(AsI32(h)) * AsUsize(AsI32(w) * 4) < UsizeValues

\* malloc may fail for any size, and fails above MallocMax.
MallocFails ==
  /\ SizeFits
  /\ OutOfMemory

Allocate ==
  /\ SizeFits
  /\ width' = AsI32(w)
  /\ height' = AsI32(h)
  /\ stride' = width' * 4
  /\ size' = AsUsize(height') * AsUsize(stride')
  /\ size' <= MallocMax
  /\ outcome' = "allocated"
  /\ UNCHANGED <<w, h>>

Next == StrideOverflows \/ SizeOverflows \/ MallocFails \/ Allocate

Spec == Init /\ [][Next]_vars

-----------------------------------------------------------------------------
\* The struct the host receives describes exactly the allocated bytes: no cast
\* or product has wrapped, not even for dimensions that do not fit an i32.
StructMatchesAllocation ==
  outcome = "allocated" => stride = 4 * width /\ size = stride * height

\* The copy of decode.rs:109 reads within decoded.data, whose length is
\* 4 * w * h, and fills the allocation.
CopyInBounds ==
  outcome = "allocated" => 0 <= size /\ size <= 4 * w * h

\* An image whose stride and height fit an i32 is published with its own
\* dimensions, so the pixels are read back with the stride they were written.
DimensionsExact ==
  outcome = "allocated" /\ w < HalfI32 /\ h < HalfI32 =>
    width = w /\ height = h /\ size = 4 * w * h

=============================================================================
