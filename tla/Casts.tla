------------------------------- MODULE Casts --------------------------------
(***************************************************************************)
(* `as i32` on an unsigned integer keeps its low bits, as BufferSizing and *)
(* MetadataText need it for the dimensions the host is given.              *)
(***************************************************************************)
EXTENDS Integers

CONSTANT HalfI32  \* i32 ranges over -HalfI32 .. HalfI32 - 1

\* Slips: no cast; a cast to an integer of half the range.
AsIs(n) == n

AsNarrow(n) ==
  LET low == n % HalfI32 IN IF low < HalfI32 \div 2 THEN low ELSE low - HalfI32

\* n as i32, for a natural n.
AsI32(n) ==
  LET low == n % (2 * HalfI32) IN IF low < HalfI32 THEN low ELSE low - 2 * HalfI32

FitsI32(i) == -HalfI32 <= i /\ i < HalfI32
=============================================================================
