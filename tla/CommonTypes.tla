----------------------------- MODULE CommonTypes -----------------------------
(***************************************************************************)
(* The u64 arithmetic and alignment helpers of crates/common/src/types.rs. *)
(* Alignments are powers of two in every caller, so the bit masks of the   *)
(* code are remainders here.                                               *)
(***************************************************************************)
EXTENDS Integers

CONSTANT Word    \* 2^64: addresses and sizes are 0 .. Word - 1

ASSUME WordAssumption == Word \in Nat \ {0}

\* + on u64 in a release build.
Plus(a, b) == IF a + b < Word THEN a + b ELSE a + b - Word

\* (value + mask) & !mask
align_up(value, alignment) ==
    LET sum == Plus(value, alignment - 1)
    IN  sum - (sum % alignment)

\* (value & (alignment - 1)) == 0
is_aligned(value, alignment) == value % alignment = 0

Larger(a, b) == IF a >= b THEN a ELSE b

=============================================================================
