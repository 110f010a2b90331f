------------------------------ MODULE Numeric ------------------------------
(***************************************************************************)
(* The integer widths of the program, scaled by one constant, and the      *)
(* error value of a checked computation.                                   *)
(***************************************************************************)
EXTENDS Integers

CONSTANT I64_MAX    \* the largest i64; the other widths derive from it

ASSUME WidthAssumption == I64_MAX \in Nat \ {0}

U64_MAX == 2 * I64_MAX + 1
U128_MAX == (U64_MAX + 1) * (U64_MAX + 1) - 1
U64 == 0..U64_MAX

\* The value of a Result that carries an error: no u64.
Err == -1

\* "x as i64": the two's complement reading of a u64.
AsI64(x) == IF x <= I64_MAX THEN x ELSE x - (U64_MAX + 1)
=============================================================================
