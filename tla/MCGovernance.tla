---------------------------- MODULE MCGovernance ----------------------------
(***************************************************************************)
(* The small instances of Governance: interchangeable keys.                *)
(***************************************************************************)
EXTENDS Governance, TLC

CONSTANTS k1, k2, k3, onyc

\* k1 may upgrade the program; k2 and k3 play the same roles.
KeySymmetry == Permutations({k2, k3})
=============================================================================
