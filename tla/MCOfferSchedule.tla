-------------------------- MODULE MCOfferSchedule --------------------------
(***************************************************************************)
(* Constants of the small instances of OfferSchedule.                      *)
(***************************************************************************)
EXTENDS OfferSchedule

\* Growth visible within a few seconds, a flat price, a price that overflows
\* u64 while its vector is active, and two that validate_inputs must refuse.
MCVectorShapes ==
    { [base_price |-> 2, apr |-> 1, price_fix_duration |-> 2],
      [base_price |-> 7, apr |-> 0, price_fix_duration |-> 1],
      [base_price |-> 12, apr |-> 1, price_fix_duration |-> 1],
      [base_price |-> 0, apr |-> 1, price_fix_duration |-> 1],
      [base_price |-> 7, apr |-> 1, price_fix_duration |-> 0] }

=============================================================================
