----------------------------- MODULE TokenMath -----------------------------
(***************************************************************************)
(* The amounts of an exchange: the fee, rounded up, and the amount of the  *)
(* other token, rounded down.  A token's decimals enter as its scale       *)
(* 10^decimals.  Intermediate values are u128 and checked, results u64.    *)
(***************************************************************************)
EXTENDS Numeric

CONSTANTS
    MAX_BASIS_POINTS,       \* 100% (10000)
    MAX_ALLOWED_FEE_BPS,    \* the maximum allowed fee (1000)
    PRICE_SCALE,            \* 10^PRICE_DECIMALS (10^9)
    MAX_TOKEN_SCALE         \* 10^MAX_TOKEN_DECIMALS (10^18)

ASSUME MathAssumption ==
    /\ MAX_BASIS_POINTS \in Nat \ {0}
    /\ MAX_ALLOWED_FEE_BPS \in 0..MAX_BASIS_POINTS
    /\ PRICE_SCALE \in Nat \ {0}
    /\ MAX_TOKEN_SCALE \in Nat \ {0}
-----------------------------------------------------------------------------
\* Mutant: the fee is rounded down.
calculate_fees_floor(token_in_amount, fee_basis_points) ==
    LET fee == (token_in_amount * fee_basis_points) \div MAX_BASIS_POINTS
    IN  [ok |-> TRUE, fee |-> fee, net |-> token_in_amount - fee]

\* Mutant: rounding up by one too many.
calculate_fees_over(token_in_amount, fee_basis_points) ==
    LET fee == (token_in_amount * fee_basis_points + MAX_BASIS_POINTS)
                 \div MAX_BASIS_POINTS
    IN  [ok |-> fee <= token_in_amount, fee |-> fee, net |-> token_in_amount - fee]

\* calculate_fees: the fee by ceiling division, and what is left.  A fee
\* above 100% fails.
calculate_fees(token_in_amount, fee_basis_points) ==
    LET fee == (token_in_amount * fee_basis_points + (MAX_BASIS_POINTS - 1))
                 \div MAX_BASIS_POINTS
    IN  [ok |-> fee <= token_in_amount, fee |-> fee, net |-> token_in_amount - fee]

\* Mutant: the amount bought is rounded up.
calculate_token_out_amount_ceil(token_in_amount, price, scale_in, scale_out) ==
    IF price = 0 THEN Err
    ELSE (token_in_amount * scale_out * PRICE_SCALE + price * scale_in - 1)
           \div (price * scale_in)

\* The amount that token_in_amount buys at the price.  Tokens of too many
\* decimals are refused.
calculate_token_out_amount(token_in_amount, price, scale_in, scale_out) ==
    LET numerator   == token_in_amount * (scale_out * PRICE_SCALE)
        denominator == price * scale_in
    IN  IF \/ price = 0
           \/ scale_in > MAX_TOKEN_SCALE \/ scale_out > MAX_TOKEN_SCALE
           \/ numerator > U128_MAX
           \/ denominator > U128_MAX
           \/ numerator \div denominator > U64_MAX
        THEN Err
        ELSE numerator \div denominator

\* process_redemption_core: the amount paid out for redeeming the net amount,
\* the inverse direction at the same price.
redemption_out_amount(token_in_net_amount, price, scale_in, scale_out) ==
    LET numerator   == token_in_net_amount * price * scale_out
        denominator == scale_in * PRICE_SCALE
    IN  IF \/ numerator > U128_MAX
           \/ denominator > U128_MAX
           \/ numerator \div denominator > U64_MAX
        THEN Err
        ELSE numerator \div denominator
=============================================================================
