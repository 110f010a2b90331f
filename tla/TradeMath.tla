----------------------------- MODULE TradeMath -----------------------------
(***************************************************************************)
(* Trades as inputs of the amount computations: an amount of token_in, the *)
(* part of it that is traded first when it is split in two, the price, the *)
(* fee and the scales of both tokens.  The properties relate trades to one *)
(* another: bought and redeemed again, whole and split.                    *)
(***************************************************************************)
EXTENDS TokenMath

CONSTANTS
    Amounts,    \* u64 amounts of token_in
    Prices,     \* u64 prices
    Fees,       \* fees in basis points
    Scales      \* 10^decimals

ASSUME TradeAssumption ==
    /\ Amounts \subseteq U64
    /\ Prices \subseteq U64
    /\ Fees \subseteq 0..MAX_BASIS_POINTS
    /\ Scales \subseteq Nat \ {0}

VARIABLE trade

TypeOK ==
    /\ trade \in [amount : Amounts, first : Nat, price : Prices, fee : Fees,
                  scale_in : Scales, scale_out : Scales]
    /\ trade.first <= trade.amount

Init ==
    \E amount \in Amounts : \E first \in 0..amount :
        trade \in [amount : {amount}, first : {first}, price : Prices, fee : Fees,
                   scale_in : Scales, scale_out : Scales]

\* A trade is an input: only its split may be reconsidered.
Resplit ==
    \E first \in 0..trade.amount : trade' = [trade EXCEPT !.first = first]

Spec == Init /\ [][Resplit]_trade
-----------------------------------------------------------------------------
Fee(amount) == calculate_fees(amount, trade.fee).fee
Net(amount) == calculate_fees(amount, trade.fee).net

\* What the amount buys in an offer, and what the bought amount pays back in
\* a redemption at the same price: token_in and token_out change places.
Bought(amount) ==
    calculate_token_out_amount(Net(amount), trade.price, trade.scale_in, trade.scale_out)

PaidBack(amount) ==
    redemption_out_amount(amount, trade.price, trade.scale_out, trade.scale_in)

\* A fee of at most 100%, rounded up, never exceeds the amount, so the
\* checked_sub in calculate_fees never fails for a fee an offer can have.
FeeNeverExceedsAmount == calculate_fees(trade.amount, trade.fee).ok

\* Splitting a trade in two never saves fees: rounding up favours the
\* protocol however small the parts.
SplittingSavesNoFee ==
    Fee(trade.first) + Fee(trade.amount - trade.first) >= Fee(trade.amount)

\* Splitting a trade in two never buys more.
SplittingBuysNoMore ==
    LET rest  == trade.amount - trade.first
        whole == Bought(trade.amount)
    IN  whole # Err => Bought(trade.first) + Bought(rest) <= whole

\* Buying in an offer and redeeming at once at the same price never returns
\* more than was paid: take_offer and fulfill_redemption_request both round
\* down, whatever the decimals of the two tokens.
RoundTripNeverProfits ==
    Bought(trade.amount) # Err => PaidBack(Bought(trade.amount)) <= trade.amount
=============================================================================
