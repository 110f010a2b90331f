-------------------------- MODULE TradeMathProofs --------------------------
(***************************************************************************)
(* The rounding of fees and amounts, for every width, scale, price and     *)
(* fee.  Everything follows from the bounds of integer division.           *)
(***************************************************************************)
EXTENDS TradeMath, TLAPS

\* The quotient of an integer division, by its two bounds.
LEMMA DivBounds ==
  ASSUME NEW n \in Nat, NEW d \in Nat \ {0}
  PROVE  /\ n \div d \in Nat
         /\ d * (n \div d) <= n
         /\ n < d * (n \div d) + d
OBVIOUS

\* A product with a positive factor orders like the other factor.
LEMMA MulOrder ==
  ASSUME NEW d \in Nat \ {0}, NEW x \in Int, NEW y \in Int, d * x < d * y + d
  PROVE  x <= y
<1>1. SUFFICES ASSUME y + 1 <= x PROVE FALSE
  OBVIOUS
<1>2. d * (y + 1) <= d * x
  BY <1>1
<1>3. d * (y + 1) = d * y + d
  OBVIOUS
<1> QED BY <1>2, <1>3

\* Rounding down loses at least as much on two parts as on the whole.
LEMMA FloorSplit ==
  ASSUME NEW x \in Nat, NEW y \in Nat, NEW z \in Nat, x + y <= z,
         NEW d \in Nat \ {0}
  PROVE  (x \div d) + (y \div d) <= z \div d
<1> DEFINE qx == x \div d  qy == y \div d  qz == z \div d
<1>1. /\ qx \in Nat /\ d * qx <= x
      /\ qy \in Nat /\ d * qy <= y
      /\ qz \in Nat /\ z < d * qz + d
  BY DivBounds
<1> HIDE DEF qx, qy, qz
<1>2. d * (qx + qy) = d * qx + d * qy
  BY <1>1
<1>3. d * qx \in Nat /\ d * qy \in Nat /\ d * qz \in Nat
  BY <1>1
<1>4. d * (qx + qy) < d * qz + d
  BY <1>1, <1>2, <1>3
<1>5. qx + qy <= qz
  BY <1>1, <1>4, MulOrder
<1> QED BY <1>5 DEF qx, qy, qz

\* Rounding down is monotone.
LEMMA FloorMonotone ==
  ASSUME NEW x \in Nat, NEW z \in Nat, x <= z, NEW d \in Nat \ {0}
  PROVE  x \div d <= z \div d
<1> DEFINE qx == x \div d  qz == z \div d
<1>1. qx \in Nat /\ d * qx <= x /\ qz \in Nat /\ z < d * qz + d
  BY DivBounds
<1> HIDE DEF qx, qz
<1>2. d * qx \in Nat /\ d * qz \in Nat
  BY <1>1
<1>3. d * qx < d * qz + d
  BY <1>1, <1>2
<1>4. qx <= qz
  BY <1>1, <1>3, MulOrder
<1> QED BY <1>4 DEF qx, qz

\* Rounding up gains at least as much on two parts as on the whole.
LEMMA CeilSplit ==
  ASSUME NEW x \in Nat, NEW y \in Nat, NEW d \in Nat \ {0}
  PROVE  (x + y + (d - 1)) \div d <= (x + (d - 1)) \div d + (y + (d - 1)) \div d
<1> DEFINE qx == (x + (d - 1)) \div d
           qy == (y + (d - 1)) \div d
           qz == (x + y + (d - 1)) \div d
<1>0. x + (d - 1) \in Nat /\ y + (d - 1) \in Nat /\ x + y + (d - 1) \in Nat
  OBVIOUS
<1>1. /\ qx \in Nat /\ x + (d - 1) < d * qx + d
      /\ qy \in Nat /\ y + (d - 1) < d * qy + d
      /\ qz \in Nat /\ d * qz <= x + y + (d - 1)
  BY <1>0, DivBounds
<1> HIDE DEF qx, qy, qz
<1>2. d * (qx + qy) = d * qx + d * qy
  BY <1>1
<1>3. d * qx \in Nat /\ d * qy \in Nat /\ d * qz \in Nat
  BY <1>1
<1>4. d * qz < d * (qx + qy) + d
  BY <1>1, <1>2, <1>3
<1>5. qz <= qx + qy
  BY <1>1, <1>4, MulOrder
<1> QED BY <1>5 DEF qx, qy, qz

\* A fee of at most 100% is at most the amount.
LEMMA FeeBound ==
  ASSUME NEW amount \in Nat, NEW bps \in 0..MAX_BASIS_POINTS
  PROVE  /\ calculate_fees(amount, bps).ok
         /\ calculate_fees(amount, bps).fee \in Nat
         /\ calculate_fees(amount, bps).fee <= amount
         /\ calculate_fees(amount, bps).net = amount - calculate_fees(amount, bps).fee
<1> DEFINE m == MAX_BASIS_POINTS
           x == amount * bps + (m - 1)
           q == x \div m
<1>1. m \in Nat \ {0} /\ bps \in Nat /\ bps <= m
  BY MathAssumption
<1>2. amount * bps \in Nat /\ amount * bps <= amount * m
  BY <1>1
<1>3. x \in Nat /\ x < m * amount + m
  BY <1>1, <1>2
<1>4. q \in Nat /\ m * q <= x
  BY <1>1, <1>3, DivBounds
<1>5. /\ calculate_fees(amount, bps).fee = q
      /\ calculate_fees(amount, bps).net = amount - q
  BY DEF calculate_fees
<1>6. calculate_fees(amount, bps).ok <=> q <= amount
  BY Zenon DEF calculate_fees
<1> HIDE DEF q, x, m
<1>7. q <= amount
  <2>1. m * q \in Nat
    BY <1>1, <1>4
  <2>2. m * q < m * amount + m
    BY <1>1, <1>3, <1>4, <2>1
  <2> QED BY <1>1, <1>4, <2>2, MulOrder
<1>8. calculate_fees(amount, bps).ok
  BY <1>6, <1>7
<1> QED BY <1>4, <1>5, <1>7, <1>8
-----------------------------------------------------------------------------
\* What TypeOK says of the fields of a trade.
LEMMA TradeFields ==
  ASSUME TypeOK
  PROVE  /\ trade.amount \in Nat /\ trade.first \in Nat
         /\ trade.amount - trade.first \in Nat
         /\ trade.price \in Nat
         /\ trade.fee \in 0..MAX_BASIS_POINTS
         /\ trade.scale_in \in Nat \ {0} /\ trade.scale_out \in Nat \ {0}
<1>1. /\ trade.amount \in Amounts /\ trade.first \in Nat
      /\ trade.first <= trade.amount
      /\ trade.price \in Prices /\ trade.fee \in Fees
      /\ trade.scale_in \in Scales /\ trade.scale_out \in Scales
  BY DEF TypeOK
<1>2. U64 \subseteq Nat
  BY WidthAssumption DEF U64, U64_MAX
<1>3. trade.amount \in Nat /\ trade.price \in Nat
  BY <1>1, <1>2, TradeAssumption
<1>4. trade.fee \in 0..MAX_BASIS_POINTS
  BY <1>1, TradeAssumption
<1>5. trade.scale_in \in Nat \ {0} /\ trade.scale_out \in Nat \ {0}
  BY <1>1, TradeAssumption
<1> QED BY <1>1, <1>3, <1>4, <1>5

\* Every trade that the specification considers is well typed.
THEOREM TypeCorrect == Spec => []TypeOK
<1>1. Init => TypeOK
  BY TradeAssumption, WidthAssumption DEF Init, TypeOK, U64, U64_MAX
<1>2. TypeOK /\ [Resplit]_trade => TypeOK'
  BY TradeAssumption, WidthAssumption DEF TypeOK, Resplit, U64, U64_MAX
<1> QED BY <1>1, <1>2, PTL DEF Spec

\* The fee never exceeds the amount.
THEOREM FeeFits == Spec => []FeeNeverExceedsAmount
<1>1. TypeOK => FeeNeverExceedsAmount
  BY TradeFields, FeeBound DEF FeeNeverExceedsAmount
<1> QED BY <1>1, TypeCorrect, PTL

\* The two parts of a trade pay at least the fee of the whole.
LEMMA FeeSplit ==
  ASSUME TypeOK
  PROVE  Fee(trade.amount) <= Fee(trade.first) + Fee(trade.amount - trade.first)
<1> DEFINE m == MAX_BASIS_POINTS
           x == trade.first * trade.fee
           y == (trade.amount - trade.first) * trade.fee
<1>1. /\ trade.amount \in Nat /\ trade.first \in Nat
      /\ trade.amount - trade.first \in Nat /\ trade.fee \in Nat
      /\ m \in Nat \ {0}
  BY TradeFields, MathAssumption
<1>2. x \in Nat /\ y \in Nat /\ trade.amount * trade.fee = x + y
  BY <1>1
<1>3. /\ Fee(trade.amount) = (x + y + (m - 1)) \div m
      /\ Fee(trade.first) = (x + (m - 1)) \div m
      /\ Fee(trade.amount - trade.first) = (y + (m - 1)) \div m
  BY <1>2 DEF Fee, calculate_fees
<1> HIDE DEF x, y, m
<1> QED BY <1>1, <1>2, <1>3, CeilSplit

\* Splitting a trade never saves fees.
THEOREM NoFeeSavedBySplitting == Spec => []SplittingSavesNoFee
<1>1. TypeOK => SplittingSavesNoFee
  <2> SUFFICES ASSUME TypeOK PROVE SplittingSavesNoFee
    OBVIOUS
  <2>1. /\ Fee(trade.amount) \in Nat /\ Fee(trade.first) \in Nat
        /\ Fee(trade.amount - trade.first) \in Nat
    BY TradeFields, FeeBound DEF Fee
  <2> QED BY <2>1, FeeSplit DEF SplittingSavesNoFee
<1> QED BY <1>1, TypeCorrect, PTL

\* What an amount buys, when the computation does not fail.
LEMMA BoughtSpec ==
  ASSUME TypeOK, NEW amount \in Nat
  PROVE  LET n == Net(amount) * (trade.scale_out * PRICE_SCALE)
             d == trade.price * trade.scale_in
         IN  /\ Net(amount) \in Nat /\ Net(amount) <= amount
             /\ Bought(amount) = Err \/
                  (d \in Nat \ {0} /\ Bought(amount) = n \div d)
<1>1. Net(amount) \in Nat /\ Net(amount) <= amount
  BY TradeFields, FeeBound DEF Net
<1>2. Bought(amount) # Err =>
        /\ trade.price # 0
        /\ Bought(amount) = (Net(amount) * (trade.scale_out * PRICE_SCALE))
                              \div (trade.price * trade.scale_in)
  BY DEF Bought, calculate_token_out_amount
<1>3. trade.price # 0 => trade.price * trade.scale_in \in Nat \ {0}
  BY TradeFields
<1> QED BY <1>1, <1>2, <1>3

\* Splitting a trade never buys more.
THEOREM NoMoreBoughtBySplitting == Spec => []SplittingBuysNoMore
<1>1. TypeOK => SplittingBuysNoMore
  <2> SUFFICES ASSUME TypeOK, Bought(trade.amount) # Err
               PROVE  Bought(trade.first) + Bought(trade.amount - trade.first)
                        <= Bought(trade.amount)
    BY DEF SplittingBuysNoMore
  <2> DEFINE k == trade.scale_out * PRICE_SCALE
             d == trade.price * trade.scale_in
             n1 == Net(trade.first)
             n2 == Net(trade.amount - trade.first)
             n == Net(trade.amount)
  <2>1. /\ trade.amount \in Nat /\ trade.first \in Nat
        /\ trade.amount - trade.first \in Nat /\ k \in Nat
    BY TradeFields, MathAssumption
  <2>2. /\ n \in Nat /\ n1 \in Nat /\ n2 \in Nat
        /\ d \in Nat \ {0} /\ Bought(trade.amount) = (n * k) \div d
        /\ Bought(trade.first) \in {Err, (n1 * k) \div d}
        /\ Bought(trade.amount - trade.first) \in {Err, (n2 * k) \div d}
    BY <2>1, BoughtSpec
  <2>3. n1 + n2 <= n
    <3>1. /\ Fee(trade.amount) \in Nat /\ Fee(trade.first) \in Nat
          /\ Fee(trade.amount - trade.first) \in Nat
          /\ n = trade.amount - Fee(trade.amount)
          /\ n1 = trade.first - Fee(trade.first)
          /\ n2 = (trade.amount - trade.first) - Fee(trade.amount - trade.first)
      BY <2>1, TradeFields, FeeBound DEF Fee, Net
    <3> HIDE DEF n, n1, n2
    <3> QED BY <2>1, <3>1, FeeSplit
  <2> HIDE DEF k, d, n, n1, n2
  <2>4. /\ n * k \in Nat /\ n1 * k \in Nat /\ n2 * k \in Nat
        /\ n1 * k + n2 * k <= n * k
    <3>1. (n1 + n2) * k <= n * k
      BY <2>1, <2>2, <2>3
    <3> QED BY <2>1, <2>2, <3>1
  <2>5. ((n1 * k) \div d) + ((n2 * k) \div d) <= (n * k) \div d
    BY <2>2, <2>4, FloorSplit
  <2>6. /\ (n1 * k) \div d \in Nat /\ (n2 * k) \div d \in Nat
        /\ (n * k) \div d \in Nat
    BY <2>2, <2>4, DivBounds
  <2> QED BY <2>2, <2>5, <2>6 DEF Err
<1> QED BY <1>1, TypeCorrect, PTL

\* Buying and redeeming at the same price never returns more than was paid.
THEOREM NoProfitFromRoundTrip == Spec => []RoundTripNeverProfits
<1>1. TypeOK => RoundTripNeverProfits
  <2> SUFFICES ASSUME TypeOK, Bought(trade.amount) # Err
               PROVE  PaidBack(Bought(trade.amount)) <= trade.amount
    BY DEF RoundTripNeverProfits
  <2> DEFINE k == trade.scale_out * PRICE_SCALE
             d == trade.price * trade.scale_in
             n == Net(trade.amount)
             q == Bought(trade.amount)
  <2>1. /\ trade.amount \in Nat /\ k \in Nat \ {0} /\ trade.price \in Nat
        /\ trade.scale_in \in Nat
    BY TradeFields, MathAssumption
  <2>2. /\ n \in Nat /\ n <= trade.amount
        /\ d \in Nat \ {0} /\ q = (n * k) \div d
    BY <2>1, BoughtSpec
  <2>3. PaidBack(q) \in {Err, (q * trade.price * trade.scale_in) \div k}
    BY DEF PaidBack, redemption_out_amount
  <2>4. n * k \in Nat /\ q \in Nat /\ d * q <= n * k
    <3>1. n * k \in Nat
      BY <2>1, <2>2
    <3> HIDE DEF q, n, k, d
    <3> QED BY <2>2, <3>1, DivBounds
  <2>5. q * trade.price * trade.scale_in = d * q
    <3> HIDE DEF q
    <3> QED BY <2>1, <2>4
  <2> HIDE DEF k, d, n, q
  <2>6. d * q \in Nat /\ (d * q) \div k \in Nat /\ k * ((d * q) \div k) <= d * q
    <3>1. d * q \in Nat
      BY <2>2, <2>4
    <3> QED BY <2>1, <3>1, DivBounds
  <2> DEFINE r == (d * q) \div k
  <2>7. r <= trade.amount
    <3>1. r \in Nat /\ k * r <= n * k
      BY <2>1, <2>2, <2>4, <2>6
    <3> HIDE DEF r
    <3>2. k * r \in Nat /\ k * r < k * n + k
      BY <2>1, <2>2, <3>1
    <3>3. r <= n
      BY <2>1, <2>2, <3>1, <3>2, MulOrder
    <3> QED BY <2>1, <2>2, <3>1, <3>3
  <2> QED BY <2>1, <2>3, <2>5, <2>7 DEF Err, q
<1> QED BY <1>1, TypeCorrect, PTL
=============================================================================
