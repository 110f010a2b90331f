--------------------------- MODULE ExchangeProofs ---------------------------
(***************************************************************************)
(* The primary market for any users, pairs, amounts, prices and fees.  The *)
(* inductive invariant types the market's accounts, takes over that of     *)
(* Governance and requires a sound ledger: no balance is negative and the  *)
(* supply of a mint is what its holders hold.  Everything about a trade    *)
(* follows from one lemma (ExecuteSpec) that says what                     *)
(* execute_token_operations does to each balance and supply, and when it   *)
(* succeeds.                                                               *)
(***************************************************************************)
EXTENDS Exchange, TokenProofs

\* The market's own accounts have their types.
MarketTyped ==
    /\ offers \in [Pairs -> Offer]
    /\ price \in [Pairs -> Prices \cup {Err}]
    /\ now \in 1..MAX_TIME

Inv ==
    /\ GP!Inv
    /\ Sound(ledger)
    /\ AuthorityTyped
    /\ MarketTyped

\* Tokens are neither created nor destroyed unaccounted for.
SupplyIsHeld == Conserved(ledger)

\* The part of a payment that the boss keeps: all of it unless it is burnt.
Kept(mint, result) ==
    IF program_controls_mint(mint) THEN result.fee ELSE result.net + result.fee

\* The delivery is possible: within the cap, or out of the vault.
Deliverable(l, mint, amount) ==
    IF program_controls_mint(mint)
    THEN /\ l.supply[mint] + amount <= U64_MAX
         /\ state.max_supply > 0 => l.supply[mint] + amount <= state.max_supply
    ELSE l.bal[OfferVault][mint] >= amount
-----------------------------------------------------------------------------
\* The accounts of the program are nobody's key.
LEMMA Parties ==
  ASSUME GP!Inv, state.boss # NoKey
  PROVE  /\ state.boss \in Owners
         /\ OfferVault \in Owners /\ Intermediary \in Owners
         /\ OfferVault # Intermediary
         /\ state.boss \notin {OfferVault, Intermediary}
         /\ \A k \in Users : k \in Owners /\ k \notin {OfferVault, Intermediary}
         /\ state.max_supply \in Nat
BY GovernanceTyped, ExchangeAssumption, AuthorityAssumption

\* The two mints of a pair are two mints.
LEMMA PairMints ==
  ASSUME NEW p \in Pairs
  PROVE  p[1] \in Mints /\ p[2] \in Mints /\ p[1] # p[2]
BY ExchangeAssumption

\* The amounts of a trade that process_offer_core accepts.
LEMMA ResultTyped ==
  ASSUME MarketTyped, NEW p \in Pairs, NEW amount \in Amounts,
         process_offer_core(p, amount).ok
  PROVE  /\ amount \in Nat
         /\ process_offer_core(p, amount).net \in Nat
         /\ process_offer_core(p, amount).fee \in Nat
         /\ process_offer_core(p, amount).net + process_offer_core(p, amount).fee = amount
         /\ process_offer_core(p, amount).out \in Nat
<1> DEFINE bps == offers[p].fee_basis_points
           fees == calculate_fees(amount, bps)
           out == calculate_token_out_amount(fees.net, price[p], Scale[p[1]], Scale[p[2]])
<1>1. amount \in Nat /\ bps \in Nat
  BY ExchangeAssumption, WidthAssumption, MathAssumption
     DEF MarketTyped, Offer, U64, U64_MAX
<1>2. /\ process_offer_core(p, amount).net = fees.net
      /\ process_offer_core(p, amount).fee = fees.fee
      /\ process_offer_core(p, amount).out = out
  BY DEF process_offer_core
<1>3. price[p] # Err /\ fees.ok /\ out # Err
  BY Zenon DEF process_offer_core
<1> HIDE DEF bps
<1>4. fees.net \in Nat /\ fees.fee \in Nat /\ fees.net + fees.fee = amount
  BY <1>1, <1>3, FeesSplit
<1>5. price[p] \in Nat \ {0} /\ Scale[p[1]] \in Nat \ {0} /\ Scale[p[2]] \in Nat \ {0}
  <2>1. price[p] \in Prices
    BY <1>3 DEF MarketTyped
  <2>2. U64 \subseteq Nat
    BY WidthAssumption DEF U64, U64_MAX
  <2>3. Scale[p[1]] \in Nat \ {0} /\ Scale[p[2]] \in Nat \ {0}
    BY PairMints, ExchangeAssumption
  <2> QED BY <2>1, <2>2, <2>3, ExchangeAssumption
<1> HIDE DEF fees
<1>6. out \in Nat
  BY <1>3, <1>4, <1>5, OutTyped
<1> QED BY <1>1, <1>2, <1>4, <1>6
-----------------------------------------------------------------------------
\* What collecting a payment makes of a ledger: the payer is charged net and fee once,
\* however many transfers and burns it takes, and that is all it needs.
Paid(l, n, mint, source, result) ==
    /\ n.ok <=> l.ok /\ l.bal[source][mint] >= result.net + result.fee
    /\ \A m \in Mints :
         n.supply[m] = l.supply[m]
           - Part(m = mint /\ program_controls_mint(mint), result.net)
    /\ \A o \in Owners, m \in Mints :
         n.bal[o][m] = l.bal[o][m]
           - Part(m = mint /\ o = source, result.net + result.fee)
           + Part(m = mint /\ o = state.boss, Kept(mint, result))

\* The transfers and burns of a payment amount to that.
LEMMA CollectSpec ==
  ASSUME GP!Inv, state.boss # NoKey, NEW l, Consistent(l), NEW mint \in Mints,
         NEW source \in Owners \ {OfferVault}, NEW result,
         result.net \in Nat, result.fee \in Nat
  PROVE  /\ Consistent(CollectTokenIn(l, mint, source, result))
         /\ Paid(l, CollectTokenIn(l, mint, source, result), mint, source, result)
<1> DEFINE n == CollectTokenIn(l, mint, source, result)
           net == result.net
           fee == result.fee
           boss == state.boss
<1>0. /\ boss \in Owners /\ OfferVault \in Owners /\ source # OfferVault
      /\ boss # OfferVault
      /\ net \in Nat /\ fee \in Nat /\ l \in RawLedger
      /\ net \in Int /\ fee \in Int
      /\ l.ok => l.bal[OfferVault][mint] >= 0
  BY Parties, SoundIsConsistent DEF Consistent
<1>A. SUFFICES Consistent(n) /\ Paid(l, n, mint, source, result)
  OBVIOUS
<1>1. CASE ~program_controls_mint(mint)
  <2> DEFINE moved == transfer_tokens(l, mint, source, boss, net + fee)
  <2>1. n = moved
    BY <1>1 DEF CollectTokenIn
  <2>2. net + fee \in Nat
    BY <1>0
  <2>3. Consistent(moved)
    BY <1>0, <2>2, TransferConsistent
  <2>4. Moved(l, moved, mint, source, boss, net + fee)
    BY <1>0, <2>2, TransferSpec
  <2> HIDE DEF n, moved
  <2>5. /\ n.ok <=> l.ok /\ l.bal[source][mint] >= net + fee
        /\ n.supply = l.supply
        /\ \A o \in Owners, m \in Mints :
             n.bal[o][m] = l.bal[o][m] + Part(m = mint /\ o = boss, net + fee)
                                       - Part(m = mint /\ o = source, net + fee)
    BY <2>1, <2>4 DEF Moved
  <2>6. Kept(mint, result) = net + fee
    BY <1>1 DEF Kept
  <2>7. /\ \A o \in Owners, m \in Mints : l.bal[o][m] \in Int
        /\ \A m \in Mints : l.supply[m] \in Int
    BY <1>0 DEF RawLedger
  <2>8. \A m \in Mints : n.supply[m] = l.supply[m]
                            - Part(m = mint /\ program_controls_mint(mint), net)
    BY <1>1, <2>5, <2>7 DEF Part
  <2>9. \A o \in Owners, m \in Mints :
          n.bal[o][m] = l.bal[o][m] - Part(m = mint /\ o = source, net + fee)
                                    + Part(m = mint /\ o = boss, net + fee)
    <3> TAKE o \in Owners, m \in Mints
    <3> DEFINE paid == Part(m = mint /\ o = source, net + fee)
               kept == Part(m = mint /\ o = boss, net + fee)
    <3>1. paid \in Int /\ kept \in Int
      BY <2>2 DEF Part
    <3>2. n.bal[o][m] = l.bal[o][m] + kept - paid /\ l.bal[o][m] \in Int
      BY <2>5, <2>7
    <3> HIDE DEF paid, kept
    <3>3. n.bal[o][m] = l.bal[o][m] - paid + kept
      BY <3>1, <3>2
    <3> QED BY <3>3 DEF paid, kept
  <2> QED BY <1>A, <2>1, <2>3, <2>5, <2>6, <2>8, <2>9 DEF Paid
<1>2. CASE program_controls_mint(mint)
  <2> DEFINE paid == transfer_tokens(l, mint, source, OfferVault, net)
             burnt == burn_tokens(paid, mint, OfferVault, net)
             moved == transfer_tokens(burnt, mint, source, boss, fee)
  <2>1. n = IF fee = 0 THEN burnt ELSE moved
    BY <1>2 DEF CollectTokenIn
  <2> HIDE DEF n
  <2>2. Consistent(paid) /\ Moved(l, paid, mint, source, OfferVault, net)
    BY <1>0, TransferConsistent, TransferSpec
  <2> HIDE DEF paid
  <2>3. Consistent(burnt) /\ Burnt(paid, burnt, mint, OfferVault, net)
    <3>1. paid \in RawLedger
      BY <2>2 DEF Moved
    <3> QED BY <1>0, <2>2, <3>1, BurnConsistent, BurnSpec
  <2> HIDE DEF burnt
  <2>4. Consistent(moved) /\ Moved(burnt, moved, mint, source, boss, fee)
    <3>1. burnt \in RawLedger
      BY <2>3 DEF Burnt
    <3> QED BY <1>0, <2>3, <3>1, TransferConsistent, TransferSpec
  <2> HIDE DEF moved
  <2>5. /\ \A o \in Owners, m \in Mints :
             l.bal[o][m] \in Int /\ paid.bal[o][m] \in Int /\ burnt.bal[o][m] \in Int
        /\ \A m \in Mints : l.supply[m] \in Int
    BY <1>0, <2>2, <2>3 DEF RawLedger, Moved, Burnt
  <2>6. /\ burnt.ok <=> l.ok /\ l.bal[source][mint] >= net
        /\ \A m \in Mints : burnt.supply[m] = l.supply[m] - Part(m = mint, net)
        /\ \A o \in Owners, m \in Mints :
             burnt.bal[o][m] = l.bal[o][m] - Part(m = mint /\ o = source, net)
    <3>1. paid.bal[OfferVault][mint] = l.bal[OfferVault][mint] + net
      BY <1>0, <2>2, <2>5 DEF Part, Moved
    <3>2. paid.ok => paid.bal[OfferVault][mint] >= net
      BY <1>0, <2>2, <2>5, <3>1 DEF Moved
    <3>3. burnt.ok <=> l.ok /\ l.bal[source][mint] >= net
      BY <2>2, <2>3, <3>2 DEF Moved, Burnt
    <3>4. \A m \in Mints : burnt.supply[m] = l.supply[m] - Part(m = mint, net)
      BY <2>2, <2>3 DEF Moved, Burnt
    <3>5. \A o \in Owners, m \in Mints :
            burnt.bal[o][m] = l.bal[o][m] - Part(m = mint /\ o = source, net)
      BY <1>0, <2>2, <2>3, <2>5 DEF Part, Moved, Burnt
    <3> QED BY <3>3, <3>4, <3>5
  <2>7. Kept(mint, result) = fee
    BY <1>2 DEF Kept
  <2>8. CASE fee = 0
    <3>1. n = burnt
      BY <2>1, <2>8
    <3>2. \A o \in Owners, m \in Mints :
            n.bal[o][m] = l.bal[o][m] - Part(m = mint /\ o = source, net + fee)
                                      + Part(m = mint /\ o = boss, fee)
      BY <1>0, <2>5, <2>6, <2>8, <3>1 DEF Part
    <3> QED BY <1>A, <1>0, <1>2, <2>3, <2>6, <2>7, <2>8, <3>1, <3>2 DEF Paid, Part
  <2>9. CASE fee # 0
    <3>1. n = moved
      BY <2>1, <2>9
    <3>2. burnt.bal[source][mint] = l.bal[source][mint] - net
      BY <1>0, <2>5, <2>6 DEF Part
    <3>3. n.ok <=> l.ok /\ l.bal[source][mint] >= net + fee
      BY <1>0, <2>4, <2>5, <2>6, <3>1, <3>2 DEF Moved
    <3>4. \A m \in Mints : n.supply[m] = l.supply[m] - Part(m = mint, net)
      BY <2>4, <2>6, <3>1 DEF Moved
    <3>5. \A o \in Owners, m \in Mints :
            n.bal[o][m] = l.bal[o][m] - Part(m = mint /\ o = source, net + fee)
                                      + Part(m = mint /\ o = boss, fee)
      BY <1>0, <2>4, <2>5, <2>6, <3>1 DEF Part, Moved
    <3> QED BY <1>A, <1>2, <2>4, <2>7, <3>1, <3>3, <3>4, <3>5 DEF Paid, Part
  <2> QED BY <2>8, <2>9
<1> QED BY <1>1, <1>2 DEF n

\* What a delivery makes of a ledger.
Delivered(l, n, mint, destination, amount) ==
    /\ n.ok <=> l.ok /\ Deliverable(l, mint, amount)
    /\ \A m \in Mints :
         n.supply[m] = l.supply[m]
           + Part(m = mint /\ program_controls_mint(mint), amount)
    /\ \A o \in Owners, m \in Mints :
         n.bal[o][m] = l.bal[o][m]
           + Part(m = mint /\ o = destination, amount)
           - Part(m = mint /\ o = OfferVault /\ ~program_controls_mint(mint), amount)

\* Minting and paying out of the vault amount to that.
LEMMA DeliverSpec ==
  ASSUME GP!Inv, state.boss # NoKey, NEW l, Consistent(l), NEW mint \in Mints,
         NEW destination \in Owners, NEW amount \in Nat
  PROVE  /\ Consistent(DeliverTokenOut(l, mint, destination, amount))
         /\ Delivered(l, DeliverTokenOut(l, mint, destination, amount), mint,
                      destination, amount)
<1> DEFINE n == DeliverTokenOut(l, mint, destination, amount)
<1>0. /\ OfferVault \in Owners /\ state.max_supply \in Nat
      /\ amount \in Int /\ state.max_supply \in Int /\ l \in RawLedger
  BY Parties DEF Consistent
<1>A. SUFFICES Consistent(n) /\ Delivered(l, n, mint, destination, amount)
  OBVIOUS
<1>B. /\ \A o \in Owners, m \in Mints : l.bal[o][m] \in Int
      /\ \A m \in Mints : l.supply[m] \in Int
  BY <1>0 DEF RawLedger
<1>1. CASE program_controls_mint(mint)
  <2> DEFINE minted == mint_tokens(l, mint, destination, amount, state.max_supply)
  <2>1. n = minted
    BY <1>1 DEF DeliverTokenOut
  <2>2. Consistent(minted) /\ Minted(l, minted, mint, destination, amount, state.max_supply)
    BY <1>0, MintConsistent, MintSpec
  <2> HIDE DEF n, minted
  <2>3. n.ok <=> l.ok /\ Deliverable(l, mint, amount)
    BY <1>1, <2>1, <2>2 DEF Minted, Deliverable
  <2>4. \A m \in Mints : n.supply[m] = l.supply[m]
                            + Part(m = mint /\ program_controls_mint(mint), amount)
    BY <1>1, <2>1, <2>2 DEF Minted, Part
  <2>5. \A o \in Owners, m \in Mints :
          n.bal[o][m] = l.bal[o][m] + Part(m = mint /\ o = destination, amount)
            - Part(m = mint /\ o = OfferVault /\ ~program_controls_mint(mint), amount)
    BY <1>0, <1>1, <1>B, <2>1, <2>2 DEF Minted, Part
  <2> QED BY <1>A, <2>1, <2>2, <2>3, <2>4, <2>5 DEF Delivered
<1>2. CASE ~program_controls_mint(mint)
  <2> DEFINE moved == transfer_tokens(l, mint, OfferVault, destination, amount)
  <2>1. n = moved
    BY <1>2 DEF DeliverTokenOut
  <2>2. Consistent(moved) /\ Moved(l, moved, mint, OfferVault, destination, amount)
    BY <1>0, TransferConsistent, TransferSpec
  <2> HIDE DEF n, moved
  <2>3. n.ok <=> l.ok /\ Deliverable(l, mint, amount)
    BY <1>2, <2>1, <2>2 DEF Moved, Deliverable
  <2>4. \A m \in Mints : n.supply[m] = l.supply[m]
                            + Part(m = mint /\ program_controls_mint(mint), amount)
    BY <1>2, <1>B, <2>1, <2>2 DEF Moved, Part
  <2>5. \A o \in Owners, m \in Mints :
          n.bal[o][m] = l.bal[o][m] + Part(m = mint /\ o = destination, amount)
            - Part(m = mint /\ o = OfferVault /\ ~program_controls_mint(mint), amount)
    BY <1>0, <1>2, <1>B, <2>1, <2>2 DEF Moved, Part
  <2> QED BY <1>A, <2>1, <2>2, <2>3, <2>4, <2>5 DEF Delivered
<1> QED BY <1>1, <1>2

\* What a trade makes of a ledger, mint by mint, and when it succeeds.
Executed(l, n, pair, source, destination, result) ==
    /\ n \in RawLedger
    /\ n.ok <=> /\ l.ok
                /\ l.bal[source][pair[1]] >= result.net + result.fee
                /\ Deliverable(l, pair[2], result.out)
    /\ n.supply[pair[1]]
         = l.supply[pair[1]] - Part(program_controls_mint(pair[1]), result.net)
    /\ n.supply[pair[2]]
         = l.supply[pair[2]] + Part(program_controls_mint(pair[2]), result.out)
    /\ \A o \in Owners :
         /\ n.bal[o][pair[1]] = l.bal[o][pair[1]]
              - Part(o = source, result.net + result.fee)
              + Part(o = state.boss, Kept(pair[1], result))
         /\ n.bal[o][pair[2]] = l.bal[o][pair[2]]
              + Part(o = destination, result.out)
              - Part(o = OfferVault /\ ~program_controls_mint(pair[2]), result.out)
    /\ \A m \in Mints \ {pair[1], pair[2]} :
         /\ n.supply[m] = l.supply[m]
         /\ \A o \in Owners : n.bal[o][m] = l.bal[o][m]

\* execute_token_operations: the two legs do not disturb each other, so what
\* the delivery needs can be read off before the payment.
LEMMA ExecuteSpec ==
  ASSUME GP!Inv, state.boss # NoKey, NEW l, Consistent(l), NEW p \in Pairs,
         NEW source \in Owners \ {OfferVault}, NEW destination \in Owners, NEW result,
         result.net \in Nat, result.fee \in Nat, result.out \in Nat
  PROVE  LET n == execute_token_operations(l, p, source, destination, result)
         IN  Consistent(n) /\ Executed(l, n, p, source, destination, result)
<1> DEFINE paid == CollectTokenIn(l, p[1], source, result)
           n == execute_token_operations(l, p, source, destination, result)
<1>1. p[1] \in Mints /\ p[2] \in Mints /\ p[1] # p[2]
  BY PairMints
<1>2. Consistent(paid) /\ Paid(l, paid, p[1], source, result)
  BY <1>1, CollectSpec
<1>3. n = DeliverTokenOut(paid, p[2], destination, result.out)
  BY DEF execute_token_operations
<1> HIDE DEF paid, n
<1>4. Consistent(n) /\ Delivered(paid, n, p[2], destination, result.out)
  BY <1>1, <1>2, <1>3, DeliverSpec
<1>5. /\ l \in RawLedger /\ paid \in RawLedger /\ n \in RawLedger
      /\ OfferVault \in Owners /\ Kept(p[1], result) \in Int
      /\ result.net + result.fee \in Int
  BY <1>2, <1>4, Parties DEF Consistent, Kept
<1>6. /\ \A o \in Owners, m \in Mints :
           l.bal[o][m] \in Int /\ paid.bal[o][m] \in Int /\ n.bal[o][m] \in Int
      /\ \A m \in Mints : l.supply[m] \in Int /\ paid.supply[m] \in Int
  BY <1>5 DEF RawLedger
<1>7. \A m \in Mints \ {p[1]} :
        /\ paid.supply[m] = l.supply[m]
        /\ \A o \in Owners : paid.bal[o][m] = l.bal[o][m]
  BY <1>2, <1>5, <1>6 DEF Paid, Part
<1>8. \A m \in Mints \ {p[2]} :
        /\ n.supply[m] = paid.supply[m]
        /\ \A o \in Owners : n.bal[o][m] = paid.bal[o][m]
  BY <1>4, <1>5, <1>6 DEF Delivered, Part
<1>9. n.ok <=> /\ l.ok
               /\ l.bal[source][p[1]] >= result.net + result.fee
               /\ Deliverable(l, p[2], result.out)
  <2>1. Deliverable(paid, p[2], result.out) <=> Deliverable(l, p[2], result.out)
    BY <1>1, <1>5, <1>7 DEF Deliverable
  <2> QED BY <1>2, <1>4, <2>1 DEF Paid, Delivered
<1>10. n.supply[p[1]] = l.supply[p[1]] - Part(program_controls_mint(p[1]), result.net)
  BY <1>1, <1>2, <1>8 DEF Paid, Part
<1>11. n.supply[p[2]] = l.supply[p[2]] + Part(program_controls_mint(p[2]), result.out)
  BY <1>1, <1>4, <1>7 DEF Delivered, Part
<1>12. ASSUME NEW o \in Owners
       PROVE  /\ n.bal[o][p[1]] = l.bal[o][p[1]]
                   - Part(o = source, result.net + result.fee)
                   + Part(o = state.boss, Kept(p[1], result))
              /\ n.bal[o][p[2]] = l.bal[o][p[2]]
                   + Part(o = destination, result.out)
                   - Part(o = OfferVault /\ ~program_controls_mint(p[2]), result.out)
  <2>1. paid.bal[o][p[1]] = l.bal[o][p[1]]
          - Part(o = source, result.net + result.fee)
          + Part(o = state.boss, Kept(p[1], result))
    BY <1>1, <1>2 DEF Paid, Part
  <2>2. n.bal[o][p[2]] = paid.bal[o][p[2]]
          + Part(o = destination, result.out)
          - Part(o = OfferVault /\ ~program_controls_mint(p[2]), result.out)
    BY <1>1, <1>4 DEF Delivered, Part
  <2> QED BY <1>1, <1>7, <1>8, <2>1, <2>2
<1>13. Executed(l, n, p, source, destination, result)
  BY <1>1, <1>5, <1>7, <1>8, <1>9, <1>10, <1>11, <1>12 DEF Executed
<1> QED BY <1>4, <1>13 DEF n
-----------------------------------------------------------------------------
(***************************************************************************)
(* The steps                                                               *)
(***************************************************************************)

\* What a direct trade makes of the ledger.
LEMMA DirectTrade ==
  ASSUME Inv, NEW k \in Users, NEW p \in Pairs, NEW amount \in Amounts,
         NEW approval, take_offer(k, p, amount, approval)
  PROVE  LET result == process_offer_core(p, amount)
         IN  /\ state.boss # NoKey
             /\ result.net \in Nat /\ result.fee \in Nat /\ result.out \in Nat
             /\ result.net + result.fee = amount
             /\ Sound(ledger')
             /\ Executed(ledger, ledger', p, k, k, result)
<1> DEFINE result == process_offer_core(p, amount)
           n == execute_token_operations(ledger, p, k, k, result)
<1>1. state.boss # NoKey /\ result.ok /\ n.ok /\ ledger' = n
  BY DEF take_offer, TakeOffer, Running, Commit
<1>2. /\ result.net \in Nat /\ result.fee \in Nat /\ result.out \in Nat
      /\ result.net + result.fee = amount
  BY <1>1, ResultTyped DEF Inv
<1>3. k \in Owners \ {OfferVault} /\ k \in Owners /\ Consistent(ledger) /\ GP!Inv
  BY <1>1, Parties, SoundIsConsistent DEF Inv
<1> HIDE DEF result
<1>4. Consistent(n) /\ Executed(ledger, n, p, k, k, result)
  BY <1>1, <1>2, <1>3, ExecuteSpec
<1>5. Sound(n)
  BY <1>1, <1>4 DEF Consistent
<1> HIDE DEF n
<1> QED BY <1>1, <1>2, <1>4, <1>5 DEF result

\* A permissionless trade leaves the ledger that the direct one leaves, and
\* succeeds only if the direct one does.
LEMMA PermissionlessTrade ==
  ASSUME Inv, NEW k \in Users, NEW p \in Pairs, NEW amount \in Amounts,
         NEW approval, take_offer_permissionless(k, p, amount, approval)
  PROVE  take_offer(k, p, amount, approval)
<1> DEFINE result == process_offer_core(p, amount)
           routed == transfer_tokens(ledger, p[1], k, Intermediary, amount)
           traded == execute_token_operations(routed, p, Intermediary, Intermediary, result)
           final  == transfer_tokens(traded, p[2], Intermediary, k, result.out)
           direct == execute_token_operations(ledger, p, k, k, result)
<1>1. /\ state.boss # NoKey /\ result.ok /\ final.ok /\ ledger' = final
      /\ TakeOffer(p) /\ verify_offer_approval(offers[p], k, approval)
      /\ UNCHANGED <<authority, offers, price, now>>
  BY DEF take_offer_permissionless, TakeOfferPermissionless, TakeOffer, Running, Commit
<1>2. /\ amount \in Nat
      /\ result.net \in Nat /\ result.fee \in Nat /\ result.out \in Nat
      /\ result.net + result.fee = amount
  BY <1>1, ResultTyped DEF Inv
<1>3. /\ k \in Owners \ {OfferVault} /\ k \in Owners /\ k # Intermediary
      /\ Intermediary \in Owners \ {OfferVault} /\ Intermediary \in Owners
      /\ OfferVault \in Owners
      /\ Consistent(ledger) /\ ledger \in RawLedger /\ ledger.ok /\ GP!Inv
  BY <1>1, Parties, SoundIsConsistent DEF Inv, Consistent, Sound
<1>4. p[1] \in Mints /\ p[2] \in Mints /\ p[1] # p[2]
  BY PairMints
<1> HIDE DEF result
<1>5. Consistent(routed) /\ Moved(ledger, routed, p[1], k, Intermediary, amount)
  BY <1>2, <1>3, <1>4, TransferConsistent, TransferSpec
<1>6. Consistent(direct) /\ Executed(ledger, direct, p, k, k, result)
  BY <1>1, <1>2, <1>3, ExecuteSpec
<1> HIDE DEF routed, direct
<1>7. Consistent(traded) /\ Executed(routed, traded, p, Intermediary, Intermediary, result)
  BY <1>1, <1>2, <1>3, <1>5, ExecuteSpec
<1> HIDE DEF traded
<1>8. Moved(traded, final, p[2], Intermediary, k, result.out)
  BY <1>2, <1>3, <1>4, <1>7, TransferSpec DEF Consistent
<1> HIDE DEF final
<1>9. /\ \A o \in Owners, m \in Mints :
           /\ ledger.bal[o][m] \in Int /\ routed.bal[o][m] \in Int
           /\ traded.bal[o][m] \in Int /\ final.bal[o][m] \in Int
           /\ direct.bal[o][m] \in Int
      /\ Kept(p[1], result) \in Int
  <2>1. routed \in RawLedger /\ traded \in RawLedger /\ final \in RawLedger
        /\ direct \in RawLedger
    BY <1>5, <1>6, <1>7, <1>8 DEF Moved, Executed
  <2> QED BY <1>2, <1>3, <2>1 DEF RawLedger, Kept
<1>10. direct.ok
  <2>1. traded.ok /\ routed.ok
    BY <1>1, <1>7, <1>8 DEF Moved, Executed
  <2>2. ledger.bal[k][p[1]] >= result.net + result.fee
    BY <1>2, <1>5, <2>1 DEF Moved
  <2>3. Deliverable(routed, p[2], result.out) <=> Deliverable(ledger, p[2], result.out)
    <3>1. routed.supply = ledger.supply
          /\ routed.bal[OfferVault][p[2]] = ledger.bal[OfferVault][p[2]]
      BY <1>3, <1>4, <1>5, <1>9 DEF Moved, Part
    <3> QED BY <3>1 DEF Deliverable
  <2> QED BY <1>3, <1>6, <1>7, <2>1, <2>2, <2>3 DEF Executed
<1>11. ASSUME NEW m \in Mints PROVE final.supply[m] = direct.supply[m]
  <2>1. final.supply[m] = traded.supply[m] /\ routed.supply[m] = ledger.supply[m]
    BY <1>5, <1>8 DEF Moved
  <2>2. traded.supply[m] = direct.supply[m]
    BY <1>5, <1>6, <1>7, <2>1 DEF Executed, Moved
  <2> QED BY <2>1, <2>2
<1>12. ASSUME NEW o \in Owners, NEW m \in Mints PROVE final.bal[o][m] = direct.bal[o][m]
  <2>1. CASE m = p[1]
    <3>1. final.bal[o][m] = traded.bal[o][m]
      BY <1>4, <1>8, <1>9, <2>1 DEF Moved, Part
    <3>2. routed.bal[o][m] = ledger.bal[o][m] + Part(o = Intermediary, amount)
                                              - Part(o = k, amount)
      BY <1>5, <2>1 DEF Moved, Part
    <3> DEFINE kept == Part(o = state.boss, Kept(p[1], result))
    <3>3. /\ traded.bal[o][m] = routed.bal[o][m] - Part(o = Intermediary, amount) + kept
          /\ direct.bal[o][m] = ledger.bal[o][m] - Part(o = k, amount) + kept
      BY <1>2, <1>6, <1>7, <2>1 DEF Executed
    <3>4. kept \in Int
      BY <1>9 DEF Part
    <3> HIDE DEF kept
    <3> QED BY <1>2, <1>9, <3>1, <3>2, <3>3, <3>4 DEF Part
  <2>2. CASE m = p[2]
    <3>1. final.bal[o][m] = traded.bal[o][m] + Part(o = k, result.out)
                                             - Part(o = Intermediary, result.out)
      BY <1>8, <2>2 DEF Moved, Part
    <3>2. routed.bal[o][m] = ledger.bal[o][m]
      BY <1>4, <1>5, <1>9, <2>2 DEF Moved, Part
    <3> DEFINE given == Part(o = OfferVault /\ ~program_controls_mint(p[2]), result.out)
    <3>3. /\ traded.bal[o][m] = routed.bal[o][m] + Part(o = Intermediary, result.out) - given
          /\ direct.bal[o][m] = ledger.bal[o][m] + Part(o = k, result.out) - given
      BY <1>6, <1>7, <2>2 DEF Executed
    <3>4. given \in Int
      BY <1>2 DEF Part
    <3> HIDE DEF given
    <3> QED BY <1>2, <1>9, <3>1, <3>2, <3>3, <3>4 DEF Part
  <2>3. CASE m \notin {p[1], p[2]}
    <3>1. final.bal[o][m] = traded.bal[o][m] /\ routed.bal[o][m] = ledger.bal[o][m]
      BY <1>5, <1>8, <1>9, <2>3 DEF Moved, Part
    <3> QED BY <1>6, <1>7, <2>3, <3>1 DEF Executed
  <2> QED BY <2>1, <2>2, <2>3
<1>13. final = direct
  <2>1. final \in RawLedger /\ direct \in RawLedger
    BY <1>6, <1>8 DEF Moved, Executed
  <2> QED BY <1>1, <1>10, <1>11, <1>12, <2>1, LedgerEqual
<1> QED BY <1>1, <1>10, <1>13 DEF take_offer, Commit, direct, result

\* A deposit to the vault or a withdrawal moves tokens of the boss.
LEMMA VaultTransfer ==
  ASSUME Inv, NEW m \in Mints, NEW amount \in VaultAmounts,
         offer_vault_deposit(m, amount) \/ offer_vault_withdraw(m, amount)
  PROVE  /\ Sound(ledger')
         /\ ledger'.supply = ledger.supply
         /\ \A x \in Mints : ledger'.bal[Intermediary][x] = ledger.bal[Intermediary][x]
<1>1. PICK from \in {state.boss, OfferVault}, to \in {state.boss, OfferVault} :
        Commit(transfer_tokens(ledger, m, from, to, amount))
  BY DEF offer_vault_deposit, offer_vault_withdraw
<1>2. state.boss # NoKey
  BY DEF offer_vault_deposit, offer_vault_withdraw
<1>3. /\ from \in Owners /\ to \in Owners /\ Intermediary \in Owners
      /\ Intermediary \notin {from, to}
      /\ amount \in Nat /\ Consistent(ledger) /\ ledger \in RawLedger
  BY <1>2, Parties, SoundIsConsistent, ExchangeAssumption, WidthAssumption
     DEF Inv, Consistent, U64, U64_MAX
<1> DEFINE n == transfer_tokens(ledger, m, from, to, amount)
<1>4. n.ok /\ ledger' = n
  BY <1>1 DEF Commit
<1>5. Consistent(n) /\ Moved(ledger, n, m, from, to, amount)
  BY <1>3, TransferConsistent, TransferSpec
<1> HIDE DEF n
<1>6. \A x \in Mints : ledger.bal[Intermediary][x] \in Int
  BY <1>3 DEF RawLedger
<1> QED BY <1>3, <1>4, <1>5, <1>6 DEF Consistent, Moved, Part

\* The initial state satisfies the inductive invariant.
LEMMA InvInit == Init => Inv
<1> SUFFICES ASSUME Init PROVE Inv
  OBVIOUS
<1>1. GP!Inv
  BY GovernanceInit DEF Init
<1>2. Sound(ledger)
  BY InitialSound DEF Init
<1>3. AuthorityTyped
  BY AuthorityAssumption DEF Init, AuthorityTyped, Gov!GovernanceConstants
<1>4. MarketTyped
  BY ExchangeAssumption, MathAssumption DEF Init, MarketTyped, NoOffer, Offer
<1> QED BY <1>1, <1>2, <1>3, <1>4 DEF Inv

\* The steps of the market preserve the inductive invariant.
LEMMA ExchangeStepPreserves ==
  ASSUME Inv, ExchangeStep PROVE Sound(ledger') /\ AuthorityTyped' /\ MarketTyped'
<1>0. Sound(ledger) /\ AuthorityTyped /\ MarketTyped
  BY DEF Inv
<1>1. CASE OfferStep
  <2>1. ASSUME NEW p \in Pairs, NEW fee \in Fees, NEW approval \in BOOLEAN,
               NEW open \in BOOLEAN, make_offer(p, fee, approval, open)
        PROVE  Sound(ledger') /\ AuthorityTyped' /\ MarketTyped'
    <3>1. fee \in 0..MAX_BASIS_POINTS
      BY <2>1, ExchangeAssumption, MathAssumption DEF make_offer
    <3> QED BY <1>0, <2>1, <3>1 DEF make_offer, AuthorityTyped, MarketTyped, Offer
  <2>2. ASSUME NEW p \in Pairs, NEW fee \in Fees, update_offer_fee(p, fee)
        PROVE  Sound(ledger') /\ AuthorityTyped' /\ MarketTyped'
    <3>1. fee \in 0..MAX_BASIS_POINTS
      BY <2>2, ExchangeAssumption, MathAssumption DEF update_offer_fee
    <3> QED BY <1>0, <2>2, <3>1 DEF update_offer_fee, AuthorityTyped, MarketTyped, Offer
  <2> QED BY <1>1, <2>1, <2>2 DEF OfferStep
<1>2. ASSUME NEW k \in Users, NEW p \in Pairs, NEW amount \in Amounts, NEW approval,
             take_offer(k, p, amount, approval)
      PROVE  Sound(ledger') /\ AuthorityTyped' /\ MarketTyped'
  <2>1. Sound(ledger')
    BY <1>2, DirectTrade
  <2> QED BY <1>0, <1>2, <2>1 DEF take_offer, AuthorityTyped, MarketTyped
<1>3. CASE Take
  BY <1>2, <1>3 DEF Take
<1>4. CASE TakePermissionless
  BY <1>2, <1>4, PermissionlessTrade DEF TakePermissionless
<1>5. CASE VaultStep
  <2>1. PICK m \in Mints, amount \in VaultAmounts :
          offer_vault_deposit(m, amount) \/ offer_vault_withdraw(m, amount)
    BY <1>5 DEF VaultStep
  <2>2. Sound(ledger')
    BY <2>1, VaultTransfer
  <2> QED BY <1>0, <2>1, <2>2
          DEF offer_vault_deposit, offer_vault_withdraw, AuthorityTyped, MarketTyped
<1>6. CASE Reprice
  BY <1>0, <1>6 DEF Reprice, PriceMoves, AuthorityTyped, MarketTyped
<1>7. CASE Tick
  BY <1>0, <1>7, ExchangeAssumption DEF Tick, AuthorityTyped, MarketTyped
<1> QED BY <1>1, <1>3, <1>4, <1>5, <1>6, <1>7 DEF ExchangeStep

\* Every step preserves the inductive invariant.
LEMMA InvNext == Inv /\ [Next]_vars => Inv'
<1> SUFFICES ASSUME Inv, [Next]_vars PROVE Inv'
  OBVIOUS
<1>0. GP!Inv /\ Sound(ledger) /\ AuthorityTyped /\ MarketTyped
  BY DEF Inv
<1>1. CASE ExchangeStep /\ UNCHANGED govVars
  BY <1>0, <1>1, ExchangeStepPreserves, GovernanceNext DEF Inv
<1>2. CASE MintAuthorityStep /\ UNCHANGED <<govVars, offers, price, now>>
  <2>1. Sound(ledger') /\ AuthorityTyped'
    BY <1>0, <1>2, MintAuthorityPreserves
  <2>2. GP!Inv'
    BY <1>0, <1>2, GovernanceNext
  <2>3. MarketTyped'
    BY <1>0, <1>2 DEF MarketTyped
  <2> QED BY <2>1, <2>2, <2>3 DEF Inv
<1>3. CASE \/ Gov!Next /\ UNCHANGED <<ledger, authority, offers, price, now>>
           \/ UNCHANGED vars
  <2>1. GP!Inv'
    BY <1>0, <1>3, GovernanceNext DEF vars
  <2>2. UNCHANGED <<ledger, authority, offers, price, now>>
    BY <1>3 DEF vars
  <2>3. Sound(ledger') /\ AuthorityTyped' /\ MarketTyped'
    BY <1>0, <2>2 DEF AuthorityTyped, MarketTyped
  <2> QED BY <2>1, <2>3 DEF Inv
<1> QED BY <1>1, <1>2, <1>3 DEF Next
-----------------------------------------------------------------------------
\* A step changes the ledger by a direct trade or one that leaves the same
\* ledger, by a transfer between boss and vault, or by an instruction about
\* mints.
LEMMA LedgerSteps ==
  ASSUME Inv, [Next]_vars
  PROVE  \/ \E k \in Users, p \in Pairs, amount \in Amounts, approval \in ApprovalOptions :
              take_offer(k, p, amount, approval)
         \/ \E m \in Mints, amount \in VaultAmounts :
              offer_vault_deposit(m, amount) \/ offer_vault_withdraw(m, amount)
         \/ MintAuthorityStep
         \/ UNCHANGED ledger
<1>1. CASE ExchangeStep
  <2>1. CASE OfferStep \/ Reprice \/ Tick
    BY <2>1 DEF OfferStep, Reprice, Tick, make_offer, update_offer_fee, PriceMoves
  <2>2. CASE Take \/ TakePermissionless
    BY <2>2, PermissionlessTrade DEF Take, TakePermissionless
  <2>3. CASE VaultStep
    BY <2>3 DEF VaultStep
  <2> QED BY <1>1, <2>1, <2>2, <2>3 DEF ExchangeStep
<1>2. CASE UNCHANGED vars
  BY <1>2 DEF vars
<1> QED BY <1>1, <1>2 DEF Next

\* The inductive invariant holds throughout.
LEMMA MarketInvariant == Spec => []Inv
<1> QED BY InvInit, InvNext, PTL DEF Spec

\* Every account of the market has its type, and no balance or supply is
\* negative: transfer_tokens, burn_tokens and mint_tokens fail instead.
THEOREM ExchangeTypeCorrect == Spec => []TypeOK
<1>1. Inv => TypeOK
  BY GovernanceTyped DEF Inv, TypeOK, Sound, AuthorityTyped, MarketTyped
<1> QED BY <1>1, MarketInvariant, PTL

\* The supply of every mint is what its holders hold together, through every
\* burn by way of the vault and every trade routed by the intermediary.
THEOREM SupplyIsAlwaysHeld == Spec => []SupplyIsHeld
<1>1. Inv => SupplyIsHeld
  BY DEF Inv, Sound, SupplyIsHeld
<1> QED BY <1>1, MarketInvariant, PTL

\* take_offer_permissionless grants nothing that take_offer would refuse: each
\* of its steps is one that take_offer could have made with the same
\* arguments.
THEOREM PermissionlessTradesAreDirect == Spec => PermissionlessIsDirect
<1>1. Inv /\ [Next]_vars
        => [ ledger' # ledger =>
               \A k \in Users, p \in Pairs, amount \in Amounts,
                  approval \in ApprovalOptions :
                   take_offer_permissionless(k, p, amount, approval)
                       => take_offer(k, p, amount, approval) ]_vars
  BY PermissionlessTrade
<1> QED BY <1>1, MarketInvariant, PTL DEF Spec, PermissionlessIsDirect

\* The payment of take_offer is counted once: the user pays the amount, the
\* boss's gain and the burn add up to it, and the vault is left as it was.
THEOREM PaymentsCountOnce == Spec => PaymentCountsOnce
<1>1. ASSUME Inv, NEW k \in Users \ {state.boss}, NEW p \in Pairs,
             NEW amount \in Amounts, NEW approval, take_offer(k, p, amount, approval)
      PROVE  LET m     == p[1]
                 gain  == ledger'.bal[state.boss][m] - ledger.bal[state.boss][m]
                 burnt == ledger.supply[m] - ledger'.supply[m]
             IN  /\ ledger'.bal[k][m] = ledger.bal[k][m] - amount
                 /\ gain + burnt = amount
                 /\ ledger'.bal[OfferVault][m] = ledger.bal[OfferVault][m]
  <2> DEFINE result == process_offer_core(p, amount)
  <2>1. /\ state.boss # NoKey
        /\ result.net \in Nat /\ result.fee \in Nat
        /\ result.net + result.fee = amount
        /\ Executed(ledger, ledger', p, k, k, result)
    BY <1>1, DirectTrade
  <2> HIDE DEF result
  <2>2. /\ state.boss \in Owners /\ OfferVault \in Owners /\ k \in Owners
        /\ OfferVault \notin {k, state.boss} /\ k # state.boss
    BY <1>1, <2>1, Parties DEF Inv
  <2>3. /\ p[1] \in Mints
        /\ \A o \in Owners : ledger.bal[o][p[1]] \in Int
        /\ ledger.supply[p[1]] \in Int
    BY <1>1, PairMints, SoundIsConsistent DEF Inv
  <2>4. /\ ledger'.bal[k][p[1]] = ledger.bal[k][p[1]] - amount
        /\ ledger'.bal[OfferVault][p[1]] = ledger.bal[OfferVault][p[1]]
        /\ ledger'.bal[state.boss][p[1]] = ledger.bal[state.boss][p[1]] + Kept(p[1], result)
        /\ ledger'.supply[p[1]]
             = ledger.supply[p[1]] - Part(program_controls_mint(p[1]), result.net)
        /\ Kept(p[1], result) + Part(program_controls_mint(p[1]), result.net) = amount
        /\ Kept(p[1], result) \in Int
        /\ Part(program_controls_mint(p[1]), result.net) \in Int
    BY <2>1, <2>2, <2>3 DEF Executed, Part, Kept
  <2> QED BY <2>2, <2>3, <2>4
<1>2. Inv /\ [Next]_vars
        => [ ledger' # ledger =>
          \A k \in Users \ {state.boss}, p \in Pairs, amount \in Amounts,
             approval \in ApprovalOptions :
            take_offer(k, p, amount, approval) =>
              LET m     == p[1]
                  gain  == ledger'.bal[state.boss][m] - ledger.bal[state.boss][m]
                  burnt == ledger.supply[m] - ledger'.supply[m]
              IN  /\ ledger'.bal[k][m] = ledger.bal[k][m] - amount
                  /\ gain + burnt = amount
                  /\ ledger'.bal[OfferVault][m] = ledger.bal[OfferVault][m] ]_vars
  BY <1>1
<1> QED BY <1>2, MarketInvariant, PTL DEF Spec, PaymentCountsOnce

\* No step leaves anything with the intermediary that it did not have.
THEOREM IntermediaryIsPassedThrough == Spec => IntermediaryKeepsNothing
<1>1. ASSUME Inv, [Next]_vars PROVE ledger'.bal[Intermediary] = ledger.bal[Intermediary]
  <2>1. /\ Intermediary \in Owners /\ Intermediary \notin Keys
        /\ Intermediary # OfferVault
        /\ \A m \in Mints : ledger.bal[Intermediary][m] \in Int
        /\ ledger.bal[Intermediary] \in [Mints -> Nat]
        /\ ledger'.bal[Intermediary] \in [Mints -> Nat]
    <3>1. Sound(ledger) /\ Sound(ledger')
      BY <1>1, InvNext DEF Inv
    <3> QED BY <3>1, SoundIsConsistent, ExchangeAssumption
  <2>2. SUFFICES \A m \in Mints : ledger'.bal[Intermediary][m] = ledger.bal[Intermediary][m]
    BY <2>1
  <2>3. ASSUME NEW k \in Users, NEW p \in Pairs, NEW amount \in Amounts,
               NEW approval \in ApprovalOptions, take_offer(k, p, amount, approval)
        PROVE  \A m \in Mints : ledger'.bal[Intermediary][m] = ledger.bal[Intermediary][m]
    <3>1. /\ Executed(ledger, ledger', p, k, k, process_offer_core(p, amount))
          /\ state.boss # NoKey
      BY <1>1, <2>3, DirectTrade
    <3>2. Intermediary \notin {k, state.boss, OfferVault}
      BY <1>1, <3>1, Parties DEF Inv
    <3>3. p[1] \in Mints /\ p[2] \in Mints
      BY PairMints
    <3> QED BY <2>1, <3>1, <3>2, <3>3 DEF Executed, Part
  <2>4. CASE \E m \in Mints, amount \in VaultAmounts :
               offer_vault_deposit(m, amount) \/ offer_vault_withdraw(m, amount)
    BY <1>1, <2>4, VaultTransfer
  <2>5. CASE MintAuthorityStep
    <3>1. state.boss # Intermediary
      <4>1. state.boss # NoKey
        BY <2>5 DEF MintAuthorityStep, transfer_mint_authority_to_boss,
                    transfer_mint_authority_to_program, mint_to
      <4> QED BY <1>1, <4>1, Parties DEF Inv
    <3> QED BY <1>1, <2>1, <2>5, <3>1, MintAuthorityEffect DEF Inv
  <2> QED BY <1>1, <2>3, <2>4, <2>5, LedgerSteps
<1>2. Inv /\ [Next]_vars => [ledger'.bal[Intermediary] = ledger.bal[Intermediary]]_vars
  BY <1>1
<1> QED BY <1>2, MarketInvariant, PTL DEF Spec, IntermediaryKeepsNothing

\* No instruction mints a supply past the cap that the boss has configured.
THEOREM SupplyCapIsKept == Spec => SupplyCapHolds
<1>1. ASSUME Inv, [Next]_vars, NEW m \in Mints
      PROVE  ledger'.supply[m] > ledger.supply[m] /\ state.max_supply > 0
               => ledger'.supply[m] <= state.max_supply
  <2>1. /\ ledger.supply[m] \in Int /\ state.max_supply \in Int
    BY <1>1, SoundIsConsistent, GovernanceTyped DEF Inv
  <2>2. ASSUME NEW k \in Users, NEW p \in Pairs, NEW amount \in Amounts,
               NEW approval \in ApprovalOptions, take_offer(k, p, amount, approval)
        PROVE  ledger'.supply[m] > ledger.supply[m] /\ state.max_supply > 0
                 => ledger'.supply[m] <= state.max_supply
    <3> DEFINE result == process_offer_core(p, amount)
    <3>1. /\ Executed(ledger, ledger', p, k, k, result)
          /\ result.net \in Nat /\ result.out \in Nat /\ Sound(ledger')
      BY <1>1, <2>2, DirectTrade
    <3> HIDE DEF result
    <3>2. Deliverable(ledger, p[2], result.out)
      BY <3>1 DEF Executed, Sound
    <3>3. p[1] \in Mints /\ p[2] \in Mints /\ p[1] # p[2]
      BY PairMints
    <3>4. CASE m = p[1]
      BY <2>1, <3>1, <3>4 DEF Executed, Part
    <3>5. CASE m = p[2]
      BY <2>1, <3>1, <3>2, <3>5 DEF Executed, Part, Deliverable
    <3>6. CASE m \notin {p[1], p[2]}
      BY <2>1, <3>1, <3>6 DEF Executed
    <3> QED BY <3>4, <3>5, <3>6
  <2>3. CASE \E x \in Mints, amount \in VaultAmounts :
               offer_vault_deposit(x, amount) \/ offer_vault_withdraw(x, amount)
    BY <1>1, <2>1, <2>3, VaultTransfer
  <2>4. CASE MintAuthorityStep
    BY <1>1, <2>4, MintAuthorityEffect DEF Inv
  <2> QED BY <1>1, <2>1, <2>2, <2>3, <2>4, LedgerSteps
<1>2. Inv /\ [Next]_vars
        => [ \A m \in Mints :
               ledger'.supply[m] > ledger.supply[m] /\ state.max_supply > 0
                 => ledger'.supply[m] <= state.max_supply ]_vars
  BY <1>1
<1> QED BY <1>2, MarketInvariant, PTL DEF Spec, SupplyCapHolds
=============================================================================
