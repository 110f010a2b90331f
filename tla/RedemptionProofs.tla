-------------------------- MODULE RedemptionProofs --------------------------
(***************************************************************************)
(* The redemption queue for any number of offers, users and requests.  The *)
(* inductive invariant types the accounts, bounds every open request's     *)
(* number by its offer's counter, which makes the numbers unique, keeps    *)
(* the ledger sound, and holds the books of offers and of the shared vault *)
(* to the total of the open requests.  A total is the number of single     *)
(* tokens, so that opening or closing a request adds or removes as many.   *)
(***************************************************************************)
EXTENDS Redemption, TokenProofs

\* The accounts of the redemption queue have their types.
BookTyped ==
    /\ redemption_offers \in [Pairs -> RedemptionOffer]
    /\ requests \subseteq RedemptionRequest

\* An offer and a number identify an open request.
IdsDistinct ==
    \A r, s \in requests : r.pair = s.pair /\ r.request_id = s.request_id => r = s

\* An open request belongs to an offer that was made: no instruction closes
\* an offer, so make_redemption_offer never resets a counter in use.
OpenImpliesMade == \A r \in requests : redemption_offers[r.pair].made

BookInv == BookTyped /\ NextIdIsFree /\ IdsDistinct /\ OpenImpliesMade

\* The steps that leave offers and requests alone.
BookUnchanged == UNCHANGED <<redemption_offers, requests>>
-----------------------------------------------------------------------------
\* The widths are positive.
LEMMA Widths == U64_MAX \in Nat /\ U128_MAX \in Nat /\ U64 = 0..U64_MAX
<1>1. U64_MAX \in Nat
  BY WidthAssumption DEF U64_MAX
<1>2. (U64_MAX + 1) * (U64_MAX + 1) \in Nat \ {0}
  BY <1>1
<1> QED BY <1>1, <1>2 DEF U128_MAX, U64

\* The initial state satisfies the inductive invariant.
LEMMA BookInit == Init => BookInv
<1> SUFFICES ASSUME Init PROVE BookInv
  OBVIOUS
<1>1. NoOffer \in RedemptionOffer
  BY Widths, MathAssumption DEF NoOffer, RedemptionOffer
<1> QED BY <1>1 DEF Init, BookInv, BookTyped, NextIdIsFree, IdsDistinct, OpenImpliesMade

\* Creating a request takes the next number and advances the counter.
LEMMA CreatePreserves ==
  ASSUME BookInv, NEW k \in Redeemers, NEW p \in Pairs, NEW amount \in Amounts,
         create_redemption_request(k, p, amount)
  PROVE  BookInv'
<1> DEFINE new == [pair |-> p, request_id |-> redemption_offers[p].request_counter,
                   redeemer |-> k, amount |-> amount]
<1>1. /\ redemption_offers \in [Pairs -> RedemptionOffer]
      /\ requests \subseteq RedemptionRequest
      /\ redemption_offers[p] \in RedemptionOffer
  BY DEF BookInv, BookTyped
<1>2. /\ requests' = requests \cup {new}
      /\ redemption_offers[p].made
      /\ redemption_offers[p].request_counter < MAX_REQUESTS
      /\ redemption_offers[p].requested_redemptions + amount <= U128_MAX
      /\ redemption_offers' = [redemption_offers EXCEPT
             ![p].requested_redemptions = @ + amount,
             ![p].request_counter = @ + 1]
  BY DEF create_redemption_request, MayCreate
<1>3. /\ amount \in U64 /\ amount \in Nat
      /\ MAX_REQUESTS \in 0..U64_MAX
  BY RedemptionAssumption, Widths
<1>4. new \in RedemptionRequest
  BY <1>1, <1>3 DEF RedemptionOffer, RedemptionRequest
<1>5. /\ redemption_offers'[p].request_counter = redemption_offers[p].request_counter + 1
      /\ redemption_offers'[p].made = redemption_offers[p].made
      /\ redemption_offers'[p] \in RedemptionOffer
      /\ \A q \in Pairs \ {p} : redemption_offers'[q] = redemption_offers[q]
      /\ redemption_offers' \in [Pairs -> RedemptionOffer]
  BY <1>1, <1>2, <1>3, Widths DEF RedemptionOffer
<1>6. BookTyped'
  BY <1>1, <1>2, <1>4, <1>5 DEF BookTyped
<1>7. redemption_offers[p].request_counter \in Nat
  BY <1>1 DEF RedemptionOffer
<1>8. NextIdIsFree'
  <2> SUFFICES ASSUME NEW r \in requests'
               PROVE  r.request_id < redemption_offers'[r.pair].request_counter
    BY DEF NextIdIsFree
  <2>1. CASE r = new
    BY <1>5, <1>7, <2>1
  <2>2. CASE r \in requests
    <3>1. r.pair \in Pairs /\ r.request_id \in Nat
      BY <1>1, <2>2 DEF RedemptionRequest
    <3>2. r.request_id < redemption_offers[r.pair].request_counter
      BY <2>2 DEF BookInv, NextIdIsFree
    <3>3. CASE r.pair = p
      BY <1>5, <1>7, <3>1, <3>2, <3>3
    <3>4. CASE r.pair # p
      BY <1>5, <3>1, <3>2, <3>4
    <3> QED BY <3>3, <3>4
  <2> QED BY <1>2, <2>1, <2>2
<1>9. IdsDistinct'
  <2> SUFFICES ASSUME NEW r \in requests', NEW s \in requests',
                      r.pair = s.pair, r.request_id = s.request_id
               PROVE  r = s
    BY DEF IdsDistinct
  <2>1. \A x \in requests : x.pair = p
          => x.request_id < redemption_offers[p].request_counter /\ x.request_id \in Nat
    BY <1>1 DEF BookInv, NextIdIsFree, RedemptionRequest
  <2>2. new.pair = p /\ new.request_id = redemption_offers[p].request_counter
    OBVIOUS
  <2>3. CASE r \in requests /\ s \in requests
    BY <2>3 DEF BookInv, IdsDistinct
  <2> HIDE DEF new
  <2>4. CASE r = new /\ s \in requests
    BY <1>7, <2>1, <2>2, <2>4
  <2>5. CASE s = new /\ r \in requests
    BY <1>7, <2>1, <2>2, <2>5
  <2> QED BY <1>2, <2>3, <2>4, <2>5
<1>10. OpenImpliesMade'
  <2>1. \A r \in requests : r.pair \in Pairs /\ redemption_offers[r.pair].made
    BY <1>1 DEF BookInv, OpenImpliesMade, RedemptionRequest
  <2>2. new.pair = p
    OBVIOUS
  <2> HIDE DEF new
  <2> QED BY <1>2, <1>5, <2>1, <2>2 DEF OpenImpliesMade
<1> QED BY <1>6, <1>8, <1>9, <1>10 DEF BookInv

\* Closing a request, or changing an offer's fee or totals, leaves the
\* counters alone.
LEMMA ClosePreserves ==
  ASSUME BookInv, requests' \subseteq requests,
         redemption_offers' \in [Pairs -> RedemptionOffer],
         \A p \in Pairs :
             /\ redemption_offers'[p].request_counter
                  = redemption_offers[p].request_counter
             /\ redemption_offers'[p].made = redemption_offers[p].made
  PROVE  BookInv'
<1>1. BookTyped' /\ IdsDistinct'
  BY DEF BookInv, BookTyped, IdsDistinct
<1>2. \A s \in requests : s.pair \in Pairs
  BY DEF BookInv, BookTyped, RedemptionRequest
<1>3. NextIdIsFree'
  BY <1>2 DEF BookInv, NextIdIsFree
<1>4. OpenImpliesMade'
  BY <1>2 DEF BookInv, OpenImpliesMade
<1> QED BY <1>1, <1>3, <1>4 DEF BookInv

\* Moving an amount out of the pending total, and into the executed one,
\* keeps an offer's type, its counter and its existence.
LEMMA TotalsTyped ==
  ASSUME NEW old \in RedemptionOffer, NEW executed \in 0..U128_MAX,
         NEW requested \in 0..U128_MAX
  PROVE  LET new == [old EXCEPT !.executed_redemptions = executed,
                                !.requested_redemptions = requested]
         IN  /\ new \in RedemptionOffer
             /\ new.request_counter = old.request_counter
             /\ new.made = old.made
<1> DEFINE mid == [old EXCEPT !.executed_redemptions = executed]
           new == [mid EXCEPT !.requested_redemptions = requested]
<1>1. /\ mid \in RedemptionOffer
      /\ mid.request_counter = old.request_counter
      /\ mid.made = old.made
  BY DEF RedemptionOffer
<1> HIDE DEF mid
<1>2. /\ new \in RedemptionOffer
      /\ new.request_counter = mid.request_counter
      /\ new.made = mid.made
  BY <1>1 DEF RedemptionOffer
<1> QED BY <1>1, <1>2 DEF mid

\* The steps of the redemption component preserve the inductive invariant.
LEMMA RedemptionStepPreserves ==
  ASSUME BookInv, RedemptionStep PROVE BookInv'
<1>0. /\ redemption_offers \in [Pairs -> RedemptionOffer]
      /\ requests \subseteq RedemptionRequest
      /\ \A r \in requests : /\ r.pair \in Pairs
                             /\ r.amount \in Nat
  BY Widths DEF BookInv, BookTyped, RedemptionRequest
<1>U. ASSUME BookUnchanged PROVE BookInv'
  BY <1>U DEF BookUnchanged, BookInv, BookTyped, NextIdIsFree, IdsDistinct, OpenImpliesMade
<1>1. ASSUME NEW k \in Keys, NEW p \in Pairs, NEW fee \in Fees,
             make_redemption_offer(k, p, fee)
      PROVE  BookInv'
  <2> DEFINE offer == [NoOffer EXCEPT !.made = TRUE, !.fee_basis_points = fee]
  <2>1. /\ redemption_offers' = [redemption_offers EXCEPT ![p] = offer]
        /\ requests' = requests
        /\ fee <= MAX_ALLOWED_FEE_BPS
        /\ ~redemption_offers[p].made
    BY <1>1 DEF make_redemption_offer
  <2>2. fee \in 0..MAX_ALLOWED_FEE_BPS
    BY <2>1, RedemptionAssumption, MathAssumption
  <2>3. offer \in RedemptionOffer
    <3> DEFINE mid == [NoOffer EXCEPT !.made = TRUE]
    <3>1. NoOffer \in RedemptionOffer
      BY Widths, MathAssumption DEF NoOffer, RedemptionOffer
    <3>2. mid \in RedemptionOffer
      BY <3>1 DEF RedemptionOffer
    <3> HIDE DEF mid
    <3>3. [mid EXCEPT !.fee_basis_points = fee] \in RedemptionOffer
      BY <2>2, <3>2 DEF RedemptionOffer
    <3> QED BY <3>3 DEF mid
  <2>4. \A r \in requests : r.pair # p
    BY <2>1 DEF BookInv, OpenImpliesMade
  <2> HIDE DEF offer
  <2>5. BookTyped'
    BY <1>0, <2>1, <2>3 DEF BookTyped
  <2>6. NextIdIsFree' /\ OpenImpliesMade'
    BY <1>0, <2>1, <2>4 DEF BookInv, NextIdIsFree, OpenImpliesMade
  <2>7. IdsDistinct'
    BY <2>1 DEF BookInv, IdsDistinct
  <2> QED BY <2>5, <2>6, <2>7 DEF BookInv
<1>2. ASSUME NEW p \in Pairs, NEW fee \in Fees, update_redemption_offer_fee(p, fee)
      PROVE  BookInv'
  <2>1. /\ redemption_offers' = [redemption_offers EXCEPT ![p].fee_basis_points = fee]
        /\ requests' = requests
        /\ fee <= MAX_ALLOWED_FEE_BPS
    BY <1>2 DEF update_redemption_offer_fee
  <2>2. fee \in 0..MAX_ALLOWED_FEE_BPS
    BY <2>1, RedemptionAssumption, MathAssumption
  <2>3. /\ redemption_offers' \in [Pairs -> RedemptionOffer]
        /\ \A q \in Pairs :
             /\ redemption_offers'[q].request_counter = redemption_offers[q].request_counter
             /\ redemption_offers'[q].made = redemption_offers[q].made
    BY <1>0, <2>1, <2>2 DEF RedemptionOffer
  <2> QED BY <2>1, <2>3, ClosePreserves
<1>3. CASE Create
  BY <1>3, CreatePreserves DEF Create
<1>4. ASSUME NEW k \in Keys, NEW r \in requests, cancel_redemption_request(k, r)
      PROVE  BookInv'
  <2>1. /\ redemption_offers[r.pair].requested_redemptions >= r.amount
        /\ redemption_offers' = [redemption_offers EXCEPT
               ![r.pair].requested_redemptions = @ - r.amount]
        /\ requests' \subseteq requests
    BY <1>4 DEF cancel_redemption_request
  <2>2. r.pair \in Pairs /\ r.amount \in Nat
    BY <1>0
  <2> DEFINE old == redemption_offers[r.pair]
             executed == old.executed_redemptions
             requested == old.requested_redemptions - r.amount
             new == [old EXCEPT !.executed_redemptions = executed,
                                !.requested_redemptions = requested]
  <2>3. old \in RedemptionOffer
    BY <1>0, <2>2
  <2>4. executed \in 0..U128_MAX /\ requested \in 0..U128_MAX
    BY <2>1, <2>2, <2>3, Widths DEF RedemptionOffer
  <2>5. redemption_offers' = [redemption_offers EXCEPT ![r.pair] = new]
    BY <1>0, <2>1, <2>2, <2>3 DEF RedemptionOffer
  <2>6. /\ new \in RedemptionOffer
        /\ new.request_counter = old.request_counter
        /\ new.made = old.made
    BY <2>3, <2>4, TotalsTyped
  <2> HIDE DEF new
  <2>7. /\ redemption_offers' \in [Pairs -> RedemptionOffer]
        /\ \A q \in Pairs :
             /\ redemption_offers'[q].request_counter = redemption_offers[q].request_counter
             /\ redemption_offers'[q].made = redemption_offers[q].made
    BY <1>0, <2>2, <2>5, <2>6
  <2> QED BY <2>1, <2>7, ClosePreserves
<1>5. ASSUME NEW r \in requests, fulfill_redemption_request(r)
      PROVE  BookInv'
  <2>1. /\ redemption_offers[r.pair].requested_redemptions >= r.amount
        /\ redemption_offers[r.pair].executed_redemptions + r.amount <= U128_MAX
        /\ redemption_offers' = [redemption_offers EXCEPT
               ![r.pair].executed_redemptions = @ + r.amount,
               ![r.pair].requested_redemptions = @ - r.amount]
        /\ requests' \subseteq requests
    BY <1>5 DEF fulfill_redemption_request
  <2>2. r.pair \in Pairs /\ r.amount \in Nat
    BY <1>0
  <2> DEFINE old == redemption_offers[r.pair]
             executed == old.executed_redemptions + r.amount
             requested == old.requested_redemptions - r.amount
             new == [old EXCEPT !.executed_redemptions = executed,
                                !.requested_redemptions = requested]
  <2>3. old \in RedemptionOffer
    BY <1>0, <2>2
  <2>4. executed \in 0..U128_MAX /\ requested \in 0..U128_MAX
    BY <2>1, <2>2, <2>3, Widths DEF RedemptionOffer
  <2>5. redemption_offers' = [redemption_offers EXCEPT ![r.pair] = new]
    BY <1>0, <2>1, <2>2, <2>3 DEF RedemptionOffer
  <2>6. /\ new \in RedemptionOffer
        /\ new.request_counter = old.request_counter
        /\ new.made = old.made
    BY <2>3, <2>4, TotalsTyped
  <2> HIDE DEF new
  <2>7. /\ redemption_offers' \in [Pairs -> RedemptionOffer]
        /\ \A q \in Pairs :
             /\ redemption_offers'[q].request_counter = redemption_offers[q].request_counter
             /\ redemption_offers'[q].made = redemption_offers[q].made
    BY <1>0, <2>2, <2>5, <2>6
  <2> QED BY <2>1, <2>7, ClosePreserves
<1>6. CASE Deposit \/ Withdraw \/ Reprice
  <2>1. BookUnchanged
    BY <1>6 DEF Deposit, Withdraw, Reprice, redemption_vault_deposit,
                redemption_vault_withdraw, PriceMoves, BookUnchanged
  <2> QED BY <1>U, <2>1
<1> QED BY <1>1, <1>2, <1>3, <1>4, <1>5, <1>6
        DEF RedemptionStep, OfferStep, Cancel, Fulfill

\* Every step preserves the inductive invariant: the other components do not
\* touch the redemption accounts.
LEMMA BookNext == BookInv /\ [Next]_vars => BookInv'
<1> SUFFICES ASSUME BookInv, [Next]_vars PROVE BookInv'
  OBVIOUS
<1>1. CASE RedemptionStep
  BY <1>1, RedemptionStepPreserves
<1>2. ASSUME BookUnchanged PROVE BookInv'
  BY <1>2 DEF BookUnchanged, BookInv, BookTyped, NextIdIsFree, IdsDistinct, OpenImpliesMade
<1>3. RedemptionStep \/ BookUnchanged
  <2>1. CASE Next
    BY <2>1 DEF Next, BookUnchanged
  <2>2. CASE UNCHANGED vars
    BY <2>2 DEF vars, BookUnchanged
  <2> QED BY <2>1, <2>2
<1> QED BY <1>1, <1>2, <1>3
-----------------------------------------------------------------------------
(***************************************************************************)
(* The books of the vault                                                  *)
(***************************************************************************)

\* The money of the redemption queue has its type, and the ledger is sound.
MoneyTyped ==
    /\ GP!Inv /\ Sound(ledger) /\ AuthorityTyped
    /\ price \in [Pairs -> Prices \cup {Err}]
    /\ liquidity \in [Mints -> Int]

Inv ==
    /\ BookInv /\ MoneyTyped
    /\ IsFiniteSet(requests)
    /\ RequestedIsOpenTotal
    /\ VaultReconciles

\* Nothing is locked by no request.
LEMMA SumEmpty == Sum({}) = 0
<1>1. [r \in {} |-> r.amount] \in [{} -> Nat]
  OBVIOUS
<1> QED BY <1>1, TotalEmpty DEF Sum

\* A new request adds its amount.
LEMMA SumAdd ==
  ASSUME NEW S, IsFiniteSet(S), S \subseteq RedemptionRequest,
         NEW r \in RedemptionRequest, r \notin S
  PROVE  Sum(S \cup {r}) = Sum(S) + r.amount /\ Sum(S) \in Nat
<1> DEFINE D == S \cup {r}
           f == [x \in D |-> x.amount]
           g == [x \in S |-> x.amount]
<1>1. IsFiniteSet(D)
  BY FS_AddElement
<1>2. \A x \in D : x.amount \in Nat
  BY Widths DEF RedemptionRequest
<1>3. f \in [D -> Nat] /\ g \in [S -> Nat] /\ f[r] = r.amount
  BY <1>2
<1>4. D \ {r} = S /\ r \in D /\ \A y \in D \ {r} : g[y] = f[y]
  OBVIOUS
<1>5. g \in [D \ {r} -> Nat]
  BY <1>3, <1>4
<1>6. Sum(S) = Total(g) /\ Sum(S \cup {r}) = Total(f)
  BY DEF Sum
<1>7. Total(g) \in Nat
  BY <1>3, UnitsFinite
<1> HIDE DEF D, f, g
<1>8. Total(f) = Total(g) + f[r]
  BY <1>1, <1>3, <1>4, <1>5, TotalSplit
<1> QED BY <1>3, <1>6, <1>7, <1>8

\* A request that is closed takes its amount along.
LEMMA SumRemove ==
  ASSUME NEW S, IsFiniteSet(S), S \subseteq RedemptionRequest, NEW r \in S
  PROVE  Sum(S \ {r}) = Sum(S) - r.amount
<1>1. IsFiniteSet(S \ {r}) /\ (S \ {r}) \cup {r} = S
  BY FS_RemoveElement
<1>2. Sum((S \ {r}) \cup {r}) = Sum(S \ {r}) + r.amount /\ Sum(S \ {r}) \in Nat
  BY <1>1, SumAdd
<1>3. r.amount \in Nat
  BY Widths DEF RedemptionRequest
<1>4. Sum((S \ {r}) \cup {r}) = Sum(S)
  BY <1>1, Zenon
<1> QED BY <1>2, <1>3, <1>4

\* The same of the open requests of an offer and of those that lock a mint.
LEMMA FilteredSumAdd ==
  ASSUME NEW S, IsFiniteSet(S), S \subseteq RedemptionRequest,
         NEW r \in RedemptionRequest, r \notin S
  PROVE  /\ \A p \in Pairs : Sum({x \in S \cup {r} : x.pair = p})
              = Sum({x \in S : x.pair = p}) + Part(r.pair = p, r.amount)
         /\ \A m \in Mints : Sum({x \in S \cup {r} : x.pair[1] = m})
              = Sum({x \in S : x.pair[1] = m}) + Part(r.pair[1] = m, r.amount)
<1>1. ASSUME NEW T, T \subseteq S
      PROVE  Sum(T \cup {r}) = Sum(T) + r.amount /\ Sum(T) \in Nat
  <2>1. IsFiniteSet(T)
    BY <1>1, FS_Subset
  <2> QED BY <1>1, <2>1, SumAdd
<1>2. r.amount \in Nat
  BY Widths DEF RedemptionRequest
<1>3. ASSUME NEW p \in Pairs
      PROVE  Sum({x \in S \cup {r} : x.pair = p})
              = Sum({x \in S : x.pair = p}) + Part(r.pair = p, r.amount)
  <2> DEFINE T == {x \in S : x.pair = p}
             U == {x \in S \cup {r} : x.pair = p}
  <2>1. Sum(T \cup {r}) = Sum(T) + r.amount /\ Sum(T) \in Nat
    BY <1>1
  <2>2. U = IF r.pair = p THEN T \cup {r} ELSE T
    OBVIOUS
  <2> HIDE DEF T, U
  <2>3. Sum(U) = Sum(T) + Part(r.pair = p, r.amount)
    BY <1>2, <2>1, <2>2 DEF Part
  <2> QED BY <2>3 DEF T, U
<1>4. ASSUME NEW m \in Mints
      PROVE  Sum({x \in S \cup {r} : x.pair[1] = m})
              = Sum({x \in S : x.pair[1] = m}) + Part(r.pair[1] = m, r.amount)
  <2> DEFINE T == {x \in S : x.pair[1] = m}
             U == {x \in S \cup {r} : x.pair[1] = m}
  <2>1. Sum(T \cup {r}) = Sum(T) + r.amount /\ Sum(T) \in Nat
    BY <1>1
  <2>2. U = IF r.pair[1] = m THEN T \cup {r} ELSE T
    OBVIOUS
  <2> HIDE DEF T, U
  <2>3. Sum(U) = Sum(T) + Part(r.pair[1] = m, r.amount)
    BY <1>2, <2>1, <2>2 DEF Part
  <2> QED BY <2>3 DEF T, U
<1> QED BY <1>3, <1>4

\* The total of some of the open requests is an amount.
LEMMA SumTyped ==
  ASSUME NEW S, IsFiniteSet(S), S \subseteq RedemptionRequest, NEW T, T \subseteq S
  PROVE  Sum(T) \in Nat
<1>1. IsFiniteSet(T)
  BY FS_Subset
<1>2. [x \in T |-> x.amount] \in [T -> Nat]
  BY Widths DEF RedemptionRequest
<1> QED BY <1>1, <1>2, UnitsFinite DEF Sum

\* A closed request no longer counts among those of its offer and its mint.
LEMMA FilteredSumRemove ==
  ASSUME NEW S, IsFiniteSet(S), S \subseteq RedemptionRequest, NEW r \in S
  PROVE  /\ \A p \in Pairs : Sum({x \in S \ {r} : x.pair = p})
              = Sum({x \in S : x.pair = p}) - Part(r.pair = p, r.amount)
         /\ \A m \in Mints : Sum({x \in S \ {r} : x.pair[1] = m})
              = Sum({x \in S : x.pair[1] = m}) - Part(r.pair[1] = m, r.amount)
<1> DEFINE T == S \ {r}
<1>1. IsFiniteSet(T) /\ T \cup {r} = S /\ r \notin T /\ T \subseteq RedemptionRequest
  BY FS_RemoveElement
<1>2. r.amount \in Nat
  BY Widths DEF RedemptionRequest
<1> HIDE DEF T
<1>3. /\ \A p \in Pairs : Sum({x \in T \cup {r} : x.pair = p})
           = Sum({x \in T : x.pair = p}) + Part(r.pair = p, r.amount)
      /\ \A m \in Mints : Sum({x \in T \cup {r} : x.pair[1] = m})
           = Sum({x \in T : x.pair[1] = m}) + Part(r.pair[1] = m, r.amount)
  BY <1>1, FilteredSumAdd
<1>4. ASSUME NEW p \in Pairs
      PROVE  Sum({x \in T : x.pair = p})
               = Sum({x \in S : x.pair = p}) - Part(r.pair = p, r.amount)
  <2> DEFINE before == Sum({x \in S : x.pair = p})
             after == Sum({x \in T : x.pair = p})
             part == Part(r.pair = p, r.amount)
  <2>1. after \in Nat
    BY <1>1, SumTyped
  <2>2. part \in Nat
    BY <1>2 DEF Part
  <2>3. before = after + part
    BY <1>1, <1>3, Zenon
  <2> HIDE DEF before, after, part
  <2>4. after = before - part
    BY <2>1, <2>2, <2>3
  <2> QED BY <2>4 DEF before, after, part
<1>5. ASSUME NEW m \in Mints
      PROVE  Sum({x \in T : x.pair[1] = m})
               = Sum({x \in S : x.pair[1] = m}) - Part(r.pair[1] = m, r.amount)
  <2> DEFINE before == Sum({x \in S : x.pair[1] = m})
             after == Sum({x \in T : x.pair[1] = m})
             part == Part(r.pair[1] = m, r.amount)
  <2>1. after \in Nat
    BY <1>1, SumTyped
  <2>2. part \in Nat
    BY <1>2 DEF Part
  <2>3. before = after + part
    BY <1>1, <1>3, Zenon
  <2> HIDE DEF before, after, part
  <2>4. after = before - part
    BY <2>1, <2>2, <2>3
  <2> QED BY <2>4 DEF before, after, part
<1> QED BY <1>4, <1>5, Zenon DEF T
-----------------------------------------------------------------------------
\* The amounts that the books add up are integers.
LEMMA BooksTyped ==
  ASSUME Inv
  PROVE  /\ IsFiniteSet(requests) /\ requests \subseteq RedemptionRequest
         /\ \A p \in Pairs :
              /\ redemption_offers[p].requested_redemptions \in Int
              /\ Sum({r \in requests : r.pair = p}) \in Int
         /\ \A m \in Mints :
              /\ ledger.bal[RedemptionVault][m] \in Int
              /\ Pending(m) \in Int
              /\ liquidity[m] \in Int
<1>1. IsFiniteSet(requests) /\ requests \subseteq RedemptionRequest
  BY DEF Inv, BookInv, BookTyped
<1>2. \A p \in Pairs : redemption_offers[p].requested_redemptions \in Int
  BY Widths DEF Inv, BookInv, BookTyped, RedemptionOffer
<1>3. \A p \in Pairs : Sum({r \in requests : r.pair = p}) \in Int
  <2> TAKE p \in Pairs
  <2>1. {r \in requests : r.pair = p} \subseteq requests
    OBVIOUS
  <2>2. Sum({r \in requests : r.pair = p}) \in Nat
    BY <1>1, <2>1, SumTyped
  <2> QED BY <2>2
<1>4. \A m \in Mints : Pending(m) \in Int
  <2> TAKE m \in Mints
  <2>1. {r \in requests : r.pair[1] = m} \subseteq requests
    OBVIOUS
  <2>2. Sum({r \in requests : r.pair[1] = m}) \in Nat
    BY <1>1, <2>1, SumTyped
  <2> QED BY <2>2 DEF Pending
<1>5. \A m \in Mints : ledger.bal[RedemptionVault][m] \in Int
  BY SoundIsConsistent, RedemptionAssumption DEF Inv, MoneyTyped
<1>6. \A m \in Mints : liquidity[m] \in Int
  BY DEF Inv, MoneyTyped
<1> QED BY <1>1, <1>2, <1>3, <1>4, <1>5, <1>6

\* A request enters the books: its offer's total and the vault grow by its
\* amount, beyond what moves the vault's liquidity.
LEMMA BooksOpen ==
  ASSUME Inv, NEW r \in RedemptionRequest, r \notin requests,
         requests' = requests \cup {r},
         \A p \in Pairs : redemption_offers'[p].requested_redemptions
             = redemption_offers[p].requested_redemptions + Part(r.pair = p, r.amount),
         \A m \in Mints :
             /\ liquidity'[m] \in Int
             /\ ledger'.bal[RedemptionVault][m] = ledger.bal[RedemptionVault][m]
                  + (liquidity'[m] - liquidity[m]) + Part(r.pair[1] = m, r.amount)
  PROVE  IsFiniteSet(requests') /\ RequestedIsOpenTotal' /\ VaultReconciles'
<1>1. IsFiniteSet(requests')
  BY BooksTyped, FS_AddElement
<1>2. /\ \A p \in Pairs : Sum({x \in requests' : x.pair = p})
           = Sum({x \in requests : x.pair = p}) + Part(r.pair = p, r.amount)
      /\ \A m \in Mints : Sum({x \in requests' : x.pair[1] = m})
           = Sum({x \in requests : x.pair[1] = m}) + Part(r.pair[1] = m, r.amount)
  BY BooksTyped, FilteredSumAdd
<1>3. RequestedIsOpenTotal'
  <2> SUFFICES ASSUME NEW p \in Pairs
               PROVE  redemption_offers'[p].requested_redemptions
                        = Sum({x \in requests' : x.pair = p})
    BY DEF RequestedIsOpenTotal
  <2> DEFINE before == Sum({x \in requests : x.pair = p})
             after == Sum({x \in requests' : x.pair = p})
  <2>1. redemption_offers[p].requested_redemptions = before
    BY DEF Inv, RequestedIsOpenTotal
  <2>2. after = before + Part(r.pair = p, r.amount)
    BY <1>2, Zenon
  <2> HIDE DEF before, after
  <2>3. redemption_offers'[p].requested_redemptions = after
    BY <2>1, <2>2
  <2> QED BY <2>3 DEF after
<1>4. VaultReconciles'
  <2> SUFFICES ASSUME NEW m \in Mints
               PROVE  ledger'.bal[RedemptionVault][m] = Pending(m)' + liquidity'[m]
    BY DEF VaultReconciles
  <2> DEFINE part == Part(r.pair[1] = m, r.amount)
  <2>1. part \in Int
    BY Widths DEF Part, RedemptionRequest
  <2>2. Pending(m)' = Pending(m) + part
    BY <1>2, Zenon DEF Pending
  <2>3. ledger'.bal[RedemptionVault][m]
          = ledger.bal[RedemptionVault][m] + (liquidity'[m] - liquidity[m]) + part
    OBVIOUS
  <2>4. ledger.bal[RedemptionVault][m] = Pending(m) + liquidity[m]
    BY DEF Inv, VaultReconciles
  <2> HIDE DEF part
  <2> QED BY <2>1, <2>2, <2>3, <2>4, BooksTyped
<1> QED BY <1>1, <1>3, <1>4

\* A request leaves the books.
LEMMA BooksClose ==
  ASSUME Inv, NEW r \in requests, requests' = requests \ {r},
         \A p \in Pairs : redemption_offers'[p].requested_redemptions
             = redemption_offers[p].requested_redemptions - Part(r.pair = p, r.amount),
         \A m \in Mints :
             /\ liquidity'[m] \in Int
             /\ ledger'.bal[RedemptionVault][m] = ledger.bal[RedemptionVault][m]
                  + (liquidity'[m] - liquidity[m]) - Part(r.pair[1] = m, r.amount)
  PROVE  IsFiniteSet(requests') /\ RequestedIsOpenTotal' /\ VaultReconciles'
<1>0. r \in RedemptionRequest
  BY BooksTyped
<1>1. IsFiniteSet(requests')
  BY BooksTyped, FS_RemoveElement
<1>2. /\ \A p \in Pairs : Sum({x \in requests' : x.pair = p})
           = Sum({x \in requests : x.pair = p}) - Part(r.pair = p, r.amount)
      /\ \A m \in Mints : Sum({x \in requests' : x.pair[1] = m})
           = Sum({x \in requests : x.pair[1] = m}) - Part(r.pair[1] = m, r.amount)
  BY BooksTyped, FilteredSumRemove
<1>3. RequestedIsOpenTotal'
  <2> SUFFICES ASSUME NEW p \in Pairs
               PROVE  redemption_offers'[p].requested_redemptions
                        = Sum({x \in requests' : x.pair = p})
    BY DEF RequestedIsOpenTotal
  <2> DEFINE before == Sum({x \in requests : x.pair = p})
             after == Sum({x \in requests' : x.pair = p})
  <2>1. redemption_offers[p].requested_redemptions = before
    BY DEF Inv, RequestedIsOpenTotal
  <2>2. after = before - Part(r.pair = p, r.amount)
    BY <1>2, Zenon
  <2> HIDE DEF before, after
  <2>3. redemption_offers'[p].requested_redemptions = after
    BY <2>1, <2>2
  <2> QED BY <2>3 DEF after
<1>4. VaultReconciles'
  <2> SUFFICES ASSUME NEW m \in Mints
               PROVE  ledger'.bal[RedemptionVault][m] = Pending(m)' + liquidity'[m]
    BY DEF VaultReconciles
  <2> DEFINE part == Part(r.pair[1] = m, r.amount)
  <2>1. part \in Int
    BY <1>0, Widths DEF Part, RedemptionRequest
  <2>2. Pending(m)' = Pending(m) - part
    BY <1>2, Zenon DEF Pending
  <2>3. ledger'.bal[RedemptionVault][m]
          = ledger.bal[RedemptionVault][m] + (liquidity'[m] - liquidity[m]) - part
    OBVIOUS
  <2>4. ledger.bal[RedemptionVault][m] = Pending(m) + liquidity[m]
    BY DEF Inv, VaultReconciles
  <2> HIDE DEF part
  <2> QED BY <2>1, <2>2, <2>3, <2>4, BooksTyped
<1> QED BY <1>1, <1>3, <1>4

\* No request opens or closes: only liquidity moves the vault.
LEMMA BooksStand ==
  ASSUME Inv, requests' = requests,
         \A p \in Pairs : redemption_offers'[p].requested_redemptions
                            = redemption_offers[p].requested_redemptions,
         \A m \in Mints :
             /\ liquidity'[m] \in Int
             /\ ledger'.bal[RedemptionVault][m] = ledger.bal[RedemptionVault][m]
                  + (liquidity'[m] - liquidity[m])
  PROVE  IsFiniteSet(requests') /\ RequestedIsOpenTotal' /\ VaultReconciles'
<1>1. IsFiniteSet(requests') /\ RequestedIsOpenTotal'
  BY Zenon DEF Inv, RequestedIsOpenTotal
<1>2. VaultReconciles'
  <2> SUFFICES ASSUME NEW m \in Mints
               PROVE  ledger'.bal[RedemptionVault][m] = Pending(m)' + liquidity'[m]
    BY DEF VaultReconciles
  <2>1. Pending(m)' = Pending(m)
    BY DEF Pending
  <2>2. ledger.bal[RedemptionVault][m] = Pending(m) + liquidity[m]
    BY DEF Inv, VaultReconciles
  <2> QED BY <2>1, <2>2, BooksTyped
<1> QED BY <1>1, <1>2
-----------------------------------------------------------------------------
(***************************************************************************)
(* The token operations of the queue                                       *)
(***************************************************************************)

\* The vault is nobody's key.
LEMMA Parties ==
  ASSUME GP!Inv
  PROVE  /\ RedemptionVault \in Owners
         /\ state.boss # NoKey => state.boss \in Owners /\ state.boss # RedemptionVault
         /\ \A k \in Keys : k \in Owners /\ k # RedemptionVault
         /\ \A k \in Redeemers : k \in Owners /\ k # RedemptionVault
BY GovernanceTyped, RedemptionAssumption, AuthorityAssumption

\* The two mints of a pair are two mints.
LEMMA PairMints ==
  ASSUME NEW p \in Pairs
  PROVE  p[1] \in Mints /\ p[2] \in Mints /\ p[1] # p[2]
BY RedemptionAssumption

\* Settling takes the whole amount from the vault, and nobody gets any of it
\* but the boss.
Settled(l, n, mint, amount) ==
    \A o \in Owners \ {state.boss}, m \in Mints :
        n.bal[o][m] = l.bal[o][m] - Part(m = mint /\ o = RedemptionVault, amount)

\* A burn of the net amount and a transfer of the fee, or one transfer of
\* both, take the same from the vault.
LEMMA SettleSpec ==
  ASSUME GP!Inv, state.boss # NoKey, NEW l, Consistent(l), NEW mint \in Mints,
         NEW amounts, amounts.net \in Nat, amounts.fee \in Nat
  PROVE  /\ Consistent(SettleTokenIn(l, mint, amounts))
         /\ Settled(l, SettleTokenIn(l, mint, amounts), mint, amounts.net + amounts.fee)
<1> DEFINE n == SettleTokenIn(l, mint, amounts)
           net == amounts.net
           fee == amounts.fee
           boss == state.boss
           V == RedemptionVault
<1>0. /\ boss \in Owners /\ V \in Owners /\ boss # V
      /\ net \in Nat /\ fee \in Nat /\ net + fee \in Nat
      /\ net \in Int /\ fee \in Int /\ net + fee \in Int /\ l \in RawLedger
      /\ \A o \in Owners, m \in Mints : l.bal[o][m] \in Int
  BY Parties DEF Consistent, RawLedger
<1>A. SUFFICES Consistent(n) /\ Settled(l, n, mint, net + fee)
  OBVIOUS
<1>1. CASE ~program_controls_mint(mint)
  <2> DEFINE moved == transfer_tokens(l, mint, V, boss, net + fee)
  <2>1. n = moved
    BY <1>1 DEF SettleTokenIn
  <2>2. Consistent(moved) /\ Moved(l, moved, mint, V, boss, net + fee)
    BY <1>0, TransferConsistent, TransferSpec
  <2> HIDE DEF n, moved
  <2>3. Settled(l, n, mint, net + fee)
    BY <1>0, <2>1, <2>2 DEF Moved, Settled, Part
  <2> QED BY <2>1, <2>2, <2>3
<1>2. CASE program_controls_mint(mint)
  <2> DEFINE burnt == burn_tokens(l, mint, V, net)
             moved == transfer_tokens(burnt, mint, V, boss, fee)
  <2>1. n = IF fee = 0 THEN burnt ELSE moved
    BY <1>2 DEF SettleTokenIn
  <2> HIDE DEF n
  <2>2. Consistent(burnt) /\ Burnt(l, burnt, mint, V, net)
    BY <1>0, BurnConsistent, BurnSpec
  <2> HIDE DEF burnt
  <2>3. Consistent(moved) /\ Moved(burnt, moved, mint, V, boss, fee)
    <3>1. burnt \in RawLedger
      BY <2>2 DEF Burnt
    <3> QED BY <1>0, <2>2, <3>1, TransferConsistent, TransferSpec
  <2> HIDE DEF moved
  <2>4. \A o \in Owners, m \in Mints : burnt.bal[o][m] \in Int
    BY <2>2 DEF Burnt, RawLedger
  <2>5. CASE fee = 0
    BY <1>0, <2>1, <2>2, <2>5 DEF Burnt, Settled, Part
  <2>6. CASE fee # 0
    <3>1. ASSUME NEW o \in Owners \ {boss}, NEW m \in Mints
          PROVE  n.bal[o][m] = l.bal[o][m] - Part(m = mint /\ o = V, net + fee)
      <4>1. n.bal[o][m] = burnt.bal[o][m] - Part(m = mint /\ o = V, fee)
        BY <1>0, <2>1, <2>3, <2>4, <2>6 DEF Moved, Part
      <4>2. burnt.bal[o][m] = l.bal[o][m] - Part(m = mint /\ o = V, net)
        BY <2>2 DEF Burnt
      <4> QED BY <1>0, <4>1, <4>2 DEF Part
    <3> QED BY <2>1, <2>3, <2>6, <3>1 DEF Settled
  <2> QED BY <2>5, <2>6
<1> QED BY <1>1, <1>2

\* The redeemer is paid, out of the vault unless the program mints.
PaidOut(l, n, mint, redeemer, amount) ==
    \A o \in Owners, m \in Mints :
        n.bal[o][m] = l.bal[o][m]
          + Part(m = mint /\ o = redeemer, amount)
          - Part(m = mint /\ o = RedemptionVault /\ ~program_controls_mint(mint), amount)

\* Minting and paying out of the vault amount to that.
LEMMA PaySpec ==
  ASSUME GP!Inv, NEW l, Consistent(l), NEW mint \in Mints,
         NEW redeemer \in Owners, NEW amount \in Nat
  PROVE  /\ Consistent(PayTokenOut(l, mint, redeemer, amount))
         /\ PaidOut(l, PayTokenOut(l, mint, redeemer, amount), mint, redeemer, amount)
<1> DEFINE n == PayTokenOut(l, mint, redeemer, amount)
           V == RedemptionVault
<1>0. /\ V \in Owners /\ amount \in Int /\ l \in RawLedger /\ 0 \in Int /\ 0 \in Nat
      /\ \A o \in Owners, m \in Mints : l.bal[o][m] \in Int
  BY Parties DEF Consistent, RawLedger
<1>A. SUFFICES Consistent(n) /\ PaidOut(l, n, mint, redeemer, amount)
  OBVIOUS
<1>1. CASE program_controls_mint(mint)
  <2> DEFINE minted == mint_tokens(l, mint, redeemer, amount, 0)
  <2>1. n = minted
    BY <1>1 DEF PayTokenOut
  <2>2. Consistent(minted) /\ Minted(l, minted, mint, redeemer, amount, 0)
    BY <1>0, MintConsistent, MintSpec
  <2> HIDE DEF n, minted
  <2>3. PaidOut(l, n, mint, redeemer, amount)
    BY <1>0, <1>1, <2>1, <2>2 DEF Minted, PaidOut, Part
  <2> QED BY <2>1, <2>2, <2>3
<1>2. CASE ~program_controls_mint(mint)
  <2> DEFINE moved == transfer_tokens(l, mint, V, redeemer, amount)
  <2>1. n = moved
    BY <1>2 DEF PayTokenOut
  <2>2. Consistent(moved) /\ Moved(l, moved, mint, V, redeemer, amount)
    BY <1>0, TransferConsistent, TransferSpec
  <2> HIDE DEF n, moved
  <2>3. PaidOut(l, n, mint, redeemer, amount)
    BY <1>0, <1>2, <2>1, <2>2 DEF Moved, PaidOut, Part
  <2> QED BY <2>1, <2>2, <2>3
<1> QED BY <1>1, <1>2
-----------------------------------------------------------------------------
(***************************************************************************)
(* What the steps make of the ledger and of the books                      *)
(***************************************************************************)

\* A creation moves the amount from the redeemer to the vault.
LEMMA CreateEffect ==
  ASSUME Inv, NEW k \in Redeemers, NEW p \in Pairs, NEW amount \in Amounts,
         create_redemption_request(k, p, amount)
  PROVE  /\ Sound(ledger')
         /\ IsFiniteSet(requests') /\ RequestedIsOpenTotal' /\ VaultReconciles'
<1> DEFINE new == [pair |-> p, request_id |-> redemption_offers[p].request_counter,
                   redeemer |-> k, amount |-> amount]
           n == transfer_tokens(ledger, p[1], k, RedemptionVault, amount)
<1>1. /\ n.ok /\ ledger' = n
      /\ requests' = requests \cup {new}
      /\ redemption_offers' = [redemption_offers EXCEPT
             ![p].requested_redemptions = @ + amount,
             ![p].request_counter = @ + 1]
      /\ liquidity' = liquidity
      /\ \A r \in requests : <<r.pair, r.request_id>> # <<new.pair, new.request_id>>
  BY DEF create_redemption_request, MayCreate, Commit
<1>2. /\ GP!Inv /\ Sound(ledger) /\ Consistent(ledger) /\ ledger \in RawLedger
      /\ \A o \in Owners, m \in Mints : ledger.bal[o][m] \in Int
  BY SoundIsConsistent DEF Inv, MoneyTyped, Consistent, RawLedger
<1>3. /\ amount \in U64 /\ amount \in Nat /\ amount \in Int
      /\ p[1] \in Mints /\ k \in Owners /\ RedemptionVault \in Owners
      /\ k # RedemptionVault
  BY <1>2, RedemptionAssumption, Widths, Parties, PairMints
<1>4. Consistent(n) /\ Moved(ledger, n, p[1], k, RedemptionVault, amount)
  BY <1>2, <1>3, TransferConsistent, TransferSpec
<1>5. Sound(n)
  BY <1>1, <1>4 DEF Consistent
<1> HIDE DEF n
<1>6. redemption_offers \in [Pairs -> RedemptionOffer]
  BY DEF Inv, BookInv, BookTyped
<1>7. new \in RedemptionRequest
  BY <1>3, <1>6 DEF RedemptionOffer, RedemptionRequest
<1>8. new.pair = p /\ new.amount = amount /\ new \notin requests
  BY <1>1
<1>9. \A q \in Pairs : redemption_offers'[q].requested_redemptions
        = redemption_offers[q].requested_redemptions + Part(new.pair = q, new.amount)
  <2> SUFFICES ASSUME NEW q \in Pairs
               PROVE  redemption_offers'[q].requested_redemptions
                        = redemption_offers[q].requested_redemptions + Part(p = q, amount)
    BY <1>8
  <2>1. CASE q = p
    BY <1>1, <1>6, <2>1 DEF Part, RedemptionOffer
  <2>2. CASE q # p
    <3>1. redemption_offers'[q] = redemption_offers[q]
      BY <1>1, <1>6, <2>2
    <3>2. redemption_offers[q].requested_redemptions \in Int
      BY BooksTyped
    <3> QED BY <2>2, <3>1, <3>2 DEF Part
  <2> QED BY <2>1, <2>2
<1> HIDE DEF new
<1>10. \A m \in Mints :
         /\ liquidity'[m] \in Int
         /\ ledger'.bal[RedemptionVault][m] = ledger.bal[RedemptionVault][m]
              + (liquidity'[m] - liquidity[m]) + Part(new.pair[1] = m, new.amount)
  BY <1>1, <1>2, <1>3, <1>4, <1>8, BooksTyped DEF Moved, Part
<1> QED BY <1>1, <1>5, <1>7, <1>8, <1>9, <1>10, BooksOpen

\* A cancellation gives the amount back to the redeemer.
LEMMA CancelEffect ==
  ASSUME Inv, NEW k \in Keys, NEW r \in requests, cancel_redemption_request(k, r)
  PROVE  /\ Sound(ledger')
         /\ IsFiniteSet(requests') /\ RequestedIsOpenTotal' /\ VaultReconciles'
         /\ ledger'.bal[r.redeemer][r.pair[1]]
              = ledger.bal[r.redeemer][r.pair[1]] + r.amount
         /\ redemption_offers'[r.pair].executed_redemptions
              = redemption_offers[r.pair].executed_redemptions
<1> DEFINE p == r.pair
           n == transfer_tokens(ledger, p[1], RedemptionVault, r.redeemer, r.amount)
<1>1. /\ n.ok /\ ledger' = n
      /\ requests' = requests \ {r}
      /\ redemption_offers' = [redemption_offers EXCEPT
             ![p].requested_redemptions = @ - r.amount]
      /\ liquidity' = liquidity
  BY DEF cancel_redemption_request, Commit
<1>2. /\ GP!Inv /\ Sound(ledger) /\ Consistent(ledger) /\ ledger \in RawLedger
      /\ \A o \in Owners, m \in Mints : ledger.bal[o][m] \in Int
  BY SoundIsConsistent DEF Inv, MoneyTyped, Consistent, RawLedger
<1>3. r \in RedemptionRequest
  BY BooksTyped
<1>4. /\ p \in Pairs /\ r.amount \in Nat /\ r.amount \in Int /\ r.redeemer \in Redeemers
      /\ p[1] \in Mints /\ r.redeemer \in Owners /\ RedemptionVault \in Owners
      /\ r.redeemer # RedemptionVault
  BY <1>2, <1>3, Widths, Parties, PairMints DEF RedemptionRequest
<1>5. Consistent(n) /\ Moved(ledger, n, p[1], RedemptionVault, r.redeemer, r.amount)
  BY <1>2, <1>4, TransferConsistent, TransferSpec
<1>6. Sound(n)
  BY <1>1, <1>5 DEF Consistent
<1> HIDE DEF n
<1>7. redemption_offers \in [Pairs -> RedemptionOffer]
  BY DEF Inv, BookInv, BookTyped
<1>8. \A q \in Pairs : redemption_offers'[q].requested_redemptions
        = redemption_offers[q].requested_redemptions - Part(p = q, r.amount)
  <2> TAKE q \in Pairs
  <2>1. CASE q = p
    BY <1>1, <1>7, <2>1 DEF Part, RedemptionOffer
  <2>2. CASE q # p
    <3>1. redemption_offers'[q] = redemption_offers[q]
      BY <1>1, <1>7, <2>2
    <3>2. redemption_offers[q].requested_redemptions \in Int
      BY BooksTyped
    <3> QED BY <2>2, <3>1, <3>2 DEF Part
  <2> QED BY <2>1, <2>2
<1>9. redemption_offers'[p].executed_redemptions = redemption_offers[p].executed_redemptions
  BY <1>1, <1>4, <1>7 DEF RedemptionOffer
<1>10. ledger'.bal[r.redeemer][p[1]] = ledger.bal[r.redeemer][p[1]] + r.amount
  BY <1>1, <1>2, <1>4, <1>5 DEF Moved, Part
<1>11. \A m \in Mints :
         /\ liquidity'[m] \in Int
         /\ ledger'.bal[RedemptionVault][m] = ledger.bal[RedemptionVault][m]
              + (liquidity'[m] - liquidity[m]) - Part(p[1] = m, r.amount)
  BY <1>1, <1>2, <1>4, <1>5, BooksTyped DEF Moved, Part
<1> QED BY <1>1, <1>6, <1>8, <1>9, <1>10, <1>11, BooksClose

\* The amounts of a fulfilment are amounts.
LEMMA FulfilAmounts ==
  ASSUME Inv, NEW r \in requests, fulfill_redemption_request(r)
  PROVE  LET offer   == redemption_offers[r.pair]
             amounts == calculate_fees(r.amount, offer.fee_basis_points)
         IN  /\ amounts.net \in Nat /\ amounts.fee \in Nat
             /\ amounts.net + amounts.fee = r.amount
             /\ redemption_out_amount(amounts.net, price[r.pair], Scale[r.pair[1]],
                                      Scale[r.pair[2]]) \in Nat
<1> DEFINE p == r.pair
           bps == redemption_offers[p].fee_basis_points
           amounts == calculate_fees(r.amount, bps)
           paid == redemption_out_amount(amounts.net, price[p], Scale[p[1]], Scale[p[2]])
<1>1. price[p] # Err /\ amounts.ok /\ paid # Err
  BY DEF fulfill_redemption_request
<1>2. p \in Pairs /\ r.amount \in Nat
  BY BooksTyped, Widths DEF RedemptionRequest
<1>3. bps \in Nat
  BY <1>2, MathAssumption DEF Inv, BookInv, BookTyped, RedemptionOffer
<1> HIDE DEF bps
<1>4. amounts.net \in Nat /\ amounts.fee \in Nat /\ amounts.net + amounts.fee = r.amount
  BY <1>1, <1>2, <1>3, FeesSplit
<1>5. price[p] \in Nat \ {0} /\ Scale[p[1]] \in Nat \ {0} /\ Scale[p[2]] \in Nat \ {0}
  <2>1. price[p] \in Prices
    BY <1>1, <1>2 DEF Inv, MoneyTyped
  <2>2. U64 \subseteq Nat
    BY Widths
  <2>3. Scale[p[1]] \in Nat \ {0} /\ Scale[p[2]] \in Nat \ {0}
    BY <1>2, PairMints, RedemptionAssumption
  <2> QED BY <2>1, <2>2, <2>3, RedemptionAssumption
<1> HIDE DEF amounts
<1>6. paid \in Nat
  BY <1>1, <1>4, <1>5, OutTyped
<1> QED BY <1>4, <1>6 DEF amounts, bps

\* A fulfilment takes the amount from the vault and pays the redeemer in the
\* other mint.
LEMMA FulfilEffect ==
  ASSUME Inv, NEW r \in requests, fulfill_redemption_request(r)
  PROVE  /\ Sound(ledger') /\ liquidity' \in [Mints -> Int]
         /\ IsFiniteSet(requests') /\ RequestedIsOpenTotal' /\ VaultReconciles'
         /\ r.redeemer # state.boss => ledger'.bal[r.redeemer][r.pair[1]]
                                         = ledger.bal[r.redeemer][r.pair[1]]
         /\ redemption_offers'[r.pair].executed_redemptions
              = redemption_offers[r.pair].executed_redemptions + r.amount
<1> DEFINE p == r.pair
           V == RedemptionVault
           amounts == calculate_fees(r.amount, redemption_offers[p].fee_basis_points)
           paid == redemption_out_amount(amounts.net, price[p], Scale[p[1]], Scale[p[2]])
           settled == SettleTokenIn(ledger, p[1], amounts)
           n == PayTokenOut(settled, p[2], r.redeemer, paid)
           drawn == IF program_controls_mint(p[2]) THEN 0 ELSE paid
<1>1. /\ n.ok /\ ledger' = n /\ state.boss # NoKey
      /\ requests' = requests \ {r}
      /\ redemption_offers' = [redemption_offers EXCEPT
             ![p].executed_redemptions = @ + r.amount,
             ![p].requested_redemptions = @ - r.amount]
      /\ liquidity' = [liquidity EXCEPT ![p[2]] =
             IF program_controls_mint(p[2]) THEN @ ELSE @ - paid]
  BY DEF fulfill_redemption_request, MayFulfill, Running, Commit
<1>2. /\ GP!Inv /\ Sound(ledger) /\ Consistent(ledger)
      /\ \A o \in Owners, m \in Mints : ledger.bal[o][m] \in Int
      /\ liquidity \in [Mints -> Int]
  BY SoundIsConsistent DEF Inv, MoneyTyped
<1>3. r \in RedemptionRequest
  BY BooksTyped
<1>4. /\ p \in Pairs /\ r.amount \in Nat /\ r.amount \in Int
      /\ p[1] \in Mints /\ p[2] \in Mints /\ p[1] # p[2]
      /\ r.redeemer \in Owners /\ V \in Owners /\ r.redeemer # V /\ state.boss # V
  BY <1>1, <1>2, <1>3, Widths, Parties, PairMints DEF RedemptionRequest
<1>5. /\ amounts.net \in Nat /\ amounts.fee \in Nat
      /\ amounts.net + amounts.fee = r.amount
      /\ paid \in Nat
  BY FulfilAmounts
<1> HIDE DEF amounts, paid
<1>6. Consistent(settled) /\ Settled(ledger, settled, p[1], r.amount)
  <2>1. Settled(ledger, settled, p[1], amounts.net + amounts.fee) /\ Consistent(settled)
    BY <1>1, <1>2, <1>4, <1>5, SettleSpec
  <2> QED BY <1>5, <2>1
<1> HIDE DEF settled
<1>7. Consistent(n) /\ PaidOut(settled, n, p[2], r.redeemer, paid)
  BY <1>2, <1>4, <1>5, <1>6, PaySpec
<1>8. Sound(n)
  BY <1>1, <1>7 DEF Consistent
<1> HIDE DEF n
<1>9. \A o \in Owners, m \in Mints : settled.bal[o][m] \in Int
  BY <1>6 DEF Consistent, RawLedger
<1>10. drawn \in Int
  BY <1>5
<1>11. /\ liquidity' \in [Mints -> Int]
       /\ \A m \in Mints : liquidity'[m] = liquidity[m] - Part(m = p[2], drawn)
  BY <1>1, <1>2, <1>4, <1>5 DEF Part
<1>12. \A m \in Mints : n.bal[V][m] = settled.bal[V][m] - Part(m = p[2], drawn)
  BY <1>4, <1>5, <1>7, <1>9 DEF PaidOut, Part
<1>13. \A m \in Mints : settled.bal[V][m] = ledger.bal[V][m] - Part(m = p[1], r.amount)
  BY <1>4, <1>6 DEF Settled, Part
<1> HIDE DEF drawn
<1>14. \A m \in Mints :
         /\ liquidity'[m] \in Int
         /\ ledger'.bal[V][m] = ledger.bal[V][m]
              + (liquidity'[m] - liquidity[m]) - Part(p[1] = m, r.amount)
  BY <1>1, <1>2, <1>4, <1>10, <1>11, <1>12, <1>13 DEF Part
<1>15. redemption_offers \in [Pairs -> RedemptionOffer]
  BY DEF Inv, BookInv, BookTyped
<1>16. \A q \in Pairs : redemption_offers'[q].requested_redemptions
         = redemption_offers[q].requested_redemptions - Part(p = q, r.amount)
  <2> TAKE q \in Pairs
  <2>1. CASE q = p
    BY <1>1, <1>15, <2>1 DEF Part, RedemptionOffer
  <2>2. CASE q # p
    <3>1. redemption_offers'[q] = redemption_offers[q]
      BY <1>1, <1>15, <2>2
    <3>2. redemption_offers[q].requested_redemptions \in Int
      BY BooksTyped
    <3> QED BY <2>2, <3>1, <3>2 DEF Part
  <2> QED BY <2>1, <2>2
<1>17. redemption_offers'[p].executed_redemptions
         = redemption_offers[p].executed_redemptions + r.amount
  BY <1>1, <1>4, <1>15 DEF RedemptionOffer
<1>18. ASSUME r.redeemer # state.boss
       PROVE  ledger'.bal[r.redeemer][p[1]] = ledger.bal[r.redeemer][p[1]]
  <2>1. settled.bal[r.redeemer][p[1]] = ledger.bal[r.redeemer][p[1]]
    BY <1>2, <1>4, <1>6, <1>18 DEF Settled, Part
  <2>2. n.bal[r.redeemer][p[1]] = settled.bal[r.redeemer][p[1]]
    BY <1>4, <1>7, <1>9 DEF PaidOut, Part
  <2> QED BY <1>1, <2>1, <2>2
<1> QED BY <1>1, <1>8, <1>11, <1>14, <1>16, <1>17, <1>18, BooksClose

\* A deposit or a withdrawal moves the vault as it moves liquidity, and
\* nobody else but the boss.
LEMMA VaultEffect ==
  ASSUME Inv, Deposit \/ Withdraw
  PROVE  /\ Sound(ledger') /\ liquidity' \in [Mints -> Int]
         /\ IsFiniteSet(requests') /\ RequestedIsOpenTotal' /\ VaultReconciles'
         /\ \A o \in Owners \ {state.boss, RedemptionVault}, m \in Mints :
              ledger'.bal[o][m] = ledger.bal[o][m]
<1> DEFINE V == RedemptionVault
           boss == state.boss
<1>1. /\ GP!Inv /\ Sound(ledger) /\ Consistent(ledger) /\ ledger \in RawLedger
      /\ \A o \in Owners, m \in Mints : ledger.bal[o][m] \in Int
      /\ liquidity \in [Mints -> Int]
  BY SoundIsConsistent DEF Inv, MoneyTyped, Consistent
<1>2. ASSUME NEW mint \in Mints, NEW amount \in VaultAmounts \cup WithdrawAmounts
      PROVE  amount \in Nat /\ amount \in Int
  BY RedemptionAssumption, Widths
<1>3. ASSUME NEW mint \in Mints, NEW amount \in Nat, NEW from \in {V, boss},
             NEW to \in {V, boss} \ {from}, boss # NoKey,
             Commit(transfer_tokens(ledger, mint, from, to, amount)),
             liquidity' = [liquidity EXCEPT ![mint] =
                             IF to = V THEN @ + amount ELSE @ - amount],
             UNCHANGED <<redemption_offers, requests>>
      PROVE  /\ Sound(ledger') /\ liquidity' \in [Mints -> Int]
             /\ IsFiniteSet(requests') /\ RequestedIsOpenTotal' /\ VaultReconciles'
             /\ \A o \in Owners \ {boss, V}, m \in Mints :
                  ledger'.bal[o][m] = ledger.bal[o][m]
  <2> DEFINE n == transfer_tokens(ledger, mint, from, to, amount)
  <2>1. n.ok /\ ledger' = n
    BY <1>3 DEF Commit
  <2>2. from \in Owners /\ to \in Owners /\ amount \in Int /\ V \in Owners /\ boss # V
    BY <1>1, <1>3, Parties
  <2>3. Consistent(n) /\ Moved(ledger, n, mint, from, to, amount)
    BY <1>1, <2>2, TransferConsistent, TransferSpec
  <2>4. Sound(n)
    BY <2>1, <2>3 DEF Consistent
  <2> HIDE DEF n
  <2>5. liquidity' \in [Mints -> Int]
    BY <1>1, <1>3
  <2>6. \A m \in Mints :
          /\ liquidity'[m] \in Int
          /\ ledger'.bal[V][m] = ledger.bal[V][m] + (liquidity'[m] - liquidity[m])
    BY <1>1, <1>3, <2>1, <2>2, <2>3 DEF Moved, Part
  <2>7. \A o \in Owners \ {boss, V}, m \in Mints : ledger'.bal[o][m] = ledger.bal[o][m]
    BY <1>1, <1>3, <2>1, <2>2, <2>3 DEF Moved, Part
  <2> QED BY <1>3, <2>1, <2>4, <2>5, <2>6, <2>7, BooksStand
<1>4. CASE Deposit
  <2>1. PICK mint \in Mints, amount \in VaultAmounts : redemption_vault_deposit(mint, amount)
    BY <1>4 DEF Deposit
  <2>2. amount \in Nat
    BY <1>2
  <2>3. boss # NoKey /\ boss # V
    BY <1>1, <2>1, Parties DEF redemption_vault_deposit
  <2> QED BY <1>3, <2>1, <2>2, <2>3 DEF redemption_vault_deposit
<1>5. CASE Withdraw
  <2>1. PICK mint \in Mints, amount \in WithdrawAmounts : redemption_vault_withdraw(mint, amount)
    BY <1>5 DEF Withdraw
  <2>2. amount \in Nat
    BY <1>2
  <2>3. boss # NoKey /\ boss # V
    BY <1>1, <2>1, Parties DEF redemption_vault_withdraw
  <2> QED BY <1>3, <2>1, <2>2, <2>3 DEF redemption_vault_withdraw
<1> QED BY <1>4, <1>5

\* A redemption offer starts with empty books, and a fee is none of them.
LEMMA OfferEffect ==
  ASSUME Inv, OfferStep
  PROVE  /\ UNCHANGED <<ledger, liquidity, price, requests>>
         /\ IsFiniteSet(requests') /\ RequestedIsOpenTotal' /\ VaultReconciles'
<1>1. redemption_offers \in [Pairs -> RedemptionOffer]
  BY DEF Inv, BookInv, BookTyped
<1>2. ASSUME NEW p \in Pairs,
             redemption_offers' \in [Pairs -> RedemptionOffer],
             redemption_offers'[p].requested_redemptions
               = redemption_offers[p].requested_redemptions,
             \A q \in Pairs \ {p} : redemption_offers'[q] = redemption_offers[q],
             UNCHANGED <<ledger, liquidity, price, requests>>
      PROVE  /\ UNCHANGED <<ledger, liquidity, price, requests>>
             /\ IsFiniteSet(requests') /\ RequestedIsOpenTotal' /\ VaultReconciles'
  <2>1. \A q \in Pairs : redemption_offers'[q].requested_redemptions
                           = redemption_offers[q].requested_redemptions
    BY <1>2
  <2>2. \A m \in Mints :
          /\ liquidity'[m] \in Int
          /\ ledger'.bal[RedemptionVault][m]
               = ledger.bal[RedemptionVault][m] + (liquidity'[m] - liquidity[m])
    BY <1>2, BooksTyped
  <2> QED BY <1>2, <2>1, <2>2, BooksStand
<1>3. ASSUME NEW k \in Keys, NEW p \in Pairs, NEW fee \in Fees,
             make_redemption_offer(k, p, fee)
      PROVE  /\ UNCHANGED <<ledger, liquidity, price, requests>>
             /\ IsFiniteSet(requests') /\ RequestedIsOpenTotal' /\ VaultReconciles'
  <2>1. /\ redemption_offers' = [redemption_offers EXCEPT ![p] =
              [NoOffer EXCEPT !.made = TRUE, !.fee_basis_points = fee]]
        /\ UNCHANGED <<ledger, liquidity, price, requests>>
        /\ ~redemption_offers[p].made
    BY <1>3 DEF make_redemption_offer
  <2>2. {x \in requests : x.pair = p} = {}
    BY <2>1 DEF Inv, BookInv, OpenImpliesMade
  <2>3. redemption_offers[p].requested_redemptions = 0
    <3>1. redemption_offers[p].requested_redemptions = Sum({x \in requests : x.pair = p})
      BY DEF Inv, RequestedIsOpenTotal
    <3>2. Sum({x \in requests : x.pair = p}) = Sum({})
      BY <2>2, Zenon
    <3> QED BY <3>1, <3>2, SumEmpty
  <2>4. redemption_offers' \in [Pairs -> RedemptionOffer]
    <3>1. OfferStep /\ BookInv
      BY DEF Inv
    <3>2. BookInv'
      BY <3>1, RedemptionStepPreserves DEF RedemptionStep
    <3> QED BY <3>2 DEF BookInv, BookTyped
  <2>5. redemption_offers'[p].requested_redemptions = 0
    BY <1>1, <2>1 DEF NoOffer
  <2>6. \A q \in Pairs \ {p} : redemption_offers'[q] = redemption_offers[q]
    BY <1>1, <2>1
  <2> QED BY <1>2, <2>1, <2>3, <2>4, <2>5, <2>6
<1>4. ASSUME NEW p \in Pairs, NEW fee \in Fees, update_redemption_offer_fee(p, fee)
      PROVE  /\ UNCHANGED <<ledger, liquidity, price, requests>>
             /\ IsFiniteSet(requests') /\ RequestedIsOpenTotal' /\ VaultReconciles'
  <2>1. /\ redemption_offers' = [redemption_offers EXCEPT ![p].fee_basis_points = fee]
        /\ UNCHANGED <<ledger, liquidity, price, requests>>
    BY <1>4 DEF update_redemption_offer_fee
  <2>2. redemption_offers' \in [Pairs -> RedemptionOffer]
    <3>1. OfferStep /\ BookInv
      BY DEF Inv
    <3>2. BookInv'
      BY <3>1, RedemptionStepPreserves DEF RedemptionStep
    <3> QED BY <3>2 DEF BookInv, BookTyped
  <2>3. /\ redemption_offers'[p].requested_redemptions
             = redemption_offers[p].requested_redemptions
        /\ \A q \in Pairs \ {p} : redemption_offers'[q] = redemption_offers[q]
    BY <1>1, <2>1 DEF RedemptionOffer
  <2> QED BY <1>2, <2>1, <2>2, <2>3
<1> QED BY <1>3, <1>4 DEF OfferStep
-----------------------------------------------------------------------------
\* The initial state satisfies the inductive invariant.
LEMMA InvInit == Init => Inv
<1> SUFFICES ASSUME Init PROVE Inv
  OBVIOUS
<1>1. GP!Inv /\ BookInv /\ Sound(ledger)
  BY GovernanceInit, BookInit, InitialSound DEF Init
<1>2. AuthorityTyped
  <2>1. UpgradeAuthority \in Keys \cup {NoKey}
    BY AuthorityAssumption DEF Gov!GovernanceConstants
  <2> QED BY <2>1 DEF Init, AuthorityTyped
<1>3. RedemptionVault \in Owners
  BY RedemptionAssumption
<1>4. liquidity \in [Mints -> Int]
  BY <1>3, LedgerAssumption DEF Init
<1>5. price \in [Pairs -> Prices \cup {Err}]
  BY DEF Init
<1>6. requests = {} /\ IsFiniteSet({})
  BY FS_EmptySet DEF Init
<1>7. RequestedIsOpenTotal
  <2> SUFFICES ASSUME NEW p \in Pairs
               PROVE  redemption_offers[p].requested_redemptions
                        = Sum({r \in requests : r.pair = p})
    BY DEF RequestedIsOpenTotal
  <2>1. {r \in requests : r.pair = p} = {}
    BY <1>6
  <2>2. Sum({r \in requests : r.pair = p}) = Sum({})
    BY <2>1, Zenon
  <2>3. redemption_offers[p].requested_redemptions = 0
    BY DEF Init, NoOffer
  <2> QED BY <2>2, <2>3, SumEmpty
<1>8. VaultReconciles
  <2> SUFFICES ASSUME NEW m \in Mints
               PROVE  ledger.bal[RedemptionVault][m] = Pending(m) + liquidity[m]
    BY DEF VaultReconciles
  <2>1. {r \in requests : r.pair[1] = m} = {}
    BY <1>6
  <2>2. Sum({r \in requests : r.pair[1] = m}) = Sum({})
    BY <2>1, Zenon
  <2>3. Pending(m) = 0
    BY <2>2, SumEmpty DEF Pending
  <2>4. ledger.bal[RedemptionVault][m] = liquidity[m] /\ liquidity[m] \in Int
    BY <1>4 DEF Init, InitialLedger
  <2> QED BY <2>3, <2>4
<1> QED BY <1>1, <1>2, <1>4, <1>5, <1>6, <1>7, <1>8 DEF Inv, MoneyTyped

\* Every step preserves it.
LEMMA InvNext == Inv /\ [Next]_vars => Inv'
<1> SUFFICES ASSUME Inv, [Next]_vars PROVE Inv'
  OBVIOUS
<1>1. BookInv'
  BY BookNext DEF Inv
<1>2. GP!Inv'
  BY GovernanceNext DEF Inv, MoneyTyped, Next, vars
<1>3. /\ Sound(ledger) /\ AuthorityTyped /\ GP!Inv
      /\ price \in [Pairs -> Prices \cup {Err}] /\ liquidity \in [Mints -> Int]
  BY DEF Inv, MoneyTyped
<1>U. ASSUME UNCHANGED <<ledger, requests, redemption_offers, liquidity>>
      PROVE  /\ Sound(ledger') /\ liquidity' \in [Mints -> Int]
             /\ IsFiniteSet(requests') /\ RequestedIsOpenTotal' /\ VaultReconciles'
  <2>1. /\ \A p \in Pairs : redemption_offers'[p].requested_redemptions
                              = redemption_offers[p].requested_redemptions
        /\ \A m \in Mints :
             /\ liquidity'[m] \in Int
             /\ ledger'.bal[RedemptionVault][m]
                  = ledger.bal[RedemptionVault][m] + (liquidity'[m] - liquidity[m])
    BY <1>U, BooksTyped
  <2> QED BY <1>3, <1>U, <2>1, BooksStand
<1>4. ASSUME RedemptionStep
      PROVE  /\ Sound(ledger') /\ liquidity' \in [Mints -> Int]
             /\ IsFiniteSet(requests') /\ RequestedIsOpenTotal' /\ VaultReconciles'
             /\ AuthorityTyped' /\ price' \in [Pairs -> Prices \cup {Err}]
  <2>1. authority' = authority
    BY <1>4 DEF RedemptionStep, OfferStep, Create, Cancel, Fulfill, Deposit, Withdraw,
                Reprice, make_redemption_offer, update_redemption_offer_fee,
                create_redemption_request, cancel_redemption_request,
                fulfill_redemption_request, redemption_vault_deposit,
                redemption_vault_withdraw, PriceMoves
  <2>2. AuthorityTyped'
    BY <1>3, <2>1 DEF AuthorityTyped
  <2>3. CASE OfferStep
    BY <1>3, <2>2, <2>3, OfferEffect
  <2>4. CASE Create
    <3>1. UNCHANGED <<liquidity, price>>
      BY <2>4 DEF Create, create_redemption_request
    <3> QED BY <1>3, <2>2, <2>4, <3>1, CreateEffect DEF Create
  <2>5. CASE Cancel
    <3>1. UNCHANGED <<liquidity, price>>
      BY <2>5 DEF Cancel, cancel_redemption_request
    <3> QED BY <1>3, <2>2, <2>5, <3>1, CancelEffect DEF Cancel
  <2>6. CASE Fulfill
    <3>1. UNCHANGED price
      BY <2>6 DEF Fulfill, fulfill_redemption_request
    <3> QED BY <1>3, <2>2, <2>6, <3>1, FulfilEffect DEF Fulfill
  <2>7. CASE Deposit \/ Withdraw
    <3>1. UNCHANGED price
      BY <2>7 DEF Deposit, Withdraw, redemption_vault_deposit, redemption_vault_withdraw
    <3> QED BY <1>3, <2>2, <2>7, <3>1, VaultEffect
  <2>8. CASE Reprice
    <3>1. UNCHANGED <<ledger, requests, redemption_offers, liquidity>>
      BY <2>8 DEF Reprice, PriceMoves
    <3>2. price' \in [Pairs -> Prices \cup {Err}]
      BY <1>3, <2>8 DEF Reprice, PriceMoves
    <3> QED BY <1>U, <2>2, <3>1, <3>2
  <2> QED BY <1>4, <2>3, <2>4, <2>5, <2>6, <2>7, <2>8 DEF RedemptionStep
<1>5. CASE RedemptionStep
  BY <1>1, <1>2, <1>4, <1>5 DEF Inv, MoneyTyped
<1>6. CASE /\ MintAuthorityStep
           /\ UNCHANGED <<govVars, redemption_offers, requests, price, liquidity>>
  <2>1. Sound(ledger') /\ AuthorityTyped'
    BY <1>3, <1>6, MintAuthorityPreserves
  <2>2. \A m \in Mints :
          ledger'.bal[RedemptionVault][m] = ledger.bal[RedemptionVault][m]
    <3>1. state.boss # NoKey
      BY <1>6 DEF MintAuthorityStep, transfer_mint_authority_to_boss,
                  transfer_mint_authority_to_program, mint_to
    <3>2. RedemptionVault \in Owners \ {state.boss}
      BY <1>3, <3>1, Parties
    <3> QED BY <1>3, <1>6, <3>2, MintAuthorityEffect
  <2>3. \A m \in Mints :
          /\ liquidity'[m] \in Int
          /\ ledger'.bal[RedemptionVault][m]
               = ledger.bal[RedemptionVault][m] + (liquidity'[m] - liquidity[m])
    BY <1>6, <2>2, BooksTyped
  <2>4. IsFiniteSet(requests') /\ RequestedIsOpenTotal' /\ VaultReconciles'
    BY <1>6, <2>3, BooksStand
  <2> QED BY <1>1, <1>2, <1>3, <1>6, <2>1, <2>4 DEF Inv, MoneyTyped
<1>7. CASE UNCHANGED <<ledger, authority, redemption_offers, requests, price, liquidity>>
  <2>1. AuthorityTyped' /\ price' \in [Pairs -> Prices \cup {Err}]
    BY <1>3, <1>7 DEF AuthorityTyped
  <2> QED BY <1>1, <1>2, <1>7, <1>U, <2>1 DEF Inv, MoneyTyped
<1> QED BY <1>5, <1>6, <1>7 DEF Next, vars

\* The inductive invariant holds throughout.
LEMMA QueueInvariant == Spec => []Inv
<1> QED BY InvInit, InvNext, PTL DEF Spec
-----------------------------------------------------------------------------
\* The accounts of the queue have their types: no fee above the bound, no
\* total beyond its width, no balance below zero.
THEOREM RedemptionTypeCorrect == Spec => []TypeOK
<1>1. Inv => TypeOK
  <2> SUFFICES ASSUME Inv PROVE TypeOK
    OBVIOUS
  <2>1. Gov!TypeOK /\ ledger \in Ledger /\ ledger.ok
    BY GovernanceTyped DEF Inv, MoneyTyped, Sound
  <2> QED BY <2>1 DEF Inv, MoneyTyped, BookInv, BookTyped, AuthorityTyped, TypeOK
<1> QED BY <1>1, QueueInvariant, PTL

\* requested_redemptions is always the total of the offer's open requests, so
\* the checked_sub of cancel_redemption_request and
\* fulfill_redemption_request never fails and blocks a settlement.
THEOREM PendingTotalIsExact == Spec => []RequestedIsOpenTotal
<1>1. Inv => RequestedIsOpenTotal
  BY DEF Inv
<1> QED BY <1>1, QueueInvariant, PTL

\* The vault holds what open requests have locked plus what the boss put in
\* net of withdrawals and payouts, whoever controls the mints when a request
\* is created, cancelled or fulfilled.
THEOREM VaultAlwaysReconciles == Spec => []VaultReconciles
<1>1. Inv => VaultReconciles
  BY DEF Inv
<1> QED BY <1>1, QueueInvariant, PTL

\* The steps that may close a request.
LEMMA ClosingSteps ==
  ASSUME Inv, [Next]_vars, NEW r \in requests \ requests'
  PROVE  Cancel \/ Fulfill
<1>1. CASE OfferStep \/ Create \/ Deposit \/ Withdraw \/ Reprice
  BY <1>1 DEF OfferStep, Create, Deposit, Withdraw, Reprice, make_redemption_offer,
              update_redemption_offer_fee, create_redemption_request,
              redemption_vault_deposit, redemption_vault_withdraw, PriceMoves
<1>2. CASE requests' = requests
  BY <1>2
<1> QED BY <1>1, <1>2 DEF Next, vars, RedemptionStep

\* A request is settled once: cancel_redemption_request refunds it in full and
\* counts nothing as executed, fulfill_redemption_request counts all of it and
\* refunds nothing, and no other instruction closes it.
THEOREM RequestsAreSettledOnce == Spec => SettledOnce
<1> DEFINE Step ==
      \A r \in requests \ requests' :
          LET before == redemption_offers[r.pair].executed_redemptions
              after  == redemption_offers'[r.pair].executed_redemptions
              refund == ledger'.bal[r.redeemer][r.pair[1]]
                          - ledger.bal[r.redeemer][r.pair[1]]
          IN  /\ requests' = requests \ {r}
              /\ \/ after = before /\ refund = r.amount
                 \/ /\ after = before + r.amount
                    /\ r.redeemer # state.boss => refund = 0
<1>1. Inv /\ Inv' /\ [Next]_vars => Step
  <2> SUFFICES ASSUME Inv, Inv', [Next]_vars, NEW r \in requests \ requests'
               PROVE  /\ requests' = requests \ {r}
                      /\ \/ /\ redemption_offers'[r.pair].executed_redemptions
                                 = redemption_offers[r.pair].executed_redemptions
                            /\ ledger'.bal[r.redeemer][r.pair[1]]
                                 - ledger.bal[r.redeemer][r.pair[1]] = r.amount
                         \/ /\ redemption_offers'[r.pair].executed_redemptions
                                 = redemption_offers[r.pair].executed_redemptions + r.amount
                            /\ r.redeemer # state.boss =>
                                 ledger'.bal[r.redeemer][r.pair[1]]
                                   - ledger.bal[r.redeemer][r.pair[1]] = 0
    OBVIOUS
  <2>1. /\ GP!Inv /\ r \in requests
        /\ \A o \in Owners, m \in Mints : ledger.bal[o][m] \in Int
    BY SoundIsConsistent DEF Inv, MoneyTyped
  <2>2. r \in RedemptionRequest
    BY <2>1, BooksTyped
  <2>3. /\ ledger.bal[r.redeemer][r.pair[1]] \in Int /\ r.amount \in Int
    <3>1. r.redeemer \in Redeemers /\ r.pair \in Pairs /\ r.amount \in Int
      BY <2>2, Widths DEF RedemptionRequest
    <3> QED BY <2>1, <3>1, Parties, PairMints
  <2>4. CASE Cancel
    <3>1. PICK k \in Keys, s \in requests : cancel_redemption_request(k, s)
      BY <2>4 DEF Cancel
    <3>2. requests' = requests \ {s}
      BY <3>1 DEF cancel_redemption_request
    <3>3. s = r
      BY <3>2
    <3>4. /\ ledger'.bal[r.redeemer][r.pair[1]]
               = ledger.bal[r.redeemer][r.pair[1]] + r.amount
          /\ redemption_offers'[r.pair].executed_redemptions
               = redemption_offers[r.pair].executed_redemptions
      BY <3>1, <3>3, CancelEffect
    <3> QED BY <2>3, <3>2, <3>3, <3>4
  <2>5. CASE Fulfill
    <3>1. PICK s \in requests : fulfill_redemption_request(s)
      BY <2>5 DEF Fulfill
    <3>2. requests' = requests \ {s}
      BY <3>1 DEF fulfill_redemption_request
    <3>3. s = r
      BY <3>2
    <3>4. /\ r.redeemer # state.boss => ledger'.bal[r.redeemer][r.pair[1]]
                                          = ledger.bal[r.redeemer][r.pair[1]]
          /\ redemption_offers'[r.pair].executed_redemptions
               = redemption_offers[r.pair].executed_redemptions + r.amount
      BY <3>1, <3>3, FulfilEffect
    <3> QED BY <2>3, <3>2, <3>3, <3>4
  <2> QED BY <2>4, <2>5, ClosingSteps
<1> HIDE DEF Step
<1>2. Spec => [][Step]_vars
  BY <1>1, QueueInvariant, PTL DEF Spec
<1> QED BY <1>2 DEF Step, SettledOnce

\* The steps that may move tokens while the kill switch is on.
LEMMA FrozenSteps ==
  ASSUME Inv, [Next]_vars, state.is_killed
  PROVE  Deposit \/ Withdraw \/ MintAuthorityStep \/ UNCHANGED ledger
<1>1. ~Create /\ ~Cancel /\ ~Fulfill
  BY DEF Create, Cancel, Fulfill, create_redemption_request, cancel_redemption_request,
         fulfill_redemption_request, MayCreate, MayCancel, MayFulfill, Running
<1>2. OfferStep \/ Reprice => UNCHANGED ledger
  BY DEF OfferStep, Reprice, make_redemption_offer, update_redemption_offer_fee, PriceMoves
<1> QED BY <1>1, <1>2 DEF Next, vars, RedemptionStep

\* While the kill switch is on, no instruction of the queue and none of the
\* boss's about mints changes what anybody but the boss holds.
THEOREM KillSwitchFreezesRedeemers == Spec => KillSwitchFreezesUsers
<1> DEFINE Step ==
      state.is_killed => \A k \in Keys \ {state.boss} : ledger'.bal[k] = ledger.bal[k]
<1>1. Inv /\ Inv' /\ [Next]_vars => Step
  <2> SUFFICES ASSUME Inv, Inv', [Next]_vars, state.is_killed,
                      NEW k \in Keys \ {state.boss}
               PROVE  ledger'.bal[k] = ledger.bal[k]
    OBVIOUS
  <2>1. GP!Inv /\ Sound(ledger) /\ Sound(ledger)'
    BY DEF Inv, MoneyTyped
  <2>2. /\ ledger.bal \in [Owners -> [Mints -> Nat]]
        /\ ledger'.bal \in [Owners -> [Mints -> Nat]]
    BY <2>1, SoundIsConsistent
  <2>3. k \in Owners \ {state.boss, RedemptionVault}
    BY <2>1, Parties
  <2>4. \A m \in Mints : ledger'.bal[k][m] = ledger.bal[k][m]
    <3>1. CASE Deposit \/ Withdraw
      BY <2>3, <3>1, VaultEffect
    <3>2. CASE MintAuthorityStep
      BY <2>1, <2>3, <3>2, MintAuthorityEffect
    <3>3. CASE UNCHANGED ledger
      BY <3>3
    <3> QED BY <3>1, <3>2, <3>3, FrozenSteps
  <2>5. ledger.bal[k] \in [Mints -> Nat] /\ ledger'.bal[k] \in [Mints -> Nat]
    BY <2>2, <2>3
  <2> QED BY <2>4, <2>5
<1> HIDE DEF Step
<1>2. Spec => [][Step]_vars
  BY <1>1, QueueInvariant, PTL DEF Spec
<1> QED BY <1>2 DEF Step, KillSwitchFreezesUsers

\* A new request's account is always free: the counter from which
\* create_redemption_request derives its address is above the number of every
\* open request, however requests are created, cancelled and fulfilled.
THEOREM NextRequestIsFree == Spec => []NextIdIsFree
<1>1. Inv => NextIdIsFree
  BY DEF Inv, BookInv
<1> QED BY <1>1, QueueInvariant, PTL

\* Two open requests never share an account: an offer and a number identify a
\* request, which cancel and fulfil rely on to settle each one once.
THEOREM RequestsAreDistinct == Spec => []IdsDistinct
<1>1. Inv => IdsDistinct
  BY DEF Inv, BookInv
<1> QED BY <1>1, QueueInvariant, PTL
=============================================================================
