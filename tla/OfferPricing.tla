---------------------------- MODULE OfferPricing ----------------------------
(***************************************************************************)
(* The pure part of an offer's pricing: which of the offer's time vectors  *)
(* is active at a given time, the stepped price it yields, and the NAV     *)
(* figures that the read-only instructions report from them.               *)
(*                                                                         *)
(* An offer keeps a fixed array of vector slots; a slot whose start_time   *)
(* is 0 is empty.  A Result<u64> is a natural number or Err; an absent     *)
(* vector (Err or None in the code) is EmptyVector.                        *)
(***************************************************************************)
EXTENDS Numeric

CONSTANTS
    MAX_VECTORS,        \* slots of an offer (10)
    SECONDS_IN_YEAR,    \* 31_536_000
    APR_SCALE           \* 1_000_000

ASSUME PricingAssumption ==
    /\ MAX_VECTORS \in Nat /\ MAX_VECTORS >= 2
    /\ SECONDS_IN_YEAR \in Nat \ {0}
    /\ APR_SCALE \in Nat \ {0}

Slots == 1..MAX_VECTORS

OfferVector ==
    [start_time : U64, base_time : U64, base_price : U64, apr : U64,
     price_fix_duration : U64]

EmptyVector ==
    [start_time |-> 0, base_time |-> 0, base_price |-> 0, apr |-> 0,
     price_fix_duration |-> 0]

Occupied(vs) == {i \in Slots : vs[i].start_time # 0}
-----------------------------------------------------------------------------
(***************************************************************************)
(* Selecting a vector.                                                     *)
(***************************************************************************)

\* Iterator::max_by_key over the slots S: the largest start_time, the last
\* slot among equals.
LatestSlot(vs, S) ==
    CHOOSE i \in S : \A j \in S :
        \/ vs[j].start_time < vs[i].start_time
        \/ vs[j].start_time = vs[i].start_time /\ j <= i

LatestOf(vs, S) == IF S = {} THEN EmptyVector ELSE vs[LatestSlot(vs, S)]

find_active_vector_at(vs, time) ==
    LatestOf(vs, {i \in Occupied(vs) : vs[i].start_time <= time})

find_previous_vector(vs, current_vector_start_time) ==
    LatestOf(vs, {i \in Occupied(vs) :
                      vs[i].start_time < current_vector_start_time})

\* Mutant: the vectors scheduled for the future are forgotten.
find_next_vector_after_none(vs, current_time) == EmptyVector

\* Iterator::min_by_key over the future vectors.
find_next_vector_after(vs, current_time) ==
    LET future == {i \in Slots : vs[i].start_time > current_time}
    IN  IF future = {} THEN EmptyVector
        ELSE vs[CHOOSE i \in future : \A j \in future :
                    vs[i].start_time <= vs[j].start_time]

\* Iterator::position: the first slot with that start_time, 0 if there is
\* none (start_time 0 finds the first empty slot).
find_vector_index_by_start_time(vs, start_time) ==
    LET found == {i \in Slots : vs[i].start_time = start_time}
    IN  IF found = {} THEN 0
        ELSE CHOOSE i \in found : \A j \in found : i <= j
-----------------------------------------------------------------------------
(***************************************************************************)
(* Prices.  Every multiplication and addition is checked.                  *)
(***************************************************************************)
FactorDen == APR_SCALE * SECONDS_IN_YEAR

\* Linear growth of base_price over elapsed_time; the u128 intermediate
\* values and the final conversion to u64 must fit.
calculate_vector_price(apr, base_price, elapsed_time) ==
    LET factor_num == FactorDen + apr * elapsed_time
        grown      == base_price * factor_num
        price      == grown \div FactorDen
    IN  IF /\ factor_num <= U128_MAX
           /\ grown <= U128_MAX
           /\ price <= U64_MAX
        THEN price
        ELSE Err

\* Mutant: the interval is computed with the remainder, not the quotient.
calculate_step_price_at_remainder(vector, time) ==
    IF vector.base_time > time THEN Err
    ELSE calculate_vector_price(vector.apr, vector.base_price,
             (((time - vector.base_time) % vector.price_fix_duration) + 1)
               * vector.price_fix_duration)

\* The price is fixed within each interval of price_fix_duration seconds, at
\* the value that the linear growth has at the end of the interval.
calculate_step_price_at(vector, time) ==
    LET current_step  == (time - vector.base_time) \div vector.price_fix_duration
        step_end_time == (current_step + 1) * vector.price_fix_duration
    IN  IF vector.base_time > time \/ step_end_time > U64_MAX
        THEN Err
        ELSE calculate_vector_price(vector.apr, vector.base_price, step_end_time)
-----------------------------------------------------------------------------
(***************************************************************************)
(* What the read-only instructions report at current_time.                 *)
(***************************************************************************)

\* get_nav: the current price.
NavPrice(vs, current_time) ==
    LET active == find_active_vector_at(vs, current_time)
    IN  IF active = EmptyVector THEN Err
        ELSE calculate_step_price_at(active, current_time)

\* get_nav: the announced time of the next change of the price, Err when
\* the instruction fails.
NextPriceChange(vs, current_time) ==
    LET active   == find_active_vector_at(vs, current_time)
        step     == (current_time - active.base_time)
                      \div active.price_fix_duration
        interval == active.base_time + (step + 1) * active.price_fix_duration
        next     == find_next_vector_after(vs, current_time)
    IN  IF NavPrice(vs, current_time) = Err \/ interval > U64_MAX THEN Err
        ELSE IF next # EmptyVector /\ next.start_time < interval
             THEN next.start_time
             ELSE interval

\* Mutant: the prices of this second are compared.
get_nav_adjustment_now(vs, current_time) ==
    LET active   == find_active_vector_at(vs, current_time)
        previous == find_previous_vector(vs, active.start_time)
        price(v) == IF v = EmptyVector THEN 0 ELSE calculate_step_price_at(v, current_time)
    IN  IF active = EmptyVector \/ Err \in {price(active), price(previous)}
        THEN [ok |-> FALSE, adjustment |-> 0]
        ELSE [ok |-> TRUE, adjustment |-> price(active) - price(previous)]

\* get_nav_adjustment: [ok, adjustment].  The difference of the prices of the
\* active and of the previous vector at the time the active one starts.
\* Negating the i64 whose magnitude has no positive counterpart panics.
get_nav_adjustment(vs, current_time) ==
    LET failed   == [ok |-> FALSE, adjustment |-> 0]
        active   == find_active_vector_at(vs, current_time)
        previous == find_previous_vector(vs, active.start_time)
        current_price  == calculate_step_price_at(active, active.start_time)
        previous_price == IF previous = EmptyVector THEN 0
                          ELSE calculate_step_price_at(previous, active.start_time)
        fall     == previous_price - current_price
    IN  IF active = EmptyVector THEN failed
        ELSE IF current_price = Err \/ previous_price = Err THEN failed
        ELSE IF current_price >= previous_price
             THEN [ok |-> TRUE, adjustment |-> AsI64(current_price - previous_price)]
        ELSE IF fall = I64_MAX + 1 THEN failed
        ELSE [ok |-> TRUE, adjustment |-> -AsI64(fall)]
=============================================================================
