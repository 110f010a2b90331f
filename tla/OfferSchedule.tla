--------------------------- MODULE OfferSchedule ---------------------------
(***************************************************************************)
(* The pricing schedule of one offer: the array of time vectors kept in    *)
(* the Offer account, the chain's clock, and the three instructions of the *)
(* boss that edit the array.  Each instruction runs atomically and reverts *)
(* as a whole on an error, so its requirements are guards.                 *)
(***************************************************************************)
EXTENDS OfferPricing

CONSTANTS
    MAX_TIME,       \* the last clock reading
    StartTimes,     \* explicit start times that the boss may pass
    BaseTimes,      \* base times that the boss may pass
    VectorShapes    \* [base_price, apr, price_fix_duration] that the boss may pass

ASSUME ScheduleAssumption ==
    /\ MAX_TIME \in 1..U64_MAX
    /\ StartTimes \subseteq U64
    /\ BaseTimes \subseteq U64
    /\ VectorShapes \subseteq
           [base_price : U64, apr : U64, price_fix_duration : U64]

VARIABLES
    now,        \* Clock::unix_timestamp
    vectors     \* Offer.vectors

vars == <<now, vectors>>

\* start_time_opt = None
NoStart == -1

\* A slot is empty throughout, or holds a vector that can price.
WellFormed(v) ==
    v # EmptyVector =>
        /\ v.start_time > 0 /\ v.base_time > 0
        /\ v.base_price > 0 /\ v.price_fix_duration > 0

\* The clock keeps its bound, and every slot is well formed: add_offer_vector
\* stores only what validate_inputs has passed, and deletion and eviction reset
\* the whole slot.
TypeOK ==
    /\ now \in 1..MAX_TIME
    /\ vectors \in [Slots -> OfferVector]
    /\ \A i \in Slots : WellFormed(vectors[i])

\* make_offer creates the account with every slot empty.
Init ==
    /\ now = 1
    /\ vectors = [i \in Slots |-> EmptyVector]

\* The clock of the chain: it never goes back and may skip seconds.
Tick ==
    /\ now' \in now + 1 .. MAX_TIME
    /\ UNCHANGED vectors
-----------------------------------------------------------------------------
(***************************************************************************)
(* add_offer_vector                                                        *)
(***************************************************************************)
StartOf(start_time_opt, base_time) ==
    IF start_time_opt # NoStart THEN start_time_opt
    ELSE IF base_time > now THEN base_time ELSE now

\* Mutant: a vector without a price is accepted.
validate_inputs_unpriced(v) ==
    /\ v.start_time >= now
    /\ v.base_time > 0
    /\ v.price_fix_duration > 0
    /\ \A i \in Occupied(vectors) : v.start_time > vectors[i].start_time

\* Mutant: a vector may be added before the latest existing one.
validate_inputs_unordered(v) ==
    /\ v.start_time >= now
    /\ v.base_time > 0
    /\ v.base_price > 0
    /\ v.price_fix_duration > 0

validate_inputs(v) ==
    /\ v.start_time >= now
    /\ v.base_time > 0
    /\ v.base_price > 0
    /\ v.price_fix_duration > 0
    /\ \A i \in Occupied(vectors) : v.start_time > vectors[i].start_time

\* Mutant: the previous vector is not kept.
clean_old_vectors_no_previous(vs, new_start, current_time) ==
    LET active_start == IF new_start = current_time THEN new_start
                        ELSE find_active_vector_at(vs, current_time).start_time
    IN  [i \in Slots |-> IF vs[i].start_time < active_start THEN EmptyVector ELSE vs[i]]

\* Mutant: nothing is ever evicted.
clean_old_vectors_none(vs, new_start, current_time) == vs

\* Evict what is older than the vector before the active one.  active_start
\* is 0, and nothing is evicted, when no vector is active.
clean_old_vectors(vs, new_start, current_time) ==
    LET active_start == IF new_start = current_time THEN new_start
                        ELSE find_active_vector_at(vs, current_time).start_time
        prev_start   == find_active_vector_at(vs, active_start - 1).start_time
    IN  [i \in Slots |->
            IF vs[i].start_time < active_start /\ vs[i].start_time # prev_start
            THEN EmptyVector ELSE vs[i]]

AddOfferVector(start_time_opt, base_time, shape) ==
    LET new     == [start_time |-> StartOf(start_time_opt, base_time),
                    base_time |-> base_time,
                    base_price |-> shape.base_price,
                    apr |-> shape.apr,
                    price_fix_duration |-> shape.price_fix_duration]
        cleaned == clean_old_vectors(vectors, new.start_time, now)
        slot    == find_vector_index_by_start_time(cleaned, 0)
    IN  /\ validate_inputs(new)
        /\ slot # 0                     \* else TooManyVectors
        /\ vectors' = [cleaned EXCEPT ![slot] = new]
        /\ UNCHANGED now
-----------------------------------------------------------------------------
(***************************************************************************)
(* delete_offer_vector, delete_all_offer_vectors                           *)
(***************************************************************************)

\* Mutant: the active vector may be deleted.
DeleteOfferVectorAny(vector_start_time) ==
    LET slot == find_vector_index_by_start_time(vectors, vector_start_time)
    IN  /\ vector_start_time > 0
        /\ slot # 0
        /\ vectors' = [vectors EXCEPT ![slot] = EmptyVector]
        /\ UNCHANGED now

DeleteOfferVector(vector_start_time) ==
    LET slot == find_vector_index_by_start_time(vectors, vector_start_time)
    IN  /\ vector_start_time > now
        /\ slot # 0
        /\ vectors' = [vectors EXCEPT ![slot] = EmptyVector]
        /\ UNCHANGED now

DeleteAllOfferVectors ==
    /\ vectors' = [i \in Slots |-> EmptyVector]
    /\ UNCHANGED now
-----------------------------------------------------------------------------
AddVector ==
    \E start_time_opt \in StartTimes \cup {NoStart}, base_time \in BaseTimes,
       shape \in VectorShapes : AddOfferVector(start_time_opt, base_time, shape)

DeleteVector == \E t \in StartTimes \cup BaseTimes : DeleteOfferVector(t)

Next == Tick \/ AddVector \/ DeleteVector \/ DeleteAllOfferVectors

Spec == Init /\ [][Next]_vars
-----------------------------------------------------------------------------
(***************************************************************************)
(* Properties                                                              *)
(***************************************************************************)
Active == find_active_vector_at(vectors, now)
Previous == find_previous_vector(vectors, Active.start_time)

\* A vector that starts this second was put in by this step.
Repriced ==
    /\ Active.start_time # now
    /\ \E i \in Slots : vectors'[i].start_time = now

\* The vector in force is the same before and after the step at every second
\* of the recent past and, unless the step repriced the offer, at present.
KeepsHistory ==
    LET from == IF Repriced THEN Active.start_time ELSE Previous.start_time
        upto == IF Repriced THEN now - 1 ELSE now
    IN  \A t \in from..upto :
          find_active_vector_at(vectors', t) = find_active_vector_at(vectors, t)

\* No two vectors of an offer share a start time.  find_vector_index_by_
\* start_time, the eviction and the deletion all identify a vector by its
\* start time alone, so a duplicate would make them act on the wrong slot.
UniqueStartTimes ==
    \A i, j \in Occupied(vectors) :
        vectors[i].start_time = vectors[j].start_time => i = j

\* The boss can always reprice an offer at once: when no vector is scheduled
\* for the future (or for this very second), the eviction in add_offer_vector
\* leaves an empty slot for a vector that starts now, however full the array.
RepriceNeverBlocked ==
    (\A i \in Occupied(vectors) : vectors[i].start_time < now)
        => \E i \in Slots : clean_old_vectors(vectors, now, now)[i].start_time = 0

\* Adding or deleting one vector never rewrites the recent past: which vector
\* was in force at an earlier second is still answered as before, back to the
\* start of the vector before the active one (of the active one, when the new
\* vector starts this second and the active one becomes the previous).  At
\* the present second it changes only if the new vector starts right now.
\* get_nav_adjustment and the trades of this second depend on it.
HistoryKept ==
    [][ AddVector \/ DeleteVector => KeepsHistory ]_vars

\* Once an offer has an active vector it keeps one, and only a later vector
\* replaces it, until delete_all_offer_vectors clears the offer.
ActiveOnlyMovesForward ==
    [][ ~DeleteAllOfferVectors => Active'.start_time >= Active.start_time ]_vars

\* The price that get_nav reports holds until the time it announces as the
\* next change: no passage of time short of it changes the price.
NavHoldsUntilAnnouncedChange ==
    [][ Tick /\ NextPriceChange(vectors, now) # Err
             /\ now' < NextPriceChange(vectors, now)
          => NavPrice(vectors, now') = NavPrice(vectors, now) ]_vars

\* While a vector stays active its price never falls as time passes, and once
\* its price has overflowed it never comes back.
PriceNeverFallsWithinVector ==
    [][ Tick /\ Active # EmptyVector /\ Active' = Active /\ Active.base_time <= now
          => \/ NavPrice(vectors, now') = Err
             \/ /\ NavPrice(vectors, now) # Err
                /\ NavPrice(vectors, now') >= NavPrice(vectors, now) ]_vars

\* While a vector stays active the adjustment that get_nav_adjustment reports for
\* it stays the same: neither time nor the eviction by a later addition, which may
\* drop older vectors, changes what it is compared with.
AdjustmentHoldsWhileActive ==
    [][ Active' = Active /\ ~DeleteAllOfferVectors
          => get_nav_adjustment(vectors', now') = get_nav_adjustment(vectors, now) ]_vars
=============================================================================
