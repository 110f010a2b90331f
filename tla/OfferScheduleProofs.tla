------------------------ MODULE OfferScheduleProofs ------------------------
(***************************************************************************)
(* Proofs about the pricing schedule, for every number of slots (at least  *)
(* two), every clock bound and every set of inputs.                        *)
(***************************************************************************)
EXTENDS OfferSchedule, TLAPS, WellFoundedInduction

Distinct(vs) ==
    \A i, j \in Occupied(vs) : vs[i].start_time = vs[j].start_time => i = j

\* The slots among which find_active_vector_at chooses.
Candidates(vs, t) == {i \in Occupied(vs) : vs[i].start_time <= t}

VectorArray == [Slots -> OfferVector]
-----------------------------------------------------------------------------
(* Least and greatest elements.                                            *)

Less == {p \in Nat \X Nat : p[1] < p[2]}

\* The order < on the naturals is well-founded.
LEMMA LessWellFounded == IsWellFoundedOn(Less, Nat)
  BY NatLessThanWellFounded, Zenon DEF OpToRel, Less

\* A non-empty set of naturals has a least element.
LEMMA LeastElement ==
  ASSUME NEW T, T \subseteq Nat, T # {}
  PROVE  \E x \in T : \A y \in T : x <= y
<1>1. PICK x \in T : \A y \in T : ~ (<<y, x>> \in Less)
  BY WFMin, LessWellFounded
<1>2. ASSUME NEW y \in T PROVE x <= y
  <2>1. x \in Nat /\ y \in Nat
    OBVIOUS
  <2>2. ~ (y < x)
    <3>1. y < x => <<y, x>> \in Less
      BY <2>1 DEF Less
    <3> QED BY <3>1, <1>1
  <2> QED BY <2>1, <2>2
<1> QED BY <1>2

\* A function from a non-empty set to naturals below a bound has a maximum.
LEMMA GreatestValue ==
  ASSUME NEW S, S # {}, NEW f, NEW b \in Nat,
         \A s \in S : f[s] \in Nat /\ f[s] <= b
  PROVE  \E s \in S : \A r \in S : f[r] <= f[s]
<1> DEFINE T == {b - f[s] : s \in S}
<1>1. T \subseteq Nat /\ T # {}
  OBVIOUS
<1>2. \A s \in S : b - f[s] \in T
  OBVIOUS
<1>3. \A x \in T : \E s \in S : x = b - f[s]
  OBVIOUS
<1> HIDE DEF T
<1>4. PICK x \in T : \A y \in T : x <= y
  BY <1>1, LeastElement
<1>5. PICK s \in S : x = b - f[s]
  BY <1>3
<1>6. ASSUME NEW r \in S PROVE f[r] <= f[s]
  <2>1. b - f[s] <= b - f[r]
    BY <1>2, <1>4, <1>5
  <2> QED BY <2>1
<1> QED BY <1>6
-----------------------------------------------------------------------------
(***************************************************************************)
(* What the selection operators return.                                    *)
(***************************************************************************)

\* Basic facts about the widths, the slots and the fields.
LEMMA Typing ==
  /\ U64_MAX \in Nat /\ U64_MAX > 0
  /\ Slots \subseteq Nat \ {0}
  /\ EmptyVector \in OfferVector
  /\ \A vs \in VectorArray, i \in Slots :
       /\ vs[i] \in OfferVector
       /\ vs[i].start_time \in Nat
       /\ vs[i].start_time <= U64_MAX
<1>1. U64_MAX \in Nat /\ U64_MAX > 0
  BY WidthAssumption DEF U64_MAX
<1>2. Slots \subseteq Nat \ {0}
  BY PricingAssumption DEF Slots
<1>3. EmptyVector \in OfferVector
  BY <1>1 DEF EmptyVector, OfferVector, U64
<1>4. \A vs \in VectorArray, i \in Slots : vs[i] \in OfferVector
  BY DEF VectorArray
<1>5. \A v \in OfferVector : v.start_time \in Nat /\ v.start_time <= U64_MAX
  BY <1>1 DEF OfferVector, U64
<1> QED BY <1>1, <1>2, <1>3, <1>4, <1>5

\* LatestSlot returns a slot of S with the largest start time.
LEMMA LatestSlotSpec ==
  ASSUME NEW vs \in VectorArray, NEW S, S \subseteq Slots, S # {}
  PROVE  /\ LatestSlot(vs, S) \in S
         /\ \A j \in S : vs[j].start_time <= vs[LatestSlot(vs, S)].start_time
<1> DEFINE start == [i \in Slots |-> vs[i].start_time]
<1>1. \A i \in S : start[i] = vs[i].start_time /\ start[i] \in Nat
                   /\ start[i] <= U64_MAX
  BY Typing
<1>2. PICK m \in S : \A r \in S : start[r] <= start[m]
  <2> HIDE DEF start
  <2> QED BY <1>1, Typing, GreatestValue
<1> DEFINE M == {i \in S : vs[i].start_time = vs[m].start_time}
           index == [i \in Slots |-> i]
<1>3. m \in M
  OBVIOUS
<1>4. MAX_VECTORS \in Nat /\ \A i \in M : index[i] = i /\ index[i] \in Nat
                              /\ index[i] <= MAX_VECTORS
  BY PricingAssumption DEF Slots
<1>5. PICK k \in M : \A r \in M : index[r] <= index[k]
  <2> HIDE DEF M, index
  <2> QED BY <1>3, <1>4, GreatestValue
<1>6. /\ k \in S
      /\ \A j \in S : \/ vs[j].start_time < vs[k].start_time
                      \/ vs[j].start_time = vs[k].start_time /\ j <= k
  <2> SUFFICES ASSUME NEW j \in S
               PROVE  \/ vs[j].start_time < vs[k].start_time
                      \/ vs[j].start_time = vs[k].start_time /\ j <= k
    OBVIOUS
  <2>1. vs[j].start_time <= vs[k].start_time
    BY <1>1, <1>2
  <2>2. vs[j].start_time = vs[k].start_time => j <= k
    BY <1>4, <1>5
  <2>3. vs[j].start_time \in Nat /\ vs[k].start_time \in Nat
    BY Typing
  <2> QED BY <2>1, <2>2, <2>3
<1> HIDE DEF start, M, index
<1>7. /\ LatestSlot(vs, S) \in S
      /\ \A j \in S : \/ vs[j].start_time < vs[LatestSlot(vs, S)].start_time
                      \/ /\ vs[j].start_time = vs[LatestSlot(vs, S)].start_time
                         /\ j <= LatestSlot(vs, S)
  BY <1>6, Zenon DEF LatestSlot
<1> QED
  <2> SUFFICES ASSUME NEW j \in S
               PROVE  vs[j].start_time <= vs[LatestSlot(vs, S)].start_time
    BY <1>7
  <2>1. vs[j].start_time \in Nat /\ vs[LatestSlot(vs, S)].start_time \in Nat
    BY <1>7, Typing
  <2> QED BY <1>7, <2>1

\* find_vector_index_by_start_time returns a matching slot, or 0 if there is
\* none.
LEMMA FindIndexSpec ==
  ASSUME NEW vs \in VectorArray, NEW t,
         find_vector_index_by_start_time(vs, t) # 0
  PROVE  LET s == find_vector_index_by_start_time(vs, t)
         IN  s \in Slots /\ vs[s].start_time = t
<1> DEFINE found == {i \in Slots : vs[i].start_time = t}
<1>1. found # {}
  BY DEF find_vector_index_by_start_time
<1>2. found \subseteq Nat
  BY Typing
<1>3. PICK k \in found : \A j \in found : k <= j
  <2> HIDE DEF found
  <2> QED BY <1>1, <1>2, LeastElement
<1>4. find_vector_index_by_start_time(vs, t) \in found
  <2>1. find_vector_index_by_start_time(vs, t)
          = CHOOSE i \in found : \A j \in found : i <= j
    BY <1>1 DEF find_vector_index_by_start_time
  <2> HIDE DEF found
  <2> QED BY <1>3, <2>1
<1> QED BY <1>4
-----------------------------------------------------------------------------
\* find_active_vector_at returns the occupied vector with the largest start
\* time that is not after t, and EmptyVector if there is none.
LEMMA ActiveSpec ==
  ASSUME NEW vs \in VectorArray, NEW t \in Int
  PROVE  /\ Candidates(vs, t) = {} => find_active_vector_at(vs, t) = EmptyVector
         /\ Candidates(vs, t) # {} =>
              \E k \in Candidates(vs, t) :
                /\ find_active_vector_at(vs, t) = vs[k]
                /\ \A j \in Candidates(vs, t) : vs[j].start_time <= vs[k].start_time
<1>1. Candidates(vs, t) \subseteq Slots
  BY DEF Candidates, Occupied
<1>2. find_active_vector_at(vs, t) = LatestOf(vs, Candidates(vs, t))
  BY DEF find_active_vector_at, Candidates
<1>3. CASE Candidates(vs, t) = {}
  BY <1>2, <1>3 DEF LatestOf
<1>4. CASE Candidates(vs, t) # {}
  <2> DEFINE k == LatestSlot(vs, Candidates(vs, t))
  <2>1. /\ k \in Candidates(vs, t)
        /\ \A j \in Candidates(vs, t) : vs[j].start_time <= vs[k].start_time
    BY <1>1, <1>4, LatestSlotSpec
  <2>2. find_active_vector_at(vs, t) = vs[k]
    BY <1>2, <1>4 DEF LatestOf
  <2> QED BY <2>1, <2>2, <1>4
<1> QED BY <1>3, <1>4

\* The start time of the active vector is a natural number, 0 exactly when
\* no vector is active, and never after t.
LEMMA ActiveStart ==
  ASSUME NEW vs \in VectorArray, NEW t \in Nat
  PROVE  LET a == find_active_vector_at(vs, t).start_time
         IN  /\ a \in Nat
             /\ a <= t
             /\ \A i \in Occupied(vs) : vs[i].start_time <= t => vs[i].start_time <= a
             /\ a # 0 => \E i \in Occupied(vs) : vs[i].start_time = a
<1>1. CASE Candidates(vs, t) = {}
  <2>1. find_active_vector_at(vs, t).start_time = 0
    BY <1>1, ActiveSpec DEF EmptyVector
  <2>2. \A i \in Occupied(vs) : ~(vs[i].start_time <= t)
    BY <1>1 DEF Candidates
  <2> QED BY <2>1, <2>2
<1>2. CASE Candidates(vs, t) # {}
  <2>1. PICK k \in Candidates(vs, t) :
          /\ find_active_vector_at(vs, t) = vs[k]
          /\ \A j \in Candidates(vs, t) : vs[j].start_time <= vs[k].start_time
    BY <1>2, ActiveSpec
  <2>2. k \in Occupied(vs) /\ k \in Slots /\ vs[k].start_time <= t
    BY DEF Candidates, Occupied
  <2>3. vs[k].start_time \in Nat
    BY <2>2, Typing
  <2>4. \A i \in Occupied(vs) : vs[i].start_time <= t => i \in Candidates(vs, t)
    BY DEF Candidates
  <2> QED BY <2>1, <2>2, <2>3, <2>4
<1> QED BY <1>1, <1>2

\* Two arrays agree on the vector active at t when everything that ws offers
\* at t is in vs, and what is latest in vs at t is still in ws.
LEMMA SameActive ==
  ASSUME NEW vs \in VectorArray, NEW ws \in VectorArray, NEW t \in Nat,
         Distinct(ws),
         \A i \in Candidates(ws, t) : ws[i] = vs[i],
         \A k \in Candidates(vs, t) :
           (\A j \in Candidates(vs, t) : vs[j].start_time <= vs[k].start_time)
             => ws[k] = vs[k]
  PROVE  find_active_vector_at(ws, t) = find_active_vector_at(vs, t)
<1>1. \A i \in Candidates(ws, t) : i \in Candidates(vs, t)
  BY DEF Candidates, Occupied
<1>2. CASE Candidates(vs, t) = {}
  <2>1. Candidates(ws, t) = {}
    BY <1>1, <1>2
  <2> QED BY <1>2, <2>1, ActiveSpec
<1>3. CASE Candidates(vs, t) # {}
  <2>1. PICK k \in Candidates(vs, t) :
          /\ find_active_vector_at(vs, t) = vs[k]
          /\ \A j \in Candidates(vs, t) : vs[j].start_time <= vs[k].start_time
    BY <1>3, ActiveSpec
  <2>2. ws[k] = vs[k]
    BY <2>1
  <2>3. k \in Candidates(ws, t)
    BY <2>2 DEF Candidates, Occupied
  <2>4. PICK l \in Candidates(ws, t) :
          /\ find_active_vector_at(ws, t) = ws[l]
          /\ \A j \in Candidates(ws, t) : ws[j].start_time <= ws[l].start_time
    BY <2>3, ActiveSpec
  <2>5. ws[l] = vs[l] /\ l \in Candidates(vs, t)
    BY <1>1
  <2>6. ws[l].start_time <= ws[k].start_time /\ ws[k].start_time <= ws[l].start_time
    BY <2>1, <2>2, <2>3, <2>4, <2>5
  <2>7. /\ k \in Occupied(ws) /\ l \in Occupied(ws)
        /\ ws[k].start_time \in Nat /\ ws[l].start_time \in Nat
    BY <2>3, Typing DEF Candidates, Occupied
  <2>8. k = l
    BY <2>6, <2>7 DEF Distinct
  <2> QED BY <2>1, <2>2, <2>4, <2>8
<1> QED BY <1>2, <1>3
-----------------------------------------------------------------------------
(***************************************************************************)
(* add_offer_vector                                                        *)
(***************************************************************************)

\* The eviction only empties slots.
LEMMA CleanSpec ==
  ASSUME NEW vs \in VectorArray, NEW s, NEW t
  PROVE  /\ clean_old_vectors(vs, s, t) \in VectorArray
         /\ \A i \in Slots : \/ clean_old_vectors(vs, s, t)[i] = vs[i]
                             \/ clean_old_vectors(vs, s, t)[i] = EmptyVector
  BY Typing, Zenon DEF clean_old_vectors, VectorArray

NewVector(start_time_opt, base_time, shape) ==
    [start_time |-> StartOf(start_time_opt, base_time),
     base_time |-> base_time,
     base_price |-> shape.base_price,
     apr |-> shape.apr,
     price_fix_duration |-> shape.price_fix_duration]

\* What a successful AddOfferVector did: a valid vector was put into a slot
\* that the eviction left empty.
AddedAt(new, slot) ==
    /\ new \in OfferVector
    /\ validate_inputs(new)
    /\ slot \in Slots
    /\ LET cleaned == clean_old_vectors(vectors, new.start_time, now)
       IN  /\ cleaned[slot].start_time = 0
           /\ vectors' = [cleaned EXCEPT ![slot] = new]
    /\ now' = now

LEMMA AddSpec ==
  ASSUME TypeOK, AddVector
  PROVE  \E new, slot : AddedAt(new, slot)
<1>1. PICK start_time_opt \in StartTimes \cup {NoStart}, base_time \in BaseTimes,
           shape \in VectorShapes : AddOfferVector(start_time_opt, base_time, shape)
  BY DEF AddVector
<1> DEFINE new == NewVector(start_time_opt, base_time, shape)
           cleaned == clean_old_vectors(vectors, new.start_time, now)
           slot == find_vector_index_by_start_time(cleaned, 0)
<1>2. /\ validate_inputs(new)
      /\ slot # 0
      /\ vectors' = [cleaned EXCEPT ![slot] = new]
      /\ now' = now
  BY <1>1 DEF AddOfferVector, NewVector
<1>3. vectors \in VectorArray
  BY DEF TypeOK, VectorArray
<1>4. new \in OfferVector
  <2>1. base_time \in U64 /\ (start_time_opt = NoStart \/ start_time_opt \in U64)
    BY ScheduleAssumption
  <2>2. now \in U64
    BY ScheduleAssumption, Typing DEF TypeOK, U64
  <2>3. StartOf(start_time_opt, base_time) \in U64
    BY <2>1, <2>2 DEF StartOf
  <2>4. shape.base_price \in U64 /\ shape.apr \in U64
        /\ shape.price_fix_duration \in U64
    BY ScheduleAssumption
  <2> QED BY <2>1, <2>3, <2>4 DEF NewVector, OfferVector
<1>5. slot \in Slots /\ cleaned[slot].start_time = 0
  <2>1. cleaned \in VectorArray
    BY <1>3, CleanSpec
  <2> HIDE DEF cleaned
  <2> QED BY <1>2, <2>1, FindIndexSpec
<1>6. AddedAt(new, slot)
  BY <1>2, <1>4, <1>5 DEF AddedAt
<1> QED BY <1>6

\* What an Add step leaves behind, slot by slot.
LEMMA AddedSlots ==
  ASSUME TypeOK, NEW new, NEW slot, AddedAt(new, slot)
  PROVE  LET cleaned == clean_old_vectors(vectors, new.start_time, now)
         IN  /\ vectors' \in VectorArray
             /\ vectors'[slot] = new
             /\ cleaned[slot].start_time = 0
             /\ \A i \in Slots \ {slot} : vectors'[i] = cleaned[i]
             /\ \A i \in Occupied(vectors') \ {slot} : vectors'[i] = vectors[i]
<1> DEFINE cleaned == clean_old_vectors(vectors, new.start_time, now)
<1>1. /\ cleaned \in VectorArray
      /\ \A i \in Slots : cleaned[i] = vectors[i] \/ cleaned[i] = EmptyVector
  BY CleanSpec DEF TypeOK, VectorArray
<1>2. /\ slot \in Slots /\ new \in OfferVector
      /\ cleaned[slot].start_time = 0
      /\ vectors' = [cleaned EXCEPT ![slot] = new]
  BY DEF AddedAt
<1> HIDE DEF cleaned
<1>3. /\ vectors' \in VectorArray
      /\ vectors'[slot] = new
      /\ \A i \in Slots \ {slot} : vectors'[i] = cleaned[i]
  BY <1>1, <1>2 DEF VectorArray
<1>4. ASSUME NEW i \in Occupied(vectors') \ {slot}
      PROVE  vectors'[i] = vectors[i]
  <2>1. i \in Slots \ {slot} /\ vectors'[i].start_time # 0
    BY DEF Occupied
  <2>2. vectors'[i] # EmptyVector
    BY <2>1 DEF EmptyVector
  <2> QED BY <1>1, <1>3, <2>1, <2>2
<1> QED BY <1>2, <1>3, <1>4 DEF cleaned

\* A new vector starts later than every occupied slot, at the present second
\* or after it.
LEMMA AddedStart ==
  ASSUME TypeOK, NEW new, NEW slot, AddedAt(new, slot)
  PROVE  /\ new.start_time \in Nat
         /\ new.start_time >= now
         /\ new.start_time # 0
         /\ \A i \in Occupied(vectors) : vectors[i].start_time < new.start_time
<1>1. new.start_time \in Nat
  BY Typing DEF AddedAt, OfferVector, U64
<1>2. new.start_time >= now /\ now \in Nat /\ now >= 1
  BY ScheduleAssumption, Typing DEF AddedAt, validate_inputs, TypeOK
<1>3. \A i \in Occupied(vectors) : new.start_time > vectors[i].start_time
  BY DEF AddedAt, validate_inputs
<1>4. \A i \in Occupied(vectors) : vectors[i].start_time \in Nat
  BY Typing DEF TypeOK, VectorArray, Occupied
<1> QED BY <1>1, <1>2, <1>3, <1>4

\* A DeleteOfferVector step empties one slot that starts in the future.
LEMMA DeleteSpec ==
  ASSUME TypeOK, DeleteVector
  PROVE  \E slot \in Slots :
           /\ vectors[slot].start_time > now
           /\ vectors' = [vectors EXCEPT ![slot] = EmptyVector]
           /\ now' = now
<1>1. PICK t \in StartTimes \cup BaseTimes : DeleteOfferVector(t)
  BY DEF DeleteVector
<1> DEFINE slot == find_vector_index_by_start_time(vectors, t)
<1>2. /\ t > now /\ slot # 0
      /\ vectors' = [vectors EXCEPT ![slot] = EmptyVector]
      /\ now' = now
  BY <1>1 DEF DeleteOfferVector
<1>3. slot \in Slots /\ vectors[slot].start_time = t
  BY <1>2, FindIndexSpec DEF TypeOK, VectorArray
<1> QED BY <1>2, <1>3
-----------------------------------------------------------------------------
(***************************************************************************)
(* The inductive invariant: the type invariant and the distinct start      *)
(* times.                                                                  *)
(***************************************************************************)
Inv == TypeOK /\ UniqueStartTimes

LEMMA InvInit == Init => Inv
<1> SUFFICES ASSUME Init PROVE Inv
  OBVIOUS
<1>1. TypeOK
  BY Typing, ScheduleAssumption DEF Init, TypeOK, WellFormed
<1>2. Occupied(vectors) = {}
  BY DEF Init, Occupied, EmptyVector
<1> QED BY <1>1, <1>2 DEF Inv, UniqueStartTimes

LEMMA InvNext == Inv /\ [Next]_vars => Inv'
<1> SUFFICES ASSUME Inv, [Next]_vars PROVE Inv'
  OBVIOUS
<1> USE DEF Inv
<1>1. CASE UNCHANGED vars
  BY <1>1 DEF vars, TypeOK, UniqueStartTimes, Occupied
<1>2. CASE Tick
  <2>1. TypeOK'
    <3>1. now \in 1..MAX_TIME /\ MAX_TIME \in Nat
      BY ScheduleAssumption, Typing DEF TypeOK
    <3>2. now' \in 1..MAX_TIME
      BY <1>2, <3>1 DEF Tick
    <3> QED BY <1>2, <3>2 DEF Tick, TypeOK
  <2>2. UniqueStartTimes'
    BY <1>2 DEF Tick, UniqueStartTimes, Occupied
  <2> QED BY <2>1, <2>2
<1>3. CASE AddVector
  <2>1. PICK new, slot : AddedAt(new, slot)
    BY <1>3, AddSpec
  <2>2. TypeOK'
    <3>1. /\ slot \in Slots /\ vectors'[slot] = new /\ now' = now
          /\ vectors' \in VectorArray
      BY <2>1, AddedSlots DEF AddedAt
    <3>2. WellFormed(new)
      BY <2>1, AddedStart DEF AddedAt, validate_inputs, WellFormed
    <3>3. \A i \in Slots \ {slot} : vectors'[i] = vectors[i] \/ vectors'[i] = EmptyVector
      BY <2>1, AddedSlots, CleanSpec DEF TypeOK, VectorArray
    <3>4. \A i \in Slots : WellFormed(vectors'[i])
      BY <3>1, <3>2, <3>3 DEF TypeOK, WellFormed
    <3> QED BY <3>1, <3>4 DEF TypeOK, VectorArray, WellFormed
  <2>3. UniqueStartTimes'
    <3> SUFFICES ASSUME NEW i \in Occupied(vectors'), NEW j \in Occupied(vectors'),
                        vectors'[i].start_time = vectors'[j].start_time
                 PROVE  i = j
      BY DEF UniqueStartTimes, Occupied
    <3>1. \A k \in Occupied(vectors') \ {slot} :
            /\ k \in Occupied(vectors)
            /\ vectors'[k].start_time = vectors[k].start_time
            /\ vectors'[k].start_time < new.start_time
            /\ vectors'[k].start_time \in Nat
      BY <2>1, AddedSlots, AddedStart, Typing DEF Occupied, TypeOK, VectorArray
    <3>2. vectors'[slot].start_time = new.start_time /\ new.start_time \in Nat
      BY <2>1, AddedSlots, AddedStart
    <3> QED BY <3>1, <3>2 DEF UniqueStartTimes
  <2> QED BY <2>2, <2>3
<1>4. CASE DeleteVector
  <2>1. PICK slot \in Slots : /\ vectors' = [vectors EXCEPT ![slot] = EmptyVector]
                              /\ now' = now
    BY <1>4, DeleteSpec
  <2>2. TypeOK'
    BY <2>1, Typing DEF TypeOK, WellFormed
  <2>3. \A i \in Occupied(vectors') : i \in Occupied(vectors) /\ vectors'[i] = vectors[i]
    BY <2>1 DEF Occupied, EmptyVector, TypeOK
  <2>4. UniqueStartTimes'
    BY <2>3 DEF UniqueStartTimes
  <2> QED BY <2>2, <2>4
<1>5. CASE DeleteAllOfferVectors
  <2>1. TypeOK'
    BY <1>5, Typing DEF DeleteAllOfferVectors, TypeOK, WellFormed
  <2>2. Occupied(vectors') = {}
    BY <1>5 DEF DeleteAllOfferVectors, Occupied, EmptyVector
  <2> QED BY <2>1, <2>2 DEF UniqueStartTimes
<1> QED BY <1>1, <1>2, <1>3, <1>4, <1>5 DEF Next

\* The clock stays within its bound and every slot holds a well-formed
\* vector, whatever the boss passes to add_offer_vector.
THEOREM TypeCorrect == Spec => []TypeOK
<1>1. Inv => TypeOK
  BY DEF Inv
<1> QED BY InvInit, InvNext, <1>1, PTL DEF Spec

\* No two vectors of an offer ever share a start time, so looking a vector up
\* by its start time is unambiguous.
THEOREM StartTimesStayUnique == Spec => []UniqueStartTimes
<1>1. Inv => UniqueStartTimes
  BY DEF Inv
<1> QED BY InvInit, InvNext, <1>1, PTL DEF Spec
-----------------------------------------------------------------------------
(***************************************************************************)
(* Repricing is never blocked.                                             *)
(***************************************************************************)

\* However full the array, a vector that starts now finds an empty slot when
\* nothing is scheduled from this second on: the eviction keeps one vector.
LEMMA RepriceRoom == Inv => RepriceNeverBlocked
<1> SUFFICES ASSUME Inv, \A i \in Occupied(vectors) : vectors[i].start_time < now
             PROVE  \E i \in Slots :
                      clean_old_vectors(vectors, now, now)[i].start_time = 0
  BY DEF RepriceNeverBlocked
<1> DEFINE prev == find_active_vector_at(vectors, now - 1).start_time
<1>1. /\ 1 \in Slots /\ 2 \in Slots
      /\ now \in Nat /\ now >= 1
      /\ \A i \in Slots : vectors[i].start_time \in Nat
  BY PricingAssumption, ScheduleAssumption, Typing
     DEF Slots, Inv, TypeOK, VectorArray
<1>2. \A i \in Slots : clean_old_vectors(vectors, now, now)[i] =
        IF vectors[i].start_time < now /\ vectors[i].start_time # prev
        THEN EmptyVector ELSE vectors[i]
  BY DEF clean_old_vectors
<1> HIDE DEF prev
<1>3. ASSUME NEW i \in Slots,
             clean_old_vectors(vectors, now, now)[i].start_time # 0
      PROVE  i \in Occupied(vectors) /\ vectors[i].start_time = prev
  <2>1. ~ (vectors[i].start_time < now /\ vectors[i].start_time # prev)
    BY <1>2, <1>3 DEF EmptyVector
  <2>2. i \in Occupied(vectors)
    BY <1>2, <1>3, <2>1 DEF Occupied
  <2> QED BY <2>1, <2>2
<1>4. ~ (/\ clean_old_vectors(vectors, now, now)[1].start_time # 0
         /\ clean_old_vectors(vectors, now, now)[2].start_time # 0)
  BY <1>1, <1>3 DEF Inv, UniqueStartTimes
<1> QED BY <1>1, <1>4

\* The boss can always reprice an offer that has no future vectors, at once
\* and without deleting anything first.
THEOREM RepricingNeverBlocked == Spec => []RepriceNeverBlocked
BY InvInit, InvNext, RepriceRoom, PTL DEF Spec
-----------------------------------------------------------------------------
(***************************************************************************)
(* The recent past is kept.                                                *)
(***************************************************************************)

\* The eviction spares the vector that was in force at any second from the
\* start of the previous vector on (of the active one, when the new vector
\* starts now).
LEMMA AddKeepsHistory ==
  ASSUME Inv, NEW new, NEW slot, AddedAt(new, slot), Inv',
         NEW t \in Nat, t < new.start_time, t <= now,
         IF new.start_time = now THEN t >= Active.start_time
                                 ELSE t >= Previous.start_time
  PROVE  find_active_vector_at(vectors', t) = find_active_vector_at(vectors, t)
<1> DEFINE cleaned == clean_old_vectors(vectors, new.start_time, now)
           a == Active.start_time
           active == IF new.start_time = now THEN now ELSE a
           prev == find_active_vector_at(vectors, active - 1).start_time
<1>1. /\ vectors \in VectorArray /\ vectors' \in VectorArray
      /\ now \in Nat /\ now >= 1
      /\ \A i \in Slots : vectors[i].start_time \in Nat
  BY ScheduleAssumption, Typing DEF Inv, TypeOK, VectorArray
<1>2. /\ vectors'[slot] = new
      /\ cleaned[slot].start_time = 0
      /\ slot \in Slots
      /\ \A i \in Slots \ {slot} : vectors'[i] = cleaned[i]
      /\ \A i \in Occupied(vectors') \ {slot} : vectors'[i] = vectors[i]
  BY AddedSlots DEF Inv, AddedAt
<1>3. /\ new.start_time \in Nat /\ new.start_time >= now
      /\ \A i \in Occupied(vectors) : vectors[i].start_time < new.start_time
  BY AddedStart DEF Inv
<1>4. \A i \in Slots : cleaned[i] =
        IF vectors[i].start_time < active /\ vectors[i].start_time # prev
        THEN EmptyVector ELSE vectors[i]
  BY DEF clean_old_vectors, Active
<1>5. /\ a \in Nat /\ a <= now
      /\ \A i \in Occupied(vectors) : vectors[i].start_time <= now
                                        => vectors[i].start_time <= a
      /\ a # 0 => \E i \in Occupied(vectors) : vectors[i].start_time = a
  BY <1>1, ActiveStart DEF Active
<1>6. Distinct(vectors')
  BY DEF Inv, UniqueStartTimes, Distinct
<1>7. \A i \in Candidates(vectors', t) : vectors'[i] = vectors[i]
  <2> TAKE i \in Candidates(vectors', t)
  <2>1. i \in Occupied(vectors') /\ vectors'[i].start_time <= t
    BY DEF Candidates
  <2>2. i # slot
    BY <1>2, <1>3, <2>1
  <2> QED BY <1>2, <2>1, <2>2
<1>8. ASSUME NEW k \in Candidates(vectors, t),
             \A j \in Candidates(vectors, t) :
               vectors[j].start_time <= vectors[k].start_time
      PROVE  vectors'[k] = vectors[k]
  <2>1. k \in Occupied(vectors) /\ k \in Slots /\ vectors[k].start_time <= t
        /\ vectors[k].start_time # 0
    BY DEF Candidates, Occupied
  <2>2. \A j \in Occupied(vectors) : vectors[j].start_time <= t
          => vectors[j].start_time <= vectors[k].start_time
    BY <1>8 DEF Candidates
  <2>3. vectors[k].start_time < active => vectors[k].start_time = prev
    <3> SUFFICES ASSUME vectors[k].start_time < active
                 PROVE  vectors[k].start_time = prev
      OBVIOUS
    <3>1. active \in Nat /\ active - 1 \in Nat
      BY <1>1, <1>5, <2>1
    <3>2. /\ prev \in Nat /\ prev <= active - 1
          /\ \A i \in Occupied(vectors) : vectors[i].start_time <= active - 1
                                            => vectors[i].start_time <= prev
          /\ prev # 0 => \E i \in Occupied(vectors) : vectors[i].start_time = prev
      BY <1>1, <3>1, ActiveStart
    <3>3. vectors[k].start_time <= prev /\ prev # 0
      BY <1>1, <2>1, <3>1, <3>2
    <3>4. prev <= t
      <4>1. CASE new.start_time = now
        <5>1. prev <= a
          BY <1>1, <1>5, <3>2, <3>3, <4>1
        <5> QED BY <1>5, <3>2, <4>1, <5>1
      <4>2. CASE new.start_time # now
        <5>1. Previous = find_active_vector_at(vectors, a - 1)
          <6>1. a \in Nat
            BY <1>5
          <6>2. {i \in Occupied(vectors) : vectors[i].start_time < a}
                  = {i \in Occupied(vectors) : vectors[i].start_time <= a - 1}
            BY <1>1, <6>1 DEF Occupied
          <6> QED BY <6>2 DEF Previous, find_previous_vector, find_active_vector_at
        <5> QED BY <4>2, <5>1
      <4> QED BY <4>1, <4>2
    <3>5. prev <= vectors[k].start_time
      BY <2>2, <3>2, <3>3, <3>4
    <3> QED BY <1>1, <2>1, <3>2, <3>3, <3>5
  <2>4. cleaned[k] = vectors[k]
    BY <1>4, <2>1, <2>3
  <2>5. k # slot
    BY <1>2, <2>1, <2>4
  <2> QED BY <1>2, <2>1, <2>4, <2>5
<1> QED
  <2> HIDE DEF cleaned, a, active, prev
  <2> QED BY <1>1, <1>6, <1>7, <1>8, SameActive

\* A deletion only concerns the future.
LEMMA DeleteKeepsHistory ==
  ASSUME Inv, DeleteVector, Inv', NEW t \in Nat, t <= now
  PROVE  find_active_vector_at(vectors', t) = find_active_vector_at(vectors, t)
<1>1. PICK slot \in Slots :
        /\ vectors[slot].start_time > now
        /\ vectors' = [vectors EXCEPT ![slot] = EmptyVector]
  BY DeleteSpec DEF Inv
<1>2. /\ vectors \in VectorArray /\ vectors' \in VectorArray
      /\ now \in Nat /\ vectors[slot].start_time \in Nat
  BY ScheduleAssumption, Typing DEF Inv, TypeOK, VectorArray
<1>3. Distinct(vectors')
  BY DEF Inv, UniqueStartTimes, Distinct
<1>4. \A i \in Candidates(vectors', t) : vectors'[i] = vectors[i]
  BY <1>1, <1>2 DEF Candidates, Occupied, EmptyVector, VectorArray
<1>5. \A k \in Candidates(vectors, t) : k # slot
  BY <1>1, <1>2 DEF Candidates
<1>6. \A k \in Candidates(vectors, t) : vectors'[k] = vectors[k]
  BY <1>1, <1>2, <1>5 DEF Candidates, Occupied, VectorArray
<1> QED BY <1>2, <1>3, <1>4, <1>6, SameActive

\* Whether a step repriced the offer is decided by the start of the new vector.
LEMMA RepricedIff ==
  ASSUME Inv, NEW new, NEW slot, AddedAt(new, slot)
  PROVE  Repriced <=> new.start_time = now
<1>1. /\ vectors \in VectorArray /\ vectors' \in VectorArray /\ slot \in Slots
      /\ now \in Nat /\ now >= 1
      /\ vectors'[slot] = new
      /\ \A i \in Occupied(vectors') \ {slot} : vectors'[i] = vectors[i]
  BY ScheduleAssumption, Typing, AddedSlots DEF Inv, TypeOK, VectorArray, AddedAt
<1>2. /\ new.start_time \in Nat /\ new.start_time >= now
      /\ \A i \in Occupied(vectors) : vectors[i].start_time < new.start_time
  BY AddedStart DEF Inv
<1>3. /\ Active.start_time \in Nat /\ Active.start_time <= now
      /\ \A i \in Occupied(vectors) : vectors[i].start_time <= now
                                        => vectors[i].start_time <= Active.start_time
      /\ Active.start_time # 0
           => \E i \in Occupied(vectors) : vectors[i].start_time = Active.start_time
  BY <1>1, ActiveStart DEF Active
<1>4. new.start_time = now => Repriced
  BY <1>1, <1>2, <1>3 DEF Repriced
<1>5. ASSUME Repriced, new.start_time # now PROVE FALSE
  <2>1. PICK i \in Slots : vectors'[i].start_time = now
    BY <1>5 DEF Repriced
  <2>2. i \in Occupied(vectors') /\ i # slot
    BY <1>1, <1>5, <2>1 DEF Occupied
  <2>3. vectors[i].start_time = now /\ i \in Occupied(vectors)
    BY <1>1, <2>1, <2>2 DEF Occupied
  <2>4. Active.start_time = now
    BY <1>1, <1>3, <2>3
  <2> QED BY <1>5, <2>4 DEF Repriced
<1> QED BY <1>4, <1>5

\* The times that bound the recent past are natural numbers.
LEMMA StartsAreNat ==
  ASSUME Inv
  PROVE  /\ now \in Nat
         /\ Active.start_time \in Nat
         /\ Previous.start_time \in Nat
<1> DEFINE S == {i \in Occupied(vectors) : vectors[i].start_time < Active.start_time}
<1>1. now \in Nat /\ vectors \in VectorArray
  BY ScheduleAssumption, Typing DEF Inv, TypeOK, VectorArray
<1>2. Active.start_time \in Nat
  BY <1>1, ActiveStart DEF Active
<1>3. S \subseteq Slots /\ Previous = LatestOf(vectors, S)
  BY DEF Previous, find_previous_vector, Occupied
<1>4. CASE S = {}
  BY <1>1, <1>2, <1>3, <1>4 DEF LatestOf, EmptyVector
<1>5. CASE S # {}
  <2>1. LatestSlot(vectors, S) \in Slots
    BY <1>1, <1>3, <1>5, LatestSlotSpec
  <2> HIDE DEF S
  <2> QED BY <1>1, <1>2, <1>3, <1>5, <2>1, Typing DEF LatestOf
<1> QED BY <1>4, <1>5

\* The previous vector does not start after the present second.
LEMMA PreviousIsEarlier ==
  ASSUME Inv
  PROVE  Previous.start_time <= now
<1> DEFINE S == {i \in Occupied(vectors) : vectors[i].start_time < Active.start_time}
<1>1. now \in Nat /\ now >= 1 /\ vectors \in VectorArray
  BY ScheduleAssumption, Typing DEF Inv, TypeOK, VectorArray
<1>2. Active.start_time \in Nat /\ Active.start_time <= now
  BY <1>1, ActiveStart DEF Active
<1>3. S \subseteq Slots /\ Previous = LatestOf(vectors, S)
  BY DEF Previous, find_previous_vector, Occupied
<1>4. CASE S = {}
  BY <1>1, <1>3, <1>4 DEF LatestOf, EmptyVector
<1>5. CASE S # {}
  <2>1. LatestSlot(vectors, S) \in S
    BY <1>1, <1>3, <1>5, LatestSlotSpec
  <2>2. /\ vectors[LatestSlot(vectors, S)].start_time < Active.start_time
        /\ LatestSlot(vectors, S) \in Slots
    BY <1>3, <2>1
  <2>3. vectors[LatestSlot(vectors, S)].start_time \in Nat
    BY <1>1, <2>2, Typing
  <2>4. Previous = vectors[LatestSlot(vectors, S)]
    <3> HIDE DEF S
    <3> QED BY <1>3, <1>5 DEF LatestOf
  <2> QED BY <1>1, <1>2, <2>2, <2>3, <2>4
<1> QED BY <1>4, <1>5

\* Adding or deleting a vector never changes which vector was in force in the
\* recent past, nor at present unless the new vector starts this second.
THEOREM HistoryIsKept == Spec => HistoryKept
<1>1. ASSUME Inv, Inv', AddVector PROVE KeepsHistory
  <2>1. PICK new, slot : AddedAt(new, slot)
    BY <1>1, AddSpec DEF Inv
  <2>2. Repriced <=> new.start_time = now
    BY <1>1, <2>1, RepricedIff
  <2>3. new.start_time \in Nat /\ new.start_time >= now
    BY <1>1, <2>1, AddedStart DEF Inv
  <2> SUFFICES ASSUME NEW t \in (IF Repriced THEN Active.start_time
                                             ELSE Previous.start_time)
                                .. (IF Repriced THEN now - 1 ELSE now)
               PROVE  find_active_vector_at(vectors', t)
                        = find_active_vector_at(vectors, t)
    BY DEF KeepsHistory
  <2>4. /\ t \in Nat /\ t < new.start_time /\ t <= now
        /\ IF new.start_time = now THEN t >= Active.start_time
                                   ELSE t >= Previous.start_time
    BY <1>1, <2>2, <2>3, StartsAreNat
  <2> QED BY <1>1, <2>1, <2>4, AddKeepsHistory
<1>2. ASSUME Inv, Inv', DeleteVector PROVE KeepsHistory
  <2> SUFFICES ASSUME NEW t \in (IF Repriced THEN Active.start_time
                                             ELSE Previous.start_time)
                                .. (IF Repriced THEN now - 1 ELSE now)
               PROVE  find_active_vector_at(vectors', t)
                        = find_active_vector_at(vectors, t)
    BY DEF KeepsHistory
  <2>1. t \in Nat /\ t <= now
    BY <1>2, StartsAreNat
  <2> QED BY <1>2, <2>1, DeleteKeepsHistory
<1>3. Inv /\ Inv' /\ [Next]_vars => [AddVector \/ DeleteVector => KeepsHistory]_vars
  BY <1>1, <1>2
<1> QED BY <1>3, InvInit, InvNext, PTL DEF Spec, HistoryKept

\* Adding, deleting and waiting never move the active vector back in time.
THEOREM ActiveMovesForward == Spec => ActiveOnlyMovesForward
<1> DEFINE Forward == Active'.start_time >= Active.start_time
<1>1. ASSUME Inv, Inv', Tick PROVE Forward
  <2>1. /\ vectors \in VectorArray /\ vectors' = vectors
        /\ now \in Nat /\ now' \in Nat /\ now <= now'
    BY <1>1, ScheduleAssumption, Typing DEF Inv, TypeOK, VectorArray, Tick
  <2>2. Active' = find_active_vector_at(vectors, now')
    BY <2>1 DEF Active
  <2>3. /\ Active.start_time \in Nat /\ Active.start_time <= now
        /\ Active.start_time # 0
             => \E i \in Occupied(vectors) : vectors[i].start_time = Active.start_time
    BY <2>1, ActiveStart DEF Active
  <2>4. /\ Active'.start_time \in Nat
        /\ \A i \in Occupied(vectors) : vectors[i].start_time <= now'
             => vectors[i].start_time <= Active'.start_time
    BY <2>1, <2>2, ActiveStart
  <2> QED BY <2>1, <2>3, <2>4
<1>2. ASSUME Inv, Inv', AddVector PROVE Forward
  <2>1. PICK new, slot : AddedAt(new, slot)
    BY <1>2, AddSpec DEF Inv
  <2>2. /\ now' = now /\ slot \in Slots /\ vectors'[slot] = new
        /\ vectors \in VectorArray /\ vectors' \in VectorArray
        /\ now \in Nat /\ now >= 1
    BY <1>2, <2>1, ScheduleAssumption, Typing, AddedSlots
       DEF Inv, TypeOK, VectorArray, AddedAt, AddVector, AddOfferVector
  <2>3. new.start_time \in Nat /\ new.start_time >= now
    BY <1>2, <2>1, AddedStart DEF Inv
  <2>4. Active' = find_active_vector_at(vectors', now)
    BY <2>2 DEF Active
  <2>5. Active.start_time \in Nat /\ Active.start_time <= now
    BY <2>2, ActiveStart DEF Active
  <2>6. CASE new.start_time = now
    <3>1. slot \in Occupied(vectors') /\ vectors'[slot].start_time = now
      BY <2>2, <2>6 DEF Occupied
    <3>2. Active'.start_time \in Nat /\ vectors'[slot].start_time <= Active'.start_time
      BY <2>2, <2>4, <3>1, ActiveStart
    <3> QED BY <2>2, <2>5, <3>1, <3>2
  <2>7. CASE new.start_time # now
    <3>1. Previous.start_time <= now
      <4>1. Previous.start_time \in Nat
        BY <1>2, StartsAreNat
      <4> QED BY <1>2, <2>2, <2>5, <4>1, PreviousIsEarlier
    <3>2. find_active_vector_at(vectors', now) = Active
      BY <1>2, <2>1, <2>2, <2>3, <2>7, <3>1, AddKeepsHistory DEF Active
    <3> QED BY <2>4, <2>5, <3>2
  <2> QED BY <2>6, <2>7
<1>3. ASSUME Inv, Inv', DeleteVector PROVE Forward
  <2>1. now' = now /\ now \in Nat /\ Active.start_time \in Nat
    BY <1>3, StartsAreNat DEF DeleteVector, DeleteOfferVector
  <2>2. Active' = find_active_vector_at(vectors', now)
    BY <2>1 DEF Active
  <2>3. Active' = Active
    BY <1>3, <2>1, <2>2, DeleteKeepsHistory DEF Active
  <2> QED BY <2>1, <2>3
<1>4. Inv /\ Inv' /\ [Next]_vars => [~DeleteAllOfferVectors => Forward]_vars
  BY <1>1, <1>2, <1>3 DEF Next
<1> QED BY <1>4, InvInit, InvNext, PTL DEF Spec, ActiveOnlyMovesForward
-----------------------------------------------------------------------------
(***************************************************************************)
(* Prices over time.                                                       *)
(***************************************************************************)

\* The quotient of an integer division, by its two bounds.
LEMMA QuotientBounds ==
  ASSUME NEW n \in Nat, NEW d \in Nat \ {0}
  PROVE  /\ n \div d \in Nat
         /\ d * (n \div d) <= n
         /\ n < d * (n \div d) + d
OBVIOUS

\* Numbers whose multiples of d are in order are in order.
LEMMA MultiplesOrder ==
  ASSUME NEW d \in Nat \ {0}, NEW x \in Nat, NEW y \in Nat, d * x < d * y + d
  PROVE  x <= y
<1>1. SUFFICES ASSUME y + 1 <= x PROVE FALSE
  OBVIOUS
<1>2. d * (y + 1) <= d * x
  BY <1>1
<1>3. d * (y + 1) = d * y + d
  OBVIOUS
<1> QED BY <1>2, <1>3

\* The quotient grows with the number.
LEMMA QuotientGrows ==
  ASSUME NEW n \in Nat, NEW m \in Nat, n <= m, NEW d \in Nat \ {0}
  PROVE  n \div d <= m \div d
<1> DEFINE p == n \div d  q == m \div d
<1>1. p \in Nat /\ d * p <= n /\ q \in Nat /\ m < d * q + d
  BY QuotientBounds
<1> HIDE DEF p, q
<1>2. d * p \in Nat /\ d * q \in Nat
  BY <1>1
<1>3. d * p < d * q + d
  BY <1>1, <1>2
<1>4. p <= q
  BY <1>1, <1>3, MultiplesOrder
<1> QED BY <1>4 DEF p, q

\* Within an interval the quotient is the same.
LEMMA SameQuotient ==
  ASSUME NEW n \in Nat, NEW m \in Nat, n <= m, NEW d \in Nat \ {0},
         m < (n \div d + 1) * d
  PROVE  m \div d = n \div d
<1> DEFINE p == n \div d  q == m \div d
<1>1. p \in Nat /\ q \in Nat /\ d * q <= m
  BY QuotientBounds
<1>2. p <= q
  BY QuotientGrows
<1>3. m < (p + 1) * d
  OBVIOUS
<1> HIDE DEF p, q
<1>4. (p + 1) * d = d * p + d /\ d * p \in Nat /\ d * q \in Nat
  BY <1>1
<1>5. d * q < d * p + d
  BY <1>1, <1>3, <1>4
<1>6. q <= p
  BY <1>1, <1>5, MultiplesOrder
<1>7. q = p
  BY <1>1, <1>2, <1>6
<1> QED BY <1>7 DEF p, q

\* Linear growth never falls, and once it overflows it stays so.
LEMMA VectorPriceGrows ==
  ASSUME NEW apr \in Nat, NEW base_price \in Nat, NEW e \in Nat, NEW f \in Nat, e <= f,
         calculate_vector_price(apr, base_price, f) # Err
  PROVE  /\ calculate_vector_price(apr, base_price, e) # Err
         /\ calculate_vector_price(apr, base_price, e)
              <= calculate_vector_price(apr, base_price, f)
<1> DEFINE ne == FactorDen + apr * e
           nf == FactorDen + apr * f
           ge == base_price * ne
           gf == base_price * nf
           pe == ge \div FactorDen
           pf == gf \div FactorDen
<1>1. FactorDen \in Nat \ {0}
  BY PricingAssumption DEF FactorDen
<1>2. U64_MAX \in Nat /\ U128_MAX \in Nat
  BY WidthAssumption DEF U64_MAX, U128_MAX
<1>3. /\ calculate_vector_price(apr, base_price, e) =
           IF ne <= U128_MAX /\ ge <= U128_MAX /\ pe <= U64_MAX THEN pe ELSE Err
      /\ calculate_vector_price(apr, base_price, f) =
           IF nf <= U128_MAX /\ gf <= U128_MAX /\ pf <= U64_MAX THEN pf ELSE Err
  BY DEF calculate_vector_price
<1>4. apr * e \in Nat /\ apr * f \in Nat /\ apr * e <= apr * f
  OBVIOUS
<1>5. ne \in Nat /\ nf \in Nat /\ ne <= nf
  BY <1>1, <1>4
<1>6. ge \in Nat /\ gf \in Nat /\ ge <= gf
  <2> HIDE DEF ne, nf
  <2> QED BY <1>5
<1>7. pe \in Nat /\ pf \in Nat /\ pe <= pf
  <2> HIDE DEF ge, gf
  <2> QED BY <1>1, <1>6, QuotientBounds, QuotientGrows
<1> HIDE DEF ne, nf, ge, gf, pe, pf
<1> QED BY <1>2, <1>3, <1>5, <1>6, <1>7 DEF Err

\* The end of the interval that contains the given second.
StepEnd(v, t) == ((t - v.base_time) \div v.price_fix_duration + 1) * v.price_fix_duration

LEMMA StepPriceSpec ==
  ASSUME NEW v, NEW t
  PROVE  calculate_step_price_at(v, t) =
           IF v.base_time > t \/ StepEnd(v, t) > U64_MAX THEN Err
           ELSE calculate_vector_price(v.apr, v.base_price, StepEnd(v, t))
  BY DEF calculate_step_price_at, StepEnd

\* A vector that can price: its fields are numbers and its intervals not empty.
Pricing(v) == v \in OfferVector /\ v.price_fix_duration > 0

\* The price of a vector at a later second, if there is one, is not lower.
LEMMA StepPriceGrows ==
  ASSUME NEW v, Pricing(v), NEW t \in Nat, NEW u \in Nat, v.base_time <= t, t <= u,
         calculate_step_price_at(v, u) # Err
  PROVE  /\ calculate_step_price_at(v, t) # Err
         /\ calculate_step_price_at(v, t) <= calculate_step_price_at(v, u)
<1> DEFINE b == v.base_time
           d == v.price_fix_duration
           p == (t - b) \div d
           q == (u - b) \div d
<1>1. /\ U64_MAX \in Nat /\ b \in Nat /\ d \in Nat \ {0}
      /\ v.apr \in Nat /\ v.base_price \in Nat
  BY Typing DEF Pricing, OfferVector, U64
<1>2. t - b \in Nat /\ u - b \in Nat /\ t - b <= u - b
  BY <1>1
<1>3. p \in Nat /\ q \in Nat /\ p <= q
  <2> HIDE DEF b, d
  <2> QED BY <1>1, <1>2, QuotientBounds, QuotientGrows
<1>4. StepEnd(v, t) = (p + 1) * d /\ StepEnd(v, u) = (q + 1) * d
  BY DEF StepEnd
<1>5. /\ (p + 1) * d \in Nat /\ (q + 1) * d \in Nat
      /\ (p + 1) * d <= (q + 1) * d
  <2> HIDE DEF p, q, d
  <2> QED BY <1>1, <1>3
<1> HIDE DEF p, q, b, d
<1>6. StepEnd(v, t) \in Nat /\ StepEnd(v, u) \in Nat /\ StepEnd(v, t) <= StepEnd(v, u)
  BY <1>4, <1>5
<1>7. /\ StepEnd(v, u) <= U64_MAX
      /\ calculate_step_price_at(v, u)
           = calculate_vector_price(v.apr, v.base_price, StepEnd(v, u))
  BY <1>1, <1>6, StepPriceSpec
<1>8. calculate_step_price_at(v, t)
        = calculate_vector_price(v.apr, v.base_price, StepEnd(v, t))
  BY <1>1, <1>6, <1>7, StepPriceSpec DEF b
<1> QED BY <1>1, <1>6, <1>7, <1>8, VectorPriceGrows

\* The vector in force, if there is one, can price.
LEMMA ActivePrices ==
  ASSUME Inv, Active # EmptyVector
  PROVE  Pricing(Active) /\ Active.start_time \in Nat \ {0}
<1>1. vectors \in VectorArray /\ now \in Nat
  BY ScheduleAssumption, Typing DEF Inv, TypeOK, VectorArray
<1>2. PICK k \in Candidates(vectors, now) : Active = vectors[k]
  BY <1>1, ActiveSpec DEF Active
<1>3. k \in Slots /\ k \in Occupied(vectors) /\ vectors[k].start_time # 0
  BY DEF Candidates, Occupied
<1>4. Active \in OfferVector /\ WellFormed(Active)
  BY <1>1, <1>2, <1>3, Typing DEF Inv, TypeOK
<1> QED BY <1>1, <1>2, <1>3, <1>4, Typing DEF Pricing, WellFormed

\* find_next_vector_after returns the first of the future vectors.
LEMMA NextSpec ==
  ASSUME NEW vs \in VectorArray, NEW t \in Nat, NEW i \in Slots, vs[i].start_time > t
  PROVE  /\ \E k \in Slots : find_next_vector_after(vs, t) = vs[k]
         /\ find_next_vector_after(vs, t) # EmptyVector
         /\ find_next_vector_after(vs, t).start_time <= vs[i].start_time
<1> DEFINE future == {j \in Slots : vs[j].start_time > t}
           starts == {vs[j].start_time : j \in future}
<1>1. i \in future /\ starts \subseteq Nat /\ starts # {}
  BY Typing
<1>2. PICK s \in starts : \A r \in starts : s <= r
  <2> HIDE DEF starts, future
  <2> QED BY <1>1, LeastElement
<1>3. PICK k \in future : \A j \in future : vs[k].start_time <= vs[j].start_time
  BY <1>2
<1> DEFINE c == CHOOSE m \in future : \A j \in future : vs[m].start_time <= vs[j].start_time
<1>4. find_next_vector_after(vs, t) = vs[c]
  <2>1. future # {}
    BY <1>1
  <2> QED BY <2>1 DEF find_next_vector_after
<1>5. c \in future /\ \A j \in future : vs[c].start_time <= vs[j].start_time
  <2> HIDE DEF starts, future
  <2> QED BY <1>3, Zenon
<1> HIDE DEF c
<1>6. vs[c].start_time > t /\ t >= 0 /\ EmptyVector.start_time = 0
  BY <1>5 DEF EmptyVector
<1>7. vs[c] # EmptyVector
  BY <1>6
<1> QED BY <1>1, <1>4, <1>5, <1>7

\* Whatever find_next_vector_after returns is a vector.
LEMMA NextIsVector ==
  ASSUME NEW vs \in VectorArray, NEW t \in Nat
  PROVE  find_next_vector_after(vs, t) \in OfferVector
<1> DEFINE future == {j \in Slots : vs[j].start_time > t}
<1>1. CASE future = {}
  BY <1>1, Typing DEF find_next_vector_after
<1>2. CASE future # {}
  <2>1. PICK i \in Slots : vs[i].start_time > t
    BY <1>2
  <2>2. PICK k \in Slots : find_next_vector_after(vs, t) = vs[k]
    BY <2>1, NextSpec
  <2> QED BY <2>2, Typing
<1> QED BY <1>1, <1>2

\* Until the announced change no other vector comes into force.
LEMMA SameVectorUntilChange ==
  ASSUME Inv, NEW t \in Nat, now <= t,
         \A i \in Slots : vectors[i].start_time > now => vectors[i].start_time > t
  PROVE  find_active_vector_at(vectors, t) = Active
<1>1. /\ now \in Nat
      /\ \A i \in Slots : vectors[i].start_time \in Nat
  BY ScheduleAssumption, Typing DEF Inv, TypeOK, VectorArray
<1>2. {i \in Occupied(vectors) : vectors[i].start_time <= t}
        = {i \in Occupied(vectors) : vectors[i].start_time <= now}
  BY <1>1 DEF Occupied
<1> QED BY <1>2 DEF Active, find_active_vector_at

\* The price that get_nav reports holds until the time that it announces.
THEOREM NavHolds == Spec => NavHoldsUntilAnnouncedChange
<1>1. ASSUME Inv, Tick, NextPriceChange(vectors, now) # Err,
             now' < NextPriceChange(vectors, now)
      PROVE  NavPrice(vectors, now') = NavPrice(vectors, now)
  <2> DEFINE v == Active
             b == v.base_time
             d == v.price_fix_duration
             interval == b + StepEnd(v, now)
             next == find_next_vector_after(vectors, now)
  <2>1. /\ vectors \in VectorArray
        /\ now \in Nat /\ now' \in Nat /\ now <= now'
    BY <1>1, ScheduleAssumption, Typing DEF Inv, TypeOK, VectorArray, Tick
  <2>2. /\ NavPrice(vectors, now) # Err
        /\ NextPriceChange(vectors, now) =
             IF next # EmptyVector /\ next.start_time < interval
             THEN next.start_time ELSE interval
    BY <1>1 DEF NextPriceChange, StepEnd, Active
  <2>3. v # EmptyVector /\ NavPrice(vectors, now) = calculate_step_price_at(v, now)
    BY <2>2 DEF NavPrice, Active
  <2>4. Pricing(v)
    BY <1>1, <2>3, ActivePrices
  <2>5. b \in Nat /\ d \in Nat \ {0}
    BY <2>4, Typing DEF Pricing, OfferVector, U64
  <2>6. b <= now
    BY <2>1, <2>2, <2>3, <2>5, StepPriceSpec
  <2>7. /\ now - b \in Nat /\ now' - b \in Nat /\ now - b <= now' - b
        /\ (now - b) \div d \in Nat
    <3>1. now - b \in Nat /\ now' - b \in Nat /\ now - b <= now' - b
      BY <2>1, <2>5, <2>6
    <3> HIDE DEF b, d
    <3> QED BY <2>5, <3>1, QuotientBounds
  <2>8. StepEnd(v, now) \in Nat
    <3>1. StepEnd(v, now) = ((now - b) \div d + 1) * d
      BY DEF StepEnd
    <3> DEFINE p == (now - b) \div d
    <3> HIDE DEF p, d
    <3>2. (p + 1) * d \in Nat
      BY <2>5, <2>7 DEF p
    <3> QED BY <3>1, <3>2 DEF p, d
  <2>9. ASSUME NEW i \in Slots, vectors[i].start_time > now
        PROVE  vectors[i].start_time > now'
    <3>1. next # EmptyVector /\ next.start_time <= vectors[i].start_time
      BY <2>1, <2>9, NextSpec
    <3>2. next.start_time \in Nat
      <4>1. next \in OfferVector
        BY <2>1, NextIsVector
      <4> QED BY <4>1, Typing DEF OfferVector, U64
    <3>3. NextPriceChange(vectors, now) <= next.start_time
      BY <2>2, <2>5, <2>8, <3>1, <3>2
    <3> QED BY <1>1, <2>1, <2>2, <2>5, <2>8, <3>1, <3>2, <3>3, Typing
  <2>10. find_active_vector_at(vectors, now') = v
    BY <1>1, <2>1, <2>9, SameVectorUntilChange
  <2>11. now' < interval
    <3>1. next # EmptyVector => next.start_time \in Int
      BY <2>1, NextIsVector, Typing DEF OfferVector, U64
    <3> QED BY <1>1, <2>1, <2>2, <2>5, <2>8, <3>1
  <2>12. (now' - b) \div d = (now - b) \div d
    <3>1. now' - b < StepEnd(v, now)
      BY <2>1, <2>5, <2>8, <2>11
    <3>2. now' - b < ((now - b) \div d + 1) * d
      BY <3>1 DEF StepEnd
    <3> HIDE DEF b, d
    <3> QED BY <2>5, <2>7, <3>2, SameQuotient
  <2>13. StepEnd(v, now') = StepEnd(v, now)
    BY <2>12 DEF StepEnd
  <2>14. calculate_step_price_at(v, now') = calculate_step_price_at(v, now)
    BY <2>1, <2>5, <2>6, <2>13, StepPriceSpec
  <2>15. NavPrice(vectors, now') = calculate_step_price_at(v, now')
    BY <2>3, <2>10 DEF NavPrice
  <2> QED BY <2>3, <2>14, <2>15
<1>2. Inv /\ [Next]_vars =>
        [ Tick /\ NextPriceChange(vectors, now) # Err
               /\ now' < NextPriceChange(vectors, now)
            => NavPrice(vectors, now') = NavPrice(vectors, now) ]_vars
  BY <1>1
<1> QED
  BY <1>2, InvInit, InvNext, PTL
     DEF Spec, NavHoldsUntilAnnouncedChange

\* While a vector stays in force its price never falls as time passes.
THEOREM PriceNeverFalls == Spec => PriceNeverFallsWithinVector
<1>1. ASSUME Inv, Tick, Active # EmptyVector, Active' = Active,
             Active.base_time <= now, NavPrice(vectors, now') # Err
      PROVE  /\ NavPrice(vectors, now) # Err
             /\ NavPrice(vectors, now') >= NavPrice(vectors, now)
  <2>1. /\ vectors' = vectors
        /\ now \in Nat /\ now' \in Nat /\ now <= now'
    BY <1>1, ScheduleAssumption, Typing DEF Inv, TypeOK, Tick
  <2>2. find_active_vector_at(vectors, now') = Active
    BY <1>1, <2>1 DEF Active
  <2>3. /\ NavPrice(vectors, now) = calculate_step_price_at(Active, now)
        /\ NavPrice(vectors, now') = calculate_step_price_at(Active, now')
    BY <1>1, <2>2 DEF NavPrice, Active
  <2>4. Pricing(Active)
    BY <1>1, ActivePrices
  <2>5. /\ calculate_step_price_at(Active, now) # Err
        /\ calculate_step_price_at(Active, now) <= calculate_step_price_at(Active, now')
    BY <1>1, <2>1, <2>3, <2>4, StepPriceGrows
  <2> QED BY <2>3, <2>5
<1>2. Inv /\ [Next]_vars =>
        [ Tick /\ Active # EmptyVector /\ Active' = Active /\ Active.base_time <= now
            => \/ NavPrice(vectors, now') = Err
               \/ /\ NavPrice(vectors, now) # Err
                  /\ NavPrice(vectors, now') >= NavPrice(vectors, now) ]_vars
  BY <1>1
<1> QED
  BY <1>2, InvInit, InvNext, PTL
     DEF Spec, PriceNeverFallsWithinVector
-----------------------------------------------------------------------------
(***************************************************************************)
(* The adjustment that get_nav_adjustment reports.                         *)
(***************************************************************************)

\* It is a function of the active vector and of the one before it.
LEMMA SameAdjustment ==
  ASSUME NEW vs, NEW ws, NEW t, NEW u,
         find_active_vector_at(ws, u) = find_active_vector_at(vs, t),
         LET a == find_active_vector_at(vs, t)
         IN  a # EmptyVector => find_previous_vector(ws, a.start_time)
                                  = find_previous_vector(vs, a.start_time)
  PROVE  get_nav_adjustment(ws, u) = get_nav_adjustment(vs, t)
<1>1. CASE find_active_vector_at(vs, t) = EmptyVector
  BY <1>1 DEF get_nav_adjustment
<1>2. CASE find_active_vector_at(vs, t) # EmptyVector
  BY <1>2 DEF get_nav_adjustment
<1> QED BY <1>1, <1>2

\* The vector before a start time is the one in force a second before it.
LEMMA PreviousIsActiveBefore ==
  ASSUME NEW vs \in VectorArray, NEW s \in Nat
  PROVE  find_previous_vector(vs, s) = find_active_vector_at(vs, s - 1)
<1>1. \A i \in Occupied(vs) : vs[i].start_time \in Nat
  BY Typing DEF Occupied
<1>2. {i \in Occupied(vs) : vs[i].start_time < s}
        = {i \in Occupied(vs) : vs[i].start_time <= s - 1}
  BY <1>1
<1> QED BY <1>2 DEF find_previous_vector, find_active_vector_at

\* Neither time, nor the eviction, nor a deletion changes what the active
\* vector is compared with.
THEOREM AdjustmentHolds == Spec => AdjustmentHoldsWhileActive
<1> DEFINE Same == get_nav_adjustment(vectors', now') = get_nav_adjustment(vectors, now)
           s == Active.start_time
<1>1. ASSUME Inv, Inv', Active' = Active,
             Active # EmptyVector => find_previous_vector(vectors', s)
                                       = find_previous_vector(vectors, s)
      PROVE  Same
  BY <1>1, SameAdjustment DEF Active
<1>2. ASSUME Inv, Inv', Active' = Active, Tick \/ UNCHANGED vars PROVE Same
  <2>1. vectors' = vectors
    BY <1>2 DEF Tick, vars
  <2> QED BY <1>1, <1>2, <2>1
<1>3. ASSUME Inv, Active # EmptyVector
      PROVE  /\ vectors \in VectorArray /\ now \in Nat
             /\ s \in Nat \ {0} /\ s <= now /\ s - 1 \in Nat /\ s - 1 <= now
             /\ Previous = find_active_vector_at(vectors, s - 1)
             /\ Previous.start_time \in Nat /\ Previous.start_time <= s - 1
  <2>1. vectors \in VectorArray /\ now \in Nat
    BY <1>3, ScheduleAssumption, Typing DEF Inv, TypeOK, VectorArray
  <2>2. s \in Nat \ {0} /\ s <= now
    BY <1>3, <2>1, ActivePrices, ActiveStart DEF Active
  <2>3. s - 1 \in Nat /\ s - 1 <= now
    BY <2>1, <2>2
  <2>4. Previous = find_active_vector_at(vectors, s - 1)
    BY <2>1, <2>2, PreviousIsActiveBefore DEF Previous
  <2>5. Previous.start_time \in Nat /\ Previous.start_time <= s - 1
    BY <2>1, <2>3, <2>4, ActiveStart
  <2> QED BY <2>1, <2>2, <2>3, <2>4, <2>5
<1>4. ASSUME Inv, Inv', Active # EmptyVector,
             find_active_vector_at(vectors', s - 1) = find_active_vector_at(vectors, s - 1)
      PROVE  find_previous_vector(vectors', s) = find_previous_vector(vectors, s)
  <2>1. vectors' \in VectorArray
    BY <1>4 DEF Inv, TypeOK, VectorArray
  <2> QED BY <1>3, <1>4, <2>1, PreviousIsActiveBefore
<1>5. ASSUME Inv, Inv', Active' = Active, AddVector PROVE Same
  <2>1. PICK new, slot : AddedAt(new, slot)
    BY <1>5, AddSpec DEF Inv
  <2> SUFFICES ASSUME Active # EmptyVector
               PROVE  find_active_vector_at(vectors', s - 1)
                        = find_active_vector_at(vectors, s - 1)
    BY <1>1, <1>4, <1>5
  <2>2. /\ vectors \in VectorArray /\ now \in Nat /\ s \in Nat \ {0} /\ s <= now
        /\ s - 1 \in Nat /\ s - 1 <= now
        /\ Previous.start_time <= s - 1
    BY <1>3, <1>5
  <2>3. /\ new.start_time \in Nat /\ new.start_time >= now
        /\ \A i \in Occupied(vectors) : vectors[i].start_time < new.start_time
    BY <1>5, <2>1, AddedStart DEF Inv
  <2>4. /\ now' = now /\ slot \in Slots /\ vectors'[slot] = new
        /\ vectors' \in VectorArray
    BY <1>5, <2>1, AddedSlots DEF Inv, AddedAt, TypeOK, VectorArray
  \* A vector that starts now would have become the active one.
  <2>5. new.start_time # now
    <3> SUFFICES ASSUME new.start_time = now PROVE FALSE
      OBVIOUS
    <3>1. slot \in Occupied(vectors') /\ vectors'[slot].start_time = now
      BY <2>2, <2>4 DEF Occupied
    <3>2. now <= find_active_vector_at(vectors', now).start_time
      BY <2>2, <2>4, <3>1, ActiveStart
    <3>3. find_active_vector_at(vectors', now) = Active
      BY <1>5, <2>4 DEF Active
    <3>4. s = now
      BY <2>2, <3>2, <3>3
    <3>5. \E i \in Occupied(vectors) : vectors[i].start_time = s
      BY <2>2, ActiveStart DEF Active
    <3> QED BY <2>3, <3>4, <3>5
  <2>6. s - 1 < new.start_time /\ s - 1 >= Previous.start_time
    BY <1>3, <1>5, <2>2, <2>3
  <2> QED BY <1>5, <2>1, <2>2, <2>5, <2>6, AddKeepsHistory
<1>6. ASSUME Inv, Inv', Active' = Active, DeleteVector PROVE Same
  <2> SUFFICES ASSUME Active # EmptyVector
               PROVE  find_active_vector_at(vectors', s - 1)
                        = find_active_vector_at(vectors, s - 1)
    BY <1>1, <1>4, <1>6
  <2> QED BY <1>3, <1>6, DeleteKeepsHistory
<1>7. Inv /\ Inv' /\ [Next]_vars =>
        [Active' = Active /\ ~DeleteAllOfferVectors => Same]_vars
  BY <1>2, <1>5, <1>6 DEF Next
<1> QED
  BY <1>7, InvInit, InvNext, PTL
     DEF Spec, AdjustmentHoldsWhileActive
=============================================================================
