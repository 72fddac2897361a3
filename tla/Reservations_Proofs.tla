-------------------------- MODULE Reservations_Proofs --------------------------
(***************************************************************************)
(* Theorems about the seats of service days, for any riders, days,         *)
(* vehicles, hours and bounds, and any initial schedule of departures.     *)
(***************************************************************************)
EXTENDS DaySweeps, FiniteSetTheorems, TLAPS

(* The sets that TypeOK spells out *)
Trips == [state : {"none", "scheduled", "active", "completed", "cancelled"},
          at : Nat, bus : Vehicles \cup {NoBus}]
Statuses == Seated \cup Unused \cup {"none", "declined", "operator_cancelled"}
Pauses == [state : {"none", "planned", "completed", "terminated"}, first : Nat, resume : Nat]

(* SeatsAreFunded needs two facts more: what is boarded or missed is what was charged, and
   a pause does not end before it begins. *)
Charged ==
  \A r \in Riders, d \in Days : res[r][d] \in {"boarded", "no_show"} <=> charge[r][d] # "none"
PausesRun == \A r \in Riders : pause[r].first <= pause[r].resume
SeatsInv == SeatsSafe /\ Charged /\ PausesRun

-----------------------------------------------------------------------------
(* The bounds are numbers, and there is an hour before the last. *)
LEMMA SeatBounds ==
  /\ LastTime \in Nat \ {0} /\ Granted \in Nat /\ MinPause \in Nat /\ MaxPause \in Nat
  /\ MaxEdits \in Nat
BY ReservationsAssumption

(* The types, by name *)
LEMMA SeatFields ==
  ASSUME TypeOK
  PROVE  /\ Days \subseteq Nat /\ now \in Nat /\ Granted \in Nat /\ MaxEdits \in Nat /\ LastTime \in Nat
         /\ trip \in [Days -> Trips] /\ res \in [Riders -> [Days -> Statuses]]
         /\ pause \in [Riders -> Pauses]
         /\ \A d \in Days : trip[d].at \in Nat
         /\ \A r \in Riders :
              ends[r] \in Nat /\ pause[r].first \in Nat /\ pause[r].resume \in Nat
<1>1. /\ Days \subseteq Nat /\ Granted \in Nat /\ MaxEdits \in Nat /\ LastTime \in Nat
  BY ReservationsAssumption
<1>2. now \in Nat
  BY <1>1 DEF TypeOK
<1>3. trip \in [Days -> Trips] /\ res \in [Riders -> [Days -> Statuses]] /\ pause \in [Riders -> Pauses]
  BY DEF TypeOK, Trips, Statuses, Pauses
<1>4. \A d \in Days : trip[d].at \in Nat
  BY <1>3 DEF Trips
<1>5. \A r \in Riders : ends[r] \in Nat /\ pause[r].first \in Nat /\ pause[r].resume \in Nat
  BY <1>3 DEF TypeOK, Pauses
<1> QED
  BY <1>1, <1>2, <1>3, <1>4, <1>5

(* One answer changes. *)
LEMMA OneAnswer ==
  ASSUME TypeOK, NEW r \in Riders, NEW d \in Days, NEW status, status \in Statuses,
         res' = [res EXCEPT ![r][d] = status]
  PROVE  /\ res' \in [Riders -> [Days -> Statuses]]
         /\ \A q \in Riders, e \in Days :
              res'[q][e] = IF q = r /\ e = d THEN status ELSE res[q][e]
<1>1. res \in [Riders -> [Days -> Statuses]]
  BY SeatFields
<1>2. res' = [res EXCEPT ![r] = [res[r] EXCEPT ![d] = status]]
  BY <1>1
<1>3. [res[r] EXCEPT ![d] = status] \in [Days -> Statuses]
  BY <1>1
<1> QED
  BY <1>1, <1>2, <1>3

(* The unused answers of a rider lapse. *)
LEMMA RiderLapses ==
  ASSUME TypeOK, NEW r \in Riders, LapseUnused(r)
  PROVE  /\ res' \in [Riders -> [Days -> Statuses]]
         /\ \A q \in Riders, e \in Days :
              res'[q][e] = IF q = r THEN Lapse(res[q][e]) ELSE res[q][e]
<1>1. res \in [Riders -> [Days -> Statuses]]
  BY SeatFields
<1>2. res' = [res EXCEPT ![r] = [d \in Days |-> Lapse(res[r][d])]]
  BY <1>1 DEF LapseUnused
<1>3. [d \in Days |-> Lapse(res[r][d])] \in [Days -> Statuses]
  BY <1>1 DEF Lapse, Statuses
<1> QED
  BY <1>1, <1>2, <1>3

(* What refuses a seat did not hold when nothing refuses it. *)
LEMMA NotRefused ==
  ASSUME TypeOK, NEW r \in Riders, NEW d \in Days, NEW mode, Refusal(r, d, mode) = "ok"
  PROVE  /\ period[r] = "open" /\ trip[d].state = "scheduled" /\ trip[d].at < EndSettled(r)
         /\ res[r][d] \notin {"boarded", "no_show"} /\ ~InPause(r, d)
         /\ mode # "ask" => ~(Left(r) <= Cardinality(Holding(r, d)))
         /\ mode # "ask" /\ res[r][d] # "reserved" => ~Full(d)
<1> DEFINE past == d < Today
           uncovered == period[r] # "open" \/ trip[d].state = "none" \/ trip[d].at >= EndSettled(r)
           terminal == res[r][d] \in {"boarded", "no_show"}
           started == Live(r, d) /\ ~Upcoming(d)
           spent == r \in Offered /\ Left(r) <= Cardinality(Holding(r, d))
           blocked == Blocked(r)
           gone == ~Upcoming(d)
           none == mode # "ask" /\ Left(r) <= Cardinality(Holding(r, d))
           paused == InPause(r, d)
           full == mode # "ask" /\ res[r][d] # "reserved" /\ Full(d)
<1>1. Refusal(r, d, mode) =
        IF past THEN "service_day_past"
        ELSE IF uncovered THEN "coverage_required"
        ELSE IF terminal THEN "reservation_terminal"
        ELSE IF started THEN "service_started"
        ELSE IF spent THEN "journey_rides_exhausted"
        ELSE IF blocked THEN "membership_blocked"
        ELSE IF gone THEN "departure_unavailable"
        ELSE IF none THEN "rides_unavailable"
        ELSE IF paused THEN "personal_pause_active"
        ELSE IF full THEN "reservation_capacity"
        ELSE "ok"
  BY DEF Refusal
<1>2. ~uncovered /\ ~terminal /\ ~gone /\ ~none /\ ~paused /\ ~full
  <2> HIDE DEF past, uncovered, terminal, started, spent, blocked, gone, none, paused, full
  <2> QED
    BY <1>1
<1>3. trip[d].at \in Int /\ EndSettled(r) \in Int
  <2>1. /\ pause[r].first \in Nat /\ pause[r].resume \in Nat /\ trip[d].at \in Nat /\ ends[r] \in Nat
    BY SeatFields
  <2> QED
    BY <2>1 DEF EndSettled
<1>4. trip[d].at < EndSettled(r)
  BY <1>2, <1>3
<1> QED
  BY <1>2, <1>4 DEF Upcoming


(* A departure changes its state. *)
LEMMA TripMoves ==
  ASSUME TypeOK, NEW d \in Days,
         NEW s, s \in {"none", "scheduled", "active", "completed", "cancelled"},
         trip' = [trip EXCEPT ![d].state = s]
  PROVE  /\ trip' \in [Days -> Trips]
         /\ \A e \in Days : /\ trip'[e].at = trip[e].at /\ trip'[e].bus = trip[e].bus
                            /\ trip'[e].state = IF e = d THEN s ELSE trip[e].state
<1>1. trip \in [Days -> Trips]
  BY SeatFields
<1>2. trip' = [trip EXCEPT ![d] = [trip[d] EXCEPT !.state = s]]
  BY <1>1
<1>3. [trip[d] EXCEPT !.state = s] \in Trips
  BY <1>1 DEF Trips
<1>4. trip' \in [Days -> Trips]
  BY <1>1, <1>2, <1>3
<1>5. \A e \in Days : trip'[e] = IF e = d THEN [trip[d] EXCEPT !.state = s] ELSE trip[e]
  BY <1>1, <1>2
<1>6. /\ [trip[d] EXCEPT !.state = s].at = trip[d].at
      /\ [trip[d] EXCEPT !.state = s].bus = trip[d].bus
      /\ [trip[d] EXCEPT !.state = s].state = s
  BY <1>1 DEF Trips
<1> QED
  BY <1>4, <1>5, <1>6

(* Settling a pause that has ended moves the end of its period later, and no day out of
   the pause (settle_personal_pauses). *)
LEMMA Settles ==
  ASSUME TypeOK, PausesRun, NEW r \in Riders, Settle(r)
  PROVE  /\ pause' \in [Riders -> Pauses] /\ ends' \in [Riders -> Nat] /\ PausesRun'
         /\ ends'[r] = EndSettled(r) /\ \A q \in Riders : ends[q] <= ends'[q]
         /\ \A q \in Riders, d \in Days : InPause(q, d)' <=> InPause(q, d)
<1>1. pause \in [Riders -> Pauses] /\ ends \in [Riders -> Nat]
  BY SeatFields DEF TypeOK
<1>2. /\ pause[r].first \in Nat /\ pause[r].resume \in Nat /\ pause[r].first <= pause[r].resume
      /\ ends[r] \in Nat
  BY <1>1 DEF Pauses, PausesRun
<1>3. EndSettled(r) \in Nat /\ ends[r] <= EndSettled(r)
  BY <1>2 DEF EndSettled
<1>4. ends' = [ends EXCEPT ![r] = EndSettled(r)]
  BY DEF Settle
<1>5. /\ ends' \in [Riders -> Nat] /\ ends'[r] = EndSettled(r)
      /\ \A q \in Riders : ends'[q] = IF q = r THEN EndSettled(r) ELSE ends[q]
  BY <1>1, <1>3, <1>4
<1>6. \A q \in Riders : ends[q] <= ends'[q]
  BY <1>1, <1>3, <1>5
<1>7. CASE Due(r)
  <2>1. pause' = [pause EXCEPT ![r] = [pause[r] EXCEPT !.state = "completed"]]
    BY <1>1, <1>7 DEF Settle
  <2>2. pause[r].state = "planned"
    BY <1>7 DEF Due
  <2>3. [pause[r] EXCEPT !.state = "completed"] \in Pauses
    BY <1>1 DEF Pauses
  <2>4. pause' \in [Riders -> Pauses]
    BY <1>1, <2>1, <2>3
  <2>5. \A q \in Riders :
          pause'[q] = IF q = r THEN [pause[r] EXCEPT !.state = "completed"] ELSE pause[q]
    BY <1>1, <2>1
  <2>6. /\ pause'[r].first = pause[r].first /\ pause'[r].resume = pause[r].resume
        /\ pause'[r].state = "completed"
    BY <1>1, <2>5 DEF Pauses
  <2>7. \A q \in Riders, d \in Days : InPause(q, d)' <=> InPause(q, d)
    BY <2>2, <2>5, <2>6 DEF InPause
  <2>8. PausesRun'
    BY <2>5, <2>6 DEF PausesRun
  <2> QED
    BY <1>5, <1>6, <2>4, <2>7, <2>8
<1>8. CASE ~Due(r)
  <2>1. pause' = pause
    BY <1>8 DEF Settle
  <2> QED
    BY <1>1, <1>5, <1>6, <2>1 DEF InPause, PausesRun
<1> QED
  BY <1>7, <1>8

(* A seat stays funded while its departure stands and its period stays open and does not
   get shorter. *)
LEMMA FundedStays ==
  ASSUME TypeOK, TypeOK', NEW r \in Riders, NEW d \in Days, SeatIsFunded(r, d),
         trip'[d].state \in {"scheduled", "active", "completed"}, trip'[d].at = trip[d].at,
         period'[r] = "open", ends[r] <= ends'[r], InPause(r, d)' => InPause(r, d)
  PROVE  SeatIsFunded(r, d)'
<1>1. trip[d].at \in Nat /\ ends[r] \in Nat
  BY SeatFields
<1>2. ends'[r] \in Nat
  BY DEF TypeOK
<1>3. trip[d].at < ends[r] /\ ~InPause(r, d)
  BY DEF SeatIsFunded
<1>4. trip'[d].at < ends'[r] /\ ~InPause(r, d)'
  BY <1>1, <1>2, <1>3
<1> QED
  BY <1>4 DEF SeatIsFunded

(* What a step may do to seats and charges: the invariant again, the frame of the answers
   and the charges, and no departure filled beyond its vehicle. *)
Stand == \A r \in Riders, d \in Days :
  /\ charge[r][d] # "none" => charge'[r][d] = charge[r][d]
  /\ (res[r][d] \in {"boarded", "no_show"}) <=> (charge[r][d] # "none")
  /\ res[r][d] = "boarded" => res'[r][d] = "boarded"
  /\ res[r][d] = "no_show" => res'[r][d] \in {"no_show", "boarded"}
  /\ res[r][d] = "declined" => res'[r][d] = "declined" \/ Confirm(r, d)
  /\ res[r][d] = "reserved" => res'[r][d] \notin {"pending", "unseated"}
Fits == cap' = cap => \A d \in Days : Overbooked(d)' => Overbooked(d)
SeatsStep == SeatsInv' /\ Stand /\ Fits

(* Who sits on a departure, and what a vehicle holds, is a number. *)
LEMMA TakenFinite ==
  ASSUME NEW d \in Days
  PROVE  IsFiniteSet(Taken(d)) /\ Cardinality(Taken(d)) \in Nat
<1>1. Taken(d) \subseteq Riders
  BY DEF Taken
<1> QED
  BY <1>1, ReservationsAssumption, FS_Subset, FS_CardinalityType

(* The same in the next state *)
LEMMA TakenFinitePrime ==
  ASSUME NEW d \in Days
  PROVE  IsFiniteSet(Taken(d)') /\ Cardinality(Taken(d)') \in Nat
<1>1. Taken(d)' \subseteq Riders
  BY DEF Taken
<1> QED
  BY <1>1, ReservationsAssumption, FS_Subset, FS_CardinalityType

(* A vehicle holds a number of riders, and no vehicle holds none. *)
LEMMA CapacityType ==
  ASSUME TypeOK, NEW bus \in Vehicles \cup {NoBus}
  PROVE  Capacity(bus) \in Nat
BY ReservationsAssumption DEF TypeOK, Capacity

(* A departure whose riders do not grow and whose vehicle stays is not overbooked anew. *)
LEMMA NotFuller ==
  ASSUME TypeOK, NEW d \in Days, cap' = cap, trip'[d].bus = trip[d].bus,
         \A q \in Riders : res'[q][d] \in Seated => res[q][d] \in Seated,
         Overbooked(d)'
  PROVE  Overbooked(d)
<1>1. Taken(d)' \subseteq Taken(d)
  BY DEF Taken
<1>2. Cardinality(Taken(d)') <= Cardinality(Taken(d))
  BY <1>1, TakenFinite, FS_Subset
<1>3. Capacity(trip[d].bus)' = Capacity(trip[d].bus)
  BY DEF Capacity
<1>4. trip[d].bus \in Vehicles \cup {NoBus}
  BY SeatFields DEF Trips
<1>5. Capacity(trip[d].bus) \in Nat
  BY <1>4, CapacityType
<1>6. Cardinality(Taken(d)') > Capacity(trip[d].bus)
  BY <1>3 DEF Overbooked
<1> QED
  BY <1>2, <1>5, <1>6, TakenFinite, TakenFinitePrime DEF Overbooked

(* Seats that are only given up or used stay paid for. *)
LEMMA NoNewSeats ==
  ASSUME SeatsInv, TypeOK', PausesRun', Charged',
         \A q \in Riders, d \in Days :
           /\ res'[q][d] \in Seated => res[q][d] \in Seated
           /\ res'[q][d] = "reserved" =>
                res[q][d] = "reserved" /\ (SeatIsFunded(q, d) => SeatIsFunded(q, d)')
  PROVE  SeatsInv'
<1>1. TypeOK /\ SeatsAreFunded
  BY DEF SeatsInv, SeatsSafe
<1>2. ASSUME NEW q \in Riders
      PROVE  RidesCover(q)'
  <2> DEFINE old == {d \in Days : res[q][d] \in Seated}
             new == {d \in Days : res'[q][d] \in Seated}
  <2>1. new \subseteq old /\ IsFiniteSet(old)
    BY ReservationsAssumption, FS_Subset
  <2>2. Cardinality(new) <= Cardinality(old) /\ Cardinality(old) \in Nat /\ Cardinality(new) \in Nat
    BY <2>1, FS_Subset, FS_CardinalityType
  <2>3. Cardinality(old) <= Granted /\ Granted \in Nat
    BY <1>1, SeatFields DEF SeatsAreFunded, RidesCover
  <2>4. Cardinality(new) <= Granted
    BY <2>2, <2>3
  <2> QED
    BY <2>4 DEF RidesCover
<1>3. ASSUME NEW q \in Riders, NEW d \in Days, res'[q][d] = "reserved"
      PROVE  SeatIsFunded(q, d)'
  BY <1>1, <1>3 DEF SeatsAreFunded
<1>4. SeatsAreFunded'
  BY <1>2, <1>3 DEF SeatsAreFunded
<1> QED
  BY <1>4 DEF SeatsInv, SeatsSafe

(* A step that seats nobody and moves nobody to another vehicle *)
LEMMA QuietStep ==
  ASSUME SeatsInv, TypeOK', PausesRun', Charged', Stand,
         \A d \in Days : trip'[d].bus = trip[d].bus,
         \A q \in Riders, d \in Days :
           /\ res'[q][d] \in Seated => res[q][d] \in Seated
           /\ res'[q][d] = "reserved" =>
                res[q][d] = "reserved" /\ (SeatIsFunded(q, d) => SeatIsFunded(q, d)')
  PROVE  SeatsStep
<1>1. SeatsInv'
  BY NoNewSeats
<1>2. TypeOK
  BY DEF SeatsInv, SeatsSafe
<1>3. Fits
  BY <1>2, NotFuller DEF Fits
<1> QED
  BY <1>1, <1>3 DEF SeatsStep

(* One more seat is covered when more rides are left than seats are held. *)
LEMMA OneMoreSeat ==
  ASSUME SeatsInv, NEW r \in Riders, NEW d \in Days,
         res' = [res EXCEPT ![r][d] = "reserved"],
         ~(Left(r) <= Cardinality(Holding(r, d)))
  PROVE  \A q \in Riders : RidesCover(q)'
<1>1. TypeOK /\ SeatsAreFunded /\ Charged
  BY DEF SeatsInv, SeatsSafe
<1>2. "reserved" \in Statuses
  BY DEF Statuses, Unused
<1>3. \A q \in Riders, e \in Days :
        res'[q][e] = IF q = r /\ e = d THEN "reserved" ELSE res[q][e]
  BY <1>1, <1>2, OneAnswer
<1>4. ASSUME NEW q \in Riders, q # r
      PROVE  RidesCover(q)'
  <2>1. {e \in Days : res'[q][e] \in Seated} = {e \in Days : res[q][e] \in Seated}
    BY <1>3, <1>4
  <2> QED
    BY <1>1, <2>1 DEF SeatsAreFunded, RidesCover
<1>5. RidesCover(r)'
  <2> DEFINE used == {e \in Days : charge[r][e] # "none"}
             new == {e \in Days : res'[r][e] \in Seated}
  <2>1. new \subseteq (used \cup Holding(r, d)) \cup {d}
    BY <1>1, <1>3 DEF Charged, Holding, Seated
  <2>2. IsFiniteSet(used) /\ IsFiniteSet(Holding(r, d)) /\ IsFiniteSet({d})
    BY ReservationsAssumption, FS_Subset, FS_Singleton DEF Holding
  <2>3. IsFiniteSet(used \cup Holding(r, d)) /\ IsFiniteSet((used \cup Holding(r, d)) \cup {d})
    BY <2>2, FS_Union
  <2>4. /\ Cardinality(used \cup Holding(r, d)) <= Cardinality(used) + Cardinality(Holding(r, d))
        /\ Cardinality((used \cup Holding(r, d)) \cup {d}) <= Cardinality(used \cup Holding(r, d)) + 1
    <3>1. /\ Cardinality(used \cup Holding(r, d)) = Cardinality(used) + Cardinality(Holding(r, d))
               - Cardinality(used \cap Holding(r, d))
          /\ IsFiniteSet(used \cap Holding(r, d))
      BY <2>2, FS_Union, FS_Intersection
    <3>2. /\ Cardinality((used \cup Holding(r, d)) \cup {d}) = Cardinality(used \cup Holding(r, d))
               + Cardinality({d}) - Cardinality((used \cup Holding(r, d)) \cap {d})
          /\ IsFiniteSet((used \cup Holding(r, d)) \cap {d})
      BY <2>2, <2>3, FS_Union, FS_Intersection
    <3>3. Cardinality({d}) = 1
      BY FS_Singleton
    <3>4. Cardinality(used \cap Holding(r, d)) \in Nat
          /\ Cardinality((used \cup Holding(r, d)) \cap {d}) \in Nat
          /\ Cardinality(used \cup Holding(r, d)) \in Nat
          /\ Cardinality(used) \in Nat /\ Cardinality(Holding(r, d)) \in Nat
      BY <2>2, <2>3, <3>1, <3>2, FS_CardinalityType
    <3> HIDE DEF used
    <3> QED
      BY <3>1, <3>2, <3>3, <3>4
  <2>5. Cardinality(new) <= Cardinality((used \cup Holding(r, d)) \cup {d}) /\ Cardinality(new) \in Nat
    BY <2>1, <2>3, FS_Subset, FS_CardinalityType
  <2>6. Cardinality(used) \in Nat /\ Cardinality(Holding(r, d)) \in Nat
        /\ Cardinality(used \cup Holding(r, d)) \in Nat
        /\ Cardinality((used \cup Holding(r, d)) \cup {d}) \in Nat
    BY <2>2, <2>3, FS_CardinalityType
  <2>7. ~(Granted - Cardinality(used) <= Cardinality(Holding(r, d))) /\ Granted \in Nat
    BY <1>1, SeatFields DEF Left
  <2>8. Cardinality(new) <= Granted
    <3> HIDE DEF used, new
    <3> QED
      BY <2>4, <2>5, <2>6, <2>7
  <2> QED
    BY <2>8 DEF RidesCover
<1> QED
  BY <1>4, <1>5

(* One more rider fits on a departure that is not full (guard_reservation). *)
LEMMA OneMoreRider ==
  ASSUME TypeOK, NEW r \in Riders, NEW d \in Days, cap' = cap, trip' = trip,
         res' = [res EXCEPT ![r][d] = "reserved"], res[r][d] # "reserved" => ~Full(d)
  PROVE  \A e \in Days : Overbooked(e)' => Overbooked(e)
<1>1. \A q \in Riders, e \in Days :
        res'[q][e] = IF q = r /\ e = d THEN "reserved" ELSE res[q][e]
  <2>1. "reserved" \in Statuses
    BY DEF Statuses, Unused
  <2> QED
    BY <2>1, OneAnswer
<1>2. ASSUME NEW e \in Days, e # d \/ res[r][d] = "reserved", Overbooked(e)'
      PROVE  Overbooked(e)
  <2>1. \A q \in Riders : res'[q][e] \in Seated => res[q][e] \in Seated
    BY <1>1, <1>2
  <2> QED
    BY <1>2, <2>1, NotFuller
<1>3. ASSUME res[r][d] # "reserved"
      PROVE  ~Overbooked(d)'
  <2>1. Taken(d)' \subseteq Taken(d) \cup {r}
    BY <1>1 DEF Taken
  <2>2. /\ IsFiniteSet(Taken(d) \cup {r})
        /\ Cardinality(Taken(d) \cup {r}) \in Nat
        /\ Cardinality(Taken(d) \cup {r}) <= Cardinality(Taken(d)) + 1
    <3>1. IsFiniteSet(Taken(d)) /\ Cardinality(Taken(d)) \in Nat
      BY TakenFinite
    <3>2. Cardinality(Taken(d) \cup {r})
            = IF r \in Taken(d) THEN Cardinality(Taken(d)) ELSE Cardinality(Taken(d)) + 1
      BY <3>1, FS_AddElement
    <3> QED
      BY <3>1, <3>2, FS_AddElement
  <2>3. Cardinality(Taken(d)') <= Cardinality(Taken(d) \cup {r})
    BY <2>1, <2>2, FS_Subset
  <2>4. ~(Cardinality(Taken(d)) >= Capacity(trip[d].bus))
    BY <1>3 DEF Full
  <2>5. trip[d].bus \in Vehicles \cup {NoBus}
    BY SeatFields DEF Trips
  <2>6. Capacity(trip[d].bus) \in Nat
    BY <2>5, CapacityType
  <2>7. ~(Cardinality(Taken(d)') > Capacity(trip[d].bus))
    BY <2>2, <2>3, <2>4, <2>6, TakenFinite, TakenFinitePrime
  <2>8. Capacity(trip[d].bus)' = Capacity(trip[d].bus)
    BY DEF Capacity
  <2> QED
    BY <2>7, <2>8 DEF Overbooked
<1> QED
  BY <1>2, <1>3

-----------------------------------------------------------------------------
(* Each step keeps the seats safe. *)

(* Nothing is reserved yet, and no pause has begun. *)
LEMMA SeatsStart == Init => SeatsInv
<1> SUFFICES ASSUME Init PROVE SeatsInv
  OBVIOUS
<1>1. res \in [Riders -> [Days -> {"none", "declined"}]]
  BY DEF Init
<1>2. /\ charge = [r \in Riders |-> [d \in Days |-> "none"]]
      /\ pause = [r \in Riders |-> NoPause]
  BY DEF Init
<1>3. trip \in [Days -> Trips]
  <2>1. PICK state \in [Days -> Unstarted], bus \in [Days -> Vehicles \cup {NoBus}] :
          trip = [d \in Days |-> [state |-> state[d], at |-> Departure(d), bus |-> bus[d]]]
    BY DEF Init
  <2>2. \A d \in Days : Departure(d) \in Nat
    BY ReservationsAssumption DEF Departure
  <2>3. \A d \in Days : state[d] \in {"none", "scheduled", "cancelled"}
    BY DEF Unstarted
  <2> QED
    BY <2>1, <2>2, <2>3 DEF Trips
<1>4. pause \in [Riders -> Pauses]
  BY <1>2 DEF NoPause, Pauses
<1>5. res \in [Riders -> [Days -> Statuses]]
  BY <1>1 DEF Statuses
<1>6. now \in 0 .. LastTime /\ edits \in 0 .. MaxEdits
  BY SeatBounds DEF Init
<1>7. cap \in [Vehicles -> Sizes]
      /\ period \in [Riders -> {"none", "open", "closed", "reversed"}]
      /\ ends \in [Riders -> Nat] /\ held \in [Riders -> BOOLEAN]
  BY ReservationsAssumption DEF Init
<1>8. charge \in [Riders -> [Days -> {"none", "boarding", "no_show"}]]
  BY <1>2
<1>9. TypeOK
  BY <1>3, <1>4, <1>5, <1>6, <1>7, <1>8 DEF TypeOK, Trips, Statuses, Pauses
<1>10. \A r \in Riders : RidesCover(r)
  <2> SUFFICES ASSUME NEW r \in Riders PROVE RidesCover(r)
    OBVIOUS
  <2>1. {d \in Days : res[r][d] \in Seated} = {}
    BY <1>1 DEF Seated
  <2>2. Cardinality({d \in Days : res[r][d] \in Seated}) = 0
    BY <2>1, FS_EmptySet
  <2> QED
    BY <2>2, SeatBounds DEF RidesCover
<1>11. \A r \in Riders, d \in Days : res[r][d] # "reserved" /\ charge[r][d] = "none"
         /\ res[r][d] \notin {"boarded", "no_show"}
  BY <1>1, <1>2
<1>12. SeatsAreFunded
  BY <1>10, <1>11 DEF SeatsAreFunded
<1>13. Charged
  BY <1>11 DEF Charged
<1>14. PausesRun
  BY <1>2 DEF PausesRun, NoPause
<1> QED
  BY <1>9, <1>12, <1>13, <1>14 DEF SeatsInv, SeatsSafe

(* Seats stay funded where departures, periods and pauses stay. *)
LEMMA SeatsUntouched ==
  ASSUME SeatsInv, TypeOK', UNCHANGED <<trip, res, charge, pause, period, ends>>
  PROVE  SeatsStep
<1>1. PausesRun' /\ Charged'
  BY DEF SeatsInv, PausesRun, Charged
<1>2. Stand
  BY DEF Stand, SeatsInv, Charged
<1>3. \A q \in Riders, d \in Days : SeatIsFunded(q, d) => SeatIsFunded(q, d)'
  BY DEF SeatIsFunded, InPause
<1> QED
  BY <1>1, <1>2, <1>3, QuietStep

(* The clock *)
LEMMA TickSeats ==
  ASSUME SeatsInv, Tick
  PROVE  SeatsStep
<1>1. TypeOK'
  BY SeatBounds DEF SeatsInv, SeatsSafe, TypeOK, Tick, tripVars
<1> QED
  BY <1>1, SeatsUntouched DEF Tick, tripVars

(* Ops edits one thing more. *)
LEMMA EditCounts ==
  ASSUME TypeOK, Edit
  PROVE  edits' \in 0 .. MaxEdits
BY SeatBounds DEF TypeOK, Edit

(* A hold *)
LEMMA HoldSeats ==
  ASSUME SeatsInv, NEW r \in Riders, Hold(r)
  PROVE  SeatsStep
<1>1. TypeOK
  BY DEF SeatsInv, SeatsSafe
<1>2. held' \in [Riders -> BOOLEAN]
  <2>1. held' = [held EXCEPT ![r] = ~held[r]] /\ held \in [Riders -> BOOLEAN]
    BY <1>1 DEF Hold, TypeOK
  <2> QED
    BY <2>1, Zenon
<1>3. edits' \in 0 .. MaxEdits
  BY <1>1, EditCounts DEF Hold
<1>4. TypeOK'
  BY <1>1, <1>2, <1>3 DEF TypeOK, Hold, tripVars
<1> QED
  BY <1>4, SeatsUntouched DEF Hold, tripVars

(* A vehicle edited: seats are looked at by nobody. *)
LEMMA VehicleSeats ==
  ASSUME SeatsInv, NEW v \in Vehicles, NEW n \in Sizes, EditVehicle(v, n)
  PROVE  SeatsStep
<1>1. TypeOK
  BY DEF SeatsInv, SeatsSafe
<1>2. cap' \in [Vehicles -> Sizes]
  BY <1>1 DEF TypeOK, EditVehicle
<1>3. edits' \in 0 .. MaxEdits
  BY <1>1, EditCounts DEF EditVehicle
<1>4. TypeOK'
  BY <1>1, <1>2, <1>3 DEF TypeOK, EditVehicle
<1> QED
  BY <1>4, SeatsUntouched DEF EditVehicle

(* A purchase fulfilled after the evening ask *)
LEMMA FulfilSeats ==
  ASSUME SeatsInv, NEW r \in Riders, Fulfil(r)
  PROVE  SeatsStep
<1>1. TypeOK /\ SeatsAreFunded /\ Charged /\ PausesRun
  BY DEF SeatsInv, SeatsSafe
<1>2. /\ period[r] = "none" /\ period' = [period EXCEPT ![r] = "open"]
      /\ UNCHANGED <<now, trip, cap, charge, ends, pause, held, edits>>
  BY DEF Fulfil, tripVars
<1>3. \/ res' = res
      \/ Today + 1 \in Days /\ res[r][Today + 1] = "none" /\ res' = [res EXCEPT ![r][Today + 1] = "pending"]
  BY DEF Fulfil
<1>4. /\ res' \in [Riders -> [Days -> Statuses]]
      /\ \A q \in Riders, d \in Days :
           res'[q][d] = res[q][d] \/ (res[q][d] = "none" /\ res'[q][d] = "pending")
  <2>1. CASE res' = res
    BY <1>1, <2>1, SeatFields
  <2>2. CASE Today + 1 \in Days /\ res[r][Today + 1] = "none"
              /\ res' = [res EXCEPT ![r][Today + 1] = "pending"]
    <3>1. PICK e \in Days : e = Today + 1
      BY <2>2
    <3>2. "pending" \in Statuses /\ res' = [res EXCEPT ![r][e] = "pending"] /\ res[r][e] = "none"
      BY <2>2, <3>1 DEF Statuses, Unused
    <3> QED
      BY <1>1, <3>2, OneAnswer
  <2> QED
    BY <1>3, <2>1, <2>2
<1>5. TypeOK'
  BY <1>1, <1>2, <1>4 DEF TypeOK, Statuses
<1>6. PausesRun' /\ Charged'
  BY <1>1, <1>2, <1>4 DEF PausesRun, Charged
<1>7. Stand
  BY <1>1, <1>2, <1>4 DEF Stand, Charged
<1>8. \A q \in Riders, d \in Days :
        /\ res'[q][d] \in Seated => res[q][d] \in Seated
        /\ res'[q][d] = "reserved" => res[q][d] = "reserved"
  BY <1>4 DEF Seated
<1>9. ASSUME NEW q \in Riders, NEW d \in Days, SeatIsFunded(q, d)
      PROVE  SeatIsFunded(q, d)'
  <2>1. q # r
    BY <1>2, <1>9 DEF SeatIsFunded
  <2> QED
    BY <1>1, <1>2, <1>9, <2>1 DEF SeatIsFunded, InPause, TypeOK
<1> QED
  BY <1>2, <1>5, <1>6, <1>7, <1>8, <1>9, QuietStep

(* The period ends: what is unused lapses, and its reserved seats with it. *)
LEMMA EndSeats ==
  ASSUME SeatsInv, TypeOK', PausesRun', NEW r \in Riders, LapseUnused(r),
         UNCHANGED <<trip, charge>>,
         \A q \in Riders \ {r} : period'[q] = period[q] /\ ends'[q] = ends[q] /\ pause'[q] = pause[q]
  PROVE  SeatsStep
<1>1. TypeOK /\ SeatsAreFunded /\ Charged /\ PausesRun
  BY DEF SeatsInv, SeatsSafe
<1>2. \A q \in Riders, d \in Days :
        res'[q][d] = IF q = r THEN Lapse(res[q][d]) ELSE res[q][d]
  BY <1>1, RiderLapses
<1>3. /\ \A q \in Riders, d \in Days : res[q][d] \in Statuses
      /\ \A status \in Statuses : \/ Lapse(status) = status /\ status \notin Unused
                                  \/ Lapse(status) = "operator_cancelled" /\ status \in Unused
  <2>1. res \in [Riders -> [Days -> Statuses]]
    BY <1>1, SeatFields
  <2> QED
    BY <2>1 DEF Lapse
<1>4. \A q \in Riders, d \in Days :
        \/ res'[q][d] = res[q][d] /\ (q = r => res[q][d] \notin Unused)
        \/ q = r /\ res'[q][d] = "operator_cancelled" /\ res[q][d] \in Unused
  BY <1>2, <1>3
<1>5. Charged'
  BY <1>1, <1>4 DEF Charged, Unused
<1>6. Stand
  BY <1>1, <1>4 DEF Stand, Charged, Unused
<1>7. \A q \in Riders, d \in Days :
        /\ res'[q][d] \in Seated => res[q][d] \in Seated
        /\ res'[q][d] = "reserved" => res[q][d] = "reserved" /\ q # r
  BY <1>4 DEF Seated, Unused
<1>8. \A q \in Riders \ {r}, d \in Days : SeatIsFunded(q, d) => SeatIsFunded(q, d)'
  BY DEF SeatIsFunded, InPause
<1> QED
  BY <1>5, <1>6, <1>7, <1>8, QuietStep

(* A refund or a lost dispute *)
LEMMA ReverseSeats ==
  ASSUME SeatsInv, NEW r \in Riders, Reverse(r)
  PROVE  SeatsStep
<1>1. TypeOK /\ SeatsAreFunded /\ Charged /\ PausesRun
  BY DEF SeatsInv, SeatsSafe
<1>2. /\ Edit /\ period' = [period EXCEPT ![r] = "reversed"] /\ LapseUnused(r)
      /\ pause' = [pause EXCEPT ![r].state = IF @ = "planned" THEN "terminated" ELSE @]
      /\ UNCHANGED <<now, trip, cap, charge, ends, held>>
  BY DEF Reverse, tripVars
<1>3. pause \in [Riders -> Pauses]
  BY <1>1, SeatFields
<1>4. PICK s \in {"none", "planned", "completed", "terminated"} :
        pause' = [pause EXCEPT ![r] = [pause[r] EXCEPT !.state = s]]
  <2>1. pause[r].state \in {"none", "planned", "completed", "terminated"}
    BY <1>3 DEF Pauses
  <2> QED
    BY <1>2, <1>3, <2>1
<1>5. [pause[r] EXCEPT !.state = s] \in Pauses
  BY <1>3 DEF Pauses
<1>6. /\ pause' \in [Riders -> Pauses]
      /\ \A q \in Riders : pause'[q] = IF q = r THEN [pause[r] EXCEPT !.state = s] ELSE pause[q]
  BY <1>3, <1>4, <1>5
<1>7. PausesRun'
  <2>1. /\ [pause[r] EXCEPT !.state = s].first = pause[r].first
        /\ [pause[r] EXCEPT !.state = s].resume = pause[r].resume
    BY <1>3 DEF Pauses
  <2> QED
    BY <1>1, <1>6, <2>1 DEF PausesRun
<1>8. edits' \in 0 .. MaxEdits
  BY <1>1, <1>2, EditCounts
<1>9. res' \in [Riders -> [Days -> Statuses]]
  BY <1>1, <1>2, RiderLapses
<1>10. period' \in [Riders -> {"none", "open", "closed", "reversed"}]
  BY <1>1, <1>2 DEF TypeOK
<1>11. TypeOK'
  BY <1>1, <1>2, <1>6, <1>8, <1>9, <1>10 DEF TypeOK, Statuses, Pauses
<1>12. \A q \in Riders \ {r} :
         period'[q] = period[q] /\ ends'[q] = ends[q] /\ pause'[q] = pause[q]
  BY <1>1, <1>2, <1>6 DEF TypeOK
<1> QED
  BY <1>2, <1>7, <1>11, <1>12, EndSeats

(* The period closes. *)
LEMMA CloseSeats ==
  ASSUME SeatsInv, NEW r \in Riders, Close(r)
  PROVE  SeatsStep
<1>1. TypeOK /\ SeatsAreFunded /\ Charged /\ PausesRun
  BY DEF SeatsInv, SeatsSafe
<1>2. /\ Settle(r) /\ period' = [period EXCEPT ![r] = "closed"] /\ LapseUnused(r)
      /\ UNCHANGED <<now, trip, cap, charge, held, edits>>
  BY DEF Close, tripVars
<1>3. pause' \in [Riders -> Pauses] /\ ends' \in [Riders -> Nat] /\ PausesRun'
  BY <1>1, <1>2, Settles
<1>4. res' \in [Riders -> [Days -> Statuses]]
  BY <1>1, <1>2, RiderLapses
<1>5. period' \in [Riders -> {"none", "open", "closed", "reversed"}]
  BY <1>1, <1>2 DEF TypeOK
<1>6. TypeOK'
  BY <1>1, <1>2, <1>3, <1>4, <1>5 DEF TypeOK, Statuses, Pauses
<1>7. \A q \in Riders \ {r} :
        period'[q] = period[q] /\ ends'[q] = ends[q] /\ pause'[q] = pause[q]
  BY <1>1, <1>2 DEF Settle, TypeOK
<1> QED
  BY <1>2, <1>3, <1>6, <1>7, EndSeats

(* A pause settled by the nightly job: no answer changes, and no day is in it newly. *)
LEMMA SettlePauseSeats ==
  ASSUME SeatsInv, NEW r \in Riders, SettlePause(r)
  PROVE  SeatsStep
<1>1. TypeOK /\ SeatsAreFunded /\ Charged /\ PausesRun
  BY DEF SeatsInv, SeatsSafe
<1>2. Settle(r) /\ UNCHANGED <<now, trip, cap, res, charge, period, held, edits>>
  BY DEF SettlePause, tripVars
<1>3. /\ pause' \in [Riders -> Pauses] /\ ends' \in [Riders -> Nat] /\ PausesRun'
      /\ \A q \in Riders : ends[q] <= ends'[q]
      /\ \A q \in Riders, d \in Days : InPause(q, d)' <=> InPause(q, d)
  BY <1>1, <1>2, Settles
<1>4. TypeOK'
  BY <1>1, <1>2, <1>3 DEF TypeOK, Pauses
<1>5. Charged' /\ Stand
  BY <1>1, <1>2 DEF Charged, Stand
<1>6. ASSUME NEW q \in Riders, NEW d \in Days, SeatIsFunded(q, d)
      PROVE  SeatIsFunded(q, d)'
  <2>1. /\ trip'[d].state \in {"scheduled", "active", "completed"} /\ trip'[d].at = trip[d].at
        /\ period'[q] = "open"
    BY <1>2, <1>6 DEF SeatIsFunded
  <2> QED
    BY <1>1, <1>3, <1>4, <1>6, <2>1, FundedStays
<1> QED
  BY <1>2, <1>3, <1>4, <1>5, <1>6, QuietStep

(* An answer of one rider that takes no seat *)
LEMMA AnswerSeats ==
  ASSUME SeatsInv, TypeOK', PausesRun', NEW r \in Riders, NEW d \in Days,
         NEW status \in Statuses \ Seated, res' = [res EXCEPT ![r][d] = status],
         res[r][d] \notin {"boarded", "no_show"},
         res[r][d] = "declined" => status = "declined",
         res[r][d] = "reserved" => status \notin {"pending", "unseated"},
         UNCHANGED <<trip, charge, period>>,
         \A q \in Riders : ends[q] <= ends'[q],
         \A q \in Riders, e \in Days : InPause(q, e)' <=> InPause(q, e)
  PROVE  SeatsStep
<1>1. TypeOK /\ SeatsAreFunded /\ Charged /\ PausesRun
  BY DEF SeatsInv, SeatsSafe
<1>2. \A q \in Riders, e \in Days :
        res'[q][e] = IF q = r /\ e = d THEN status ELSE res[q][e]
  BY <1>1, OneAnswer
<1>3. Charged'
  BY <1>1, <1>2 DEF Charged, Seated
<1>4. Stand
  BY <1>1, <1>2 DEF Stand, Charged
<1>5. \A q \in Riders, e \in Days :
        /\ res'[q][e] \in Seated => res[q][e] \in Seated
        /\ res'[q][e] = "reserved" => res[q][e] = "reserved"
  BY <1>2 DEF Seated
<1>6. ASSUME NEW q \in Riders, NEW e \in Days, SeatIsFunded(q, e)
      PROVE  SeatIsFunded(q, e)'
  <2>1. /\ trip'[e].state \in {"scheduled", "active", "completed"} /\ trip'[e].at = trip[e].at
        /\ period'[q] = "open"
    BY <1>6 DEF SeatIsFunded
  <2> QED
    BY <1>1, <1>6, <2>1, FundedStays
<1> QED
  BY <1>3, <1>4, <1>5, <1>6, QuietStep

(* A seat taken, by the rider or by the defaults *)
LEMMA SeatTaken ==
  ASSUME SeatsInv, NEW r \in Riders, NEW d \in Days, NEW mode, mode # "ask",
         Refusal(r, d, mode) = "ok", res[r][d] = "declined" => Confirm(r, d),
         res' = [res EXCEPT ![r][d] = "reserved"], Settle(r),
         UNCHANGED <<now, trip, cap, charge, period, held, edits>>
  PROVE  SeatsStep
<1>1. TypeOK /\ SeatsAreFunded /\ Charged /\ PausesRun
  BY DEF SeatsInv, SeatsSafe
<1>2. /\ res' \in [Riders -> [Days -> Statuses]]
      /\ \A q \in Riders, e \in Days :
           res'[q][e] = IF q = r /\ e = d THEN "reserved" ELSE res[q][e]
  <2>1. "reserved" \in Statuses
    BY DEF Statuses, Unused
  <2> QED
    BY <1>1, <2>1, OneAnswer
<1>3. /\ pause' \in [Riders -> Pauses] /\ ends' \in [Riders -> Nat] /\ PausesRun'
      /\ ends'[r] = EndSettled(r) /\ \A q \in Riders : ends[q] <= ends'[q]
      /\ \A q \in Riders, e \in Days : InPause(q, e)' <=> InPause(q, e)
  BY <1>1, Settles
<1>4. /\ period[r] = "open" /\ trip[d].state = "scheduled" /\ trip[d].at < EndSettled(r)
      /\ res[r][d] \notin {"boarded", "no_show"} /\ ~InPause(r, d)
      /\ ~(Left(r) <= Cardinality(Holding(r, d)))
      /\ res[r][d] # "reserved" => ~Full(d)
  BY <1>1, NotRefused
<1>5. TypeOK'
  BY <1>1, <1>2, <1>3 DEF TypeOK, Statuses, Pauses
<1>6. Charged' /\ Stand
  BY <1>1, <1>2, <1>4 DEF Charged, Stand
<1>7. \A q \in Riders : RidesCover(q)'
  BY <1>4, OneMoreSeat
<1>8. ASSUME NEW q \in Riders, NEW e \in Days, res'[q][e] = "reserved"
      PROVE  SeatIsFunded(q, e)'
  <2>1. CASE q = r /\ e = d
    <3>1. ~InPause(r, d)'
      BY <1>3, <1>4
    <3>2. trip'[d].state = "scheduled" /\ period'[r] = "open" /\ trip'[d].at < ends'[r]
      BY <1>3, <1>4
    <3> QED
      BY <2>1, <3>1, <3>2 DEF SeatIsFunded
  <2>2. CASE ~(q = r /\ e = d)
    <3>1. SeatIsFunded(q, e)
      BY <1>1, <1>2, <1>8, <2>2 DEF SeatsAreFunded
    <3>2. /\ trip'[e].state \in {"scheduled", "active", "completed"} /\ trip'[e].at = trip[e].at
          /\ period'[q] = "open"
      BY <3>1 DEF SeatIsFunded
    <3> QED
      BY <1>1, <1>3, <1>5, <3>1, <3>2, FundedStays
  <2> QED
    BY <2>1, <2>2
<1>9. SeatsInv'
  BY <1>3, <1>5, <1>6, <1>7, <1>8 DEF SeatsInv, SeatsSafe, SeatsAreFunded
<1>10. Fits
  BY <1>1, <1>4, OneMoreRider DEF Fits
<1> QED
  BY <1>6, <1>9, <1>10 DEF SeatsStep

(* The rider confirms. *)
LEMMA ConfirmSeats ==
  ASSUME SeatsInv, NEW r \in Riders, NEW d \in Days, Confirm(r, d)
  PROVE  SeatsStep
<1>1. Refusal(r, d, "confirmation") = "ok" /\ "confirmation" # "ask"
      /\ res' = [res EXCEPT ![r][d] = "reserved"] /\ Settle(r)
      /\ UNCHANGED <<now, trip, cap, charge, period, held, edits>>
  BY DEF Confirm, tripVars
<1> QED
  BY <1>1, SeatTaken

(* The rider declines. *)
LEMMA DeclineSeats ==
  ASSUME SeatsInv, NEW r \in Riders, NEW d \in Days, Decline(r, d)
  PROVE  SeatsStep
<1>1. TypeOK /\ PausesRun
  BY DEF SeatsInv, SeatsSafe
<1>2. /\ res[r][d] \notin {"boarded", "no_show"} /\ res' = [res EXCEPT ![r][d] = "declined"]
      /\ UNCHANGED <<now, trip, cap, charge, period, ends, pause, held, edits>>
  BY DEF Decline, tripVars
<1>3. "declined" \in Statuses \ Seated
  BY DEF Statuses, Seated
<1>4. res' \in [Riders -> [Days -> Statuses]]
  BY <1>1, <1>2, <1>3, OneAnswer
<1>5. TypeOK' /\ PausesRun'
  BY <1>1, <1>2, <1>4 DEF TypeOK, Statuses, PausesRun
<1>6. \A q \in Riders : ends[q] <= ends'[q]
  BY <1>1, <1>2, SeatFields
<1>7. \A q \in Riders, e \in Days : InPause(q, e)' <=> InPause(q, e)
  BY <1>2 DEF InPause
<1> QED
  BY <1>2, <1>3, <1>5, <1>6, <1>7, AnswerSeats

(* The evening ask, of one rider *)
LEMMA AskSeats ==
  ASSUME SeatsInv, NEW r \in Riders, NEW d \in Days, AskOne(r, d)
  PROVE  SeatsStep
<1>1. TypeOK /\ PausesRun
  BY DEF SeatsInv, SeatsSafe
<1>2. /\ res[r][d] = "none" /\ res' = [res EXCEPT ![r][d] = "pending"] /\ Settle(r)
      /\ UNCHANGED <<now, trip, cap, charge, period, held, edits>>
  BY DEF AskOne, tripVars
<1>3. "pending" \in Statuses \ Seated
  BY DEF Statuses, Seated, Unused
<1>4. res' \in [Riders -> [Days -> Statuses]]
  BY <1>1, <1>2, <1>3, OneAnswer
<1>5. /\ pause' \in [Riders -> Pauses] /\ ends' \in [Riders -> Nat] /\ PausesRun'
      /\ \A q \in Riders : ends[q] <= ends'[q]
      /\ \A q \in Riders, e \in Days : InPause(q, e)' <=> InPause(q, e)
  BY <1>1, <1>2, Settles
<1>6. TypeOK'
  BY <1>1, <1>2, <1>4, <1>5 DEF TypeOK, Statuses, Pauses
<1> QED
  BY <1>2, <1>3, <1>5, <1>6, AnswerSeats

(* The defaults, for one rider *)
LEMMA DefaultSeats ==
  ASSUME SeatsInv, NEW r \in Riders, NEW d \in Days, DefaultOne(r, d)
  PROVE  SeatsStep
<1>1. TypeOK /\ PausesRun
  BY DEF SeatsInv, SeatsSafe
<1>2. PICK why : why = Refusal(r, d, "default")
  OBVIOUS
<1>3. /\ res[r][d] = "pending" /\ res' = [res EXCEPT ![r][d] = DefaultOutcome(why)]
      /\ IF why = "ok" THEN Settle(r) ELSE UNCHANGED <<pause, ends>>
      /\ UNCHANGED <<now, trip, cap, charge, period, held, edits>>
  BY <1>2 DEF DefaultOne, tripVars
<1>4. CASE why = "ok"
  <2>1. DefaultOutcome(why) = "reserved"
    BY <1>4 DEF DefaultOutcome, Overflow, Withdrawn
  <2>2. Refusal(r, d, "default") = "ok" /\ "default" # "ask" /\ Settle(r)
        /\ res' = [res EXCEPT ![r][d] = "reserved"]
    BY <1>2, <1>3, <1>4, <2>1
  <2> QED
    BY <1>3, <2>2, SeatTaken
<1>5. CASE why # "ok"
  <2>1. UNCHANGED <<pause, ends>>
    BY <1>3, <1>5
  <2>2. PICK status \in {"unseated", "operator_cancelled", "pending"} : status = DefaultOutcome(why)
    BY <1>5 DEF DefaultOutcome
  <2>3. status \in Statuses \ Seated /\ res' = [res EXCEPT ![r][d] = status]
    BY <1>3, <2>2 DEF Statuses, Seated, Unused
  <2>4. res' \in [Riders -> [Days -> Statuses]]
    BY <1>1, <2>3, OneAnswer
  <2>5. TypeOK' /\ PausesRun'
    BY <1>1, <1>3, <2>1, <2>4 DEF TypeOK, Statuses, PausesRun
  <2>6. \A q \in Riders : ends[q] <= ends'[q]
    BY <1>1, <2>1, SeatFields
  <2>7. \A q \in Riders, e \in Days : InPause(q, e)' <=> InPause(q, e)
    BY <2>1 DEF InPause
  <2> QED
    BY <1>3, <2>3, <2>5, <2>6, <2>7, AnswerSeats
<1> QED
  BY <1>4, <1>5

(* A ride charged: the seat was held, and is taken now. *)
LEMMA ChargeSeats ==
  ASSUME SeatsInv, NEW r \in Riders, NEW d \in Days,
         NEW status \in {"boarded", "no_show"}, NEW reason \in {"boarding", "no_show"},
         Charge(r, d, status, reason),
         UNCHANGED <<now, trip, cap, period, ends, pause, held, edits>>
  PROVE  SeatsStep
<1>1. TypeOK /\ SeatsAreFunded /\ Charged /\ PausesRun
  BY DEF SeatsInv, SeatsSafe
<1>2. /\ res[r][d] = "reserved" /\ charge' = [charge EXCEPT ![r][d] = reason]
      /\ res' = [res EXCEPT ![r][d] = status]
  BY DEF Charge, MayCharge
<1>3. status \in Statuses
  BY DEF Statuses, Seated
<1>4. /\ res' \in [Riders -> [Days -> Statuses]]
      /\ \A q \in Riders, e \in Days :
           res'[q][e] = IF q = r /\ e = d THEN status ELSE res[q][e]
  <2>1. TypeOK /\ status \in Statuses
    BY <1>1, <1>3
  <2>2. res' = [res EXCEPT ![r][d] = status]
    BY <1>2
  <2> QED
    BY <2>1, <2>2, OneAnswer
<1>5. /\ charge' \in [Riders -> [Days -> {"none", "boarding", "no_show"}]]
      /\ \A q \in Riders, e \in Days :
           charge'[q][e] = IF q = r /\ e = d THEN reason ELSE charge[q][e]
  <2>1. charge \in [Riders -> [Days -> {"none", "boarding", "no_show"}]]
    BY <1>1 DEF TypeOK
  <2>2. charge' = [charge EXCEPT ![r] = [charge[r] EXCEPT ![d] = reason]]
    BY <1>2, <2>1
  <2>3. [charge[r] EXCEPT ![d] = reason] \in [Days -> {"none", "boarding", "no_show"}]
    BY <2>1
  <2> QED
    BY <2>1, <2>2, <2>3
<1>6. TypeOK' /\ PausesRun'
  BY <1>1, <1>4, <1>5 DEF TypeOK, Statuses, PausesRun
<1>7. Charged'
  BY <1>1, <1>4, <1>5 DEF Charged
<1>8. Stand
  BY <1>1, <1>2, <1>4, <1>5 DEF Stand, Charged
<1>9. \A q \in Riders, e \in Days :
        /\ res'[q][e] \in Seated => res[q][e] \in Seated
        /\ res'[q][e] = "reserved" => res[q][e] = "reserved"
  BY <1>2, <1>4 DEF Seated
<1>10. \A q \in Riders, e \in Days : SeatIsFunded(q, e) => SeatIsFunded(q, e)'
  BY DEF SeatIsFunded, InPause
<1> QED
  BY <1>6, <1>7, <1>8, <1>9, <1>10, QuietStep

(* The driver boards a rider, or corrects a no-show. *)
LEMMA BoardSeats ==
  ASSUME SeatsInv, NEW r \in Riders, NEW d \in Days, Board(r, d)
  PROVE  SeatsStep
<1>1. UNCHANGED <<now, trip, cap, period, ends, pause, held, edits>>
  BY DEF Board, tripVars
<1>2. CASE Charge(r, d, "boarded", "boarding")
  BY <1>1, <1>2, ChargeSeats
<1>3. CASE res[r][d] = "no_show" /\ res' = [res EXCEPT ![r][d] = "boarded"] /\ charge' = charge
  <2>1. TypeOK /\ SeatsAreFunded /\ Charged /\ PausesRun
    BY DEF SeatsInv, SeatsSafe
  <2>2. "boarded" \in Statuses
    BY DEF Statuses, Seated
  <2>3. /\ res' \in [Riders -> [Days -> Statuses]]
        /\ \A q \in Riders, e \in Days :
             res'[q][e] = IF q = r /\ e = d THEN "boarded" ELSE res[q][e]
    <3>1. TypeOK /\ res' = [res EXCEPT ![r][d] = "boarded"]
      BY <1>3, <2>1
    <3> QED
      BY <2>2, <3>1, OneAnswer
  <2>4. TypeOK' /\ PausesRun'
    BY <1>1, <1>3, <2>1, <2>3 DEF TypeOK, Statuses, PausesRun
  <2>5. Charged'
    BY <1>3, <2>1, <2>3 DEF Charged
  <2>6. Stand
    BY <1>3, <2>1, <2>3 DEF Stand, Charged
  <2>7. \A q \in Riders, e \in Days :
          /\ res'[q][e] \in Seated => res[q][e] \in Seated
          /\ res'[q][e] = "reserved" => res[q][e] = "reserved"
    BY <1>3, <2>3 DEF Seated
  <2>8. \A q \in Riders, e \in Days : SeatIsFunded(q, e) => SeatIsFunded(q, e)'
    BY <1>1 DEF SeatIsFunded, InPause
  <2> QED
    BY <1>1, <2>4, <2>5, <2>6, <2>7, <2>8, QuietStep
<1> QED
  BY <1>2, <1>3 DEF Board

(* A no-show, marked by the driver or by the sweep *)
LEMMA NoShowSeats ==
  ASSUME SeatsInv, NEW r \in Riders, NEW d \in Days, MarkNoShow(r, d)
  PROVE  SeatsStep
<1>1. UNCHANGED <<now, trip, cap, period, ends, pause, held, edits>>
      /\ Charge(r, d, "no_show", "no_show")
  BY DEF MarkNoShow, tripVars
<1> QED
  BY <1>1, ChargeSeats

(* One rider's pause is planned or shortened, so that it ends after it begins. *)
LEMMA PauseMoves ==
  ASSUME TypeOK, PausesRun, NEW r \in Riders, NEW p \in Pauses, p.first <= p.resume,
         pause' = [pause EXCEPT ![r] = p]
  PROVE  /\ pause' \in [Riders -> Pauses] /\ PausesRun'
         /\ \A q \in Riders : pause'[q] = IF q = r THEN p ELSE pause[q]
<1>1. pause \in [Riders -> Pauses]
  BY SeatFields
<1>2. pause' \in [Riders -> Pauses] /\ \A q \in Riders : pause'[q] = IF q = r THEN p ELSE pause[q]
  BY <1>1
<1> QED
  BY <1>2 DEF PausesRun

(* A pause planned: the seats in its window are given up. *)
LEMMA PlanSeats ==
  ASSUME SeatsInv, NEW r \in Riders, NEW d \in Days, NEW e \in d + MinPause .. d + MaxPause,
         PlanPause(r, d, e)
  PROVE  SeatsStep
<1> DEFINE window == {x \in Days : d <= x /\ x < e}
           plan == [state |-> "planned", first |-> d, resume |-> e]
<1>1. TypeOK /\ SeatsAreFunded /\ Charged /\ PausesRun
  BY DEF SeatsInv, SeatsSafe
<1>2. /\ pause' = [pause EXCEPT ![r] = plan]
      /\ res' = [res EXCEPT ![r] = [x \in Days |->
           IF x \in window /\ @[x] \in Unused THEN "declined" ELSE @[x]]]
      /\ UNCHANGED <<now, trip, cap, charge, period, ends, held, edits>>
  BY DEF PlanPause, tripVars
<1>3. plan \in Pauses /\ plan.first <= plan.resume /\ plan.first = d /\ plan.resume = e
  <2>1. d \in Nat /\ MinPause \in Nat /\ MaxPause \in Nat
    BY ReservationsAssumption, SeatBounds
  <2>2. e \in Nat /\ d <= e
    BY <2>1
  <2> QED
    BY <2>1, <2>2 DEF Pauses
<1>4. /\ pause' \in [Riders -> Pauses] /\ PausesRun'
      /\ \A q \in Riders : pause'[q] = IF q = r THEN plan ELSE pause[q]
  <2> HIDE DEF plan
  <2> QED
    BY <1>1, <1>2, <1>3, PauseMoves
<1>5. res \in [Riders -> [Days -> Statuses]]
  BY <1>1, SeatFields
<1>6. /\ res' \in [Riders -> [Days -> Statuses]]
      /\ \A q \in Riders, x \in Days :
           res'[q][x] = IF q = r /\ x \in window /\ res[q][x] \in Unused THEN "declined" ELSE res[q][x]
  <2> HIDE DEF window
  <2>1. res' = [res EXCEPT ![r] = [x \in Days |->
           IF x \in window /\ res[r][x] \in Unused THEN "declined" ELSE res[r][x]]]
    BY <1>2, <1>5
  <2>2. [x \in Days |-> IF x \in window /\ res[r][x] \in Unused THEN "declined" ELSE res[r][x]]
          \in [Days -> Statuses]
    BY <1>5 DEF Statuses
  <2> QED
    BY <1>5, <2>1, <2>2
<1>7. TypeOK'
  BY <1>1, <1>2, <1>4, <1>6 DEF TypeOK, Statuses, Pauses
<1>8. Charged'
  BY <1>1, <1>2, <1>6 DEF Charged, Unused
<1>9. Stand
  BY <1>1, <1>2, <1>6 DEF Stand, Charged, Unused
<1>10. \A q \in Riders, x \in Days :
         /\ res'[q][x] \in Seated => res[q][x] \in Seated
         /\ res'[q][x] = "reserved" => res[q][x] = "reserved" /\ ~(q = r /\ x \in window)
  BY <1>6 DEF Seated, Unused
<1>11. ASSUME NEW q \in Riders, NEW x \in Days, SeatIsFunded(q, x), ~(q = r /\ x \in window)
       PROVE  SeatIsFunded(q, x)'
  <2>1. ~InPause(q, x)'
    <3>1. CASE q = r
      BY <1>3, <1>4, <1>11, <3>1 DEF InPause
    <3>2. CASE q # r
      BY <1>4, <1>11, <3>2 DEF InPause, SeatIsFunded
    <3> QED
      BY <3>1, <3>2
  <2> QED
    BY <1>2, <1>11, <2>1 DEF SeatIsFunded
<1> QED
  BY <1>2, <1>4, <1>7, <1>8, <1>9, <1>10, <1>11, QuietStep

(* A pause shortened: its days are among those it had. *)
LEMMA ShortenSeats ==
  ASSUME SeatsInv, NEW r \in Riders, NEW e \in Days, ShortenPause(r, e)
  PROVE  SeatsStep
<1> DEFINE plan == [pause[r] EXCEPT !.resume = e]
<1>1. TypeOK /\ SeatsAreFunded /\ Charged /\ PausesRun
  BY DEF SeatsInv, SeatsSafe
<1>2. /\ pause[r].state = "planned" /\ pause[r].first < e /\ e < pause[r].resume
      /\ pause' = [pause EXCEPT ![r].resume = e]
      /\ UNCHANGED <<now, trip, cap, res, charge, period, ends, held, edits>>
  BY DEF ShortenPause, tripVars
<1>3. pause \in [Riders -> Pauses] /\ pause' = [pause EXCEPT ![r] = plan] /\ e \in Nat
      /\ pause[r].first \in Nat /\ pause[r].resume \in Nat
  BY <1>1, <1>2, SeatFields, ReservationsAssumption
<1>4. /\ plan \in Pauses /\ plan.first = pause[r].first /\ plan.resume = e
      /\ plan.state = "planned"
  BY <1>2, <1>3 DEF Pauses
<1>5. plan.first <= plan.resume
  BY <1>2, <1>3, <1>4
<1>6. /\ pause' \in [Riders -> Pauses] /\ PausesRun'
      /\ \A q \in Riders : pause'[q] = IF q = r THEN plan ELSE pause[q]
  <2> HIDE DEF plan
  <2> QED
    BY <1>1, <1>3, <1>4, <1>5, PauseMoves
<1>7. TypeOK'
  BY <1>1, <1>2, <1>6 DEF TypeOK, Pauses
<1>8. Charged' /\ Stand
  BY <1>1, <1>2 DEF Charged, Stand
<1>9. ASSUME NEW q \in Riders, NEW d \in Days, SeatIsFunded(q, d)
      PROVE  SeatIsFunded(q, d)'
  <2>1. ~InPause(q, d)'
    <3>1. CASE q = r
      <4>1. ~(pause[r].first <= d /\ d < pause[r].resume) /\ d \in Nat
        BY <1>2, <1>9, <3>1, ReservationsAssumption DEF SeatIsFunded, InPause
      <4>2. ~(pause'[r].first <= d /\ d < pause'[r].resume)
        BY <1>2, <1>3, <1>4, <1>6, <4>1
      <4> QED
        BY <3>1, <4>2 DEF InPause
    <3>2. CASE q # r
      BY <1>6, <1>9, <3>2 DEF InPause, SeatIsFunded
    <3> QED
      BY <3>1, <3>2
  <2> QED
    BY <1>2, <1>9, <2>1 DEF SeatIsFunded
<1> QED
  BY <1>2, <1>6, <1>7, <1>8, <1>9, QuietStep

(* A departure generated, started or completed *)
LEMMA RunSeats ==
  ASSUME SeatsInv, NEW d \in Days, Generate(d) \/ Start(d) \/ Complete(d)
  PROVE  SeatsStep
<1>1. TypeOK /\ SeatsAreFunded /\ Charged /\ PausesRun
  BY DEF SeatsInv, SeatsSafe
<1>2. \/ trip' = [trip EXCEPT ![d].state = "scheduled"]
      \/ trip' = [trip EXCEPT ![d].state = "active"]
      \/ trip' = [trip EXCEPT ![d].state = "completed"]
  BY DEF Generate, Start, Complete
<1>3. UNCHANGED <<now, cap, res, charge, period, ends, pause, held, edits>>
  BY DEF Generate, Start, Complete, tripRest
<1>4. /\ trip' \in [Days -> Trips]
      /\ \A e \in Days : /\ trip'[e].at = trip[e].at /\ trip'[e].bus = trip[e].bus
                         /\ \/ trip'[e].state = trip[e].state
                            \/ trip'[e].state \in {"scheduled", "active", "completed"}
  <2>1. CASE trip' = [trip EXCEPT ![d].state = "scheduled"]
    <3>1. /\ trip' \in [Days -> Trips]
          /\ \A e \in Days : /\ trip'[e].at = trip[e].at /\ trip'[e].bus = trip[e].bus
                             /\ trip'[e].state = IF e = d THEN "scheduled" ELSE trip[e].state
      BY <1>1, <2>1, TripMoves
    <3> QED
      BY <3>1
  <2>2. CASE trip' = [trip EXCEPT ![d].state = "active"]
    <3>1. /\ trip' \in [Days -> Trips]
          /\ \A e \in Days : /\ trip'[e].at = trip[e].at /\ trip'[e].bus = trip[e].bus
                             /\ trip'[e].state = IF e = d THEN "active" ELSE trip[e].state
      BY <1>1, <2>2, TripMoves
    <3> QED
      BY <3>1
  <2>3. CASE trip' = [trip EXCEPT ![d].state = "completed"]
    <3>1. /\ trip' \in [Days -> Trips]
          /\ \A e \in Days : /\ trip'[e].at = trip[e].at /\ trip'[e].bus = trip[e].bus
                             /\ trip'[e].state = IF e = d THEN "completed" ELSE trip[e].state
      BY <1>1, <2>3, TripMoves
    <3> QED
      BY <3>1
  <2> QED
    BY <1>2, <2>1, <2>2, <2>3
<1>5. TypeOK' /\ PausesRun'
  BY <1>1, <1>3, <1>4 DEF TypeOK, Trips, PausesRun
<1>6. Charged' /\ Stand
  BY <1>1, <1>3 DEF Charged, Stand
<1>7. \A q \in Riders, e \in Days : SeatIsFunded(q, e) => SeatIsFunded(q, e)'
  BY <1>3, <1>4 DEF SeatIsFunded, InPause
<1> QED
  BY <1>3, <1>4, <1>5, <1>6, <1>7, QuietStep

(* A departure cancelled: its unused seats lapse. *)
LEMMA CancelSeats ==
  ASSUME SeatsInv, NEW d \in Days, Cancel(d)
  PROVE  SeatsStep
<1>1. TypeOK /\ SeatsAreFunded /\ Charged /\ PausesRun
  BY DEF SeatsInv, SeatsSafe
<1>2. /\ Edit /\ trip' = [trip EXCEPT ![d].state = "cancelled"]
      /\ res' = [r \in Riders |-> [res[r] EXCEPT ![d] = Lapse(res[r][d])]]
      /\ UNCHANGED <<now, cap, charge, period, ends, pause, held>>
  BY DEF Cancel, tripRest
<1>3. /\ trip' \in [Days -> Trips]
      /\ \A e \in Days : /\ trip'[e].at = trip[e].at /\ trip'[e].bus = trip[e].bus
                         /\ trip'[e].state = IF e = d THEN "cancelled" ELSE trip[e].state
  BY <1>1, <1>2, TripMoves
<1>4. res \in [Riders -> [Days -> Statuses]]
  BY <1>1, SeatFields
<1>5. /\ res' \in [Riders -> [Days -> Statuses]]
      /\ \A q \in Riders, e \in Days :
           res'[q][e] = IF e = d THEN Lapse(res[q][e]) ELSE res[q][e]
  <2>1. \A status \in Statuses : Lapse(status) \in Statuses
    BY DEF Lapse, Statuses
  <2> QED
    BY <1>2, <1>4, <2>1
<1>6. \A status \in Statuses : \/ Lapse(status) = status /\ status \notin Unused
                               \/ Lapse(status) = "operator_cancelled" /\ status \in Unused
  BY DEF Lapse
<1>7. \A q \in Riders, e \in Days :
        \/ res'[q][e] = res[q][e] /\ (e = d => res[q][e] \notin Unused)
        \/ e = d /\ res'[q][e] = "operator_cancelled" /\ res[q][e] \in Unused
  BY <1>4, <1>5, <1>6
<1>8. edits' \in 0 .. MaxEdits
  BY <1>1, <1>2, EditCounts
<1>9. TypeOK' /\ PausesRun'
  BY <1>1, <1>2, <1>3, <1>5, <1>8 DEF TypeOK, Trips, Statuses, PausesRun
<1>10. Charged'
  BY <1>1, <1>2, <1>7 DEF Charged, Unused
<1>11. Stand
  BY <1>1, <1>2, <1>7 DEF Stand, Charged, Unused
<1>12. \A q \in Riders, e \in Days :
         /\ res'[q][e] \in Seated => res[q][e] \in Seated
         /\ res'[q][e] = "reserved" => res[q][e] = "reserved" /\ e # d
  BY <1>7 DEF Seated, Unused
<1>13. \A q \in Riders, e \in Days : e # d /\ SeatIsFunded(q, e) => SeatIsFunded(q, e)'
  BY <1>2, <1>3 DEF SeatIsFunded, InPause
<1> QED
  BY <1>3, <1>9, <1>10, <1>11, <1>12, <1>13, QuietStep

(* A departure rescheduled: not past the end of the period of anyone it seats. *)
LEMMA RescheduleSeats ==
  ASSUME SeatsInv, NEW d \in Days, NEW at \in Departure(d) .. Departure(d) + 2, Reschedule(d, at)
  PROVE  SeatsStep
<1>1. TypeOK /\ SeatsAreFunded /\ Charged /\ PausesRun
  BY DEF SeatsInv, SeatsSafe
<1>2. /\ Edit /\ trip' = [trip EXCEPT ![d].at = at]
      /\ \A r \in Riders : res[r][d] = "reserved" => at < ends[r]
      /\ UNCHANGED <<now, cap, res, charge, period, ends, pause, held>>
  BY DEF Reschedule, tripRest
<1>3. trip \in [Days -> Trips] /\ d \in Nat
  BY <1>1, SeatFields
<1>4. at \in Nat
  BY <1>3 DEF Departure
<1>5. [trip[d] EXCEPT !.at = at] \in Trips
      /\ [trip[d] EXCEPT !.at = at].at = at
      /\ [trip[d] EXCEPT !.at = at].state = trip[d].state
      /\ [trip[d] EXCEPT !.at = at].bus = trip[d].bus
  BY <1>3, <1>4 DEF Trips
<1>6. /\ trip' \in [Days -> Trips]
      /\ \A e \in Days : trip'[e] = IF e = d THEN [trip[d] EXCEPT !.at = at] ELSE trip[e]
  BY <1>2, <1>3, <1>5
<1>7. \A e \in Days : /\ trip'[e].at = IF e = d THEN at ELSE trip[e].at
                      /\ trip'[e].bus = trip[e].bus /\ trip'[e].state = trip[e].state
  BY <1>5, <1>6
<1>8. edits' \in 0 .. MaxEdits
  BY <1>1, <1>2, EditCounts
<1>9. TypeOK' /\ PausesRun'
  BY <1>1, <1>2, <1>6, <1>8 DEF TypeOK, Trips, PausesRun
<1>10. Charged' /\ Stand
  BY <1>1, <1>2 DEF Charged, Stand
<1>11. ASSUME NEW q \in Riders, NEW e \in Days, res'[q][e] = "reserved"
       PROVE  SeatIsFunded(q, e)'
  <2>1. SeatIsFunded(q, e) /\ res[q][e] = "reserved"
    BY <1>1, <1>2, <1>11 DEF SeatsAreFunded
  <2>2. trip'[e].at < ends[q]
    BY <1>2, <1>7, <2>1 DEF SeatIsFunded
  <2> QED
    BY <1>2, <1>7, <2>1, <2>2 DEF SeatIsFunded, InPause
<1> QED
  BY <1>2, <1>7, <1>9, <1>10, <1>11, QuietStep

(* A vehicle assigned: it holds those who are seated. *)
LEMMA AssignSeats ==
  ASSUME SeatsInv, NEW d \in Days, NEW bus \in Vehicles \cup {NoBus}, Assign(d, bus)
  PROVE  SeatsStep
<1>1. TypeOK /\ SeatsAreFunded /\ Charged /\ PausesRun
  BY DEF SeatsInv, SeatsSafe
<1>2. /\ Edit /\ Cardinality(Taken(d)) <= Capacity(bus) /\ trip' = [trip EXCEPT ![d].bus = bus]
      /\ UNCHANGED <<now, cap, res, charge, period, ends, pause, held>>
  BY DEF Assign, tripRest
<1>3. trip \in [Days -> Trips]
  BY <1>1, SeatFields
<1>4. [trip[d] EXCEPT !.bus = bus] \in Trips
      /\ [trip[d] EXCEPT !.bus = bus].bus = bus
      /\ [trip[d] EXCEPT !.bus = bus].state = trip[d].state
      /\ [trip[d] EXCEPT !.bus = bus].at = trip[d].at
  BY <1>3 DEF Trips
<1>5. /\ trip' \in [Days -> Trips]
      /\ \A e \in Days : trip'[e] = IF e = d THEN [trip[d] EXCEPT !.bus = bus] ELSE trip[e]
  BY <1>2, <1>3, <1>4
<1>6. \A e \in Days : /\ trip'[e].bus = IF e = d THEN bus ELSE trip[e].bus
                      /\ trip'[e].at = trip[e].at /\ trip'[e].state = trip[e].state
  BY <1>4, <1>5
<1>7. edits' \in 0 .. MaxEdits
  BY <1>1, <1>2, EditCounts
<1>8. TypeOK' /\ PausesRun'
  BY <1>1, <1>2, <1>5, <1>7 DEF TypeOK, Trips, PausesRun
<1>9. Charged' /\ Stand
  BY <1>1, <1>2 DEF Charged, Stand
<1>10. \A q \in Riders, e \in Days : SeatIsFunded(q, e) => SeatIsFunded(q, e)'
  BY <1>2, <1>6 DEF SeatIsFunded, InPause
<1>11. SeatsInv'
  BY <1>2, <1>8, <1>9, <1>10, NoNewSeats
<1>12. ASSUME NEW e \in Days, Overbooked(e)'
       PROVE  Overbooked(e)
  <2>1. CASE e = d
    <3>1. Capacity(trip[d].bus)' = Capacity(bus) /\ Taken(d)' = Taken(d)
      BY <1>2, <1>6 DEF Capacity, Taken
    <3>2. Cardinality(Taken(d)) > Capacity(bus)
      BY <1>12, <2>1, <3>1 DEF Overbooked
    <3> QED
      BY <1>1, <1>2, <3>2, TakenFinite, CapacityType
  <2>2. CASE e # d
    BY <1>1, <1>2, <1>6, <1>12, <2>2, NotFuller
  <2> QED
    BY <2>1, <2>2
<1> QED
  BY <1>9, <1>11, <1>12 DEF SeatsStep, Fits

-----------------------------------------------------------------------------
(* The theorems *)

(* Every step, or none *)
LEMMA SeatsSteps == SeatsInv /\ [Next]_vars => SeatsStep
<1> SUFFICES ASSUME SeatsInv, [Next]_vars PROVE SeatsStep
  OBVIOUS
<1>1. CASE Tick
  BY <1>1, TickSeats
<1>2. CASE Ops
  BY <1>2, RunSeats, CancelSeats, AssignSeats, RescheduleSeats, VehicleSeats DEF Ops
<1>3. ASSUME NEW r \in Riders, Rider(r)
      PROVE  SeatsStep
  <2>1. CASE Fulfil(r) \/ Close(r) \/ Reverse(r) \/ Hold(r) \/ SettlePause(r)
    BY <2>1, FulfilSeats, CloseSeats, ReverseSeats, HoldSeats, SettlePauseSeats
  <2>2. CASE \E d \in Days : Confirm(r, d) \/ Decline(r, d) \/ Board(r, d) \/ MarkNoShow(r, d)
    BY <2>2, ConfirmSeats, DeclineSeats, BoardSeats, NoShowSeats
  <2>3. CASE \E d \in Days : \E e \in d + MinPause .. d + MaxPause : PlanPause(r, d, e)
    BY <2>3, PlanSeats
  <2>4. CASE \E e \in Days : ShortenPause(r, e)
    BY <2>4, ShortenSeats
  <2> QED
    BY <1>3, <2>1, <2>2, <2>3, <2>4 DEF Rider
<1>4. ASSUME NEW r \in Riders, NEW d \in Days, Batch(r, d)
      PROVE  SeatsStep
  BY <1>4, AskSeats, DefaultSeats DEF Batch
<1>5. CASE UNCHANGED vars
  <2>1. TypeOK'
    BY <1>5 DEF SeatsInv, SeatsSafe, TypeOK, vars, tripVars
  <2> QED
    BY <1>5, <2>1, SeatsUntouched DEF vars, tripVars
<1> QED
  BY <1>1, <1>2, <1>3, <1>4, <1>5 DEF Next

(* The invariant that SeatsSafe and the two action properties rest on *)
LEMMA SeatsAlways == Spec => []SeatsInv
<1>1. SeatsInv /\ [Next]_vars => SeatsInv'
  BY SeatsSteps DEF SeatsStep
<1> QED
  BY SeatsStart, <1>1, PTL DEF Spec

(* Every reserved seat is on a departure that stands, within an open period and outside
   its pause, and no rider holds or has used more seats than the period has rides:
   reserve, runReservationDefaults, the personal pauses, reversePeriod, the closing and
   the trip commands, in any order. *)
THEOREM SeatsStayFunded == Spec => []SeatsSafe
<1>1. SeatsInv => SeatsSafe
  BY DEF SeatsInv
<1> QED
  BY SeatsAlways, <1>1, PTL

(* A departure gets fuller than its vehicle only when Ops edits the vehicle: a seat is
   counted under the lock of its trip (guard_reservation), and an assignment looks at
   the seats taken (coordinateReservations). *)
THEOREM RidersNeverOverbook == Spec => OnlyEditsOverbook
<1>1. SeatsInv /\ [Next]_vars => [cap' = cap => \A d \in Days : Overbooked(d)' => Overbooked(d)]_vars
  BY SeatsSteps DEF SeatsStep, Fits
<1> QED
  BY SeatsAlways, <1>1, PTL DEF Spec, OnlyEditsOverbook

(* A charge is written once, for a seat that was used; a no-show may become a boarding
   and not the reverse; and only the rider undoes a decline, whatever batch comes. *)
THEOREM AnswersStand == Spec => AnswersAndChargesStand
<1>1. SeatsInv /\ [Next]_vars =>
        [\A r \in Riders, d \in Days :
          /\ charge[r][d] # "none" => charge'[r][d] = charge[r][d]
          /\ (res[r][d] \in {"boarded", "no_show"}) <=> (charge[r][d] # "none")
          /\ res[r][d] = "boarded" => res'[r][d] = "boarded"
          /\ res[r][d] = "no_show" => res'[r][d] \in {"no_show", "boarded"}
          /\ res[r][d] = "declined" => res'[r][d] = "declined" \/ Confirm(r, d)
          /\ res[r][d] = "reserved" => res'[r][d] \notin {"pending", "unseated"}]_vars
  BY SeatsSteps DEF SeatsStep, Stand
<1> QED
  BY SeatsAlways, <1>1, PTL DEF Spec, AnswersAndChargesStand

(* What the scheduler does with seats is what a batch or a rider of Reservations may do
   at any time (drainScheduledJob of runtime/scheduler.ts calls runReservationDefaults and
   runNoShows), so the three theorems above hold of its runs too. *)
THEOREM SweepsUseSeats == SweepSpec => Spec
<1>1. SweepInit => Init
  BY DEF SweepInit
<1>2. [SweepNext]_sweepVars => [Next]_vars
  <2> SUFFICES ASSUME [SweepNext]_sweepVars PROVE [Next]_vars
    OBVIOUS
  <2>1. CASE Others
    BY <2>1 DEF Others
  <2>2. ASSUME NEW s \in Slots, StartRun(s) \/ BreakRun(s) PROVE [Next]_vars
    BY <2>2 DEF StartRun, BreakRun
  <2>3. ASSUME NEW s \in Slots, NEW r \in Riders, TakeOne(s, r) PROVE [Next]_vars
    <3>1. s[2] \in Days
      BY DEF Slots
    <3>2. CASE UNCHANGED vars
      BY <3>2
    <3>3. CASE DefaultOne(r, s[2])
      BY <3>1, <3>3 DEF Next, Batch
    <3>4. CASE MarkNoShow(r, s[2])
      BY <3>1, <3>4 DEF Next, Rider
    <3> QED
      BY <2>3, <3>2, <3>3, <3>4 DEF TakeOne, Command
  <2>4. CASE UNCHANGED sweepVars
    BY <2>4 DEF sweepVars
  <2> QED
    BY <2>1, <2>2, <2>3, <2>4 DEF SweepNext, Run
<1> QED
  BY <1>1, <1>2, PTL DEF SweepSpec, Spec

=============================================================================
