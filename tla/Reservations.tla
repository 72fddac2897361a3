---------------------------- MODULE Reservations ----------------------------
(***************************************************************************)
(* Seats of one commute direction: the rider's decision for a service day, *)
(* the evening ask, the defaults, boarding, the no-show sweep, personal    *)
(* pauses, the trips and vehicles Ops edits meanwhile, and the end of the  *)
(* paid period (membership/service.ts, boarding/service.ts, the trip       *)
(* commands of transport/service.ts and the triggers of migrations 013,    *)
(* 015, 025 and 042).                                                      *)
(*                                                                         *)
(* Every command is one transaction under the locks rider, period, trip,   *)
(* reservation, so it is one action.  A maintenance batch lists its riders *)
(* first and takes each in a transaction of its own, which believes        *)
(* nothing of the list: the model lets it come at any later moment.  When  *)
(* the scheduler runs which batch is in DaySweeps.                         *)
(***************************************************************************)
EXTENDS Integers, FiniteSets

CONSTANTS
  Riders,
  Offered,         \* those whose period was bought as a priced offer
  Days,            \* service days that can have a departure
  LastTime,        \* bound: the last half day of the clock
  CoverEnds,       \* effective_ends_at of a paid period before any pause
  Granted,         \* rides of a period in this direction
  Vehicles, Sizes, \* vehicles and the capacities they can be given
  MinPause, MaxPause, \* days of a personal pause (3 and 14 in the code)
  MaxEdits         \* bound: edits of trips and vehicles, holds and reversals

NoBus == "no bus"

ASSUME ReservationsAssumption ==
  /\ Offered \subseteq Riders /\ Days \subseteq Nat
  /\ {LastTime, Granted, MinPause, MaxPause, MaxEdits} \cup Sizes \cup CoverEnds \subseteq Nat
  /\ IsFiniteSet(Riders) /\ IsFiniteSet(Days) /\ LastTime # 0 /\ NoBus \notin Vehicles

VARIABLES
  now,     \* half days: morning 2d and evening 2d+1 of day d
  trip,    \* the departure of each day
  cap,     \* vehicles.capacity
  res,     \* status of the rider's last reservation row of the day
  charge,  \* reason of its reservation_charges row
  period,  \* billing_periods.state
  ends,    \* its effective_ends_at
  pause,   \* the personal pause of the period
  held,    \* an account restriction or a payment block is open
  edits    \* edits by Ops so far

tripVars == <<trip, cap>>
vars == <<now, tripVars, res, charge, period, ends, pause, held, edits>>

DayOf(t) == t \div 2
Today == DayOf(now)
Departure(d) == 2 * d + 1
Seated == {"reserved", "boarded", "no_show"}
Unused == {"reserved", "pending", "unseated"}
NoPause == [state |-> "none", first |-> 0, resume |-> 0]

Taken(d) == {r \in Riders : res[r][d] \in Seated}
Capacity(bus) == IF bus = NoBus THEN 0 ELSE cap[bus]
Left(r) == Granted - Cardinality({d \in Days : charge[r][d] # "none"})
Holding_None(r, d) == {}                       \* mutant: other days are not counted
Holding(r, d) == {e \in Days \ {d} : res[r][e] = "reserved"}

(* guard_reservation counts the seats under the lock of the trip           *)
Full_OffByOne(d) == Cardinality(Taken(d)) > Capacity(trip[d].bus)       \* mutant
Full(d) == Cardinality(Taken(d)) >= Capacity(trip[d].bus)

(* personal_pause_blocks *)
InPause(r, d) ==
  pause[r].state \in {"planned", "completed"} /\ pause[r].first <= d /\ d < pause[r].resume

(* settle_personal_pauses, which booking, closing and the nightly job call *)
Due(r) == pause[r].state = "planned" /\ period[r] = "open" /\ pause[r].resume <= Today
EndSettled(r) ==
  IF Due(r) THEN ends[r] + 2 * (pause[r].resume - pause[r].first) ELSE ends[r]
Settle(r) ==
  /\ pause' = IF Due(r) THEN [pause EXCEPT ![r].state = "completed"] ELSE pause
  /\ ends' = [ends EXCEPT ![r] = EndSettled(r)]

Blocked(r) == held[r] \/ InPause(r, Today)
Upcoming(d) == trip[d].state = "scheduled" /\ now < trip[d].at
(* the row Ops has not cancelled is the one a decision changes             *)
Live(r, d) == res[r][d] \notin {"none", "operator_cancelled"}

(* The first reason why reserve and its triggers refuse a seat, or "ok".   *)
Refusal(r, d, mode) ==
  IF d < Today THEN "service_day_past"
  ELSE IF period[r] # "open" \/ trip[d].state = "none" \/ trip[d].at >= EndSettled(r)
  THEN "coverage_required"
  ELSE IF res[r][d] \in {"boarded", "no_show"} THEN "reservation_terminal"
  ELSE IF Live(r, d) /\ ~Upcoming(d) THEN "service_started"
  ELSE IF r \in Offered /\ Left(r) <= Cardinality(Holding(r, d)) THEN "journey_rides_exhausted"
  ELSE IF Blocked(r) THEN "membership_blocked"
  ELSE IF ~Upcoming(d) THEN "departure_unavailable"
  ELSE IF mode # "ask" /\ Left(r) <= Cardinality(Holding(r, d)) THEN "rides_unavailable"
  ELSE IF InPause(r, d) THEN "personal_pause_active"
  ELSE IF mode # "ask" /\ res[r][d] # "reserved" /\ Full(d) THEN "reservation_capacity"
  ELSE "ok"

(* What Ops or a dispute does is bounded.                                  *)
Edit == edits < MaxEdits /\ edits' = edits + 1

Lapse(status) == IF status \in Unused THEN "operator_cancelled" ELSE status

TypeOK ==
  /\ now \in 0 .. LastTime /\ edits \in 0 .. MaxEdits
  /\ trip \in [Days -> [state : {"none", "scheduled", "active", "completed", "cancelled"},
                        at : Nat, bus : Vehicles \cup {NoBus}]]
  /\ cap \in [Vehicles -> Sizes]
  /\ res \in [Riders -> [Days -> Seated \cup Unused \cup {"none", "declined", "operator_cancelled"}]]
  /\ charge \in [Riders -> [Days -> {"none", "boarding", "no_show"}]]
  /\ period \in [Riders -> {"none", "open", "closed", "reversed"}]
  /\ ends \in [Riders -> Nat]
  /\ pause \in [Riders -> [state : {"none", "planned", "completed", "terminated"},
                           first : Nat, resume : Nat]]
  /\ held \in [Riders -> BOOLEAN]

(* A rider may have a period or have had one; Ops may have cancelled a     *)
(* day, or generated it and assigned a vehicle.                            *)
Unstarted == {"none", "scheduled", "cancelled"}
Init ==
  /\ now = 1
  /\ \E state \in [Days -> Unstarted], bus \in [Days -> Vehicles \cup {NoBus}] :
       trip = [d \in Days |-> [state |-> state[d], at |-> Departure(d), bus |-> bus[d]]]
  /\ cap \in [Vehicles -> Sizes]
  /\ res \in [Riders -> [Days -> {"none", "declined"}]]
  /\ charge = [r \in Riders |-> [d \in Days |-> "none"]]
  /\ period \in [Riders -> {"none", "open", "reversed"}]
  /\ ends \in [Riders -> CoverEnds]
  /\ pause = [r \in Riders |-> NoPause]
  /\ held = [r \in Riders |-> FALSE]
  /\ edits \in 0 .. MaxEdits /\ edits = Cardinality({r \in Riders : period[r] = "reversed"})

-----------------------------------------------------------------------------
(* The clock and the paid period                                           *)

Tick ==
  /\ now < LastTime
  /\ now' = now + 1
  /\ UNCHANGED <<tripVars, res, charge, period, ends, pause, held, edits>>

(* materializeAssignment of a fulfilled purchase: after the evening ask it *)
(* asks the rider about tomorrow itself (askIfLate).                       *)
Fulfil(r) ==
  LET d == Today + 1
      late == now % 2 = 1 /\ d \in Days /\ ~held[r] /\ Granted > 0
  IN
  /\ period[r] = "none" /\ now < ends[r]
  /\ period' = [period EXCEPT ![r] = "open"]
  /\ res' = IF late /\ Upcoming(d) /\ trip[d].at < ends[r] /\ res[r][d] = "none"
            THEN [res EXCEPT ![r][d] = "pending"] ELSE res
  /\ UNCHANGED <<now, tripVars, charge, ends, pause, held, edits>>

LapseUnused(r) == res' = [res EXCEPT ![r] = [d \in Days |-> Lapse(@[d])]]

(* A refund or a lost dispute: reversePeriod, end_period_commute           *)
Reverse(r) ==
  /\ Edit /\ period[r] = "open"
  /\ period' = [period EXCEPT ![r] = "reversed"]
  /\ LapseUnused(r)
  /\ pause' = [pause EXCEPT ![r].state = IF @ = "planned" THEN "terminated" ELSE @]
  /\ UNCHANGED <<now, tripVars, charge, ends, held>>

(* assertPeriodCanClose and end_period_commute *)
Close(r) ==
  /\ period[r] = "open" /\ EndSettled(r) <= now
  /\ Due(r) \/ pause[r].state # "planned"
  /\ \A d \in Days : res[r][d] # "reserved"
  /\ Settle(r)
  /\ period' = [period EXCEPT ![r] = "closed"]
  /\ LapseUnused(r)
  /\ UNCHANGED <<now, tripVars, charge, held, edits>>

(* A block opens on a period that is open, or is released.                 *)
Hold(r) ==
  /\ Edit /\ period[r] = "open"
  /\ held' = [held EXCEPT ![r] = ~@]
  /\ UNCHANGED <<now, tripVars, res, charge, period, ends, pause>>

-----------------------------------------------------------------------------
(* The rider                                                               *)

Confirm(r, d) ==
  /\ Refusal(r, d, "confirmation") = "ok"
  /\ res' = [res EXCEPT ![r][d] = "reserved"]
  /\ Settle(r)
  /\ UNCHANGED <<now, tripVars, charge, period, held, edits>>

Decline(r, d) ==
  /\ Today <= d /\ res[r][d] \notin {"boarded", "no_show"}
  /\ Live(r, d) => Upcoming(d)
  /\ res' = [res EXCEPT ![r][d] = "declined"]
  /\ UNCHANGED <<now, tripVars, charge, period, ends, pause, held, edits>>

(* createPersonalPause: unused reservations of the window are declined     *)
PlanPause(r, first, resume) ==
  LET window == {d \in Days : first <= d /\ d < resume} IN
  /\ period[r] = "open" /\ now < ends[r] /\ ~held[r] /\ pause[r] = NoPause
  /\ Today < first /\ 2 * first < ends[r]
  /\ MinPause <= resume - first /\ resume - first <= MaxPause
  /\ \A d \in window :
       /\ res[r][d] \notin {"boarded", "no_show"}
       /\ res[r][d] = "reserved" => trip[d].state # "active"
  /\ pause' = [pause EXCEPT ![r] = [state |-> "planned", first |-> first, resume |-> resume]]
  /\ res' = [res EXCEPT ![r] = [d \in Days |->
       IF d \in window /\ @[d] \in Unused THEN "declined" ELSE @[d]]]
  /\ UNCHANGED <<now, tripVars, charge, period, ends, held, edits>>

(* resumePersonalPause: earlier, and still in the future                   *)
ShortenPause(r, resume) ==
  /\ period[r] = "open" /\ pause[r].state = "planned"
  /\ pause[r].first < resume /\ resume < pause[r].resume /\ Today < resume
  /\ pause' = [pause EXCEPT ![r].resume = resume]
  /\ UNCHANGED <<now, tripVars, res, charge, period, ends, held, edits>>

SettlePause(r) ==
  /\ Due(r) /\ Settle(r)
  /\ UNCHANGED <<now, tripVars, res, charge, period, held, edits>>

-----------------------------------------------------------------------------
(* Boarding (BoardingService.command): the charge, the status and the ride *)
(* are written together, and a charge once written is only read again.     *)

MayBoard(r, d) == ~Blocked(r) /\ period[r] \in {"open", "closed"} /\ trip[d].state # "cancelled"
MayCharge_Any(r, d) == period[r] = "open" /\ Left(r) >= 1 /\ ~InPause(r, d)   \* mutant
MayCharge(r, d) ==
  res[r][d] = "reserved" /\ period[r] = "open" /\ Left(r) >= 1 /\ ~InPause(r, d)

Charge(r, d, status, reason) ==
  /\ MayBoard(r, d) /\ MayCharge(r, d)
  /\ charge' = [charge EXCEPT ![r][d] = reason]
  /\ res' = [res EXCEPT ![r][d] = status]

Board(r, d) ==
  /\ trip[d].state = "active" \/ (trip[d].state = "scheduled" /\ d = Today)
  /\ \/ Charge(r, d, "boarded", "boarding")
     \/ /\ MayBoard(r, d) /\ res[r][d] = "no_show"
        /\ res' = [res EXCEPT ![r][d] = "boarded"]
        /\ UNCHANGED charge
  /\ UNCHANGED <<now, tripVars, period, ends, pause, held, edits>>

(* also what runNoShows does with a rider                                  *)
MarkNoShow(r, d) ==
  /\ trip[d].state # "none" /\ trip[d].at <= now
  /\ Charge(r, d, "no_show", "no_show")
  /\ UNCHANGED <<now, tripVars, period, ends, pause, held, edits>>

-----------------------------------------------------------------------------
(* Maintenance, one rider of a batch                                       *)

(* runAskDispatch: a rider who answered meanwhile is left alone, and a     *)
(* refusal leaves no row.                                                  *)
AskOne(r, d) ==
  /\ res[r][d] = "none" /\ Refusal(r, d, "ask") = "ok"
  /\ res' = [res EXCEPT ![r][d] = "pending"]
  /\ Settle(r)
  /\ UNCHANGED <<now, tripVars, charge, period, held, edits>>

(* What a refusal makes of an ask that was not answered; the refusals that *)
(* are in neither list are counted as failed and leave it as it is.        *)
Overflow == {"reservation_capacity", "rides_unavailable"}
Withdrawn == {"membership_blocked", "coverage_required", "departure_unavailable",
              "service_started"}
DefaultOutcome_NoSeat(why) ==                  \* mutant: a full vehicle is unexpected
  CASE why = "ok" -> "reserved"
    [] why = "rides_unavailable" -> "unseated"
    [] why \in Withdrawn -> "operator_cancelled"
    [] OTHER -> "pending"
DefaultOutcome(why) ==
  CASE why = "ok" -> "reserved"
    [] why \in Overflow -> "unseated"
    [] why \in Withdrawn -> "operator_cancelled"
    [] OTHER -> "pending"

(* runReservationDefaults *)
DefaultOne(r, d) ==
  LET why == Refusal(r, d, "default") IN
  /\ res[r][d] = "pending"
  /\ res' = [res EXCEPT ![r][d] = DefaultOutcome(why)]
  /\ IF why = "ok" THEN Settle(r) ELSE UNCHANGED <<pause, ends>>
  /\ UNCHANGED <<now, tripVars, charge, period, held, edits>>

-----------------------------------------------------------------------------
(* Trips and vehicles (TransportService and coordinateReservations)        *)

tripRest == <<now, cap, charge, period, ends, pause, held>>

Generate(d) ==
  /\ trip[d].state = "none" /\ now < Departure(d)
  /\ trip' = [trip EXCEPT ![d].state = "scheduled"]
  /\ UNCHANGED <<tripRest, res, edits>>

Assign(d, bus) ==
  /\ Edit /\ trip[d].state = "scheduled" /\ Cardinality(Taken(d)) <= Capacity(bus)
  /\ bus # trip[d].bus /\ trip' = [trip EXCEPT ![d].bus = bus]
  /\ UNCHANGED <<tripRest, res>>

(* Past midnight and back: the service day stays                           *)
Reschedule(d, at) ==
  /\ Edit /\ trip[d].state = "scheduled"
  /\ \A r \in Riders : res[r][d] = "reserved" => at < ends[r]
  /\ at # trip[d].at /\ trip' = [trip EXCEPT ![d].at = at]
  /\ UNCHANGED <<tripRest, res>>

Cancel(d) ==
  /\ Edit /\ trip[d].state = "scheduled"
  /\ trip' = [trip EXCEPT ![d].state = "cancelled"]
  /\ res' = [r \in Riders |-> [res[r] EXCEPT ![d] = Lapse(@)]]
  /\ UNCHANGED tripRest

Start(d) ==
  /\ trip[d].state = "scheduled"
  /\ trip' = [trip EXCEPT ![d].state = "active"]
  /\ UNCHANGED <<tripRest, res, edits>>

Complete(d) ==
  /\ trip[d].state = "active"
  /\ trip' = [trip EXCEPT ![d].state = "completed"]
  /\ UNCHANGED <<tripRest, res, edits>>

(* updateVehicle (fleet.ts) looks at no reservation                        *)
EditVehicle(v, n) ==
  /\ Edit
  /\ cap' = [cap EXCEPT ![v] = n]
  /\ UNCHANGED <<now, trip, res, charge, period, ends, pause, held>>

-----------------------------------------------------------------------------

Batch(r, d) == AskOne(r, d) \/ DefaultOne(r, d)
Rider(r) ==
  \/ Fulfil(r) \/ Close(r) \/ Reverse(r) \/ Hold(r) \/ SettlePause(r)
  \/ \E d \in Days : Confirm(r, d) \/ Decline(r, d) \/ Board(r, d) \/ MarkNoShow(r, d)
  \/ \E d \in Days : \E e \in d + MinPause .. d + MaxPause : PlanPause(r, d, e)
  \/ \E e \in Days : ShortenPause(r, e)
Ops ==
  \/ \E d \in Days :
       \/ Generate(d) \/ Cancel(d) \/ Start(d) \/ Complete(d)
       \/ \E bus \in Vehicles \cup {NoBus} : Assign(d, bus)
       \/ \E at \in Departure(d) .. Departure(d) + 2 : Reschedule(d, at)
  \/ \E v \in Vehicles, n \in Sizes : EditVehicle(v, n)

Next == Tick \/ Ops \/ \E r \in Riders : Rider(r) \/ \E d \in Days : Batch(r, d)

Spec == Init /\ [][Next]_vars

-----------------------------------------------------------------------------

(* A seat is held only on a departure that was not cancelled, for a period *)
(* that is open and covers it, on no day of a pause, and never more of     *)
(* them than rides are left: whatever pauses, reschedulings, reversals and *)
(* batches come between the decision and the departure.                    *)
SeatIsFunded(r, d) ==
  /\ trip[d].state \in {"scheduled", "active", "completed"}
  /\ period[r] = "open" /\ trip[d].at < ends[r] /\ ~InPause(r, d)
RidesCover(r) == Cardinality({d \in Days : res[r][d] \in Seated}) <= Granted
SeatsAreFunded == \A r \in Riders :
  RidesCover(r) /\ \A d \in Days : res[r][d] = "reserved" => SeatIsFunded(r, d)

(* Days, trips and pauses are well typed, and every seat is paid for.      *)
SeatsSafe == TypeOK /\ SeatsAreFunded

(* A departure is filled beyond its vehicle only by an edit of the         *)
(* vehicle, never by riders, defaults, assignments and sweeps that race.   *)
Overbooked(d) == Cardinality(Taken(d)) > Capacity(trip[d].bus)
OnlyEditsOverbook == [][cap' = cap => \A d \in Days : Overbooked(d)' => Overbooked(d)]_vars

(* A ride is charged once and for good, to a rider who held the seat; a    *)
(* no-show may become a boarding and never the reverse; and no batch       *)
(* changes the answer of the rider: a declined day is seated again only by *)
(* the rider, a confirmed seat is not asked about again.                   *)
AnswersAndChargesStand == [][\A r \in Riders, d \in Days :
  /\ charge[r][d] # "none" => charge'[r][d] = charge[r][d]
  /\ (res[r][d] \in {"boarded", "no_show"}) <=> (charge[r][d] # "none")
  /\ res[r][d] = "boarded" => res'[r][d] = "boarded"
  /\ res[r][d] = "no_show" => res'[r][d] \in {"no_show", "boarded"}
  /\ res[r][d] = "declined" => res'[r][d] = "declined" \/ Confirm(r, d)
  /\ res[r][d] = "reserved" => res'[r][d] \notin {"pending", "unseated"}]_vars

=============================================================================
