---------------------------- MODULE MCReservations ----------------------------
(* The seats of two riders through one day, or of one rider through two     *)
(* days: the second day is cancelled, or the second rider gone, at first.   *)
(* Or the sweeps of these days: of the plain rider, whose one day Ops       *)
(* edits, or of the offered rider, whose two days it leaves alone.  At the  *)
(* second noon the coverage of one day is over, and the catch-up of the     *)
(* first day and the defaults of both had their time.                       *)
EXTENDS DaySweeps, TLC

CONSTANTS r1, r2, bus, Noon

VARIABLE focus

OneDay ==
  /\ trip[1].state = "scheduled" /\ trip[2].state = "cancelled"
  /\ trip[1].bus = bus /\ trip[2].bus = NoBus
TwoDays(second) ==
  /\ trip[1].state = "scheduled" /\ trip[1].bus = bus /\ cap[bus] = 1
  /\ trip[2].state = IF second = NoBus THEN "none" ELSE "scheduled"
  /\ trip[2].bus = second
TwoRiders == \A r \in Riders :
  period[r] = "open" /\ ends[r] = 4 /\ res[r] = <<"none", "declined">>
OneRider(r, state, plan) ==
  /\ period = [x \in Riders |-> IF x = r THEN state ELSE "reversed"]
  /\ ends = [x \in Riders |-> IF x = r THEN 6 ELSE 4]
  /\ res = [x \in Riders |-> IF x = r THEN plan ELSE <<"declined", "declined">>]

MCInit ==
  /\ SweepInit
  /\ \/ focus = "day" /\ OneDay /\ TwoRiders
     \/ focus = "days" /\ TwoDays(NoBus) /\ \E r \in Riders : OneRider(r, "none", <<"none", "none">>)
     \/ focus = "sweeps of the day" /\ OneDay /\ cap[bus] = 1 /\ OneRider(r2, "open", <<"none", "declined">>)
     \/ focus = "sweeps of the days" /\ TwoDays(bus) /\ OneRider(r1, "open", <<"none", "none">>)
MCNext ==
  /\ \/ focus = "day" /\ Others /\ now' <= Noon
     \/ focus = "days" /\ Others
     \/ focus = "sweeps of the day" /\ SweepNext /\ now' <= Noon
     \/ focus = "sweeps of the days" /\ SweepNext /\ now' <= Noon /\ edits' = edits
  /\ UNCHANGED focus
MCSpec == MCInit /\ [][MCNext]_<<sweepVars, focus>> /\ Fairness
==============================================================================
