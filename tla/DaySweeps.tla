------------------------------ MODULE DaySweeps ------------------------------
(***************************************************************************)
(* When the scheduler settles the seats of Reservations (scheduledGroups   *)
(* of runtime/job-schedule.ts, due and drainScheduledJob of                *)
(* runtime/scheduler.ts).  The defaults of a service day and the catch-up  *)
(* of its no-shows on the day after have a slot each, which is run again   *)
(* until a run of it succeeds, and then never more.  What is asked, seated *)
(* or moved after a run has listed its riders is nothing to that run.      *)
(*                                                                         *)
(* The lock that elects one replica, full batches and backlogs are in      *)
(* Scheduler; here a batch holds all riders, and each slot may be at work  *)
(* on its own.                                                             *)
(***************************************************************************)
EXTENDS Reservations

VARIABLE
  slot       \* of each slot: whether a run succeeded; riders the run at work has to take

sweepVars == <<vars, slot>>

Jobs == {"defaults", "no-shows-catch-up"}
Slots == Jobs \X Days
DueSlot == [done |-> FALSE, left |-> {}, failed |-> FALSE]

SweepInit == Init /\ slot = [s \in Slots |-> DueSlot]

(* The run of 23:30 is not here: it has a slot of its own, so nothing      *)
(* waits for it, and what it does is MarkNoShow, which may come any time.  *)
ScheduledGroups == {<<"no-shows-catch-up", Today - 1>>, <<"defaults", Today>>}
IsDue(s) == slot[s] = DueSlot /\ s \in ScheduledGroups

(* The first query of each batch                                           *)
Asked(d) == {r \in Riders : res[r][d] = "pending"}
Unboarded(d) == {r \in Riders :
  res[r][d] = "reserved" /\ trip[d].state # "cancelled" /\ trip[d].at <= now
    /\ period[r] = "open" /\ ~held[r]}
Listed(s) == IF s[1] = "defaults" THEN Asked(s[2]) ELSE Unboarded(s[2])

(* A run ends with its last rider.  A slot of which a run succeeded is not *)
(* due again.                                                              *)
Progress(left, failed) ==
  IF left = {} THEN [DueSlot EXCEPT !.done = ~failed]
  ELSE [done |-> FALSE, left |-> left, failed |-> failed]

(* The job of the other direction is in the same run, and may fail in it.  *)
StartRun(s) ==
  /\ IsDue(s)
  /\ \E otherFails \in BOOLEAN :
       slot' = [slot EXCEPT ![s] = Progress(Listed(s), otherFails)]
  /\ UNCHANGED vars

(* One rider of the batch: the row is read again under the locks, and a    *)
(* rider who answered, boarded or is refused now is passed over; only a    *)
(* refusal that the defaults do not expect counts as a failure.            *)
Settleable(s, r) ==
  IF s[1] = "defaults" THEN res[r][s[2]] = "pending"
  ELSE trip[s[2]].at <= now /\ MayBoard(r, s[2]) /\ MayCharge(r, s[2])
Command(s, r) ==
  IF s[1] = "defaults" THEN DefaultOne(r, s[2]) ELSE MarkNoShow(r, s[2])
Refused(s, r) == s[1] = "defaults" /\ res'[r][s[2]] = "pending"
TakeOne(s, r) ==
  /\ r \in slot[s].left
  /\ IF Settleable(s, r) THEN Command(s, r) ELSE UNCHANGED vars
  /\ slot' = [slot EXCEPT ![s] = Progress(@.left \ {r}, @.failed \/ Refused(s, r))]

(* The replica dies, its session is cut, or a request fails.               *)
BreakRun(s) ==
  /\ slot[s].left # {} /\ slot' = [slot EXCEPT ![s] = DueSlot]
  /\ UNCHANGED vars

(* Riders, drivers, Ops and the batches they start themselves              *)
Others == Next /\ UNCHANGED slot

Run(s) == StartRun(s) \/ \E r \in Riders : TakeOne(s, r)
SweepNext == Others \/ \E s \in Slots : Run(s) \/ BreakRun(s)

(* A slot is run again, every five minutes, for as long as it is due; its  *)
(* runs come to their riders, and not all of them break.                   *)
Fairness ==
  /\ <>[][slot' = slot \/ \E s \in Slots : Run(s)]_sweepVars
  /\ \A s \in Slots :
       WF_sweepVars(StartRun(s)) /\ \A r \in Riders : WF_sweepVars(TakeOne(s, r))

SweepSpec == SweepInit /\ [][SweepNext]_sweepVars /\ Fairness

-----------------------------------------------------------------------------

(* The time of a slot went by without a run that succeeded.                *)
Missed(s) ==
  ~slot[s].done /\ Today > s[2] + (IF s[1] = "no-shows-catch-up" THEN 1 ELSE 0)

(* The ask is there when the defaults of its day are still to run.         *)
AskSettles(r, d) ==
  LET defaults == <<"defaults", d>> IN
  (res[r][d] = "pending" /\ IsDue(defaults)) ~> (res[r][d] # "pending" \/ Missed(defaults))

(* The departure is past when the catch-up of its day is still to run.     *)
SeatSettles(r, d) ==
  LET catchUp == <<"no-shows-catch-up", d>> IN
  (res[r][d] = "reserved" /\ trip[d].at <= now /\ IsDue(catchUp))
    ~> (res[r][d] # "reserved" \/ Blocked(r) \/ now < trip[d].at \/ Missed(catchUp))

(* An ask that waits when the defaults of its day start is settled by      *)
(* them, and a seat whose departure is past when the catch-up starts is    *)
(* settled by then, whatever runs fail, unless the rider is blocked, Ops   *)
(* moves the departure or no run of the day succeeds.  Nothing is said of  *)
(* asks and departures that come later: no run takes them.  Riders with an *)
(* offer are left out: see EveryAskSettles.                                *)
EveryDaySettles ==
  /\ \A r \in Riders \ Offered, d \in Days : AskSettles(r, d)
  /\ \A r \in Riders, d \in Days : SeatSettles(r, d)

(* "settle unanswered requests" (docs/features/reservations.md:14): the    *)
(* defaults leave no ask pending that they find.                           *)
EveryAskSettles == \A r \in Riders, d \in Days : AskSettles(r, d)

=============================================================================
