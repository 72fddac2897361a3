-------------------------- MODULE CommuteChanges --------------------------
(***************************************************************************)
(* Requests of riders to change their commute within a paid period, the    *)
(* slots Ops gives them, the pause in which a waitlisted rider waits, and  *)
(* the renewal that fixes the end of the period meanwhile                  *)
(* (membership/service.ts with the triggers of 013 and 042).  Every        *)
(* command is one transaction under the lock of the rider.                 *)
(*                                                                         *)
(* Riders here have no priced offer: with one, a new offer is needed.      *)
(* Seats that a change gives back are the subject of Reservations.         *)
(***************************************************************************)
EXTENDS Integers

CONSTANTS
  Riders, Slots,
  Length,      \* days of a period
  LastDate     \* bound: the clock

NoSlot == "none"

ASSUME CommuteAssumption == {Length, LastDate} \subseteq Nat /\ NoSlot \notin Slots

VARIABLES
  date,
  slot,        \* commute_slots
  cover,       \* the open period of a rider
  request,     \* its open commute request
  assigned,    \* the slot of its current assignment, if it came with one
  paused,      \* since when its coverage is paused
  renewal,     \* when the renewal starts that is being paid or is paid
  restricted   \* account restrictions and disputes

commuteVars == <<date, slot, cover, request, assigned, paused, renewal, restricted>>

Never == -1
NoCover == [from |-> Never, ends |-> Never]
NoRequest == [status |-> "none", wanted |-> Never, consent |-> FALSE, slot |-> NoSlot,
              effective |-> Never]

CommuteInit ==
  /\ date = 0
  /\ slot = [s \in Slots |-> [state |-> "available", from |-> 0]]
  /\ cover = [r \in Riders |-> NoCover]
  /\ request = [r \in Riders |-> NoRequest]
  /\ assigned = [r \in Riders |-> NoSlot]
  /\ paused = [r \in Riders |-> Never]
  /\ renewal = [r \in Riders |-> Never]
  /\ restricted = [r \in Riders |-> FALSE]

Covered(r) == cover[r] # NoCover
Running(r) == Covered(r) /\ cover[r].from <= date /\ date < cover[r].ends
Paused(r) == paused[r] # Never
(* has_pending_renewal *)
Renewing(r) == renewal[r] # Never
Free(freed) == [s \in Slots |-> IF s \in freed THEN [slot[s] EXCEPT !.state = "available"] ELSE slot[s]]

DatePasses ==
  /\ date < LastDate /\ date' = date + 1
  /\ UNCHANGED <<slot, cover, request, assigned, paused, renewal, restricted>>

-----------------------------------------------------------------------------
(* Periods: what the payment modules do with them, as far as it is seen    *)
(* here                                                                    *)

BuyPeriod(r) ==
  /\ ~Covered(r) /\ ~restricted[r]
  /\ cover' = [cover EXCEPT ![r] = [from |-> date, ends |-> date + Length]]
  /\ UNCHANGED <<date, slot, request, assigned, paused, renewal, restricted>>

(* assertCheckoutAllowed, and coverage that overlaps nothing               *)
BuyRenewal(r) ==
  /\ Running(r) /\ ~Renewing(r) /\ ~restricted[r] /\ ~Paused(r)
  /\ renewal' = [renewal EXCEPT ![r] = cover[r].ends]
  /\ UNCHANGED <<date, slot, cover, request, assigned, paused, restricted>>
LapseRenewal(r) ==
  /\ Renewing(r) /\ renewal' = [renewal EXCEPT ![r] = Never]
  /\ UNCHANGED <<date, slot, cover, request, assigned, paused, restricted>>

(* end_period_commute, and retire_rider_commute when an account is closed: *)
(* the slot of the request and that of the assignment are given back.      *)
Returned_Request(r) == {request[r].slot}      \* mutant: the one that is assigned is forgotten
Returned(r) == {request[r].slot, assigned[r]}
EndCommute(r) ==
  /\ slot' = Free(Returned(r))
  /\ request' = [request EXCEPT ![r] = NoRequest]
  /\ assigned' = [assigned EXCEPT ![r] = NoSlot]
  /\ paused' = [paused EXCEPT ![r] = Never]

(* The renewal, if there is one, is the next period.                       *)
ClosePeriod(r) ==
  /\ Covered(r) /\ cover[r].ends <= date /\ ~Paused(r)
  /\ EndCommute(r)
  /\ cover' = [cover EXCEPT ![r] =
       IF Renewing(r) THEN [from |-> renewal[r], ends |-> renewal[r] + Length] ELSE NoCover]
  /\ renewal' = [renewal EXCEPT ![r] = Never]
  /\ UNCHANGED <<date, restricted>>

(* A refund, or the closure of the account                                 *)
ReversePeriod(r) ==
  /\ Covered(r) /\ EndCommute(r)
  /\ cover' = [cover EXCEPT ![r] = NoCover] /\ renewal' = [renewal EXCEPT ![r] = Never]
  /\ UNCHANGED <<date, restricted>>

ChangeRestriction(r) ==
  /\ restricted' = [restricted EXCEPT ![r] = ~@]
  /\ UNCHANGED <<date, slot, cover, request, assigned, paused, renewal>>

-----------------------------------------------------------------------------
(* Slots                                                                   *)

RetireSlot(s) ==
  /\ slot[s].state = "available" /\ slot' = [slot EXCEPT ![s].state = "retired"]
  /\ UNCHANGED <<date, cover, request, assigned, paused, renewal, restricted>>
(* A slot that was retired is another one when Ops creates it again.       *)
CreateSlot(s) ==
  /\ slot[s].state = "retired"
  /\ slot' = [slot EXCEPT ![s] = [state |-> "available", from |-> date]]
  /\ UNCHANGED <<date, cover, request, assigned, paused, renewal, restricted>>

-----------------------------------------------------------------------------
(* Requests                                                                *)

Pending(r) == request[r].status \in {"submitted", "waitlisted", "approved"}

Submit(r, wanted, consent) ==
  /\ Running(r) /\ ~Pending(r) /\ ~Renewing(r) /\ wanted >= date
  /\ request' = [request EXCEPT ![r] =
       [NoRequest EXCEPT !.status = "submitted", !.wanted = wanted, !.consent = consent]]
  /\ UNCHANGED <<date, slot, cover, assigned, paused, renewal, restricted>>

(* cancel, reject and waitlist; withdrawn by the rider or decided by Ops   *)
Turn(r, to) ==
  /\ Pending(r) /\ ~Paused(r)
  /\ slot' = Free({request[r].slot})
  /\ request' = [request EXCEPT ![r] =
       IF to = "waitlisted"
       THEN [@ EXCEPT !.status = "waitlisted", !.slot = NoSlot, !.effective = Never]
       ELSE NoRequest]
  /\ UNCHANGED <<date, cover, assigned, paused, renewal, restricted>>

Pause(r) ==
  /\ request[r].status = "waitlisted" /\ request[r].consent /\ ~Paused(r)
  /\ ~Renewing(r) /\ Running(r) /\ ~restricted[r]
  /\ paused' = [paused EXCEPT ![r] = date]
  /\ UNCHANGED <<date, slot, cover, request, assigned, renewal, restricted>>

(* The time paused is added to the end.                                    *)
Resumed(r) == cover[r].ends + (date - paused[r])
ResumeCoverage(r) ==
  /\ cover' = [cover EXCEPT ![r].ends = Resumed(r)]
  /\ paused' = [paused EXCEPT ![r] = Never]
Resume(r) ==
  /\ Pending(r) /\ Paused(r) /\ ~restricted[r] /\ ResumeCoverage(r)
  /\ UNCHANGED <<date, slot, request, assigned, renewal, restricted>>

Approve(r, s, effective) ==
  /\ request[r].status \in {"submitted", "waitlisted"} /\ ~Renewing(r)
  /\ slot[s].state = "available" /\ slot[s].from <= effective
  /\ request[r].wanted <= effective /\ date <= effective
  /\ effective < IF Paused(r) THEN Resumed(r) ELSE cover[r].ends
  /\ slot' = [slot EXCEPT ![s].state = "held"]
  /\ request' = [request EXCEPT ![r].status = "approved", ![r].slot = s, ![r].effective = effective]
  /\ UNCHANGED <<date, cover, assigned, paused, renewal, restricted>>

(* The fare is the same, or pricing reviews it first.                      *)
Apply(r) ==
  /\ request[r].status = "approved" /\ request[r].effective <= date
  /\ ~Renewing(r) /\ ~restricted[r]
  /\ IF Paused(r) THEN ResumeCoverage(r) ELSE Running(r) /\ UNCHANGED <<cover, paused>>
  /\ slot' = [Free({assigned[r]}) EXCEPT ![request[r].slot].state = "assigned"]
  /\ assigned' = [assigned EXCEPT ![r] = request[r].slot]
  /\ request' = [request EXCEPT ![r] = NoRequest]
  /\ UNCHANGED <<date, renewal, restricted>>

-----------------------------------------------------------------------------

CommuteStep(r) ==
  \/ BuyPeriod(r) \/ BuyRenewal(r) \/ LapseRenewal(r)
  \/ ClosePeriod(r) \/ ReversePeriod(r) \/ ChangeRestriction(r)
  \/ \E wanted \in {date, date + 1}, consent \in BOOLEAN : Submit(r, wanted, consent)
  \/ \E to \in {"waitlisted", "closed"} : Turn(r, to)
  \/ \E s \in Slots, effective \in {date, date + 1} : Approve(r, s, effective)
  \/ Pause(r) \/ Resume(r) \/ Apply(r)
CommuteNext ==
  \/ DatePasses \/ \E r \in Riders : CommuteStep(r)
  \/ \E s \in Slots : RetireSlot(s) \/ CreateSlot(s)
CommuteSpec == CommuteInit /\ [][CommuteNext]_commuteVars

-----------------------------------------------------------------------------

CommuteTypeOK ==
  /\ date \in 0 .. LastDate
  /\ slot \in [Slots -> [state : {"available", "held", "assigned", "retired"}, from : 0 .. LastDate]]
  /\ cover \in [Riders -> [from : Int, ends : Int]]
  /\ request \in [Riders -> [status : {"none", "submitted", "waitlisted", "approved"},
                             wanted : Int, consent : BOOLEAN, slot : Slots \cup {NoSlot},
                             effective : Int]]
  /\ assigned \in [Riders -> Slots \cup {NoSlot}]
  /\ paused \in [Riders -> Int] /\ renewal \in [Riders -> Int]
  /\ restricted \in [Riders -> BOOLEAN]

(* No slot leaks or is given twice: it is held for exactly one approved    *)
(* request, assigned to exactly one current assignment, or free.           *)
SlotsAddUp == \A s \in Slots :
  LET holders == {r \in Riders : request[r].slot = s}
      owners == {r \in Riders : assigned[r] = s}
  IN
  /\ \A q, r \in holders \cup owners : q = r
  /\ holders # {} <=> slot[s].state = "held"
  /\ owners # {} <=> slot[s].state = "assigned"

(* A pause always has the request it waits for, so that somebody resumes   *)
(* it, and ends in time: the days that a renewal begins with are never     *)
(* given again to the period before it.                                    *)
PausesEnd == \A r \in Riders :
  /\ Paused(r) => Covered(r) /\ Pending(r) /\ request[r].consent
  /\ Renewing(r) => ~Paused(r) /\ cover[r].ends <= renewal[r]

(* The promises to a rider who asks for a change, and to who gets the slot *)
CommuteSafe == CommuteTypeOK /\ SlotsAddUp /\ PausesEnd
=============================================================================
