-------------------------- MODULE Membership_Proofs --------------------------
(***************************************************************************)
(* Theorems about what a rider asks of the membership: commute changes     *)
(* with the slots they take, and priced offers of standby applications,    *)
(* for any riders, slots, keys, requests and bounds.                       *)
(***************************************************************************)
EXTENDS Standby, CommuteChanges, FiniteSetTheorems, SequenceTheorems, TLAPS

-----------------------------------------------------------------------------
(* Commute changes *)

(* SlotsAddUp and PausesEnd need two facts more: an approval is what holds a slot, and
   only a covered rider renews. *)
Held(r) == request[r].slot # NoSlot <=> request[r].status = "approved"
CommuteInv ==
  /\ CommuteSafe
  /\ \A r \in Riders : Held(r) /\ (Renewing(r) => Covered(r))

(* Nobody has asked for anything yet. *)
LEMMA CommuteStarts == CommuteInit => CommuteInv
BY CommuteAssumption
DEF CommuteInit, CommuteInv, CommuteSafe, CommuteTypeOK, SlotsAddUp, PausesEnd, Held, Renewing,
    Covered, Paused, NoCover, NoRequest, NoSlot, Never

(* Slots are kept by whatever leaves requests and assignments, and their slots, alone. *)
LEMMA SlotsStay ==
  ASSUME CommuteTypeOK, SlotsAddUp, UNCHANGED <<slot, assigned>>,
         \A r \in Riders : request'[r].slot = request[r].slot
  PROVE  SlotsAddUp'
BY DEF SlotsAddUp

(* Slots that a rider gives back are free again (end_period_commute, releaseSlot). *)
LEMMA SlotsFreed ==
  ASSUME CommuteTypeOK, SlotsAddUp, NEW r \in Riders, NEW back,
         slot' = Free(back), back \in {{request[r].slot}, Returned(r)},
         \A q \in Riders : q # r => request'[q] = request[q] /\ assigned'[q] = assigned[q],
         request'[r].slot = NoSlot,
         assigned'[r] = IF assigned[r] \in back THEN NoSlot ELSE assigned[r]
  PROVE  SlotsAddUp'
<1> SUFFICES ASSUME NEW s \in Slots
             PROVE  /\ \A q1, q2 \in Riders :
                         /\ request'[q1].slot = s \/ assigned'[q1] = s
                         /\ request'[q2].slot = s \/ assigned'[q2] = s
                         => q1 = q2
                    /\ (\E q \in Riders : request'[q].slot = s) <=> slot'[s].state = "held"
                    /\ (\E q \in Riders : assigned'[q] = s) <=> slot'[s].state = "assigned"
  BY DEF SlotsAddUp
<1>1. s # NoSlot
  BY CommuteAssumption
<1>2. /\ \A q1, q2 \in Riders :
           /\ request[q1].slot = s \/ assigned[q1] = s
           /\ request[q2].slot = s \/ assigned[q2] = s
           => q1 = q2
      /\ (\E q \in Riders : request[q].slot = s) <=> slot[s].state = "held"
      /\ (\E q \in Riders : assigned[q] = s) <=> slot[s].state = "assigned"
  BY DEF SlotsAddUp
<1>3. slot'[s].state = IF s \in back THEN "available" ELSE slot[s].state
  BY DEF Free, CommuteTypeOK
<1>4. \A q \in Riders :
        /\ request'[q].slot = s => request[q].slot = s /\ q # r
        /\ assigned'[q] = s => assigned[q] = s /\ ~(q = r /\ s \in back)
        /\ request[q].slot = s => request'[q].slot = s \/ q = r
        /\ assigned[q] = s => assigned'[q] = s \/ (q = r /\ s \in back)
  BY <1>1
<1>5. s \in back => s = request[r].slot \/ s = assigned[r]
  BY DEF Returned
<1>6. request[r].slot = s => s \in back
  BY DEF Returned
<1> QED
  BY <1>2, <1>3, <1>4, <1>5, <1>6

(* Every command writes well-typed rows. *)
LEMMA CommuteTyped ==
  ASSUME CommuteTypeOK, [CommuteNext]_commuteVars PROVE CommuteTypeOK'
<1> DEFINE Rows == [status : {"none", "submitted", "waitlisted", "approved"}, wanted : Int,
                    consent : BOOLEAN, slot : Slots \cup {NoSlot}, effective : Int]
           SlotRows == [state : {"available", "held", "assigned", "retired"},
                        from : 0 .. LastDate]
<1>1. /\ date \in 0 .. LastDate /\ date \in Int /\ LastDate \in Nat /\ Length \in Nat
      /\ slot \in [Slots -> SlotRows] /\ cover \in [Riders -> [from : Int, ends : Int]]
      /\ request \in [Riders -> Rows] /\ assigned \in [Riders -> Slots \cup {NoSlot}]
      /\ paused \in [Riders -> Int] /\ renewal \in [Riders -> Int]
      /\ restricted \in [Riders -> BOOLEAN] /\ Never \in Int
      /\ NoRequest \in Rows /\ NoCover \in [from : Int, ends : Int]
  BY CommuteAssumption DEF CommuteTypeOK, NoRequest, NoCover, Never
<1>2. \A back : Free(back) \in [Slots -> SlotRows]
  BY <1>1 DEF Free
<1>3. date' \in 0 .. LastDate
  <2>1. ASSUME NEW r \in Riders, CommuteStep(r) PROVE UNCHANGED date
    BY <2>1 DEF CommuteStep, BuyPeriod, BuyRenewal, LapseRenewal, ClosePeriod, ReversePeriod, ChangeRestriction,
       Submit, Turn, Approve, Pause, Resume, Apply
  <2>2. ASSUME NEW s \in Slots, RetireSlot(s) \/ CreateSlot(s) PROVE UNCHANGED date
    BY <2>2 DEF RetireSlot, CreateSlot
  <2>3. CASE DatePasses
    BY <1>1, <2>3 DEF DatePasses
  <2> QED
    BY <1>1, <2>1, <2>2, <2>3 DEF CommuteNext, commuteVars
<1> HIDE DEF Rows, SlotRows
<1>4. ASSUME NEW r \in Riders, CommuteStep(r)
      PROVE  /\ slot' \in [Slots -> SlotRows] /\ cover' \in [Riders -> [from : Int, ends : Int]]
             /\ request' \in [Riders -> Rows] /\ assigned' \in [Riders -> Slots \cup {NoSlot}]
             /\ paused' \in [Riders -> Int] /\ renewal' \in [Riders -> Int]
             /\ restricted' \in [Riders -> BOOLEAN]
  <2>1. CASE BuyPeriod(r) \/ BuyRenewal(r) \/ LapseRenewal(r)
    <3>1. \A p \in Riders : cover[p].ends \in Int
      BY <1>1
    <3>2. UNCHANGED <<slot, request, assigned, paused, restricted>>
      BY <2>1 DEF BuyPeriod, BuyRenewal, LapseRenewal
    <3>3. cover' \in [Riders -> [from : Int, ends : Int]]
      BY <1>1, <2>1 DEF BuyPeriod, BuyRenewal, LapseRenewal
    <3>4. renewal' \in [Riders -> Int]
      BY <1>1, <2>1, <3>1 DEF BuyPeriod, BuyRenewal, LapseRenewal
    <3> QED
      BY <1>1, <3>2, <3>3, <3>4
  <2>2. CASE ClosePeriod(r) \/ ReversePeriod(r)
    <3>1. EndCommute(r) /\ UNCHANGED restricted
      BY <2>2 DEF ClosePeriod, ReversePeriod
    <3>2. cover' \in [Riders -> [from : Int, ends : Int]] /\ renewal' \in [Riders -> Int]
      <4>1. PICK next \in [from : Int, ends : Int] :
              cover' = [cover EXCEPT ![r] = next] /\ renewal' = [renewal EXCEPT ![r] = Never]
        <5>1. CASE ReversePeriod(r)
          BY <1>1, <5>1 DEF ReversePeriod
        <5>2. CASE ClosePeriod(r)
          <6>1. renewal[r] \in Int /\ renewal[r] + Length \in Int
            BY <1>1
          <6> QED
            BY <1>1, <5>2, <6>1 DEF ClosePeriod
        <5> QED
          BY <2>2, <5>1, <5>2
      <4> QED
        BY <1>1, <4>1
    <3> QED
      BY <1>1, <1>2, <3>1, <3>2 DEF EndCommute
  <2>3. CASE ChangeRestriction(r)
    <3>1. UNCHANGED <<slot, cover, request, assigned, paused, renewal>>
      BY <2>3 DEF ChangeRestriction
    <3>2. restricted' \in [Riders -> BOOLEAN]
      BY <1>1, <2>3 DEF ChangeRestriction
    <3> QED
      BY <1>1, <3>1, <3>2
  <2>4. ASSUME NEW wanted \in {date, date + 1}, NEW consent \in BOOLEAN,
               Submit(r, wanted, consent)
        PROVE  request' \in [Riders -> Rows]
    <3> DEFINE new == [NoRequest EXCEPT !.status = "submitted", !.wanted = wanted,
                                        !.consent = consent]
    <3>2. wanted \in Int /\ Never \in Int
      BY <1>1
    <3>3. new \in Rows
      BY <1>1, <2>4, <3>2 DEF Rows
    <3>4. request' = [request EXCEPT ![r] = new]
      BY <2>4 DEF Submit
    <3> HIDE DEF new
    <3> QED
      BY <1>1, <3>3, <3>4
  <2>5. ASSUME NEW to \in {"waitlisted", "closed"}, Turn(r, to)
        PROVE  slot' \in [Slots -> SlotRows] /\ request' \in [Riders -> Rows]
    BY <1>1, <1>2, <2>5 DEF Turn, Rows
  <2>6. ASSUME NEW s \in Slots, NEW effective \in {date, date + 1}, Approve(r, s, effective)
        PROVE  slot' \in [Slots -> SlotRows] /\ request' \in [Riders -> Rows]
    <3>1. slot[s] \in SlotRows /\ request[r] \in Rows /\ effective \in Int
      BY <1>1
    <3>2. slot' = [slot EXCEPT ![s] = [slot[s] EXCEPT !.state = "held"]]
      BY <2>6 DEF Approve
    <3>3. [slot[s] EXCEPT !.state = "held"] \in SlotRows
      BY <3>1 DEF SlotRows
    <3>4. \A q \in Riders : request'[q] = IF q = r
            THEN [request[r] EXCEPT !.status = "approved", !.slot = s, !.effective = effective]
            ELSE request[q]
      BY <1>1, <2>6 DEF Approve
    <3>5. [request[r] EXCEPT !.status = "approved", !.slot = s, !.effective = effective] \in Rows
      BY <3>1 DEF Rows
    <3>6. request' = [q \in Riders |-> request'[q]]
      BY <1>1, <2>6 DEF Approve
    <3> QED
      BY <1>1, <3>2, <3>3, <3>4, <3>5, <3>6
  <2>7. ASSUME ResumeCoverage(r)
        PROVE  cover' \in [Riders -> [from : Int, ends : Int]] /\ paused' \in [Riders -> Int]
    BY <1>1, <2>7 DEF ResumeCoverage, Resumed
  <2>8. CASE Pause(r) \/ Resume(r)
    BY <1>1, <2>7, <2>8 DEF Pause, Resume
  <2>9. CASE Apply(r)
    <3>1. cover' \in [Riders -> [from : Int, ends : Int]] /\ paused' \in [Riders -> Int]
      BY <1>1, <2>7, <2>9 DEF Apply
    <3>2. slot' \in [Slots -> SlotRows]
      <4> DEFINE freed == Free({assigned[r]})
                 to == request[r].slot
      <4>1. freed \in [Slots -> SlotRows]
        BY <1>2
      <4>2. slot' = [freed EXCEPT ![to].state = "assigned"]
        BY <2>9 DEF Apply
      <4> HIDE DEF freed, to
      <4>3. CASE to \in Slots
        <5>1. [freed[to] EXCEPT !.state = "assigned"] \in SlotRows
          BY <4>1, <4>3 DEF SlotRows
        <5> QED
          BY <4>1, <4>2, <5>1
      <4>4. CASE to \notin Slots
        BY <4>1, <4>2, <4>4
      <4> QED
        BY <4>3, <4>4
    <3>3. request' \in [Riders -> Rows] /\ assigned' \in [Riders -> Slots \cup {NoSlot}]
      BY <1>1, <2>9 DEF Apply, Rows
    <3> QED
      BY <1>1, <2>9, <3>1, <3>2, <3>3 DEF Apply
  <2>10. ASSUME NEW wanted \in {date, date + 1}, NEW consent \in BOOLEAN,
                Submit(r, wanted, consent)
         PROVE  slot' \in [Slots -> SlotRows] /\ request' \in [Riders -> Rows]
                /\ UNCHANGED <<cover, assigned, paused, renewal, restricted>>
    BY <1>1, <2>4, <2>10 DEF Submit
  <2>11. ASSUME NEW to \in {"waitlisted", "closed"}, Turn(r, to)
         PROVE  slot' \in [Slots -> SlotRows] /\ request' \in [Riders -> Rows]
                /\ UNCHANGED <<cover, assigned, paused, renewal, restricted>>
    BY <2>5, <2>11 DEF Turn
  <2>12. ASSUME NEW s \in Slots, NEW effective \in {date, date + 1}, Approve(r, s, effective)
         PROVE  slot' \in [Slots -> SlotRows] /\ request' \in [Riders -> Rows]
                /\ UNCHANGED <<cover, assigned, paused, renewal, restricted>>
    BY <2>6, <2>12 DEF Approve
  <2>13. CASE /\ slot' \in [Slots -> SlotRows] /\ request' \in [Riders -> Rows]
              /\ UNCHANGED <<cover, assigned, paused, renewal, restricted>>
    BY <1>1, <2>13
  <2> QED
    BY <1>4, <2>1, <2>2, <2>3, <2>8, <2>9, <2>10, <2>11, <2>12, <2>13 DEF CommuteStep
<1>5. ASSUME NEW s \in Slots, RetireSlot(s) \/ CreateSlot(s)
      PROVE  slot' \in [Slots -> SlotRows]
  BY <1>1, <1>5 DEF RetireSlot, CreateSlot, SlotRows
<1> QED
  BY <1>1, <1>3, <1>4, <1>5
  DEF CommuteNext, commuteVars, CommuteTypeOK, DatePasses, RetireSlot, CreateSlot, Rows, SlotRows

(* A pause keeps the request it waits for, and a renewal never meets a pause. *)
LEMMA PausesKept ==
  ASSUME CommuteInv, NEW r \in Riders, CommuteStep(r), NEW q \in Riders
  PROVE  /\ Paused(q)' => Covered(q)' /\ Pending(q)' /\ request'[q].consent
         /\ Renewing(q)' => ~Paused(q)' /\ cover'[q].ends <= renewal'[q] /\ Covered(q)'
         /\ Held(q)'
<1>1. CommuteTypeOK /\ SlotsAddUp /\ PausesEnd
  BY DEF CommuteInv, CommuteSafe
<1>2. /\ Paused(q) => Covered(q) /\ Pending(q) /\ request[q].consent
      /\ Renewing(q) => ~Paused(q) /\ cover[q].ends <= renewal[q] /\ Covered(q)
      /\ Held(q)
  BY DEF CommuteInv, CommuteSafe, PausesEnd
<1>3. CASE q # r
  <2>1. /\ cover'[q] = cover[q] /\ request'[q] = request[q]
        /\ paused'[q] = paused[q] /\ renewal'[q] = renewal[q]
    <3>1. CASE \/ BuyPeriod(r) \/ BuyRenewal(r) \/ LapseRenewal(r) \/ ChangeRestriction(r)
                \/ Pause(r) \/ Resume(r)
      BY <1>1, <1>3, <3>1
      DEF CommuteTypeOK, BuyPeriod, BuyRenewal, LapseRenewal, ChangeRestriction, Pause, Resume,
          ResumeCoverage
    <3>2. CASE ClosePeriod(r) \/ ReversePeriod(r)
      BY <1>1, <1>3, <3>2 DEF CommuteTypeOK, ClosePeriod, ReversePeriod, EndCommute
    <3>3. CASE /\ ~(\/ BuyPeriod(r) \/ BuyRenewal(r) \/ LapseRenewal(r) \/ ChangeRestriction(r)
                    \/ Pause(r) \/ Resume(r))
               /\ ~(ClosePeriod(r) \/ ReversePeriod(r))
      BY <1>1, <1>3, <3>3 DEF CommuteStep, CommuteTypeOK, Submit, Turn, Approve, Apply, ResumeCoverage
    <3> QED
      BY <3>1, <3>2, <3>3
  <2> QED
    BY <1>2, <2>1 DEF Paused, Renewing, Covered, Pending, Held
<1>4. CASE q = r
  <2>1. CASE BuyPeriod(r) \/ BuyRenewal(r) \/ LapseRenewal(r) \/ ChangeRestriction(r)
    BY <1>1, <1>2, <1>4, <2>1
    DEF BuyPeriod, BuyRenewal, LapseRenewal, ChangeRestriction, Paused, Renewing, Covered, Running, Pending,
        Held, CommuteTypeOK
  <2>2. CASE ClosePeriod(r) \/ ReversePeriod(r)
    <3>1. /\ request'[r] = NoRequest /\ paused'[r] = Never /\ renewal'[r] = Never
      BY <1>1, <2>2 DEF ClosePeriod, ReversePeriod, EndCommute, CommuteTypeOK
    <3> QED
      BY <1>4, <3>1 DEF Paused, Renewing, Held, NoRequest, NoSlot
  <2>3. CASE \E wanted \in {date, date + 1}, consent \in BOOLEAN : Submit(r, wanted, consent)
    BY <1>1, <1>2, <1>4, <2>3
    DEF Submit, Paused, Renewing, Covered, Pending, Held, CommuteTypeOK, NoRequest, NoSlot
  <2>4. CASE \E to \in {"waitlisted", "closed"} : Turn(r, to)
    BY <1>1, <1>2, <1>4, <2>4
    DEF Turn, Paused, Renewing, Covered, Pending, Held, CommuteTypeOK, NoRequest, NoSlot
  <2>5. CASE \E s \in Slots, effective \in {date, date + 1} : Approve(r, s, effective)
    BY <1>1, <1>2, <1>4, <2>5, CommuteAssumption
    DEF Approve, Paused, Renewing, Covered, Pending, Held, CommuteTypeOK
  <2>6. CASE Pause(r) \/ Resume(r)
    BY <1>1, <1>2, <1>4, <2>6
    DEF Pause, Resume, ResumeCoverage, Paused, Renewing, Covered, Running, Pending, Held, CommuteTypeOK
  <2>7. CASE Apply(r)
    BY <1>1, <1>2, <1>4, <2>7
    DEF Apply, ResumeCoverage, Paused, Renewing, Covered, Running, Pending, Held, CommuteTypeOK,
        NoRequest, NoSlot
  <2> QED
    BY <2>1, <2>2, <2>3, <2>4, <2>5, <2>6, <2>7 DEF CommuteStep
<1> QED
  BY <1>3, <1>4

(* What leaves requests, covers, pauses and renewals alone keeps the invariant but for the slots. *)
LEMMA SlotsKept ==
  ASSUME CommuteInv, CommuteTypeOK', [CommuteNext]_commuteVars
  PROVE  SlotsAddUp'
<1>1. CommuteTypeOK /\ SlotsAddUp /\ \A r \in Riders : Held(r)
  BY DEF CommuteInv, CommuteSafe
<1>2. ASSUME NEW r \in Riders, CommuteStep(r) PROVE SlotsAddUp'
  <2>1. CASE BuyPeriod(r) \/ BuyRenewal(r) \/ LapseRenewal(r) \/ ChangeRestriction(r) \/ Pause(r) \/ Resume(r)
    <3>1. UNCHANGED <<slot, assigned, request>>
      BY <2>1 DEF BuyPeriod, BuyRenewal, LapseRenewal, ChangeRestriction, Pause, Resume
    <3> QED
      BY <1>1, <3>1, SlotsStay
  <2>2. CASE ClosePeriod(r) \/ ReversePeriod(r)
    <3>1. EndCommute(r)
      BY <2>2 DEF ClosePeriod, ReversePeriod
    <3>2. slot' = Free(Returned(r)) /\ request'[r].slot = NoSlot /\ assigned'[r] = NoSlot
      BY <1>1, <3>1 DEF EndCommute, CommuteTypeOK, NoRequest
    <3>3. \A q \in Riders : q # r => request'[q] = request[q] /\ assigned'[q] = assigned[q]
      BY <1>1, <3>1 DEF EndCommute, CommuteTypeOK
    <3>4. assigned[r] \in Returned(r)
      BY DEF Returned
    <3> QED
      BY <1>1, <3>2, <3>3, <3>4, SlotsFreed
  <2>3. ASSUME NEW wanted, NEW consent \in BOOLEAN, Submit(r, wanted, consent) PROVE SlotsAddUp'
    <3>1. request[r].slot = NoSlot
      BY <1>1, <2>3 DEF Submit, Pending, Held, CommuteTypeOK
    <3>2. \A q \in Riders : request'[q].slot = request[q].slot
      BY <1>1, <2>3, <3>1 DEF Submit, CommuteTypeOK, NoRequest
    <3> QED
      BY <1>1, <2>3, <3>2, SlotsStay DEF Submit
  <2>4. ASSUME NEW to, Turn(r, to) PROVE SlotsAddUp'
    <3>1. slot' = Free({request[r].slot}) /\ UNCHANGED assigned
      BY <2>4 DEF Turn
    <3>2. request'[r].slot = NoSlot /\ \A q \in Riders : q # r => request'[q] = request[q]
      BY <1>1, <2>4 DEF Turn, CommuteTypeOK, NoRequest
    <3>3. assigned[r] = request[r].slot => assigned[r] = NoSlot
      <4>1. assigned[r] \in Slots \cup {NoSlot}
        BY <1>1 DEF CommuteTypeOK
      <4>2. assigned[r] \in Slots /\ request[r].slot = assigned[r] => FALSE
        BY <1>1 DEF SlotsAddUp
      <4> QED
        BY <4>1, <4>2
    <3> QED
      BY <1>1, <3>1, <3>2, <3>3, SlotsFreed
  <2>5. ASSUME NEW s \in Slots, NEW effective, Approve(r, s, effective) PROVE SlotsAddUp'
    <3>1. request[r].slot = NoSlot /\ slot[s].state = "available"
      BY <1>1, <2>5 DEF Approve, Held, CommuteTypeOK
    <3>2. /\ request'[r].slot = s /\ UNCHANGED assigned
          /\ \A q \in Riders : q # r => request'[q] = request[q]
          /\ \A t \in Slots : slot'[t].state = IF t = s THEN "held" ELSE slot[t].state
      BY <1>1, <2>5 DEF Approve, CommuteTypeOK
    <3>3. \A q \in Riders : request[q].slot # s /\ assigned[q] # s
      BY <1>1, <3>1 DEF SlotsAddUp
    <3> QED
      BY <1>1, <3>1, <3>2, <3>3, CommuteAssumption DEF SlotsAddUp
  <2>6. CASE Apply(r)
    <3> DEFINE to == request[r].slot
               from == assigned[r]
    <3>1. to \in Slots /\ slot[to].state = "held"
      BY <1>1, <2>6 DEF Apply, Held, CommuteTypeOK, SlotsAddUp
    <3>2. /\ request'[r].slot = NoSlot /\ assigned'[r] = to
          /\ \A q \in Riders : q # r => request'[q] = request[q] /\ assigned'[q] = assigned[q]
      BY <1>1, <2>6 DEF Apply, CommuteTypeOK, NoRequest
    <3>3. \A t \in Slots : slot'[t].state = IF t = to THEN "assigned"
                                            ELSE IF t = from THEN "available" ELSE slot[t].state
      <4>1. slot' = [Free({from}) EXCEPT ![to].state = "assigned"]
        BY <2>6 DEF Apply
      <4>2. \A t \in Slots :
              Free({from})[t] = IF t = from THEN [slot[t] EXCEPT !.state = "available"] ELSE slot[t]
        BY DEF Free
      <4>3. DOMAIN Free({from}) = Slots
        BY DEF Free
      <4>4. \A t \in Slots : slot[t] \in [state : {"available", "held", "assigned", "retired"},
                                          from : 0 .. LastDate]
        BY <1>1 DEF CommuteTypeOK
      <4>5. \A t \in Slots : Free({from})[t] \in
              [state : {"available", "held", "assigned", "retired"}, from : 0 .. LastDate]
        BY <4>2, <4>4
      <4>6. \A t \in Slots :
              slot'[t] = IF t = to THEN [Free({from})[t] EXCEPT !.state = "assigned"]
                         ELSE Free({from})[t]
        BY <4>1, <4>3
      <4>7. \A t \in Slots : Free({from})[t].state = IF t = from THEN "available" ELSE slot[t].state
        BY <4>2, <4>4
      <4> HIDE DEF to, from
      <4> QED
        BY <4>5, <4>6, <4>7
    <3>4. \A q \in Riders : (request[q].slot = to => q = r) /\ assigned[q] # to
      BY <1>1, <3>1 DEF SlotsAddUp
    <3>5. from \in Slots => slot[from].state = "assigned" /\ from # to
                            /\ \A q \in Riders : request[q].slot # from /\ (assigned[q] = from => q = r)
      BY <1>1, <3>4 DEF SlotsAddUp
    <3>6. from \in Slots \/ from = NoSlot
      BY <1>1 DEF CommuteTypeOK
    <3> HIDE DEF to, from
    <3> SUFFICES ASSUME NEW s \in Slots
                 PROVE  /\ \A q1, q2 \in Riders :
                             /\ request'[q1].slot = s \/ assigned'[q1] = s
                             /\ request'[q2].slot = s \/ assigned'[q2] = s
                             => q1 = q2
                        /\ (\E q \in Riders : request'[q].slot = s) <=> slot'[s].state = "held"
                        /\ (\E q \in Riders : assigned'[q] = s) <=> slot'[s].state = "assigned"
      BY DEF SlotsAddUp
    <3>7. s # NoSlot
      BY CommuteAssumption
    <3>8. assigned[r] = from /\ request[r].slot = to
      BY DEF from, to
    <3>9. /\ \A q1, q2 \in Riders :
               /\ request[q1].slot = s \/ assigned[q1] = s
               /\ request[q2].slot = s \/ assigned[q2] = s
               => q1 = q2
          /\ (\E q \in Riders : request[q].slot = s) <=> slot[s].state = "held"
          /\ (\E q \in Riders : assigned[q] = s) <=> slot[s].state = "assigned"
      BY <1>1 DEF SlotsAddUp
    <3> QED
      BY <3>1, <3>2, <3>3, <3>4, <3>5, <3>7, <3>8, <3>9
  <2> QED
    BY <1>2, <2>1, <2>2, <2>3, <2>4, <2>5, <2>6 DEF CommuteStep
<1>3. ASSUME NEW s \in Slots, RetireSlot(s) \/ CreateSlot(s) PROVE SlotsAddUp'
  <2>1. /\ UNCHANGED <<request, assigned>> /\ slot[s].state \in {"available", "retired"}
        /\ slot'[s].state \in {"available", "retired"}
        /\ \A t \in Slots : t # s => slot'[t] = slot[t]
    BY <1>1, <1>3 DEF RetireSlot, CreateSlot, CommuteTypeOK
  <2> QED
    BY <1>1, <2>1 DEF SlotsAddUp
<1>4. CASE UNCHANGED <<slot, assigned, request>>
  BY <1>1, <1>4, SlotsStay
<1> QED
  BY <1>2, <1>3, <1>4 DEF CommuteNext, commuteVars, DatePasses

(* Every command keeps the invariant. *)
LEMMA CommuteInvStep ==
  ASSUME CommuteInv, [CommuteNext]_commuteVars PROVE CommuteInv'
<1>1. CommuteTypeOK' /\ SlotsAddUp'
  BY CommuteTyped, SlotsKept DEF CommuteInv, CommuteSafe
<1>2. ASSUME NEW q \in Riders
      PROVE  /\ Paused(q)' => Covered(q)' /\ Pending(q)' /\ request'[q].consent
             /\ Renewing(q)' => ~Paused(q)' /\ cover'[q].ends <= renewal'[q] /\ Covered(q)'
             /\ Held(q)'
  <2>1. CASE \E r \in Riders : CommuteStep(r)
    BY <2>1, PausesKept
  <2>2. CASE UNCHANGED <<cover, request, paused, renewal>>
    BY <2>2 DEF CommuteInv, CommuteSafe, PausesEnd, Paused, Renewing, Covered, Pending, Held
  <2> QED
    BY <2>1, <2>2 DEF CommuteNext, commuteVars, DatePasses, RetireSlot, CreateSlot
<1>3. PausesEnd'
  BY <1>2 DEF PausesEnd
<1> QED
  BY <1>1, <1>2, <1>3 DEF CommuteInv, CommuteSafe

(* Whoever asks, waits, pauses, renews, gets or gives back a slot in whatever order: no slot
   leaks or is given twice, and every pause has somebody who ends it before the days of a
   renewal begin (membership/service.ts, end_period_commute). *)
THEOREM CommutesAreKept == CommuteSpec => []CommuteSafe
<1>1. CommuteInv => CommuteSafe
  BY DEF CommuteInv
<1> QED
  BY <1>1, CommuteStarts, CommuteInvStep, PTL DEF CommuteSpec

-----------------------------------------------------------------------------
(* Standby offers *)

Sale == [offer : Nat, key : Keys, state : {"awaiting_payment", "fulfilled", "failed"}]
Calls == [step : {"idle", "claimed", "refused", "bought"}, key : Keys \cup {NoKey},
          on : Nat, sale : Nat]

(* OfferHonoured needs what a request remembers between its transactions: the offer it locked
   and the purchase it made, of the same key; and that an offer being accepted belongs to an
   application that is still open, unless the account was closed meanwhile. *)
Links ==
  /\ \A a \in DOMAIN applications :
       /\ applications[a].state = "checkout_open" => OfferOf(a).state = "checkout_open"
       /\ OfferOf(a).state = "checkout_open" => sales[OfferOf(a).sale].offer = a
       /\ OfferOf(a).state = "accepting" /\ ~erased => applications[a].state = "offered"
  /\ \A s \in DOMAIN sales : sales[s].offer \in DOMAIN applications
Remembers(r) ==
  LET call == acceptance[r] IN
  /\ call.step # "idle" => call.on \in DOMAIN applications /\ call.key \in Keys
  /\ call.step = "bought" => /\ call.sale \in DOMAIN sales
                             /\ sales[call.sale].offer = call.on
                             /\ sales[call.sale].key = call.key
Remembered == \A r \in Requests : Remembers(r)
StandbyInv == StandbySafe /\ Links /\ Remembered

(* Two lists of one length have the same indices. *)
LEMMA Reshaped ==
  ASSUME NEW S, NEW T, NEW old \in Seq(S), NEW new, new \in [DOMAIN old -> T]
  PROVE  new \in Seq(T) /\ Len(new) = Len(old) /\ DOMAIN new = DOMAIN old
<1>1. Len(old) \in Nat /\ DOMAIN old = 1 .. Len(old)
  BY LenProperties
<1>2. new \in Seq(T)
  BY <1>1, SeqDef
<1> QED
  BY <1>1, <1>2, LenProperties

(* What the types say of the lists *)
LEMMA StandbyFields ==
  ASSUME StandbyTypeOK
  PROVE  /\ Len(applications) \in Nat /\ DOMAIN applications = 1 .. Len(applications)
         /\ applications \in [DOMAIN applications -> Application]
         /\ Len(sales) \in Nat /\ DOMAIN sales = 1 .. Len(sales)
         /\ sales \in Seq(Sale) /\ sales \in [DOMAIN sales -> Sale]
BY LenProperties, ElementOfSeq DEF StandbyTypeOK, Sale

(* Purchases that end keep their offers and keys, and complete the applications open for them
   (complete_standby_checkout). *)
LEMMA SalesEnd ==
  ASSUME StandbyTypeOK, NEW ended \in SUBSET DOMAIN sales, NEW state \in {"fulfilled", "failed"}
  PROVE  /\ SalesWith(ended, state) \in Seq(Sale)
         /\ Len(SalesWith(ended, state)) = Len(sales)
         /\ DOMAIN SalesWith(ended, state) = DOMAIN sales
         /\ \A s \in DOMAIN sales :
              /\ SalesWith(ended, state)[s].offer = sales[s].offer
              /\ SalesWith(ended, state)[s].key = sales[s].key
              /\ SalesWith(ended, state)[s].state = IF s \in ended THEN state ELSE sales[s].state
         /\ CompletingSale(ended) \in Seq(Application)
         /\ Len(CompletingSale(ended)) = Len(applications)
         /\ DOMAIN CompletingSale(ended) = DOMAIN applications
         /\ \A a \in DOMAIN applications :
              /\ CompletingSale(ended)[a].offer = applications[a].offer
              /\ CompletingSale(ended)[a].state =
                   IF applications[a].offer.sale \in ended /\ applications[a].state = "checkout_open"
                   THEN "completed" ELSE applications[a].state
<1> DEFINE S == SalesWith(ended, state)
           C == CompletingSale(ended)
<1>1. ASSUME NEW s \in DOMAIN sales
      PROVE  /\ S[s] \in Sale /\ S[s].offer = sales[s].offer /\ S[s].key = sales[s].key
             /\ S[s].state = IF s \in ended THEN state ELSE sales[s].state
  <2>1. sales[s] \in Sale
    BY StandbyFields
  <2> QED
    BY <2>1 DEF SalesWith, Sale
<1>2. ASSUME NEW a \in DOMAIN applications
      PROVE  /\ C[a] \in Application /\ C[a].offer = applications[a].offer
             /\ C[a].state = IF applications[a].offer.sale \in ended
                                /\ applications[a].state = "checkout_open"
                             THEN "completed" ELSE applications[a].state
  <2>1. applications[a] \in Application
    BY StandbyFields
  <2>2. [applications[a] EXCEPT !.state = "completed"] \in Application
    BY <2>1 DEF Application
  <2> QED
    BY <2>1, <2>2 DEF CompletingSale, OfferOf, Application
<1>3. S \in [DOMAIN sales -> Sale]
  BY <1>1 DEF SalesWith
<1>4. C \in [DOMAIN applications -> Application]
  BY <1>2 DEF CompletingSale
<1>5. applications \in Seq(Application) /\ sales \in Seq(Sale)
  BY StandbyFields DEF StandbyTypeOK
<1>6. S \in Seq(Sale) /\ Len(S) = Len(sales) /\ DOMAIN S = DOMAIN sales
  BY <1>3, <1>5, Reshaped
<1>7. C \in Seq(Application) /\ Len(C) = Len(applications) /\ DOMAIN C = DOMAIN applications
  BY <1>4, <1>5, Reshaped
<1> QED
  BY <1>1, <1>2, <1>6, <1>7

(* What the purchases that end leave, and at most one application that is new when no other is
   open *)
LEMMA SettledKept ==
  ASSUME StandbyInv, NEW ended \in SUBSET DOMAIN sales, NEW state \in {"fulfilled", "failed"},
         \A s \in ended : Unresolved(s), NEW fresh, fresh \cap DOMAIN applications = {},
         sales' = SalesWith(ended, state), erased' = erased,
         DOMAIN applications' = DOMAIN applications \cup fresh,
         \A a \in DOMAIN applications : applications'[a] = CompletingSale(ended)[a],
         \A a, b \in fresh : a = b,
         \A a \in fresh : /\ applications'[a] = [state |-> "submitted", offer |-> NoOffer]
                          /\ \A b \in DOMAIN applications : applications'[b].state \notin OpenStates
  PROVE  OfferHonoured' /\ Links'
<1> USE DEF StandbyInv, StandbySafe
<1>1. \A a \in DOMAIN applications :
        /\ applications'[a].offer = applications[a].offer
        /\ applications'[a].state =
             IF applications[a].offer.sale \in ended /\ applications[a].state = "checkout_open"
             THEN "completed" ELSE applications[a].state
  BY SalesEnd
<1>2. /\ DOMAIN sales' = DOMAIN sales
      /\ \A s \in DOMAIN sales :
           /\ sales'[s].offer = sales[s].offer /\ sales'[s].key = sales[s].key
           /\ sales'[s].state = IF s \in ended THEN state ELSE sales[s].state
  BY SalesEnd
<1>3. \A a \in fresh : applications'[a].state = "submitted" /\ applications'[a].offer.state = "none"
  BY DEF NoOffer
<1>4. \A a, b \in OpenApplications' : a = b
  BY <1>1, <1>3 DEF OfferHonoured, OpenApplications, OpenStates
<1>5. \A s, t \in DOMAIN sales' : Unresolved(s)' /\ Unresolved(t)' => s = t
  BY <1>2 DEF OfferHonoured, Unresolved
<1>6. ASSUME NEW s \in DOMAIN sales'
      PROVE  LET a == sales'[s].offer IN
             /\ a \in DOMAIN applications
             /\ applications'[a].offer.state = "checkout_open" /\ applications'[a].offer.sale = s
             /\ applications'[a].offer.key = sales'[s].key
             /\ applications'[a].state = IF sales'[s].state = "awaiting_payment" THEN "checkout_open"
                                      ELSE "completed"
  <2> DEFINE a == sales[s].offer
  <2>1. /\ a \in DOMAIN applications /\ OfferOf(a).state = "checkout_open" /\ OfferOf(a).sale = s
        /\ OfferOf(a).key = sales[s].key
        /\ applications[a].state = IF sales[s].state = "awaiting_payment" THEN "checkout_open"
                                 ELSE "completed"
    BY <1>2 DEF OfferHonoured, Links, Unresolved
  <2>2. s \in ended => Unresolved(s)
    OBVIOUS
  <2> QED
    BY <1>1, <1>2, <2>1, <2>2 DEF OfferOf, Unresolved
<1>7. \A a \in DOMAIN applications' : OfferOf(a)'.state = "checkout_open" =>
        OfferOf(a)'.sale \in DOMAIN sales' /\ sales'[OfferOf(a)'.sale].offer = a
  BY <1>1, <1>2, <1>3 DEF OfferHonoured, Links, OfferOf
<1>8. \A a \in DOMAIN applications' :
        /\ applications'[a].state = "checkout_open" => OfferOf(a)'.state = "checkout_open"
        /\ OfferOf(a)'.state = "accepting" /\ ~erased => applications'[a].state = "offered"
  BY <1>1, <1>3 DEF Links, OfferOf
<1>9. OfferHonoured'
  BY <1>4, <1>5, <1>6, <1>7 DEF OfferHonoured, OfferOf, Unresolved
<1> QED
  BY <1>6, <1>7, <1>8, <1>9 DEF Links

(* An application whose offer no purchase was made from may change as long as it opens nothing. *)
LEMMA OfferChanged ==
  ASSUME StandbyInv, NEW a \in DOMAIN applications, UNCHANGED sales, erased' = erased,
         DOMAIN applications' = DOMAIN applications,
         \A b \in DOMAIN applications : b # a => applications'[b] = applications[b],
         OfferOf(a).state # "checkout_open", OfferOf(a)'.state # "checkout_open",
         applications'[a].state # "checkout_open",
         applications'[a].state \in OpenStates => applications[a].state \in OpenStates,
         OfferOf(a)'.state = "accepting" /\ ~erased => applications'[a].state = "offered"
  PROVE  OfferHonoured' /\ Links'
<1> USE DEF StandbyInv, StandbySafe
<1>1. \A s \in DOMAIN sales : sales[s].offer \in DOMAIN applications /\ sales[s].offer # a
  BY DEF OfferHonoured, Links
<1>2. \A b, c \in OpenApplications' : b = c
  BY DEF OfferHonoured, OpenApplications
<1>3. \A b \in DOMAIN applications :
        /\ OfferOf(b)' = IF b = a THEN OfferOf(a)' ELSE OfferOf(b)
        /\ b # a => applications'[b] = applications[b]
  BY DEF OfferOf
<1>4. \A s, t \in DOMAIN sales' : Unresolved(s)' /\ Unresolved(t)' => s = t
  BY DEF OfferHonoured, Unresolved
<1>5. ASSUME NEW s \in DOMAIN sales'
      PROVE  LET b == sales'[s].offer IN
             /\ applications'[b].offer.state = "checkout_open" /\ applications'[b].offer.sale = s
             /\ applications'[b].offer.key = sales'[s].key
             /\ applications'[b].state = IF sales'[s].state = "awaiting_payment" THEN "checkout_open"
                                        ELSE "completed"
  <2> DEFINE b == sales[s].offer
  <2>1. OfferHonoured /\ s \in DOMAIN sales
    OBVIOUS
  <2>2. OfferOf(b).state = "checkout_open" /\ OfferOf(b).sale = s /\ OfferOf(b).key = sales[s].key
    BY <2>1 DEF OfferHonoured
  <2>3. applications[b].state = IF Unresolved(s) THEN "checkout_open" ELSE "completed"
    BY <2>1 DEF OfferHonoured
  <2>4. applications'[b] = applications[b]
    BY <1>1, <1>3
  <2> QED
    BY <2>2, <2>3, <2>4 DEF OfferOf, Unresolved
<1>6. \A b \in DOMAIN applications' : OfferOf(b)'.state = "checkout_open" =>
        OfferOf(b)'.sale \in DOMAIN sales' /\ sales'[OfferOf(b)'.sale].offer = b
  BY <1>3 DEF OfferHonoured, Links
<1>7. \A b \in DOMAIN applications' :
        /\ applications'[b].state = "checkout_open" => OfferOf(b)'.state = "checkout_open"
        /\ OfferOf(b)'.state = "accepting" /\ ~erased => applications'[b].state = "offered"
  BY <1>3 DEF Links
<1>8. OfferHonoured'
  BY <1>2, <1>4, <1>5, <1>6 DEF OfferHonoured, OfferOf, Unresolved
<1> QED
  BY <1>1, <1>6, <1>7, <1>8 DEF Links

(* What requests remember stays true as long as no application or purchase is lost and no
   purchase changes hands. *)
LEMMA StillRemembered ==
  ASSUME Remembered, DOMAIN applications \subseteq DOMAIN applications',
         DOMAIN sales \subseteq DOMAIN sales',
         \A s \in DOMAIN sales : sales'[s].offer = sales[s].offer /\ sales'[s].key = sales[s].key,
         \A r \in Requests : acceptance'[r] = acceptance[r] \/ Remembers(r)'
  PROVE  Remembered'
BY DEF Remembered, Remembers

(* The clock, the phone, and the requests that only give up *)
LEMMA QuietKept ==
  ASSUME StandbyInv, DayPasses \/ ChangePhone \/ \E r \in Requests : Refuse(r) \/ Drop(r)
  PROVE  StandbyInv'
<1> USE DEF StandbyInv, StandbySafe
<1>1. UNCHANGED <<erased, applications, sales>>
  BY DEF DayPasses, ChangePhone, Refuse, Drop
<1>2. OfferHonoured' /\ Links'
  BY <1>1 DEF OfferHonoured, Links, OpenApplications, OfferOf, Unresolved
<1>3. today' \in 0 .. LastDay /\ verified' \in BOOLEAN
  <2>1. today \in 0 .. LastDay /\ verified \in BOOLEAN /\ LastDay \in Nat
    BY StandbyAssumption DEF StandbyTypeOK
  <2>2. CASE DayPasses
    BY <2>1, <2>2 DEF DayPasses
  <2>3. CASE ChangePhone
    BY <2>1, <2>3 DEF ChangePhone
  <2>4. CASE \E r \in Requests : Refuse(r) \/ Drop(r)
    BY <2>1, <2>4 DEF Refuse, Drop
  <2> QED
    BY <2>2, <2>3, <2>4
<1>4. ASSUME NEW r \in Requests, Refuse(r) \/ Drop(r)
      PROVE  /\ acceptance' \in [Requests -> [step : {"idle", "claimed", "refused", "bought"},
                                             key : Keys \cup {NoKey}, on : Nat, sale : Nat]]
             /\ \A q \in Requests : acceptance'[q] = acceptance[q] \/ Remembers(q)'
  <2>1. acceptance[r] \in Calls /\ acceptance \in [Requests -> Calls]
    BY DEF StandbyTypeOK, Calls
  <2>2. PICK call \in Calls : /\ acceptance' = [acceptance EXCEPT ![r] = call]
                              /\ call.step \in {"idle", "refused"}
                              /\ call.step = "refused" =>
                                   call.on = acceptance[r].on /\ call.key = acceptance[r].key
                                   /\ acceptance[r].step = "claimed"
    <3>1. CASE Refuse(r)
      <4>1. [acceptance[r] EXCEPT !.step = "refused", !.sale = 0] \in Calls
        BY <2>1 DEF Calls
      <4>2. acceptance' = [acceptance EXCEPT ![r] =
                             [acceptance[r] EXCEPT !.step = "refused", !.sale = 0]]
        BY <2>1, <3>1 DEF Refuse, Goes
      <4> QED
        BY <2>1, <3>1, <4>1, <4>2 DEF Refuse, Calls
    <3>2. CASE Drop(r)
      <4>1. AppIdle \in Calls /\ AppIdle.step = "idle"
        BY DEF AppIdle, Calls
      <4> QED
        BY <3>2, <4>1 DEF Drop
    <3> QED
      BY <1>4, <3>1, <3>2
  <2>3. acceptance' \in [Requests -> Calls]
    BY <2>1, <2>2
  <2>4. Remembers(r)'
    BY <1>1, <2>1, <2>2 DEF Remembers, Remembered
  <2> QED
    BY <2>1, <2>2, <2>3, <2>4 DEF Calls
<1>5. CASE UNCHANGED acceptance
  BY <1>1, <1>2, <1>3, <1>5, StillRemembered DEF StandbyTypeOK
<1>6. CASE \E r \in Requests : Refuse(r) \/ Drop(r)
  BY <1>1, <1>2, <1>3, <1>4, <1>6, StillRemembered DEF StandbyTypeOK
<1> QED
  BY <1>5, <1>6 DEF DayPasses, ChangePhone

(* Purchases that fail with their offers, or end by the payment *)
LEMMA EndKept ==
  ASSUME StandbyInv, Browse \/ \E s \in DOMAIN sales, outcome \in {"fulfilled", "failed"} :
                                Settle(s, outcome)
  PROVE  StandbyInv'
<1> USE DEF StandbyInv, StandbySafe
<1>1. PICK ended \in SUBSET DOMAIN sales, state \in {"fulfilled", "failed"} :
        /\ \A s \in ended : Unresolved(s)
        /\ sales' = SalesWith(ended, state) /\ applications' = CompletingSale(ended)
  BY DEF Browse, Settle, Lapsed
<1>2. UNCHANGED <<today, verified, erased, acceptance>>
  BY DEF Browse, Settle
<1>3. OfferHonoured' /\ Links'
  <2> DEFINE fresh == {}
  <2>1. /\ DOMAIN applications' = DOMAIN applications \cup fresh
        /\ fresh \cap DOMAIN applications = {}
        /\ \A a \in DOMAIN applications : applications'[a] = CompletingSale(ended)[a]
    BY <1>1, SalesEnd
  <2>2. fresh = {}
    OBVIOUS
  <2> HIDE DEF fresh
  <2> QED
    BY <1>1, <1>2, <2>1, <2>2, SettledKept
<1>4. StandbyTypeOK'
  BY <1>1, <1>2, SalesEnd DEF StandbyTypeOK, Sale
<1>5. Remembered'
  BY <1>1, <1>2, SalesEnd, StillRemembered
<1> QED
  BY <1>3, <1>4, <1>5

(* A new application *)
LEMMA JoinKept == ASSUME StandbyInv, Join PROVE StandbyInv'
<1> USE DEF StandbyInv, StandbySafe
<1> DEFINE kept == CompletingSale(Lapsed)
           new == [state |-> "submitted", offer |-> NoOffer]
           fresh == {Len(applications) + 1}
<1>1. /\ applications' = Append(kept, new) /\ sales' = SalesWith(Lapsed, "failed")
      /\ UNCHANGED <<today, verified, erased, acceptance>>
      /\ Len(applications) < MaxApplications
      /\ \A a \in DOMAIN kept : kept[a].state \notin OpenStates
  BY DEF Join
<1>2. Lapsed \in SUBSET DOMAIN sales /\ \A s \in Lapsed : Unresolved(s)
  BY DEF Lapsed
<1>3. /\ kept \in Seq(Application) /\ Len(kept) = Len(applications)
      /\ DOMAIN kept = DOMAIN applications
  BY <1>2, SalesEnd
<1>4. new \in Application
  BY DEF Application, NoOffer, OpenStates
<1> HIDE DEF kept, new
<1>5. /\ applications' \in Seq(Application) /\ Len(applications') = Len(applications) + 1
      /\ \A a \in DOMAIN applications : applications'[a] = kept[a]
      /\ applications'[Len(applications) + 1] = new
  BY <1>1, <1>3, <1>4, AppendProperties, StandbyFields
<1>6. DOMAIN applications' = DOMAIN applications \cup fresh /\ fresh \cap DOMAIN applications = {}
  BY <1>5, StandbyFields, LenProperties
<1>7. \A a \in fresh : /\ applications'[a] = new
                       /\ \A b \in DOMAIN applications : applications'[b].state \notin OpenStates
  BY <1>1, <1>3, <1>5
<1>8. \A a, b \in fresh : a = b
  OBVIOUS
<1> HIDE DEF fresh
<1>9. OfferHonoured' /\ Links'
  BY <1>1, <1>2, <1>5, <1>6, <1>7, <1>8, SettledKept DEF kept, new
<1>10. StandbyTypeOK'
  <2>1. Len(applications') <= MaxApplications
    BY <1>1, <1>5, StandbyFields, StandbyAssumption
  <2>2. sales' \in Seq(Sale)
    BY <1>1, <1>2, SalesEnd
  <2> QED
    BY <1>1, <1>5, <2>1, <2>2 DEF StandbyTypeOK, Sale
<1>11. Remembered'
  BY <1>1, <1>2, <1>6, SalesEnd, StillRemembered
<1> QED
  BY <1>9, <1>10, <1>11

(* Whatever changes one offer that no purchase was made from *)
LEMMA OneOfferKept ==
  ASSUME StandbyInv, NEW a \in DOMAIN applications, NEW new \in Application,
         applications' = [applications EXCEPT ![a] = new],
         UNCHANGED <<today, verified, erased, sales>>,
         OfferOf(a).state # "checkout_open", new.offer.state # "checkout_open",
         new.state # "checkout_open",
         new.state \in OpenStates => applications[a].state \in OpenStates,
         new.offer.state = "accepting" /\ ~erased => new.state = "offered",
         acceptance' \in [Requests -> Calls],
         \A r \in Requests :
           \/ acceptance'[r] = acceptance[r]
           \/ /\ acceptance'[r].step \in {"idle", "claimed"}
              /\ acceptance'[r].step = "claimed" => acceptance'[r].on = a
                                                    /\ acceptance'[r].key \in Keys
  PROVE  StandbyInv'
<1> USE DEF StandbyInv, StandbySafe
<1>1. /\ applications' \in Seq(Application) /\ Len(applications') = Len(applications)
      /\ DOMAIN applications' = DOMAIN applications
      /\ \A b \in DOMAIN applications :
           applications'[b] = IF b = a THEN new ELSE applications[b]
  BY ExceptSeq DEF StandbyTypeOK
<1>2. OfferHonoured' /\ Links'
  <2>1. OfferOf(a)' = new.offer
    BY <1>1 DEF OfferOf
  <2> QED
    BY <1>1, <2>1, OfferChanged
<1>3. StandbyTypeOK'
  BY <1>1 DEF StandbyTypeOK, Calls
<1>4. Remembered'
  <2>1. \A r \in Requests : acceptance'[r] = acceptance[r] \/ Remembers(r)'
    BY <1>1 DEF Remembers
  <2> QED
    BY <1>1, <2>1, StillRemembered
<1> QED
  BY <1>2, <1>3, <1>4

(* A withdrawal, an offer of Ops, a claim and its release *)
LEMMA OffersKept ==
  ASSUME StandbyInv, NEW a \in DOMAIN applications,
         \/ Withdraw(a) \/ \E days \in 1 .. MaxOffer : Offer(a, days)
         \/ \E r \in Requests, key \in Keys : Claim(r, a, key)
  PROVE  StandbyInv'
<1> USE DEF StandbyInv, StandbySafe
<1>1. /\ applications[a] \in Application /\ applications[a].offer.key \in Keys \cup {NoKey}
      /\ applications \in Seq(Application) /\ today \in Nat /\ acceptance \in [Requests -> Calls]
  <2>1. applications[a] \in Application
    BY StandbyFields
  <2>2. applications[a].offer.key \in Keys \cup {NoKey}
    BY <2>1 DEF Application
  <2>3. today \in Nat
    BY StandbyAssumption DEF StandbyTypeOK
  <2> QED
    BY <2>1, <2>2, <2>3 DEF StandbyTypeOK, Calls
<1>2. CASE Withdraw(a)
  <2> DEFINE new == [applications[a] EXCEPT !.state = "withdrawn",
                       !.offer.state = IF @ = "offered" THEN "cancelled" ELSE @]
  <2>1. applications' = [applications EXCEPT ![a] = new] /\ UNCHANGED <<today, verified, erased, sales, acceptance>>
    BY <1>1, <1>2 DEF Withdraw
  <2>2. new \in Application /\ new.state = "withdrawn"
        /\ new.offer.state \notin {"checkout_open", "accepting"}
        /\ OfferOf(a).state # "checkout_open"
    <3>1. applications[a].offer.state \notin {"checkout_open", "accepting"}
      BY <1>2 DEF Withdraw, OfferHonoured, Links, OfferOf
    <3> QED
      BY <1>1, <3>1 DEF Application, OfferOf
  <2> HIDE DEF new
  <2>3. /\ new.state # "checkout_open" /\ new.state \notin OpenStates
        /\ new.offer.state # "checkout_open" /\ new.offer.state # "accepting"
        /\ acceptance' \in [Requests -> Calls]
        /\ \A r \in Requests : acceptance'[r] = acceptance[r]
    BY <1>1, <2>1, <2>2 DEF OpenStates
  <2> QED
    BY <2>1, <2>2, <2>3, OneOfferKept
<1>3. ASSUME NEW days \in 1 .. MaxOffer, Offer(a, days) PROVE StandbyInv'
  <2> DEFINE offer == [NoOffer EXCEPT !.state = "offered", !.expires = today + days]
             new == [applications[a] EXCEPT !.state = "offered", !.offer = offer]
  <2>1. /\ applications' = [applications EXCEPT ![a] = new]
        /\ UNCHANGED <<today, verified, erased, sales, acceptance>>
    BY <1>1, <1>3 DEF Offer
  <2>2. OfferOf(a).state # "checkout_open" /\ applications[a].state \in OpenStates
    <3>1. applications[a].state = "submitted" /\ OfferHonoured /\ Links
      BY <1>3 DEF Offer
    <3>2. OfferOf(a).state = "checkout_open" => FALSE
      BY <3>1 DEF OfferHonoured, Links
    <3> QED
      BY <3>1, <3>2 DEF OpenStates
  <2>3. offer \in [state : {"none", "offered", "accepting", "checkout_open", "cancelled"},
                   key : Keys \cup {NoKey}, expires : Nat, sale : Nat]
        /\ offer.state = "offered"
    <3>1. today + days \in Nat
      BY <1>1, StandbyAssumption
    <3> QED
      BY <3>1 DEF NoOffer
  <2> HIDE DEF offer
  <2>4. new \in Application /\ new.state = "offered" /\ new.offer.state = "offered"
    BY <1>1, <2>3 DEF Application, OpenStates
  <2> HIDE DEF new
  <2>5. /\ new.state # "checkout_open"
        /\ new.offer.state # "checkout_open" /\ new.offer.state # "accepting"
        /\ acceptance' \in [Requests -> Calls]
        /\ \A r \in Requests : acceptance'[r] = acceptance[r]
    BY <1>1, <2>1, <2>4
  <2> QED
    BY <2>1, <2>2, <2>4, <2>5, OneOfferKept
<1>4. ASSUME NEW r \in Requests, NEW key \in Keys, Claim(r, a, key) PROVE StandbyInv'
  <2> DEFINE call == [step |-> "claimed", key |-> key, on |-> a, sale |-> 0]
  <2>1. call \in Calls /\ call.step = "claimed" /\ call.on = a /\ call.key \in Keys
    BY StandbyFields DEF Calls
  <2>2. acceptance' = [acceptance EXCEPT ![r] = call] /\ UNCHANGED <<today, verified, erased, sales>>
    BY <1>4 DEF Claim
  <2> HIDE DEF call
  <2>3. /\ acceptance' \in [Requests -> Calls]
        /\ acceptance'[r] = call
        /\ \A q \in Requests : q # r => acceptance'[q] = acceptance[q]
    BY <1>1, <2>1, <2>2
  <2>4. CASE UNCHANGED applications
    <3>1. OfferHonoured' /\ Links'
      BY <2>2, <2>4 DEF OfferHonoured, Links, OpenApplications, OfferOf, Unresolved
    <3>2. StandbyTypeOK'
      BY <2>2, <2>3, <2>4 DEF StandbyTypeOK, Calls
    <3>3. Remembers(r)'
      BY <2>1, <2>3, <2>4 DEF Remembers
    <3> QED
      BY <2>2, <2>3, <2>4, <3>1, <3>2, <3>3, StillRemembered
  <2>5. CASE ~UNCHANGED applications
    <3> DEFINE new == [applications[a] EXCEPT !.offer.state = "accepting", !.offer.key = key]
    <3>1. /\ applications[a].state = "offered" /\ OfferOf(a).state = "offered"
          /\ applications' = [applications EXCEPT ![a].offer.state = "accepting",
                                                 ![a].offer.key = key]
      BY <1>4, <2>5 DEF Claim
    <3>2. applications' = [applications EXCEPT ![a] = new]
      BY <1>1, <3>1 DEF Application
    <3>3. new \in Application /\ new.state = "offered" /\ new.offer.state = "accepting"
      BY <1>1, <3>1 DEF Application
    <3> HIDE DEF new
    <3>4. /\ OfferOf(a).state # "checkout_open" /\ applications[a].state \in OpenStates
          /\ new.state # "checkout_open" /\ new.offer.state # "checkout_open"
      BY <3>1, <3>3 DEF OpenStates
    <3> QED
      BY <2>1, <2>2, <2>3, <3>2, <3>3, <3>4, OneOfferKept
  <2> QED
    BY <2>4, <2>5
<1> QED
  BY <1>2, <1>3, <1>4

(* A definite refusal releases the offer that its own key locked. *)
LEMMA ReleaseKept == ASSUME StandbyInv, NEW r \in Requests, Release(r) PROVE StandbyInv'
<1> USE DEF StandbyInv, StandbySafe
<1> DEFINE a == acceptance[r].on
           new == [applications[a] EXCEPT !.offer.state = "offered", !.offer.key = NoKey]
<1>1. /\ acceptance[r].step = "refused" /\ a \in DOMAIN applications
      /\ acceptance \in [Requests -> Calls] /\ applications[a] \in Application
  BY StandbyFields DEF Release, Remembered, Remembers, StandbyTypeOK, Calls
<1>2. acceptance' = [acceptance EXCEPT ![r] = AppIdle] /\ UNCHANGED <<today, verified, erased, sales>>
  BY DEF Release
<1>3. AppIdle \in Calls /\ AppIdle.step = "idle"
  BY DEF AppIdle, Calls
<1>4. /\ acceptance' \in [Requests -> Calls] /\ acceptance'[r].step = "idle"
      /\ \A q \in Requests : q # r => acceptance'[q] = acceptance[q]
  BY <1>1, <1>2, <1>3
<1>5. CASE OfferOf(a).state = "accepting" /\ applications' # applications
  <2>1. applications' = [applications EXCEPT ![a] = new]
    BY <1>1, <1>5 DEF Release, Application
  <2>2. new \in Application /\ new.state = applications[a].state /\ new.offer.state = "offered"
    BY <1>1 DEF Application
  <2>3. new.state # "checkout_open"
    BY <1>1, <1>5, <2>2 DEF Links
  <2> HIDE DEF new, a
  <2>4. /\ OfferOf(a).state # "checkout_open" /\ new.offer.state # "checkout_open"
        /\ new.offer.state # "accepting"
    BY <1>5, <2>2
  <2> QED
    BY <1>1, <1>2, <1>4, <2>1, <2>2, <2>3, <2>4, OneOfferKept
<1>6. CASE UNCHANGED applications
  <2>1. OfferHonoured' /\ Links'
    BY <1>2, <1>6 DEF OfferHonoured, Links, OpenApplications, OfferOf, Unresolved
  <2>2. StandbyTypeOK'
    BY <1>2, <1>4, <1>6 DEF StandbyTypeOK, Calls
  <2>3. Remembers(r)'
    BY <1>4 DEF Remembers
  <2> QED
    BY <1>2, <1>4, <1>6, <2>1, <2>2, <2>3, StillRemembered
<1> QED
  BY <1>5, <1>6 DEF Release

(* The purchase that a request has made is recorded already: the last transaction writes what
   is there. *)
LEMMA RecordKept == ASSUME StandbyInv, NEW r \in Requests, Record(r) PROVE StandbyInv'
<1> USE DEF StandbyInv, StandbySafe
<1> DEFINE s == acceptance[r].sale
           a == acceptance[r].on
<1>1. /\ acceptance[r].step = "bought" /\ s \in DOMAIN sales /\ sales[s].offer = a
      /\ a \in DOMAIN applications /\ applications[a] \in Application
  BY StandbyFields DEF Record, Remembered, Remembers
<1>2. /\ OfferOf(a).state = "checkout_open" /\ OfferOf(a).sale = s
      /\ applications[a].state = IF sales[s].state = "awaiting_payment" THEN "checkout_open"
                                 ELSE "completed"
  BY <1>1 DEF OfferHonoured, Unresolved
<1>3. [state |-> Recorded(s),
       offer |-> [OfferOf(a) EXCEPT !.state = "checkout_open", !.sale = s]] = applications[a]
  <2>1. [OfferOf(a) EXCEPT !.state = "checkout_open", !.sale = s] = applications[a].offer
    BY <1>1, <1>2 DEF OfferOf, Application
  <2>2. Recorded(s) = applications[a].state
    BY <1>2 DEF Recorded, Unresolved
  <2> QED
    BY <1>1, <2>1, <2>2 DEF Application
<1>4. applications' = applications
  <2>1. applications' = [applications EXCEPT ![a] =
          [state |-> Recorded(s),
           offer |-> [OfferOf(a) EXCEPT !.state = "checkout_open", !.sale = s]]]
    BY DEF Record
  <2>2. applications \in [DOMAIN applications -> Application]
    BY StandbyFields
  <2> HIDE DEF s, a
  <2> QED
    BY <1>3, <2>1, <2>2
<1>5. acceptance' = [acceptance EXCEPT ![r] = AppIdle] /\ UNCHANGED <<today, verified, erased, sales>>
  BY DEF Record
<1>6. AppIdle \in Calls /\ AppIdle.step = "idle" /\ acceptance \in [Requests -> Calls]
  BY DEF AppIdle, Calls, StandbyTypeOK
<1>7. /\ acceptance' \in [Requests -> Calls] /\ acceptance'[r].step = "idle"
      /\ \A q \in Requests : q # r => acceptance'[q] = acceptance[q]
  BY <1>5, <1>6
<1>8. OfferHonoured' /\ Links'
  BY <1>4, <1>5 DEF OfferHonoured, Links, OpenApplications, OfferOf, Unresolved
<1>9. StandbyTypeOK'
  BY <1>4, <1>5, <1>7 DEF StandbyTypeOK, Calls
<1>10. Remembers(r)'
  BY <1>7 DEF Remembers
<1> QED
  BY <1>4, <1>5, <1>7, <1>8, <1>9, <1>10, StillRemembered

(* No request is under way, and nothing was applied for. *)
LEMMA StandbyStarts == StandbyInit => StandbyInv
<1> SUFFICES ASSUME StandbyInit PROVE StandbyInv
  OBVIOUS
<1>1. applications = <<>> /\ sales = <<>> /\ DOMAIN applications = {} /\ DOMAIN sales = {}
      /\ Len(applications) = 0
  BY DEF StandbyInit
<1>2. AppIdle \in Calls /\ AppIdle.step = "idle"
  BY DEF AppIdle, Calls
<1>3. StandbyTypeOK
  <2>1. /\ applications \in Seq(Application) /\ Len(applications) <= MaxApplications
        /\ sales \in Seq([offer : Nat, key : Keys, state : {"awaiting_payment", "fulfilled", "failed"}])
    BY <1>1, EmptySeq, StandbyAssumption
  <2>2. acceptance \in [Requests -> [step : {"idle", "claimed", "refused", "bought"},
                                     key : Keys \cup {NoKey}, on : Nat, sale : Nat]]
    BY <1>2 DEF StandbyInit, Calls
  <2>3. today \in 0 .. LastDay /\ verified \in BOOLEAN /\ erased \in BOOLEAN
    <3>1. 0 \in 0 .. LastDay
      BY StandbyAssumption
    <3>2. today \in 0 .. LastDay
      BY <3>1 DEF StandbyInit
    <3>3. verified \in BOOLEAN /\ erased \in BOOLEAN
      BY DEF StandbyInit
    <3> QED
      BY <3>2, <3>3
  <2> QED
    BY <2>1, <2>2, <2>3 DEF StandbyTypeOK
<1>4. Remembered
  BY <1>2 DEF StandbyInit, Remembered, Remembers
<1> QED
  BY <1>1, <1>3, <1>4 DEF StandbyInv, StandbySafe, OfferHonoured, Links, OpenApplications

(* Closing the account ends what is not paid for, and no purchase is touched
   (erase_standby_application). *)
LEMMA EraseKept == ASSUME StandbyInv, EraseRider PROVE StandbyInv'
<1> USE DEF StandbyInv, StandbySafe
<1>1. erased' = TRUE /\ UNCHANGED <<today, verified, sales, acceptance>> /\ DOMAIN applications' = DOMAIN applications
  BY DEF EraseRider
<1>2. ASSUME NEW a \in DOMAIN applications
      PROVE  /\ applications'[a] \in Application
             /\ applications'[a].state = IF applications[a].state \in {"submitted", "offered"}
                                         THEN "withdrawn" ELSE applications[a].state
             /\ applications'[a].offer.state = IF OfferOf(a).state = "offered" THEN "cancelled"
                                               ELSE OfferOf(a).state
             /\ applications'[a].offer.sale = OfferOf(a).sale
             /\ applications'[a].offer.key = OfferOf(a).key
  <2> DEFINE state == IF applications[a].state \in {"submitted", "offered"} THEN "withdrawn"
                      ELSE applications[a].state
             offer == [OfferOf(a) EXCEPT !.state = IF @ = "offered" THEN "cancelled" ELSE @]
             offers == [state : {"none", "offered", "accepting", "checkout_open", "cancelled"},
                        key : Keys \cup {NoKey}, expires : Nat, sale : Nat]
  <2>1. applications'[a] = [state |-> state, offer |-> offer]
    BY DEF EraseRider
  <2>2. OfferOf(a) \in offers /\ state \in OpenStates \cup {"withdrawn", "completed"}
    BY StandbyFields DEF Application, OfferOf
  <2>3. /\ offer \in offers /\ offer.sale = OfferOf(a).sale /\ offer.key = OfferOf(a).key
        /\ offer.state = IF OfferOf(a).state = "offered" THEN "cancelled" ELSE OfferOf(a).state
    BY <2>2
  <2>4. [state |-> state, offer |-> offer] \in Application
    BY <2>2, <2>3 DEF Application
  <2> QED
    BY <2>1, <2>3, <2>4
<1>3. applications' \in Seq(Application) /\ Len(applications') = Len(applications)
  <2>1. applications' \in [DOMAIN applications -> Application]
    BY <1>2 DEF EraseRider
  <2> QED
    BY <2>1, Reshaped DEF StandbyTypeOK
<1>4. StandbyTypeOK'
  BY <1>1, <1>3 DEF StandbyTypeOK
<1>5. \A a, b \in OpenApplications' : a = b
  BY <1>1, <1>2 DEF OfferHonoured, OpenApplications, OpenStates
<1>6. \A s, t \in DOMAIN sales' : Unresolved(s)' /\ Unresolved(t)' => s = t
  BY <1>1 DEF OfferHonoured, Unresolved
<1>7. ASSUME NEW s \in DOMAIN sales'
      PROVE  LET a == sales'[s].offer IN
             /\ a \in DOMAIN applications
             /\ applications'[a].offer.state = "checkout_open" /\ applications'[a].offer.sale = s
             /\ applications'[a].offer.key = sales'[s].key
             /\ applications'[a].state = IF sales'[s].state = "awaiting_payment" THEN "checkout_open"
                                         ELSE "completed"
  <2> DEFINE a == sales[s].offer
  <2>1. /\ a \in DOMAIN applications /\ OfferOf(a).state = "checkout_open" /\ OfferOf(a).sale = s
        /\ OfferOf(a).key = sales[s].key
        /\ applications[a].state = IF sales[s].state = "awaiting_payment" THEN "checkout_open"
                                   ELSE "completed"
    BY <1>1 DEF OfferHonoured, Links, Unresolved
  <2> QED
    BY <1>1, <1>2, <2>1
<1>8. \A a \in DOMAIN applications' :
        /\ OfferOf(a)'.state = "checkout_open" =>
             OfferOf(a)'.sale \in DOMAIN sales' /\ sales'[OfferOf(a)'.sale].offer = a
        /\ applications'[a].state = "checkout_open" => OfferOf(a)'.state = "checkout_open"
  BY <1>1, <1>2 DEF OfferHonoured, Links, OfferOf
<1>9. OfferHonoured'
  BY <1>5, <1>6, <1>7, <1>8 DEF OfferHonoured, OfferOf, Unresolved
<1>10. Links'
  BY <1>1, <1>7, <1>8 DEF Links
<1>11. Remembered'
  BY <1>1, StillRemembered
<1> QED
  BY <1>4, <1>9, <1>10, <1>11

(* A request that finds the purchase of its key, or makes it: the offer is still accepted by
   that key, so its application is the open one, and no purchase was made from it. *)
LEMMA BuyKept == ASSUME StandbyInv, NEW r \in Requests, Buy(r) PROVE StandbyInv'
<1> USE DEF StandbyInv, StandbySafe
<1> DEFINE a == acceptance[r].on
           key == acceptance[r].key
           kept == SalesWith(Lapsed, "failed")
           left == CompletingSale(Lapsed)
<1>1. /\ acceptance[r].step = "claimed" /\ a \in DOMAIN applications /\ key \in Keys /\ ~erased
      /\ acceptance \in [Requests -> Calls] /\ UNCHANGED <<today, verified, erased>>
  BY DEF Buy, Remembered, Remembers, StandbyTypeOK, Calls
<1>2. Lapsed \in SUBSET DOMAIN sales /\ \A s \in Lapsed : Unresolved(s)
  BY DEF Lapsed
<1>3. ASSUME NEW n \in Nat, Goes(r, "bought", n)
      PROVE  /\ acceptance' \in [Requests -> Calls]
             /\ acceptance'[r].step = "bought" /\ acceptance'[r].sale = n
             /\ acceptance'[r].on = a /\ acceptance'[r].key = key
             /\ \A q \in Requests : q # r => acceptance'[q] = acceptance[q]
  <2>1. acceptance[r] \in Calls
    BY <1>1
  <2>2. [acceptance[r] EXCEPT !.step = "bought", !.sale = n] \in Calls
    BY <2>1 DEF Calls
  <2>3. acceptance' = [acceptance EXCEPT ![r] =
                         [acceptance[r] EXCEPT !.step = "bought", !.sale = n]]
    BY <1>1, <1>3, <2>1 DEF Goes
  <2> QED
    BY <1>1, <2>1, <2>2, <2>3 DEF Calls
<1>4. CASE SalesOf(key) # {}
  <2>1. PICK s \in SalesOf(key) : sales[s].offer = a /\ Goes(r, "bought", s)
    BY <1>4 DEF Buy
  <2>2. sales' = kept /\ applications' = left
    BY <1>4 DEF Buy
  <2>3. s \in DOMAIN sales /\ s \in Nat /\ sales[s].key = key
    BY StandbyFields DEF SalesOf
  <2> HIDE DEF a, key
  <2>4. OfferHonoured' /\ Links'
    <3> DEFINE fresh == {}
    <3>1. /\ DOMAIN applications' = DOMAIN applications \cup fresh
          /\ fresh \cap DOMAIN applications = {}
          /\ \A b \in DOMAIN applications : applications'[b] = CompletingSale(Lapsed)[b]
      BY <1>2, <2>2, SalesEnd
    <3>2. fresh = {}
      OBVIOUS
    <3> HIDE DEF fresh
    <3> QED
      BY <1>1, <1>2, <2>2, <3>1, <3>2, SettledKept
  <2>5. sales' \in Seq(Sale) /\ applications' \in Seq(Application) /\ Len(applications') = Len(applications)
    BY <1>2, <2>2, SalesEnd
  <2>6. acceptance' \in [Requests -> Calls]
    BY <1>3, <2>1, <2>3
  <2>7. StandbyTypeOK'
    BY <1>1, <2>5, <2>6 DEF StandbyTypeOK, Sale, Calls
  <2>8. /\ DOMAIN applications' = DOMAIN applications /\ DOMAIN sales' = DOMAIN sales
        /\ \A t \in DOMAIN sales : sales'[t].offer = sales[t].offer /\ sales'[t].key = sales[t].key
    BY <1>2, <2>2, SalesEnd
  <2>9. Remembers(r)'
    BY <1>1, <1>3, <2>1, <2>3, <2>8 DEF Remembers
  <2>10. \A q \in Requests : acceptance'[q] = acceptance[q] \/ Remembers(q)'
    BY <1>3, <2>1, <2>3, <2>9
  <2> QED
    BY <2>4, <2>7, <2>8, <2>10, StillRemembered
<1>5. CASE SalesOf(key) = {}
  <2> DEFINE n == Len(sales) + 1
             sale == [offer |-> a, key |-> key, state |-> "awaiting_payment"]
             new == [left[a] EXCEPT !.state = "checkout_open", !.offer.state = "checkout_open",
                                    !.offer.sale = n]
  <2>1. /\ OfferOf(a).state = "accepting" /\ OfferOf(a).key = key
        /\ \A s \in DOMAIN kept : kept[s].state # "awaiting_payment"
        /\ sales' = Append(kept, sale) /\ Goes(r, "bought", n)
    BY <1>5 DEF Buy
  <2>2. applications' = [left EXCEPT ![a].state = "checkout_open",
               ![a].offer.state = "checkout_open", ![a].offer.sale = n]
    BY <1>5 DEF Buy
  <2>3. /\ kept \in Seq(Sale) /\ Len(kept) = Len(sales) /\ DOMAIN kept = DOMAIN sales
        /\ \A s \in DOMAIN sales : kept[s].offer = sales[s].offer /\ kept[s].key = sales[s].key
        /\ left \in Seq(Application) /\ Len(left) = Len(applications)
        /\ DOMAIN left = DOMAIN applications
        /\ \A b \in DOMAIN applications :
             left[b].offer = applications[b].offer /\ left[b].state =
                   IF applications[b].offer.sale \in Lapsed /\ applications[b].state = "checkout_open"
                   THEN "completed" ELSE applications[b].state
    BY <1>2, SalesEnd
  <2>4. n \in Nat /\ n \notin DOMAIN sales /\ a \in Nat /\ sale \in Sale
    BY <1>1, StandbyFields DEF Sale
  <2>5. left[a] \in Application /\ OfferOf(a) = left[a].offer
    BY <1>1, <2>3, ElementOfSeq, StandbyFields DEF OfferOf
  <2>6. new \in Application
    BY <2>4, <2>5 DEF Application, OpenStates
  <2>7. applications' = [left EXCEPT ![a] = new]
    BY <1>1, <2>2, <2>3, <2>5 DEF Application
  <2>8. /\ sale.offer = a /\ sale.key = key /\ sale.state = "awaiting_payment"
        /\ new.state = "checkout_open" /\ new.offer.state = "checkout_open"
        /\ new.offer.sale = n /\ new.offer.key = key
    <3>1. new.state = "checkout_open" /\ new.offer.state = "checkout_open" /\ new.offer.sale = n
          /\ new.offer.key = left[a].offer.key
      BY <2>4, <2>5 DEF Application
    <3> QED
      BY <2>1, <2>5, <3>1
  <2>9. /\ applications[a].state = "offered"
        /\ \A s \in DOMAIN sales : sales[s].offer \in DOMAIN applications /\ sales[s].offer # a
    BY <1>1, <2>1 DEF Links, OfferHonoured
  <2>10. /\ \A s \in DOMAIN sales :
              LET b == sales[s].offer IN
              /\ applications[b].offer.state = "checkout_open" /\ applications[b].offer.sale = s
              /\ applications[b].offer.key = sales[s].key
              /\ applications[b].state = IF sales[s].state = "awaiting_payment" THEN "checkout_open"
                                         ELSE "completed"
         /\ \A b \in DOMAIN applications : applications[b].state \in OpenStates => b = a
         /\ \A b \in DOMAIN applications : applications[b].offer.state = "checkout_open" =>
              /\ applications[b].offer.sale \in DOMAIN sales
              /\ sales[applications[b].offer.sale].offer = b
    BY <1>1, <2>9 DEF OfferHonoured, Links, OpenApplications, OpenStates, OfferOf, Unresolved
  <2>11. \A s \in DOMAIN sales : kept[s].state \in {"fulfilled", "failed"}
                                /\ sales[s].state # "awaiting_payment"
    <3>1. \A s \in DOMAIN sales : kept[s] \in Sale
      BY <2>3, ElementOfSeq, StandbyFields
    <3>2. \A s \in DOMAIN sales : sales[s].state # "awaiting_payment"
      BY <2>9, <2>10 DEF OpenStates
    <3> QED
      BY <2>1, <2>3, <3>1, <3>2 DEF Sale
  <2>12. acceptance' \in [Requests -> Calls]
    BY <1>3, <2>1, <2>4
  <2>13. /\ acceptance'[r].step = "bought" /\ acceptance'[r].sale = n
         /\ acceptance'[r].on = a /\ acceptance'[r].key = key
         /\ \A q \in Requests : q # r => acceptance'[q] = acceptance[q]
    BY <1>3, <2>1, <2>4
  <2> HIDE DEF a, key, kept, left, sale, new
  <2>14. /\ sales' \in Seq(Sale) /\ Len(sales') = n
         /\ \A s \in DOMAIN sales : sales'[s] = kept[s]
         /\ sales'[n] = sale
    BY <2>1, <2>3, <2>4, AppendProperties, StandbyFields
  <2>15. DOMAIN sales' = DOMAIN sales \cup {n}
    BY <2>14, StandbyFields, LenProperties
  <2>16. /\ applications' \in Seq(Application) /\ Len(applications') = Len(applications)
         /\ DOMAIN applications' = DOMAIN applications
         /\ \A b \in DOMAIN applications : applications'[b] = IF b = a THEN new ELSE left[b]
    BY <1>1, <2>3, <2>6, <2>7, ExceptSeq
  <2>17. StandbyTypeOK'
    BY <1>1, <2>12, <2>14, <2>16 DEF StandbyTypeOK, Sale, Calls
  <2> HIDE DEF n
  <2>18. \A b, c \in OpenApplications' : b = c
    <3>1. \A b \in DOMAIN applications :
            b # a => applications[b].state \notin OpenStates /\ applications'[b] = left[b]
      BY <2>10, <2>16
    <3>2. \A b \in DOMAIN applications : b # a => applications'[b].state \notin OpenStates
      BY <2>3, <3>1 DEF OpenStates
    <3> QED
      BY <2>16, <3>2 DEF OpenApplications
  <2>19. \A s, t \in DOMAIN sales' : Unresolved(s)' /\ Unresolved(t)' => s = t
    BY <2>11, <2>14, <2>15 DEF Unresolved
  <2>20. ASSUME NEW s \in DOMAIN sales'
         PROVE  LET b == sales'[s].offer IN
                /\ b \in DOMAIN applications
                /\ applications'[b].offer.state = "checkout_open" /\ applications'[b].offer.sale = s
                /\ applications'[b].offer.key = sales'[s].key
                /\ applications'[b].state = IF sales'[s].state = "awaiting_payment"
                                            THEN "checkout_open" ELSE "completed"
    <3>1. CASE s = n
      BY <1>1, <2>8, <2>14, <2>16, <3>1
    <3>2. CASE s \in DOMAIN sales
      <4>1. sales'[s].offer = sales[s].offer /\ sales'[s].key = sales[s].key
        BY <2>3, <2>14, <3>2
      <4>2. sales'[s].state # "awaiting_payment" /\ sales[s].state # "awaiting_payment"
        BY <2>11, <2>14, <3>2
      <4>3. sales[s].offer \in DOMAIN applications /\ sales[s].offer # a
        BY <2>9, <3>2
      <4>4. applications'[sales[s].offer] = left[sales[s].offer]
        BY <2>16, <4>3
      <4> QED
        BY <2>3, <2>10, <3>2, <4>1, <4>2, <4>3, <4>4
    <3> QED
      BY <2>15, <3>1, <3>2
  <2>21. ASSUME NEW b \in DOMAIN applications'
         PROVE  /\ OfferOf(b)'.state = "checkout_open" =>
                     OfferOf(b)'.sale \in DOMAIN sales' /\ sales'[OfferOf(b)'.sale].offer = b
                /\ applications'[b].state = "checkout_open" => OfferOf(b)'.state = "checkout_open"
                /\ OfferOf(b)'.state = "accepting" /\ ~erased' => applications'[b].state = "offered"
    <3>1. CASE b = a
      BY <1>1, <2>8, <2>14, <2>15, <2>16, <3>1 DEF OfferOf
    <3>2. CASE b # a
      <4>1. applications'[b] = left[b] /\ b \in DOMAIN applications
        BY <2>16, <3>2
      <4>2. applications[b].state \notin OpenStates
        BY <2>10, <3>2, <4>1
      <4>3. /\ applications'[b].offer = applications[b].offer
            /\ applications'[b].state # "checkout_open"
        BY <2>3, <4>1, <4>2 DEF OpenStates
      <4>4. applications[b].offer.state = "accepting" => FALSE
        BY <1>1, <4>1, <4>2 DEF Links, OfferOf, OpenStates
      <4>5. ASSUME applications[b].offer.state = "checkout_open"
            PROVE  LET s == applications'[b].offer.sale IN s \in DOMAIN sales' /\ sales'[s].offer = b
        BY <2>3, <2>10, <2>14, <2>15, <4>1, <4>3, <4>5
      <4> QED
        BY <4>3, <4>4, <4>5 DEF OfferOf
    <3> QED
      BY <3>1, <3>2
  <2>22. OfferHonoured'
    BY <2>18, <2>19, <2>20, <2>21 DEF OfferHonoured, OfferOf, Unresolved
  <2>23. Links'
    BY <2>16, <2>20, <2>21 DEF Links
  <2>24. Remembers(r)'
    BY <1>1, <2>8, <2>13, <2>14, <2>15, <2>16 DEF Remembers
  <2>25. /\ DOMAIN applications \subseteq DOMAIN applications' /\ DOMAIN sales \subseteq DOMAIN sales'
         /\ \A s \in DOMAIN sales : sales'[s].offer = sales[s].offer /\ sales'[s].key = sales[s].key
         /\ \A q \in Requests : acceptance'[q] = acceptance[q] \/ Remembers(q)'
    BY <2>3, <2>13, <2>14, <2>15, <2>16, <2>24
  <2>26. Remembered'
    BY <2>25, StillRemembered
  <2> QED
    BY <2>17, <2>22, <2>23, <2>26
<1> QED
  BY <1>4, <1>5

(* Every step keeps offers, applications and purchases together. *)
LEMMA StandbyInvStep ==
  ASSUME StandbyInv, [StandbyNext]_standbyVars PROVE StandbyInv'
<1>1. CASE UNCHANGED standbyVars
  BY <1>1 DEF standbyVars, StandbyInv, StandbySafe, StandbyTypeOK, OfferHonoured, Links, Remembered,
       Remembers, OpenApplications, OfferOf, Unresolved
<1>2. CASE StandbyNext
  BY <1>2, QuietKept, EndKept, JoinKept, OffersKept, EraseKept, BuyKept, ReleaseKept, RecordKept
  DEF StandbyNext
<1> QED
  BY <1>1, <1>2

(* Whichever acceptances, retries, refusals, expiries, payments, withdrawals and closures
   cross: a purchase and the offer it was made from name each other and carry one key, its
   application is open for checkout exactly as long as it is unresolved, and a rider has one
   open application and one unresolved purchase at most (membership/standby.ts,
   complete_standby_checkout). *)
THEOREM OffersAreHonoured == StandbySpec => []StandbySafe
<1>1. StandbyInv => StandbySafe
  BY DEF StandbyInv
<1> QED
  BY <1>1, StandbyStarts, StandbyInvStep, PTL DEF StandbySpec
=============================================================================
