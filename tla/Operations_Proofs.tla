------------------------- MODULE Operations_Proofs -------------------------
(***************************************************************************)
(* Theorems about what background workers and operators do beside the      *)
(* riders: the closing of periods, refunds that are asked for, the no-show *)
(* sweeps of the scheduler and the renewal runs, for any riders, operators,*)
(* seats, runs and bounds.                                                 *)
(*                                                                         *)
(* Which run may charge which attempt of a renewal is nowhere locked; it   *)
(* follows from the tries and the purchase in the row (Past), which only   *)
(* ever name a newer attempt, and from the ten minutes that no claim lasts.*)
(***************************************************************************)
EXTENDS FiniteSets, FiniteSetTheorems, Scheduler, RefundIntents, PeriodClosing, AutoRenewal,
        FiniteSums, SequenceTheorems, TLAPS

-----------------------------------------------------------------------------
(* Periods *)

(* Where periods are converted nothing else changes that the invariant     *)
(* reads, and elsewhere the periods do not.                                *)
PeriodsSafe ==
  /\ periodState \in [Riders -> {"open", "closed"}] /\ closures \in [Riders -> Nat]
  /\ ConvertedOnce
OthersTyped ==
  /\ today \in 0 .. Horizon
  /\ gone \subseteq Erasable /\ blocked \subseteq Disputed /\ DOMAIN batch = Closers
ClosingInv == PeriodsSafe /\ OthersTyped

(* Closing a period that is open under the lock converts it for the first  *)
(* time.  Nothing is assumed of r: what is no rider has no period.         *)
LEMMA ClosesOpenPeriod ==
  ASSUME PeriodsSafe, NEW r, periodState[r] = "open", CloseOne(r)
  PROVE  PeriodsSafe'
<1>1. CASE r \in Riders
  BY <1>1 DEF PeriodsSafe, ConvertedOnce, CloseOne
<1>2. CASE r \notin Riders
  BY <1>2 DEF PeriodsSafe, ConvertedOnce, CloseOne
<1> QED
  BY <1>1, <1>2

(* What leaves periods and closures alone keeps what is said of them.      *)
LEMMA ClosingFrame ==
  ASSUME PeriodsSafe, UNCHANGED <<periodState, closures>> PROVE PeriodsSafe'
BY DEF PeriodsSafe, ConvertedOnce

(* A run closes what it listed only after it re-read the period.           *)
LEMMA RunKeepsPeriods == ASSUME ClosingInv, NEW closer \in Closers, CloserStep(closer) PROVE ClosingInv'
<1>1. OthersTyped'
  BY DEF ClosingInv, OthersTyped, CloserStep, Start, Abort, CloseNext, Finish
<1>2. CASE Start(closer) \/ Abort(closer) \/ Finish(closer)
  BY <1>1, <1>2, ClosingFrame DEF ClosingInv, Start, Abort, Finish
<1>3. CASE CloseNext(closer)
  <2> DEFINE r == Head(batch[closer])
  <2>1. CASE StillOpen(r) /\ r \notin Malformed \cup blocked
    BY <1>1, <1>3, <2>1, ClosesOpenPeriod DEF ClosingInv, CloseNext, StillOpen
  <2>2. CASE ~(StillOpen(r) /\ r \notin Malformed \cup blocked)
    BY <1>1, <1>3, <2>2, ClosingFrame DEF ClosingInv, CloseNext
  <2> QED
    BY <2>1, <2>2
<1> QED
  BY <1>2, <1>3 DEF CloserStep

(* Every step keeps the invariant.                                         *)
LEMMA ClosingInvStep == ASSUME ClosingInv, [ClosingNext]_closingVars PROVE ClosingInv'
<1>1. CASE UNCHANGED closingVars
  <2>1. OthersTyped'
    BY <1>1 DEF ClosingInv, OthersTyped, closingVars
  <2> QED
    BY <1>1, <2>1, ClosingFrame DEF ClosingInv, closingVars
<1>2. CASE NextDay
  <2>1. OthersTyped'
    BY <1>2, ClosingAssumption DEF ClosingInv, OthersTyped, NextDay, ClosingAssumption
  <2> QED
    BY <1>2, <2>1, ClosingFrame DEF ClosingInv, NextDay
<1>3. ASSUME NEW r \in Riders, Erase(r) \/ Block(r) \/ Unblock(r)
      PROVE  ClosingInv'
  <2>1. OthersTyped'
    BY <1>3 DEF ClosingInv, OthersTyped, Erase, Block, Unblock
  <2> QED
    BY <1>3, <2>1, ClosingFrame DEF ClosingInv, Erase, Block, Unblock
<1>4. ASSUME NEW r \in Riders, CheckoutOwn(r)
      PROVE  ClosingInv'
  <2>1. OthersTyped'
    BY <1>4 DEF ClosingInv, OthersTyped, CheckoutOwn
  <2> QED
    BY <1>4, <2>1, ClosesOpenPeriod DEF ClosingInv, CheckoutOwn
<1>5. ASSUME NEW closer \in Closers, CloserStep(closer)
      PROVE  ClosingInv'
  BY <1>5, RunKeepsPeriods
<1> QED
  BY <1>1, <1>2, <1>3, <1>4, <1>5 DEF ClosingNext

(* However many runs and checkouts listed a period before one of them      *)
(* closed it (foundation.ts:578 re-reads it under the rider's lock), its   *)
(* unused rides become credit once.                                        *)
THEOREM EveryPeriodConvertedOnce == ClosingSpec => []ClosingSafe
<1>1. ClosingInit => ClosingInv
  BY ClosingAssumption
  DEF ClosingAssumption, ClosingInit, ClosingInv, PeriodsSafe, OthersTyped, ConvertedOnce
<1>2. ClosingInv /\ [ClosingNext]_closingVars => ClosingInv'
  BY ClosingInvStep
<1>3. ClosingInv => ClosingSafe
  BY DEF ClosingInv, PeriodsSafe, OthersTyped, ClosingSafe, ClosingTypeOK
<1> QED
  BY <1>1, <1>2, <1>3, PTL DEF ClosingSpec

-----------------------------------------------------------------------------
(* Refunds *)

Row == [state : States, by : Admins, key : CallKeys, amount : 1 .. Paid, id : 0 .. MaxRefunds]
Call == [step : Steps, told : States, id : 0 .. MaxRefunds]
Refund == [amount : 1 .. Paid, state : {"pending", "failed"}, ours : BOOLEAN]

(* AskedOnce and AcceptedWasMade rest on this: the call that committed the intent is the only
   one between its three steps, and as long as it has not asked the provider nobody has. *)
Ours(i) == made[i].ours
Alone(o) == \A q \in Admins : q # o => request[q].step = "idle"
Unasked == posts = 0 /\ \A i \in DOMAIN made : ~Ours(i)
OneAsker ==
  /\ intent = NoIntent => Unasked /\ \A o \in Admins : request[o].step = "idle"
  /\ intent # NoIntent => intent.state # "none"
  /\ \A o \in Admins :
       /\ request[o].step # "idle" => Alone(o) /\ intent.state = "submitting"
       /\ request[o].step = "committed" => Unasked
       /\ request[o].step = "answered" =>
            LET i == request[o].id IN i = 0 \/ (i \in DOMAIN made /\ Ours(i))
  /\ \A i \in DOMAIN made : Ours(i) => posts = 1 /\ made[i].amount = intent.amount
RefundsInv == RefundsSafe /\ OneAsker

(* No refund was asked for. *)
LEMMA RefundsStart == RefundsInit => RefundsInv
<1> SUFFICES ASSUME RefundsInit PROVE RefundsInv
  OBVIOUS
<1>1. /\ made = <<>> /\ DOMAIN made = {} /\ Len(made) = 0 /\ made \in Seq(Refund)
      /\ posts = 0 /\ intent = NoIntent /\ intent.state = "none"
  BY EmptySeq DEF RefundsInit, NoIntent
<1>2. 0 \in 0 .. MaxRefunds /\ 0 <= MaxRefunds
  BY RefundsAssumption
<1>3. \A o \in Admins : request[o] = Untold
  BY DEF RefundsInit
<1>4. request \in [Admins -> Call]
  BY <1>2 DEF RefundsInit, Untold, Call, Steps, States
<1>5. RefundsTypeOK
  BY <1>1, <1>2, <1>4 DEF RefundsInit, RefundsTypeOK, Refund, Call
<1>6. AskedOnce /\ AcceptedWasMade
  BY <1>1, <1>3 DEF AskedOnce, AcceptedWasMade, Untold
<1>7. OneAsker
  BY <1>1, <1>3 DEF OneAsker, Unasked, Untold
<1> QED
  BY <1>5, <1>6, <1>7 DEF RefundsInv, RefundsSafe

(* The types, by name *)
LEMMA RefundFields ==
  ASSUME RefundsTypeOK
  PROVE  /\ request \in [Admins -> Call] /\ intent \in {NoIntent} \cup Row
         /\ made \in Seq(Refund) /\ Len(made) \in Nat /\ DOMAIN made = 1 .. Len(made)
         /\ \A i \in DOMAIN made : made[i] \in Refund
         /\ MaxRefunds \in Nat /\ Paid \in Nat
<1>1. made \in Seq(Refund)
  BY DEF RefundsTypeOK, Refund
<1> QED
  BY <1>1, RefundsAssumption, LenProperties, ElementOfSeq DEF RefundsTypeOK, Call, Row

(* The first call commits the intent; every later one is told about it. *)
LEMMA InitiateKept ==
  ASSUME RefundsInv, NEW o \in Admins, NEW k \in CallKeys, NEW a \in 1 .. Paid, Initiate(o, k, a)
  PROVE  RefundsInv'
<1> USE DEF RefundsInv, RefundsSafe
<1>1. request[o].step = "idle" /\ UNCHANGED <<made, booked, posts>>
  BY DEF Initiate
<1>2. 0 \in 0 .. MaxRefunds
  BY RefundsAssumption
<1>3. CASE intent = NoIntent
  <2> DEFINE entry == [state |-> "submitting", by |-> o, key |-> k, amount |-> a, id |-> 0]
  <2>1. intent' = entry /\ request' = [request EXCEPT ![o] = Committed]
    BY <1>3 DEF Initiate, Asks
  <2>2. entry \in Row /\ entry.state = "submitting" /\ entry # NoIntent
    BY <1>2 DEF Row, States, NoIntent
  <2>3. Committed \in Call /\ Committed.step = "committed" /\ Committed.told = "none"
    BY <1>2 DEF Committed, Call, Steps, States
  <2> HIDE DEF entry
  <2>4. /\ request' \in [Admins -> Call] /\ request'[o] = Committed
        /\ \A q \in Admins : q # o => request'[q] = request[q]
    BY <2>1, <2>3, RefundFields
  <2>5. RefundsTypeOK'
    BY <1>1, <2>1, <2>2, <2>4 DEF RefundsTypeOK, Row, Call
  <2>6. AskedOnce'
    BY <1>1 DEF AskedOnce
  <2>7. intent.state = "none"
    BY <1>3 DEF NoIntent
  <2>8. AcceptedWasMade'
    BY <1>1, <2>1, <2>2, <2>3, <2>4, <2>7 DEF AcceptedWasMade
  <2>9. OneAsker'
    BY <1>1, <1>3, <2>1, <2>2, <2>3, <2>4 DEF OneAsker, Unasked, Alone, Ours
  <2> QED
    BY <2>5, <2>6, <2>8, <2>9
<1>4. CASE intent # NoIntent
  <2>1. intent' = intent /\ request' = [request EXCEPT ![o] = Told(intent)]
    BY <1>4 DEF Initiate, Asks
  <2>2. /\ Told(intent) \in Call /\ Told(intent).step = "idle"
        /\ Told(intent).told = intent.state /\ Told(intent).id = intent.id
    BY <1>4, RefundFields DEF Told, Call, Row, Steps
  <2>3. /\ request' \in [Admins -> Call] /\ request'[o] = Told(intent)
        /\ \A q \in Admins : q # o => request'[q] = request[q]
    BY <2>1, <2>2, RefundFields
  <2>4. RefundsTypeOK'
    BY <1>1, <2>1, <2>3 DEF RefundsTypeOK, Call
  <2>5. AskedOnce' /\ AcceptedWasMade'
    BY <1>1, <2>1, <2>2, <2>3 DEF AskedOnce, AcceptedWasMade
  <2>6. OneAsker'
    BY <1>1, <1>4, <2>1, <2>2, <2>3 DEF OneAsker, Unasked, Alone, Ours
  <2> QED
    BY <2>4, <2>5, <2>6
<1> QED
  BY <1>3, <1>4

(* A refund the provider makes is the last of its list. *)
LEMMA MakeAppends ==
  ASSUME RefundsTypeOK, NEW a \in 1 .. Paid, NEW ours \in BOOLEAN, Make(a, ours)
  PROVE  LET n == Len(made) + 1 IN
         /\ made' \in Seq(Refund) /\ Len(made') = n /\ Len(made') <= MaxRefunds
         /\ n \notin DOMAIN made /\ DOMAIN made' = DOMAIN made \cup {n} /\ n \in 0 .. MaxRefunds
         /\ \A i \in DOMAIN made : made'[i] = made[i]
         /\ made'[n].ours = ours /\ made'[n].amount = a
<1> DEFINE new == [amount |-> a, state |-> "pending", ours |-> ours]
<1>1. new \in Refund /\ new.ours = ours /\ new.amount = a
  BY DEF Refund
<1>2. made' = Append(made, new) /\ Len(made) < MaxRefunds
  BY DEF Make
<1> HIDE DEF new
<1>3. /\ made' \in Seq(Refund) /\ Len(made') = Len(made) + 1
      /\ \A i \in 1 .. Len(made) : made'[i] = made[i]
      /\ made'[Len(made) + 1] = new
  BY <1>1, <1>2, RefundFields, AppendProperties
<1>4. DOMAIN made' = 1 .. Len(made) + 1
  BY <1>3, LenProperties
<1> QED
  BY <1>1, <1>2, <1>3, <1>4, RefundFields

(* Whatever keeps the intent, the calls and the posts, and adds no refund of ours *)
LEMMA ProviderKept ==
  ASSUME RefundsInv, UNCHANGED <<intent, request, posts>>, made' \in Seq(Refund),
         Len(made') <= MaxRefunds, booked' \in [1 .. MaxRefunds -> {"none", "pending", "failed"}],
         DOMAIN made \subseteq DOMAIN made',
         \A i \in DOMAIN made : made'[i].ours = made[i].ours /\ made'[i].amount = made[i].amount,
         \A i \in DOMAIN made' : made'[i].ours => i \in DOMAIN made
  PROVE  RefundsInv'
<1> USE DEF RefundsInv, RefundsSafe
<1>1. RefundsTypeOK'
  BY DEF RefundsTypeOK, Refund
<1>2. AskedOnce'
  BY DEF AskedOnce
<1>3. AcceptedWasMade'
  BY DEF AcceptedWasMade
<1>4. OneAsker'
  BY DEF OneAsker, Unasked, Alone, Ours
<1> QED
  BY <1>1, <1>2, <1>3, <1>4

(* Refunds made on the provider's pages, failures, and the facts that are booked *)
LEMMA OthersKept ==
  ASSUME RefundsInv,
         \/ \E a \in 1 .. Paid : MakeOther(a)
         \/ \E i \in DOMAIN made : FailRefund(i) \/ Book(i)
  PROVE  RefundsInv'
<1> USE DEF RefundsInv, RefundsSafe
<1>1. ASSUME NEW a \in 1 .. Paid, MakeOther(a) PROVE RefundsInv'
  <2>1. Make(a, FALSE) /\ UNCHANGED <<intent, request, booked, posts>>
    BY <1>1 DEF MakeOther
  <2>2. LET n == Len(made) + 1 IN
        /\ made' \in Seq(Refund) /\ Len(made') = n /\ Len(made') <= MaxRefunds
        /\ n \notin DOMAIN made /\ DOMAIN made' = DOMAIN made \cup {n} /\ n \in 0 .. MaxRefunds
        /\ \A i \in DOMAIN made : made'[i] = made[i]
        /\ made'[n].ours = FALSE /\ made'[n].amount = a
    BY <2>1, MakeAppends
  <2>3. booked' \in [1 .. MaxRefunds -> {"none", "pending", "failed"}]
    BY <2>1 DEF RefundsTypeOK
  <2> QED
    BY <2>1, <2>2, <2>3, ProviderKept
<1>2. ASSUME NEW i \in DOMAIN made, FailRefund(i) PROVE RefundsInv'
  <2> DEFINE new == [made[i] EXCEPT !.state = "failed"]
  <2>1. made' = [made EXCEPT ![i] = new] /\ UNCHANGED <<intent, request, booked, posts>>
    BY <1>2 DEF FailRefund
  <2>2. made[i] \in Refund
    BY RefundFields
  <2>3. new \in Refund /\ new.ours = made[i].ours /\ new.amount = made[i].amount
    BY <2>2 DEF Refund
  <2> HIDE DEF new
  <2>4. /\ made' \in Seq(Refund) /\ Len(made') = Len(made) /\ DOMAIN made' = DOMAIN made
        /\ \A j \in DOMAIN made : made'[j] = IF j = i THEN new ELSE made[j]
    BY <2>1, <2>3, RefundFields, ExceptSeq
  <2>5. /\ booked' \in [1 .. MaxRefunds -> {"none", "pending", "failed"}]
        /\ Len(made') <= MaxRefunds
    BY <2>1, <2>4 DEF RefundsTypeOK
  <2> QED
    BY <2>1, <2>3, <2>4, <2>5, ProviderKept
<1>3. ASSUME NEW i \in DOMAIN made, Book(i) PROVE RefundsInv'
  <2>1. made[i].state \in {"pending", "failed"}
    BY RefundFields DEF Refund
  <2>2. UNCHANGED <<intent, request, made, posts>> /\ booked' = [booked EXCEPT ![i] = made[i].state]
    BY <1>3 DEF Book
  <2>3. booked' \in [1 .. MaxRefunds -> {"none", "pending", "failed"}]
    BY <2>1, <2>2 DEF RefundsTypeOK
  <2>4. made' \in Seq(Refund) /\ Len(made') <= MaxRefunds
    BY <2>2 DEF RefundsTypeOK, Refund
  <2> QED
    BY <2>2, <2>3, <2>4, ProviderKept
<1> QED
  BY <1>1, <1>2, <1>3

(* The only request to the provider: whoever sends it is alone with the intent. *)
LEMMA PostKept == ASSUME RefundsInv, NEW o \in Admins, Post(o) PROVE RefundsInv'
<1> USE DEF RefundsInv, RefundsSafe
<1>1. /\ request[o].step = "committed" /\ posts' = posts + 1 /\ UNCHANGED <<intent, booked>>
      /\ Alone(o) /\ intent.state = "submitting" /\ Unasked /\ intent # NoIntent
  BY DEF Post, OneAsker
<1>2. intent \in Row /\ intent.amount \in 1 .. Paid /\ 0 \in 0 .. MaxRefunds
  BY <1>1, RefundFields DEF Row
<1>3. posts' = 1
  BY <1>1 DEF Unasked
<1>4. PICK i \in 0 .. MaxRefunds :
        /\ request' = [request EXCEPT ![o] = Answered(i)]
        /\ i = 0 \/ (i \in DOMAIN made' /\ made'[i].ours)
        /\ made' \in Seq(Refund) /\ Len(made') <= MaxRefunds
        /\ \A j \in DOMAIN made' : made'[j].ours => made'[j].amount = intent.amount
        /\ \A j, k \in DOMAIN made' : made'[j].ours /\ made'[k].ours => j = k
  <2>1. CASE Make(intent.amount, TRUE) /\ \E i \in {0, Len(made')} :
               request' = [request EXCEPT ![o] = Answered(i)]
    <3>1. LET n == Len(made) + 1 IN
          /\ made' \in Seq(Refund) /\ Len(made') = n /\ Len(made') <= MaxRefunds
          /\ n \notin DOMAIN made /\ DOMAIN made' = DOMAIN made \cup {n} /\ n \in 0 .. MaxRefunds
          /\ \A j \in DOMAIN made : made'[j] = made[j]
          /\ made'[n].ours = TRUE /\ made'[n].amount = intent.amount
      BY <1>2, <2>1, MakeAppends
    <3>2. \A j \in DOMAIN made : ~made'[j].ours
      BY <1>1, <3>1 DEF Unasked, Ours
    <3>3. PICK i \in {0, Len(made')} : request' = [request EXCEPT ![o] = Answered(i)]
      BY <2>1
    <3>4. i \in 0 .. MaxRefunds /\ (i = 0 \/ (i \in DOMAIN made' /\ made'[i].ours))
      BY <1>2, <3>1, <3>3
    <3> QED
      BY <3>1, <3>2, <3>3, <3>4
  <2>2. CASE UNCHANGED made /\ request' = [request EXCEPT ![o] = Answered(0)]
    BY <1>1, <1>2, <2>2 DEF RefundsTypeOK, Refund, Unasked, Ours
  <2> QED
    BY <2>1, <2>2 DEF Post
<1>5. Answered(i) \in Call /\ Answered(i).step = "answered" /\ Answered(i).told = "none"
      /\ Answered(i).id = i
  BY DEF Answered, Call, Steps, States
<1>6. /\ request' \in [Admins -> Call] /\ request'[o] = Answered(i)
      /\ \A q \in Admins : q # o => request'[q] = request[q]
  BY <1>4, <1>5, RefundFields
<1>7. RefundsTypeOK'
  BY <1>1, <1>3, <1>4, <1>6 DEF RefundsTypeOK, Refund, Call
<1>8. AskedOnce'
  BY <1>3, <1>4 DEF AskedOnce
<1>9. AcceptedWasMade'
  BY <1>1, <1>5, <1>6 DEF AcceptedWasMade
<1>10. OneAsker'
  BY <1>1, <1>3, <1>4, <1>5, <1>6 DEF OneAsker, Alone, Ours
<1> QED
  BY <1>7, <1>8, <1>9, <1>10

(* The answer is noted on an intent that nobody else has touched. *)
LEMMA NoteKept == ASSUME RefundsInv, NEW o \in Admins, Note(o) PROVE RefundsInv'
<1> USE DEF RefundsInv, RefundsSafe
<1> DEFINE i == request[o].id
           entry == Noted(i)
<1>1. /\ request[o].step = "answered" /\ UNCHANGED <<made, booked, posts>>
      /\ intent' = entry /\ request' = [request EXCEPT ![o] = Told(entry)]
      /\ Alone(o) /\ intent.state = "submitting" /\ intent # NoIntent
      /\ i = 0 \/ (i \in DOMAIN made /\ Ours(i))
  BY DEF Note, OneAsker
<1>2. intent \in Row /\ i \in 0 .. MaxRefunds
  BY <1>1, RefundFields DEF Call
<1>3. /\ entry \in Row /\ entry.id = i /\ entry.amount = intent.amount
      /\ entry.state = IF i = 0 THEN "unknown" ELSE "accepted"
  BY <1>1, <1>2 DEF Noted, Row, States
<1> HIDE DEF entry, i
<1>4. /\ Told(entry) \in Call /\ Told(entry).step = "idle" /\ Told(entry).told = entry.state
      /\ Told(entry).id = i
  BY <1>3 DEF Told, Call, Row, Steps
<1>5. /\ request' \in [Admins -> Call] /\ request'[o] = Told(entry)
      /\ \A q \in Admins : q # o => request'[q] = request[q]
  BY <1>1, <1>4, RefundFields
<1>6. RefundsTypeOK'
  BY <1>1, <1>3, <1>5 DEF RefundsTypeOK, Row, Call
<1>7. AskedOnce'
  BY <1>1 DEF AskedOnce
<1>8. entry.state = "accepted" => i \in DOMAIN made /\ made[i].ours /\ made[i].amount = entry.amount
  BY <1>1, <1>3 DEF OneAsker, Ours
<1>9. \A q \in Admins : q # o => request[q].told \notin {"accepted", "unknown"}
  BY <1>1 DEF AcceptedWasMade
<1>10. AcceptedWasMade'
  BY <1>1, <1>3, <1>4, <1>5, <1>8, <1>9 DEF AcceptedWasMade
<1>11. entry # NoIntent /\ entry.state # "none"
  BY <1>3 DEF NoIntent
<1>12. OneAsker'
  BY <1>1, <1>3, <1>4, <1>5, <1>11 DEF OneAsker, Alone, Ours, Unasked
<1> QED
  BY <1>6, <1>7, <1>10, <1>12

(* A process that dies has told nobody anything. *)
LEMMA DieKept == ASSUME RefundsInv, NEW o \in Admins, Die(o) PROVE RefundsInv'
<1> USE DEF RefundsInv, RefundsSafe
<1>1. request' = [request EXCEPT ![o] = Untold] /\ UNCHANGED <<intent, made, booked, posts>>
  BY DEF Die
<1>2. Untold \in Call /\ Untold.step = "idle" /\ Untold.told = "none"
  BY RefundsAssumption DEF Untold, Call, Steps, States
<1>3. /\ request' \in [Admins -> Call] /\ request'[o] = Untold
      /\ \A q \in Admins : q # o => request'[q] = request[q]
  BY <1>1, <1>2, RefundFields
<1>4. RefundsTypeOK'
  BY <1>1, <1>3 DEF RefundsTypeOK, Call
<1>5. AskedOnce' /\ AcceptedWasMade'
  BY <1>1, <1>2, <1>3 DEF AskedOnce, AcceptedWasMade
<1>6. OneAsker'
  BY <1>1, <1>2, <1>3 DEF OneAsker, Unasked, Alone, Ours
<1> QED
  BY <1>4, <1>5, <1>6

(* Every step of operators and the provider *)
LEMMA RefundsInvStep ==
  ASSUME RefundsInv, [RefundsNext]_refundVars PROVE RefundsInv'
<1>1. CASE UNCHANGED refundVars
  <2>1. RefundsTypeOK'
    BY <1>1 DEF refundVars, RefundsInv, RefundsSafe, RefundsTypeOK
  <2>2. AskedOnce' /\ AcceptedWasMade'
    BY <1>1 DEF refundVars, RefundsInv, RefundsSafe, AskedOnce, AcceptedWasMade
  <2>3. OneAsker'
    BY <1>1 DEF refundVars, RefundsInv, OneAsker, Unasked, Alone, Ours
  <2> QED
    BY <2>1, <2>2, <2>3 DEF RefundsInv, RefundsSafe
<1>2. CASE RefundsNext
  BY <1>2, InitiateKept, PostKept, NoteKept, DieKept, OthersKept DEF RefundsNext
<1> QED
  BY <1>1, <1>2

(* Whatever operators call, repeat and lose to crashes between the commit, the request and the
   note (payments/refunds.ts): the provider is asked once, and who is told that a refund was
   accepted may rely on it. *)
THEOREM RefundsAskedOnce == RefundsSpec => []RefundsSafe
<1>1. RefundsInv => RefundsSafe
  BY DEF RefundsInv
<1> QED
  BY <1>1, RefundsStart, RefundsInvStep, PTL DEF RefundsSpec

-----------------------------------------------------------------------------
(* The no-show sweeps *)

(* A list with one more entry *)
LEMMA Appended ==
  ASSUME NEW S, NEW list \in Seq(S), NEW e \in S
  PROVE  LET n == Len(list) + 1
             longer == Append(list, e)
         IN /\ longer \in Seq(S) /\ Len(longer) = n /\ n \in Nat /\ n \notin DOMAIN list
            /\ DOMAIN longer = DOMAIN list \cup {n} /\ longer[n] = e
            /\ \A i \in DOMAIN list : longer[i] = list[i]
<1> DEFINE longer == Append(list, e)
<1>1. Len(list) \in Nat /\ DOMAIN list = 1 .. Len(list)
  BY LenProperties
<1>2. /\ longer \in Seq(S) /\ Len(longer) = Len(list) + 1
      /\ \A i \in 1 .. Len(list) : longer[i] = list[i]
      /\ longer[Len(list) + 1] = e
  BY AppendProperties
<1>3. DOMAIN longer = 1 .. Len(list) + 1
  BY <1>2, LenProperties
<1> HIDE DEF longer
<1> QED
  BY <1>1, <1>2, <1>3 DEF longer

JobKey == {"no-shows", "no-shows-catch-up"} \X Nat
Run == [key : JobKey, at : Nat, outcome : {None, "failed", "completed"}]
Activity == [at : {"down", "waits", "chooses", "starts", "works", "ends"},
             conn : {"up", "cut", "noticed"}, todo : Seq(JobKey), run : Nat, pass : Nat,
             failed : BOOLEAN]
CatchUp == SlotKey("no-shows-catch-up", 0)
Settled == unsettled \subseteq Stuck

(* A replica that is not down or waiting thinks it is elected; the catch-up of a day is only
   listed once the day is over, and a run of it ends well only when nothing was left. *)
Todo(r) ==
  /\ \A n \in DOMAIN replica[r].todo : replica[r].todo[n] = CatchUp => DayOf(part) > 0
  /\ replica[r].at \in {"starts", "works", "ends"} => replica[r].todo # <<>>
Running(r) ==
  replica[r].at \in {"works", "ends"} =>
    /\ replica[r].run \in DOMAIN runs
    /\ replica[r].at = "ends" /\ ~replica[r].failed /\ Key(r) = CatchUp => Settled
Holds(r) == Working(r) /\ replica[r].conn = "up" => elected = r
Honest(i) == runs[i].key = CatchUp =>
  DayOf(part) > 0 /\ (runs[i].outcome = "completed" => Settled)
SchedulerTypes ==
  /\ SchedulerTypeOK /\ replica \in [Replicas -> Activity] /\ runs \in Seq(Run)
SchedulerInv ==
  /\ SchedulerTypes
  /\ \A r \in Replicas : Todo(r) /\ Running(r) /\ Holds(r)
  /\ \A i \in DOMAIN runs : Honest(i)

(* A finite set of numbers that is not empty has a greatest and a least. *)
LEMMA Extremes ==
  ASSUME NEW S, IsFiniteSet(S)
  PROVE  S # {} /\ S \subseteq Int => /\ \E m \in S : \A n \in S : n <= m
                                     /\ \E m \in S : \A n \in S : m <= n
<1> DEFINE Bounded(s) == /\ \E m \in s : \A n \in s : n <= m
                         /\ \E m \in s : \A n \in s : m <= n
           Bad == {s \in SUBSET S : s # {} /\ s \subseteq Int /\ ~Bounded(s)}
<1> HIDE DEF Bounded
<1> SUFFICES ASSUME Bad # {} PROVE FALSE
  BY DEF Bounded
<1>1. Bad \subseteq SUBSET S
  OBVIOUS
<1>2. PICK A \in Bad : \A B \in Bad : ~(B \subseteq A /\ B # A)
  <2> HIDE DEF Bad
  <2> QED
    BY <1>1, SmallestSubset
<1>3. PICK x \in A : x \in Int
  OBVIOUS
<1>4. CASE A = {x}
  BY <1>3, <1>4 DEF Bounded
<1>5. CASE A # {x}
  <2> DEFINE B == A \ {x}
  <2>1. B # {} /\ B \in SUBSET S /\ B # A /\ B \subseteq A
    BY <1>3, <1>5
  <2>2. Bounded(B)
    BY <1>2, <2>1
  <2>3. PICK g \in B : \A n \in B : n <= g
    BY <2>2 DEF Bounded
  <2>4. PICK l \in B : \A n \in B : l <= n
    BY <2>2 DEF Bounded
  <2>5. A \subseteq Int /\ A = B \cup {x}
    BY <1>3
  <2>6. \E m \in A : \A n \in A : n <= m
    <3>1. CASE g <= x
      BY <2>3, <2>5, <3>1
    <3>2. CASE ~(g <= x)
      BY <2>3, <2>5, <3>2
    <3> QED
      BY <3>1, <3>2
  <2>7. \E m \in A : \A n \in A : m <= n
    <3>1. CASE x <= l
      BY <2>4, <2>5, <3>1
    <3>2. CASE ~(x <= l)
      BY <2>4, <2>5, <3>2
    <3> QED
      BY <3>1, <3>2
  <2> QED
    BY <2>6, <2>7 DEF Bounded
<1> QED
  BY <1>4, <1>5

(* A batch that is not full is all there is to sweep. *)
LEMMA LastBatch ==
  ASSUME SchedulerTypeOK, NEW key, ~Full(key)
  PROVE  Batch(key) = Sweepable(key)
<1> DEFINE S == Sweepable(key)
           Before(m) == {b \in S : b < m}
<1>1. S \subseteq Seats /\ S \in SUBSET Int /\ IsFiniteSet(S) /\ BatchLimit \in Nat
  <2>1. S \subseteq Seats
    BY DEF SchedulerTypeOK, Sweepable
  <2>2. Seats \subseteq Nat /\ IsFiniteSet(Seats) /\ BatchLimit \in Nat
    BY SchedulerAssumption
  <2>3. IsFiniteSet(S)
    <3> HIDE DEF S
    <3> QED
      BY <2>1, <2>2, FS_Subset
  <2> HIDE DEF S
  <2> QED
    BY <2>1, <2>2, <2>3
<1>2. Batch(key) = {s \in S : Cardinality(Before(s)) < BatchLimit}
  BY DEF Batch
<1> HIDE DEF S
<1>3. \A T \in SUBSET S : IsFiniteSet(T) /\ Cardinality(T) \in Nat
  BY <1>1, FS_Subset, FS_CardinalityType
<1> DEFINE B == Batch(key)
<1>4. B \in SUBSET S
  BY <1>2
<1>5. \A x \in S : x \in Int
  BY <1>1
<1>10. SUFFICES ASSUME S \ B # {} PROVE FALSE
  BY <1>4 DEF S
<1>6. PICK m \in S \ B : \A n \in S \ B : m <= n
  <2>1. S \ B \subseteq Int /\ IsFiniteSet(S \ B)
    BY <1>1, <1>3
  <2> HIDE DEF B
  <2> QED
    BY <1>10, <2>1, Extremes
<1>7. Before(m) \subseteq B /\ Cardinality(Before(m)) >= BatchLimit
  <2>1. Before(m) \subseteq B
    <3>1. ASSUME NEW b \in S, b < m PROVE b \in B
      <4>1. b \notin S \ B
        BY <1>6, <1>5, <3>1
      <4> QED
        BY <4>1
    <3> HIDE DEF B
    <3> QED
      BY <3>1
  <2>2. ~(Cardinality(Before(m)) < BatchLimit) /\ Cardinality(Before(m)) \in Nat
    BY <1>2, <1>3, <1>6
  <2> QED
    BY <1>1, <2>1, <2>2
<1>8. Cardinality(B) >= BatchLimit
  <2>1. Cardinality(Before(m)) <= Cardinality(B)
    BY <1>3, <1>4, <1>7, FS_Subset
  <2> QED
    BY <1>1, <1>3, <1>4, <1>7, <2>1
<1>9. Cardinality(B) <= BatchLimit
  <2>1. CASE B = {}
    BY <1>1, <2>1, FS_EmptySet
  <2>2. CASE B # {}
    <3>1. PICK g \in B : \A n \in B : n <= g
      <4>1. B \subseteq Int /\ IsFiniteSet(B)
        BY <1>1, <1>3, <1>4
      <4> HIDE DEF B
      <4> QED
        BY <2>2, <4>1, Extremes
    <3>2. B \subseteq Before(g) \cup {g} /\ g \notin Before(g)
      <4>1. g \in S /\ g \in Int
        BY <1>4, <1>5
      <4>2. ASSUME NEW b \in B PROVE b \in Before(g) \cup {g}
        <5>1. b \in S /\ b \in Int /\ b <= g
          BY <1>4, <1>5, <3>1
        <5> HIDE DEF B
        <5> QED
          BY <4>1, <5>1
      <4> HIDE DEF B
      <4> QED
        BY <4>1, <4>2
    <3>3. Cardinality(Before(g)) < BatchLimit
      BY <1>2, <3>1
    <3>4. IsFiniteSet(Before(g)) /\ Cardinality(Before(g)) \in Nat
      BY <1>3
    <3>5. /\ IsFiniteSet(Before(g) \cup {g})
          /\ Cardinality(Before(g) \cup {g}) = Cardinality(Before(g)) + 1
      BY <3>2, <3>4, FS_AddElement
    <3>6. Cardinality(B) <= Cardinality(Before(g)) + 1
      BY <3>2, <3>5, FS_Subset
    <3> QED
      BY <1>1, <1>3, <1>4, <3>3, <3>4, <3>6
  <2> QED
    BY <2>1, <2>2
<1> QED
  BY <1>1, <1>3, <1>4, <1>8, <1>9 DEF Full

(* The types, by name, and the clock *)
LEMMA SchedulerFields ==
  ASSUME SchedulerTypes
  PROVE  /\ part \in Nat /\ LastPart \in Nat /\ runs \in Seq(Run) /\ Len(runs) \in Nat
         /\ DOMAIN runs = 1 .. Len(runs) /\ \A i \in DOMAIN runs : runs[i] \in Run
         /\ \A r \in Replicas : replica[r] \in Activity
         /\ DayOf(part) \in Nat /\ (DayOf(part) > 0 <=> part >= 3)
<1>1. part \in Nat /\ LastPart \in Nat
  BY SchedulerAssumption DEF SchedulerTypes, SchedulerTypeOK
<1>2. DayOf(part) \in Nat /\ (DayOf(part) > 0 <=> part >= 3)
  BY <1>1 DEF DayOf
<1>3. runs \in Seq(Run) /\ \A r \in Replicas : replica[r] \in Activity
  BY DEF SchedulerTypes
<1> QED
  BY <1>1, <1>2, <1>3, LenProperties, ElementOfSeq

(* What one replica does, while the lock changes hands between it and nobody at most, runs keep
   their keys and seats are only ever settled: the others see no difference. *)
LEMMA OneReplica ==
  ASSUME SchedulerInv, NEW r \in Replicas, NEW new \in Activity,
         replica' = [replica EXCEPT ![r] = new],
         elected' = elected \/ (elected \in {r, None} /\ elected' \in {r, None}),
         part' = part, unsettled' \subseteq unsettled,
         runs' \in Seq(Run), Len(runs') <= MaxStarts, DOMAIN runs \subseteq DOMAIN runs',
         \A i \in DOMAIN runs : runs'[i].key = runs[i].key,
         \A i \in DOMAIN runs' : Honest(i)',
         Todo(r)', Running(r)', Holds(r)'
  PROVE  SchedulerInv'
<1>1. SchedulerTypes
  BY DEF SchedulerInv
<1>2. replica' \in [Replicas -> Activity] /\ \A q \in Replicas : q # r => replica'[q] = replica[q]
  BY <1>1 DEF SchedulerTypes
<1>3. SchedulerTypes'
  <2>1. \A q \in Replicas : replica'[q] \in Activity
    BY <1>2
  <2>2. elected' \in Replicas \cup {None}
    BY <1>1 DEF SchedulerTypes, SchedulerTypeOK
  <2>3. part' \in 0 .. LastPart /\ unsettled' \subseteq Seats
    BY <1>1 DEF SchedulerTypes, SchedulerTypeOK
  <2>4. SchedulerTypeOK'
    BY <2>1, <2>2, <2>3 DEF SchedulerTypeOK, Activity
  <2> QED
    BY <1>2, <2>4 DEF SchedulerTypes
<1>4. Settled => Settled'
  BY DEF Settled
<1>5. ASSUME NEW q \in Replicas, q # r PROVE Todo(q)' /\ Running(q)' /\ Holds(q)'
  <2>1. Todo(q) /\ Running(q) /\ Holds(q) /\ replica'[q] = replica[q]
    BY <1>2, <1>5 DEF SchedulerInv
  <2>2. Todo(q)'
    BY <2>1 DEF Todo
  <2>3. Running(q)'
    BY <1>4, <2>1 DEF Running, Key
  <2>4. Holds(q)'
    BY <1>5, <2>1, SchedulerAssumption DEF Holds, Working, ReplicaAt
  <2> QED
    BY <2>2, <2>3, <2>4
<1> QED
  BY <1>3, <1>5 DEF SchedulerInv

(* As before, when no run is recorded *)
LEMMA OneReplicaOnly ==
  ASSUME SchedulerInv, NEW r \in Replicas, NEW new \in Activity,
         replica' = [replica EXCEPT ![r] = new],
         elected' = elected \/ (elected \in {r, None} /\ elected' \in {r, None}),
         part' = part, unsettled' \subseteq unsettled, runs' = runs,
         Todo(r)', Running(r)', Holds(r)'
  PROVE  SchedulerInv'
<1>1. runs' \in Seq(Run) /\ Len(runs') <= MaxStarts
  BY DEF SchedulerInv, SchedulerTypes, SchedulerTypeOK
<1>2. \A i \in DOMAIN runs' : Honest(i)'
  BY DEF SchedulerInv, Honest, Settled
<1> QED
  BY <1>1, <1>2, OneReplica

(* A key is only listed in the morning after its day. *)
LEMMA GroupsListed ==
  ASSUME SchedulerTypes
  PROVE  /\ ScheduledGroups \in Seq(JobKey)
         /\ \A n \in DOMAIN ScheduledGroups : ScheduledGroups[n] = CatchUp => DayOf(part) > 0
<1> DEFINE date == DayOf(part)
           yesterday == SlotKey("no-shows-catch-up", date - 1)
           tonight == SlotKey("no-shows", date)
<1>1. date \in Nat
  BY SchedulerFields
<1> HIDE DEF date
<1>2. tonight \in JobKey /\ tonight # CatchUp /\ (date > 0 => yesterday \in JobKey)
  BY <1>1 DEF JobKey, CatchUp, SlotKey
<1> HIDE DEF yesterday, tonight
<1> DEFINE first == IF date > 0 THEN <<yesterday>> ELSE <<>>
           then == IF part % 3 > 0 THEN <<tonight>> ELSE <<>>
<1>3. ScheduledGroups = first \o then
  BY DEF ScheduledGroups, date, yesterday, tonight
<1>4. first \in Seq(JobKey) /\ Len(first) \in {0, 1} /\ (~(date > 0) => Len(first) = 0)
  BY <1>2
<1>5. then \in Seq(JobKey) /\ \A n \in 1 .. Len(then) : then[n] = tonight
  BY <1>2
<1> HIDE DEF first, then
<1>6. ScheduledGroups \in Seq(JobKey) /\ DOMAIN ScheduledGroups = 1 .. Len(first) + Len(then)
  BY <1>3, <1>4, <1>5, ConcatProperties, LenProperties
<1>7. ASSUME NEW n \in DOMAIN ScheduledGroups, ~(date > 0) PROVE ScheduledGroups[n] = tonight
  <2>1. Len(first) = 0 /\ Len(then) \in Nat
    BY <1>4, <1>5, <1>7, LenProperties
  <2>2. ScheduledGroups[n] = then[n] /\ n \in 1 .. Len(then)
    BY <1>3, <1>4, <1>5, <1>6, <2>1, ConcatProperties
  <2> QED
    BY <1>5, <2>2
<1> QED
  BY <1>2, <1>6, <1>7 DEF date

(* A replica becomes the elected one, or passes over a group that is not due, or takes one. *)
LEMMA ChoosingKept ==
  ASSUME SchedulerInv, NEW r \in Replicas, Elect(r) \/ Skip(r) \/ FindDue(r)
  PROVE  SchedulerInv'
<1>0. SchedulerTypes /\ replica[r] \in Activity /\ Todo(r) /\ Holds(r)
  BY SchedulerFields DEF SchedulerInv
<1>1. UNCHANGED <<part, unsettled, runs>>
  BY DEF Elect, Skip, FindDue
<1>2. CASE Elect(r)
  <2> DEFINE groups == ScheduledGroups
             new == [replica[r] EXCEPT !.at = "chooses", !.todo = groups]
  <2>1. /\ groups \in Seq(JobKey)
        /\ \A n \in DOMAIN groups : groups[n] = CatchUp => DayOf(part) > 0
    BY <1>0, GroupsListed
  <2>2. elected = None /\ elected' = r /\ replica' = [replica EXCEPT ![r] = new]
    BY <1>2, <1>0 DEF Elect, Activity
  <2> HIDE DEF groups
  <2>3. new \in Activity /\ new.at = "chooses" /\ new.todo = groups
    BY <1>0, <2>1 DEF Activity
  <2> HIDE DEF new
  <2>4. replica'[r] = new
    BY <1>0, <2>2 DEF SchedulerTypes
  <2>5. Todo(r)' /\ Running(r)'
    BY <1>1, <2>1, <2>3, <2>4 DEF Todo, Running
  <2>6. Holds(r)'
    BY <2>2 DEF Holds
  <2> QED
    BY <1>1, <2>2, <2>3, <2>5, <2>6, OneReplicaOnly
<1>3. CASE Skip(r)
  <2> DEFINE todo == replica[r].todo
             new == [replica[r] EXCEPT !.todo = Tail(todo)]
  <2>1. todo \in Seq(JobKey) /\ todo # <<>> /\ replica[r].at = "chooses"
    BY <1>0, <1>3 DEF Skip, ReplicaAt, Activity
  <2>2. elected' = elected /\ replica' = [replica EXCEPT ![r] = new]
    BY <1>3, <1>0 DEF Skip, Activity
  <2>3. /\ Tail(todo) \in Seq(JobKey)
        /\ \A n \in DOMAIN Tail(todo) : n + 1 \in DOMAIN todo /\ Tail(todo)[n] = todo[n + 1]
    <3> HIDE DEF todo
    <3> QED
      BY <2>1, HeadTailProperties, LenProperties
  <2>4. new \in Activity /\ new.at = "chooses" /\ new.conn = replica[r].conn /\ new.todo = Tail(todo)
    BY <1>0, <2>1, <2>3 DEF Activity
  <2> HIDE DEF new
  <2>5. replica'[r] = new
    BY <1>0, <2>2 DEF SchedulerTypes
  <2>6. Todo(r)' /\ Running(r)'
    BY <1>0, <1>1, <2>3, <2>4, <2>5 DEF Todo, Running
  <2>7. Holds(r)'
    BY <1>0, <2>1, <2>2, <2>4, <2>5 DEF Holds, Working, ReplicaAt
  <2> QED
    BY <1>1, <2>2, <2>4, <2>6, <2>7, OneReplicaOnly
<1>4. CASE FindDue(r)
  <2> DEFINE new == [replica[r] EXCEPT !.at = "starts"]
  <2>1. replica[r].todo # <<>> /\ replica[r].at = "chooses"
    BY <1>4 DEF FindDue, ReplicaAt
  <2>2. elected' = elected /\ replica' = [replica EXCEPT ![r] = new]
    BY <1>4, <1>0 DEF FindDue, Activity
  <2>3. /\ new \in Activity /\ new.at = "starts" /\ new.conn = replica[r].conn
        /\ new.todo = replica[r].todo
    BY <1>0 DEF Activity
  <2> HIDE DEF new
  <2>4. replica'[r] = new
    BY <1>0, <2>2 DEF SchedulerTypes
  <2>5. Todo(r)' /\ Running(r)'
    BY <1>0, <1>1, <2>1, <2>3, <2>4 DEF Todo, Running
  <2>6. Holds(r)'
    BY <1>0, <2>1, <2>2, <2>3, <2>4 DEF Holds, Working, ReplicaAt
  <2> QED
    BY <1>1, <2>2, <2>3, <2>5, <2>6, OneReplicaOnly
<1> QED
  BY <1>2, <1>3, <1>4

(* Passes settle seats.  The last one of a catch-up that ends well found every seat that was
   left, because by then every departure of the day is over. *)
LEMMA PassesKept ==
  ASSUME SchedulerInv, NEW r \in Replicas, Pass(r) \/ PassFails(r) \/ BreakOff(r)
  PROVE  SchedulerInv'
<1>0. SchedulerTypes /\ replica[r] \in Activity /\ Todo(r) /\ Running(r) /\ Holds(r)
  BY SchedulerFields DEF SchedulerInv
<1>1. UNCHANGED <<part, runs, elected>> /\ unsettled' \subseteq unsettled /\ replica[r].at = "works"
  BY DEF Pass, PassFails, BreakOff, ReplicaAt
<1>2. Settled => Settled'
  BY <1>1 DEF Settled
<1>3. PICK new \in Activity :
        /\ replica' = [replica EXCEPT ![r] = new]
        /\ new.conn = replica[r].conn /\ new.todo = replica[r].todo /\ new.run = replica[r].run
        /\ \/ new.at = "works"
           \/ new.at = "ends" /\ new.failed
           \/ new.at = "ends" /\ Pass(r) /\ ~Full(Key(r))
  <2> DEFINE over(failed) == [replica[r] EXCEPT !.at = "ends", !.failed = failed]
             more == [replica[r] EXCEPT !.pass = @ + 1]
  <2>1. ASSUME NEW failed \in BOOLEAN
        PROVE  /\ over(failed) \in Activity /\ over(failed).conn = replica[r].conn
               /\ over(failed).todo = replica[r].todo /\ over(failed).run = replica[r].run
               /\ over(failed).at = "ends" /\ over(failed).failed = failed
    BY <1>0 DEF Activity
  <2>2. /\ more \in Activity /\ more.conn = replica[r].conn /\ more.todo = replica[r].todo
        /\ more.run = replica[r].run /\ more.at = "works"
    BY <1>0, <1>1 DEF Activity
  <2>3. \/ replica' = [replica EXCEPT ![r] = over(TRUE)]
        \/ replica' = [replica EXCEPT ![r] = over(FALSE)] /\ Pass(r) /\ ~Full(Key(r))
        \/ replica' = [replica EXCEPT ![r] = more]
    BY <1>0 DEF Pass, PassFails, BreakOff, Ends, Activity
  <2> HIDE DEF over, more
  <2> QED
    BY <2>1, <2>2, <2>3
<1>4. replica'[r] = new
  BY <1>0, <1>3 DEF SchedulerTypes
<1>5. Todo(r)'
  BY <1>0, <1>1, <1>3, <1>4 DEF Todo
<1>6. replica[r].run \in DOMAIN runs /\ Key(r)' = Key(r)
  BY <1>0, <1>1, <1>3, <1>4 DEF Running, Key
<1>7. Pass(r) /\ ~Full(Key(r)) /\ Key(r) = CatchUp => Settled'
  <2> SUFFICES ASSUME Pass(r), ~Full(CatchUp), Key(r) = CatchUp PROVE Settled'
    OBVIOUS
  <2>1. part >= 3 /\ part \in Nat
    <3>1. Honest(replica[r].run)
      BY <1>6 DEF SchedulerInv
    <3> QED
      BY <1>0, <3>1, SchedulerFields DEF Honest, Key
  <2>2. Sweepable(CatchUp) = unsettled
    BY <2>1 DEF Sweepable, CatchUp, SlotKey, Departed
  <2>3. Batch(CatchUp) = unsettled
    BY <1>0, <2>2, LastBatch DEF SchedulerTypes
  <2>4. unsettled' = unsettled \ (unsettled \ Stuck)
    BY <2>3 DEF Pass
  <2> QED
    BY <2>4 DEF Settled
<1>8. Running(r)'
  BY <1>1, <1>3, <1>4, <1>6, <1>7 DEF Running
<1>9. Holds(r)'
  BY <1>0, <1>1, <1>3, <1>4 DEF Holds, Working, ReplicaAt
<1> QED
  BY <1>1, <1>3, <1>5, <1>8, <1>9, OneReplicaOnly

(* A run is recorded with the group it is of, then with how it ended. *)
LEMMA RecordsKept ==
  ASSUME SchedulerInv, NEW r \in Replicas, StartRun(r) \/ FinishRun(r)
  PROVE  SchedulerInv'
<1>0. /\ SchedulerTypes /\ replica[r] \in Activity /\ Todo(r) /\ Running(r) /\ Holds(r)
      /\ \A i \in DOMAIN runs : Honest(i)
  BY SchedulerFields DEF SchedulerInv
<1>1. UNCHANGED <<part, unsettled, elected>>
  BY DEF StartRun, FinishRun
<1>2. \A i \in DOMAIN runs :
        i \in DOMAIN runs' /\ runs'[i] = runs[i] => Honest(i)'
  BY <1>0, <1>1 DEF Honest, Settled
<1> DEFINE todo == replica[r].todo
<1>3. todo \in Seq(JobKey) /\ replica[r].at \in {"starts", "ends"} /\ todo # <<>>
  BY <1>0 DEF StartRun, FinishRun, ReplicaAt, Activity, Todo
<1>4. /\ Head(todo) \in JobKey /\ 1 \in DOMAIN todo /\ Head(todo) = todo[1]
      /\ Tail(todo) \in Seq(JobKey)
      /\ \A n \in DOMAIN Tail(todo) : n + 1 \in DOMAIN todo /\ Tail(todo)[n] = todo[n + 1]
  <2> HIDE DEF todo
  <2> QED
    BY <1>3, HeadTailProperties, LenProperties
<1>5. CASE StartRun(r)
  <2>0. PICK n \in Nat : n = Len(runs) + 1
    BY <1>0, SchedulerFields
  <2> DEFINE entry == [key |-> Next1(r), at |-> part, outcome |-> None]
             new == [replica[r] EXCEPT !.at = "works", !.run = n, !.pass = 0, !.failed = FALSE]
  <2>1. entry \in Run /\ entry.key = Head(todo) /\ entry.outcome = "none"
    BY <1>0, <1>4, SchedulerFields DEF Run, Next1, None
  <2>2. runs' = Append(runs, entry) /\ Len(runs) < MaxStarts /\ MaxStarts \in Nat
    BY <1>5, SchedulerAssumption DEF StartRun
  <2>3. replica' = [replica EXCEPT ![r] = new] /\ replica[r].at = "starts"
    BY <1>5, <1>0, <2>0 DEF StartRun, ReplicaAt, Activity
  <2>4. /\ new \in Activity /\ new.at = "works" /\ new.conn = replica[r].conn /\ new.todo = todo
        /\ new.run = n
    BY <1>0 DEF Activity
  <2> HIDE DEF entry, new
  <2>5. /\ runs' \in Seq(Run) /\ Len(runs') = n /\ DOMAIN runs' = DOMAIN runs \cup {n}
        /\ n \notin DOMAIN runs /\ runs'[n] = entry /\ \A i \in DOMAIN runs : runs'[i] = runs[i]
    BY <1>0, <2>0, <2>1, <2>2, SchedulerFields, Appended
  <2>6. Len(runs') <= MaxStarts
    BY <1>0, <2>0, <2>2, <2>5, SchedulerFields
  <2>7. replica'[r] = new
    BY <1>0, <2>3 DEF SchedulerTypes
  <2>8. Honest(n)'
    BY <1>0, <1>1, <1>4, <2>1, <2>5 DEF Honest, Todo
  <2>9. \A i \in DOMAIN runs' : Honest(i)'
    BY <1>2, <2>5, <2>8
  <2>10. Todo(r)' /\ Running(r)'
    BY <1>0, <1>1, <1>3, <2>4, <2>5, <2>7 DEF Todo, Running
  <2>11. Holds(r)'
    BY <1>0, <1>1, <2>3, <2>4, <2>7 DEF Holds, Working, ReplicaAt
  <2> QED
    BY <1>1, <2>3, <2>4, <2>5, <2>6, <2>9, <2>10, <2>11, OneReplica
<1>6. CASE FinishRun(r)
  <2>0. PICK n : n = replica[r].run
    OBVIOUS
  <2> DEFINE entry == [runs[n] EXCEPT !.outcome =
                       IF replica[r].failed THEN "failed" ELSE "completed"]
             new == [replica[r] EXCEPT !.at = "chooses", !.todo = Tail(todo), !.run = 0,
                                       !.pass = 0, !.failed = FALSE]
  <2>1. replica[r].at = "ends" /\ n \in DOMAIN runs
    BY <1>0, <1>6, <2>0 DEF FinishRun, ReplicaAt, Running
  <2>2. /\ entry \in Run /\ entry.key = Key(r)
        /\ entry.outcome = "completed" => ~replica[r].failed
    BY <1>0, <2>0, <2>1, SchedulerFields DEF Run, Key
  <2>3. runs' = [runs EXCEPT ![n] = entry] /\ replica' = [replica EXCEPT ![r] = new]
    BY <1>0, <1>6, <2>0, <2>1, SchedulerFields DEF FinishRun, Run, Activity
  <2>4. /\ new \in Activity /\ new.at = "chooses" /\ new.conn = replica[r].conn
        /\ new.todo = Tail(todo)
    BY <1>0, <1>4 DEF Activity
  <2> HIDE DEF entry, new
  <2>5. /\ runs' \in Seq(Run) /\ Len(runs') = Len(runs) /\ DOMAIN runs' = DOMAIN runs
        /\ \A i \in DOMAIN runs : runs'[i] = IF i = n THEN entry ELSE runs[i]
    <3>1. n \in 1 .. Len(runs) /\ runs \in Seq(Run) /\ DOMAIN runs = 1 .. Len(runs)
      BY <1>0, <2>1, SchedulerFields
    <3> QED
      BY <2>2, <2>3, <3>1, ExceptSeq, LenProperties
  <2>6. Len(runs') <= MaxStarts
    BY <1>0, <2>5 DEF SchedulerTypes, SchedulerTypeOK
  <2>7. replica'[r] = new
    BY <1>0, <2>3 DEF SchedulerTypes
  <2>8. Honest(n)'
    <3>1. Key(r) = CatchUp => DayOf(part) > 0
      BY <1>0, <2>0, <2>1 DEF Honest, Key
    <3>2. Key(r) = CatchUp /\ ~replica[r].failed => Settled
      BY <1>0, <2>1 DEF Running
    <3> QED
      BY <1>1, <2>1, <2>2, <2>5, <3>1, <3>2 DEF Honest, Settled
  <2>9. \A i \in DOMAIN runs' : Honest(i)'
    BY <1>2, <2>5, <2>8
  <2>10. \A i \in DOMAIN runs : runs'[i].key = runs[i].key
    BY <2>0, <2>2, <2>5 DEF Key
  <2>11. Todo(r)' /\ Running(r)'
    BY <1>0, <1>1, <1>4, <2>4, <2>7 DEF Todo, Running
  <2>12. Holds(r)'
    BY <1>0, <1>1, <2>1, <2>4, <2>7 DEF Holds, Working, ReplicaAt
  <2> QED
    BY <1>1, <2>3, <2>4, <2>5, <2>6, <2>9, <2>10, <2>11, <2>12, OneReplica
<1> QED
  BY <1>5, <1>6

(* A replica that does nothing *)
LEMMA AtRest ==
  /\ Down \in Activity /\ Down.at = "down" /\ Down.todo = <<>>
  /\ Waits \in Activity /\ Waits.at = "waits" /\ Waits.todo = <<>> /\ Waits.conn = "up"
<1>1. <<>> \in Seq(JobKey)
  BY EmptySeq
<1>2. Down \in Activity /\ Down.at = "down" /\ Down.todo = <<>> /\ Down.conn = "up"
  BY <1>1 DEF Down, Activity
<1> QED
  BY <1>2 DEF Waits, Activity

(* The lock is released, lost, and lost with the replica. *)
LEMMA FaultsKept ==
  ASSUME SchedulerInv, NEW r \in Replicas,
         EndCycle(r) \/ Cut(r) \/ Notice(r) \/ ReplicaDies(r) \/ StartUp(r)
  PROVE  SchedulerInv'
<1>0. SchedulerTypes /\ replica[r] \in Activity /\ Todo(r) /\ Running(r) /\ Holds(r)
  BY SchedulerFields DEF SchedulerInv
<1>1. UNCHANGED <<part, unsettled, runs>>
  BY DEF EndCycle, Cut, Notice, ReplicaDies, StartUp
<1>2. CASE EndCycle(r) \/ ReplicaDies(r) \/ StartUp(r)
  <2>1. PICK new \in {Down, Waits} : replica' = [replica EXCEPT ![r] = new]
    BY <1>2 DEF EndCycle, ReplicaDies, StartUp
  <2>2. elected' = elected \/ (elected = r /\ elected' = None)
    BY <1>2 DEF EndCycle, ReplicaDies, StartUp
  <2>3. new \in Activity /\ new.at \in {"down", "waits"} /\ new.todo = <<>>
    BY AtRest
  <2>4. replica'[r] = new
    BY <1>0, <2>1 DEF SchedulerTypes
  <2>5. Todo(r)' /\ Running(r)' /\ Holds(r)'
    BY <2>3, <2>4 DEF Todo, Running, Holds, Working, ReplicaAt
  <2> QED
    BY <1>1, <2>1, <2>2, <2>3, <2>5, OneReplicaOnly
<1>3. CASE Cut(r) \/ Notice(r)
  <2>1. PICK conn \in {"cut", "noticed"} :
          replica' = [replica EXCEPT ![r] = [replica[r] EXCEPT !.conn = conn]]
    BY <1>0, <1>3 DEF Cut, Notice, Activity
  <2> DEFINE new == [replica[r] EXCEPT !.conn = conn]
  <2>2. elected' = elected \/ (elected = r /\ elected' = None)
    BY <1>3 DEF Cut, Notice
  <2>3. /\ new \in Activity /\ new.conn # "up" /\ new.at = replica[r].at
        /\ new.todo = replica[r].todo /\ new.run = replica[r].run /\ new.failed = replica[r].failed
    BY <1>0 DEF Activity
  <2>4. replica' = [replica EXCEPT ![r] = new]
    BY <2>1
  <2> HIDE DEF new
  <2>5. replica'[r] = new
    BY <1>0, <2>4 DEF SchedulerTypes
  <2>6. Todo(r)'
    BY <1>0, <1>1, <2>3, <2>5 DEF Todo
  <2>7. Running(r)'
    BY <1>0, <1>1, <2>3, <2>5 DEF Running, Key, Settled
  <2>8. Holds(r)'
    BY <2>3, <2>5 DEF Holds
  <2> QED
    BY <1>1, <2>2, <2>3, <2>4, <2>6, <2>7, <2>8, OneReplicaOnly
<1> QED
  BY <1>2, <1>3

(* Nothing was swept or listed before; a later part of a day is none of an earlier one. *)
LEMMA SchedulerInvStep == SchedulerInv /\ [SchedulerNext]_schedulerVars => SchedulerInv'
<1> SUFFICES ASSUME SchedulerInv, [SchedulerNext]_schedulerVars PROVE SchedulerInv'
  OBVIOUS
<1>0. SchedulerTypes
  BY DEF SchedulerInv
<1>1. CASE PartPasses \/ UNCHANGED schedulerVars
  <2>1. part' \in 0 .. LastPart /\ part' >= part
    <3>1. part \in 0 .. LastPart /\ LastPart \in Nat
      BY <1>0, SchedulerAssumption DEF SchedulerTypes, SchedulerTypeOK
    <3>2. (part < LastPart /\ part' = part + 1) \/ part' = part
      BY <1>1 DEF PartPasses, schedulerVars
    <3> QED
      BY <3>1, <3>2
  <2>2. UNCHANGED <<unsettled, runs, elected, replica>>
    BY <1>1 DEF PartPasses, schedulerVars
  <2>3. SchedulerTypes'
    BY <1>0, <2>1, <2>2 DEF SchedulerTypes, SchedulerTypeOK
  <2>4. DayOf(part) > 0 => DayOf(part') > 0
    <3>1. part \in Nat /\ part' \in Nat /\ part' >= part
      BY <1>0, <2>1, SchedulerAssumption, SchedulerFields
    <3>2. \A t \in Nat : DayOf(t) > 0 <=> t >= 3
      BY DEF DayOf
    <3> QED
      BY <3>1, <3>2
  <2>5. \A r \in Replicas : Todo(r)' /\ Running(r)' /\ Holds(r)'
    <3>1. ASSUME NEW r \in Replicas PROVE Todo(r)' /\ Running(r)' /\ Holds(r)'
      <4>1. Todo(r) /\ Running(r) /\ Holds(r)
        BY DEF SchedulerInv
      <4>2. Todo(r)'
        BY <2>2, <2>4, <4>1 DEF Todo
      <4>3. Running(r)' /\ Holds(r)'
        BY <2>2, <4>1 DEF Running, Key, Settled, Holds, Working, ReplicaAt
      <4> QED
        BY <4>2, <4>3
    <3> QED
      BY <3>1
  <2>6. \A i \in DOMAIN runs' : Honest(i)'
    BY <2>2, <2>4 DEF SchedulerInv, Honest, Settled
  <2> QED
    BY <2>3, <2>5, <2>6 DEF SchedulerInv
<1>2. ASSUME NEW r \in Replicas, Elect(r) \/ Skip(r) \/ FindDue(r) PROVE SchedulerInv'
  BY <1>2, ChoosingKept
<1>3. ASSUME NEW r \in Replicas, Pass(r) \/ PassFails(r) \/ BreakOff(r) PROVE SchedulerInv'
  BY <1>3, PassesKept
<1>4. ASSUME NEW r \in Replicas, StartRun(r) \/ FinishRun(r) PROVE SchedulerInv'
  BY <1>4, RecordsKept
<1>5. ASSUME NEW r \in Replicas,
             EndCycle(r) \/ Cut(r) \/ Notice(r) \/ ReplicaDies(r) \/ StartUp(r)
      PROVE  SchedulerInv'
  BY <1>5, FaultsKept
<1> QED
  BY <1>1, <1>2, <1>3, <1>4, <1>5 DEF SchedulerNext

(* Whoever held the lock, lost it or died in the middle, once the catch-up of a day counts as
   done every seat of the day that can be settled is, and two replicas sweep at the same time
   only if one of them lost its session (scheduler.ts:101, job-schedule.ts:50). *)
THEOREM SweepsAreComplete == SchedulerSpec => []SchedulerSafe
<1>1. SchedulerInit => SchedulerInv
  <2> SUFFICES ASSUME SchedulerInit PROVE SchedulerInv
    OBVIOUS
  <2>1. Waits \in Activity /\ Waits.at = "waits" /\ Waits.todo = <<>> /\ Waits.conn = "up"
    BY AtRest
  <2>2. /\ part = 0 /\ unsettled = Seats /\ elected = None /\ replica = [r \in Replicas |-> Waits]
        /\ runs \in Seq(Run) /\ Len(runs) = 0 /\ DOMAIN runs = {}
    BY DEF SchedulerInit
  <2> HIDE DEF Waits
  <2>3. \A r \in Replicas : replica[r] = Waits
    BY <2>2
  <2>4. 0 \in 0 .. LastPart /\ 0 <= MaxStarts
    BY SchedulerAssumption
  <2>5. SchedulerTypes
    BY <2>1, <2>2, <2>3, <2>4 DEF SchedulerTypes, SchedulerTypeOK
  <2>6. \A r \in Replicas : Todo(r) /\ Running(r) /\ Holds(r)
    BY <2>1, <2>3 DEF Todo, Running, Holds, Working, ReplicaAt
  <2> QED
    BY <2>2, <2>5, <2>6 DEF SchedulerInv
<1>2. SchedulerInv => SchedulerSafe
  <2> SUFFICES ASSUME SchedulerInv PROVE SchedulerSafe
    OBVIOUS
  <2>1. NobodyForgotten
    <3> SUFFICES ASSUME RunsOf(CatchUp) # {}, runs[LatestOf(CatchUp)].outcome = "completed"
                 PROVE  unsettled \subseteq Stuck
      BY DEF NobodyForgotten, CatchUp
    <3>1. Len(runs) \in Nat /\ DOMAIN runs = 1 .. Len(runs)
      BY SchedulerFields DEF SchedulerInv
    <3>2. RunsOf(CatchUp) \subseteq 1 .. Len(runs) /\ RunsOf(CatchUp) \subseteq Int
      BY <3>1 DEF RunsOf
    <3>3. IsFiniteSet(RunsOf(CatchUp))
      <4>0. 1 \in Int /\ Len(runs) \in Int
        BY <3>1
      <4>1. IsFiniteSet(1 .. Len(runs))
        BY <4>0, FS_Interval, Zenon
      <4> QED
        BY <3>2, <4>1, FS_Subset
    <3>4. \E i \in RunsOf(CatchUp) : \A j \in RunsOf(CatchUp) : j <= i
      BY <3>2, <3>3, Extremes
    <3>5. LatestOf(CatchUp) \in RunsOf(CatchUp)
      BY <3>4 DEF LatestOf
    <3> QED
      BY <3>1, <3>5 DEF SchedulerInv, RunsOf, Honest, Settled
  <2>2. OneCycle
    BY DEF SchedulerInv, OneCycle, Holds
  <2> QED
    BY <2>1, <2>2 DEF SchedulerInv, SchedulerTypes, SchedulerSafe
<1> QED
  BY <1>1, <1>2, SchedulerInvStep, PTL DEF SchedulerSpec

-----------------------------------------------------------------------------
(* Card renewals *)

Fields == [state : RowStates, buys : Tries \cup {NoPurchase}, tries : 0 .. MaxTries,
           due : 0 .. EndDay]
Rows == {r \in Fields : r.state = "charging" => r.tries # 0}
Sales == {"none", "awaiting_payment", "fulfilled", "failed", "cancelled"}
Days == {d \in 0 .. EndDay : d < EndDay}

(* What a run holds in memory, in each of its steps *)
Listing == [at : {"listed"}, row : Rows, today : Days]
Claiming == [at : {"claimed"}, n : Tries, today : Days]
Buying == [at : {"bought"}, n : Tries, state : Sales \ {"none"}, today : Days]
Refusing == [at : {"refused"}, n : Tries, today : Days, state : {"cancelled", "failed"}]
Following == [at : {"cleared", "follow"}, n : Tries, today : Days]
RunsTyped ==
  run \in [Runs -> {Rest} \cup Listing \cup Claiming \cup Buying \cup Refusing \cup Following]

(* A run takes place on one day, before the period ends. *)
SameDay == \A u \in Runs : ~At(u, "rest") => run[u].today = day /\ day < EndDay

(* What is followed was sold. *)
SoldOnce ==
  /\ row.buys # NoPurchase => sale[row.buys] # "none"
  /\ \A u \in Runs :
       /\ At(u, "listed") /\ run[u].row.buys # NoPurchase => sale[run[u].row.buys] # "none"
       /\ run[u].at \in {"bought", "cleared", "follow"} => sale[run[u].n] # "none"

(* A new purchase of the days is only made when there is none. *)
OneSale == \A n \in Waiting : rival = "none" /\ \A m \in Tries : ~Sold(m) /\ (m \in Waiting => m = n)

(* An attempt that no run will claim again *)
Past(n) == n < row.tries \/ (n = row.tries /\ row.buys # NoPurchase)

(* A run that took an attempt is the only one that may still charge it. *)
Holding(u) == run[u].at \in {"claimed", "refused", "bought", "cleared"}
Taken(u) ==
  Holding(u) =>
    /\ charge[run[u].n] = "none" /\ sale[run[u].n] # "cancelled" /\ run[u].n <= row.tries
    /\ (At(u, "cleared") => Past(run[u].n)) /\ (~At(u, "cleared") => ~aged)
OneRunEach == \A u, v \in Runs : Holding(u) /\ Holding(v) /\ run[u].n = run[v].n => u = v
Sent == \A n \in Tries : charge[n] # "none" \/ sale[n] = "cancelled" => Past(n)
Withdrawn == \A n \in Tries : sale[n] = "cancelled" => charge[n] = "none"

(* As long as no run dies, an attempt that is about to be charged still waits for its money. *)
Fresh(u) ==
  /\ run[u].at \in {"claimed", "refused"} => sale[run[u].n] = "none"
  /\ At(u, "bought") => run[u].state = "awaiting_payment"
  /\ run[u].at \in {"bought", "cleared"} =>
       sale[run[u].n] = "awaiting_payment" /\ opened[run[u].n] = day
Recorded(n) == sale[n] # "none" => Past(n) \/ \E u \in Runs : At(u, "bought") /\ run[u].n = n
Unbroken == crashes = 0 => (\A u \in Runs : Fresh(u)) /\ \A n \in Tries : Recorded(n)

Typed == TypeOK /\ row \in Rows /\ crashes \in Nat /\ RunsTyped /\ SameDay /\ SoldOnce
RenewalInv ==
  /\ Typed /\ OneSale /\ OneRunEach /\ Sent /\ Withdrawn /\ Unbroken
  /\ \A u \in Runs : Taken(u)

-----------------------------------------------------------------------------
(* The types, by name *)
LEMMA RenewalFields ==
  ASSUME Typed
  PROVE  /\ row \in Rows /\ row.tries \in Nat /\ MaxTries \in Nat /\ EndDay \in Nat /\ day \in Nat
         /\ row.buys # NoPurchase => row.buys \in Tries
         /\ \A n \in Tries : n \in Nat /\ n # NoPurchase /\ n <= MaxTries
         /\ \A n \in Tries : sale[n] \in Sales
         /\ crashes \in Nat /\ row \in Fields
<1>1. row \in Rows /\ row \in Fields /\ crashes \in Nat /\ MaxTries \in Nat /\ EndDay \in Nat /\ \A n \in Tries : sale[n] \in Sales
  BY RenewalAssumption DEF Typed, TypeOK, Rows, Sales
<1>2. \A n \in Tries : n \in Nat /\ n # NoPurchase /\ n <= MaxTries
  BY <1>1 DEF Tries, NoPurchase
<1>3. row.tries \in Nat /\ (row.buys # NoPurchase => row.buys \in Tries)
  BY <1>1 DEF Fields
<1>4. day \in Nat
  BY <1>1 DEF Typed, TypeOK
<1> QED
  BY <1>1, <1>2, <1>3, <1>4

(* What a run holds, by its step *)
LEMMA RunFields ==
  ASSUME RunsTyped, NEW u \in Runs
  PROVE  /\ At(u, "rest") => run[u] = Rest
         /\ At(u, "listed") => run[u] \in Listing
         /\ At(u, "claimed") => run[u] \in Claiming
         /\ At(u, "bought") => run[u] \in Buying
         /\ At(u, "refused") => run[u] \in Refusing
         /\ run[u].at \in {"cleared", "follow"} => run[u] \in Following
         /\ run[u].at \in {"rest", "listed", "claimed", "bought", "refused", "cleared", "follow"}
         /\ Holding(u) \/ At(u, "follow") => run[u].n \in Tries
<1>1. run[u] \in {Rest} \cup Listing \cup Claiming \cup Buying \cup Refusing \cup Following
  BY DEF RunsTyped
<1> QED
  BY <1>1 DEF At, Holding, Rest, Listing, Claiming, Buying, Refusing, Following

(* One run takes a step. *)
LEMMA OneRun ==
  ASSUME RunsTyped, NEW u \in Runs, NEW new, run' = [run EXCEPT ![u] = new],
         new \in {Rest} \cup Listing \cup Claiming \cup Buying \cup Refusing \cup Following
  PROVE  RunsTyped' /\ run'[u] = new /\ \A v \in Runs : v # u => run'[v] = run[v]
BY DEF RunsTyped

(* Steps that take no attempt and charge nothing: purchases that nobody is about to charge may
   end, runs may give up what they hold, the row keeps its tries and its purchase. *)
LEMMA Quiet ==
  ASSUME RenewalInv, Typed', OneSale', row'.buys = row.buys, row'.tries = row.tries,
         UNCHANGED opened, crashes' = 0 => crashes = 0,
         \A n \in Tries : charge'[n] = "none" <=> charge[n] = "none",
         aged' => aged \/ \A u \in Runs : ~InClaim(u),
         day' = day \/ \A u \in Runs : ~Holding(u),
         \A u \in Runs :
           \/ run'[u] = run[u]
           \/ ~Holding(u)' /\ (At(u, "bought") => crashes' # 0),
         \A n \in Tries :
           \/ sale'[n] = sale[n]
           \/ /\ sale[n] = "awaiting_payment" /\ sale'[n] \in {"fulfilled", "failed"}
              /\ \A u \in Runs : crashes = 0 /\ Holding(u) => run[u].n # n
  PROVE  RenewalInv'
<1>0. /\ Typed /\ OneRunEach /\ Sent /\ Withdrawn /\ Unbroken
      /\ \A u \in Runs : Taken(u)
  BY DEF RenewalInv
<1>1. \A n \in Tries : /\ sale'[n] = "cancelled" <=> sale[n] = "cancelled"
                       /\ sale'[n] = "none" <=> sale[n] = "none"
  OBVIOUS
<1>2. ASSUME NEW u \in Runs, Holding(u)'
      PROVE  run'[u] = run[u] /\ Holding(u) /\ run[u].n \in Tries
  <2>1. run'[u] = run[u]
    BY <1>2
  <2>2. Holding(u)
    BY <1>2, <2>1 DEF Holding
  <2> QED
    BY <1>0, <2>1, <2>2, RunFields DEF Typed
<1>3. ASSUME NEW n \in Tries PROVE Past(n)' <=> Past(n)
  BY DEF Past
<1>4. ASSUME NEW u \in Runs PROVE Taken(u)'
  <2> SUFFICES ASSUME Holding(u)' PROVE Taken(u)'
    BY DEF Taken
  <2>1. run'[u] = run[u] /\ Holding(u) /\ run[u].n \in Tries /\ Taken(u)
    BY <1>0, <1>2
  <2>2. ~At(u, "cleared") => InClaim(u)
    BY <2>1 DEF Holding, InClaim, At
  <2>3. ~At(u, "cleared") => ~aged'
    BY <2>1, <2>2 DEF Taken
  <2>4. At(u, "cleared")' <=> At(u, "cleared")
    BY <2>1 DEF At
  <2>5. At(u, "cleared") => Past(run[u].n)
    BY <2>1 DEF Taken
  <2> QED
    BY <1>1, <1>3, <2>1, <2>3, <2>4, <2>5 DEF Taken, Past
<1>5. OneRunEach'
  BY <1>0, <1>2 DEF OneRunEach
<1>6. Sent' /\ Withdrawn'
  BY <1>0, <1>1, <1>3 DEF Sent, Withdrawn
<1>7. Unbroken'
  <2> SUFFICES ASSUME crashes' = 0
               PROVE  (\A u \in Runs : Fresh(u)') /\ \A n \in Tries : Recorded(n)'
    BY DEF Unbroken
  <2>1. crashes = 0 /\ (\A u \in Runs : Fresh(u)) /\ \A n \in Tries : Recorded(n)
    BY <1>0 DEF Unbroken
  <2>2. ASSUME NEW u \in Runs PROVE Fresh(u)'
    <3>1. CASE ~Holding(u)'
      BY <3>1 DEF Fresh, Holding, At
    <3>2. CASE Holding(u)'
      <4>1. run'[u] = run[u] /\ Holding(u) /\ run[u].n \in Tries /\ day' = day
        BY <1>2, <3>2
      <4>2. sale'[run[u].n] = sale[run[u].n]
        BY <2>1, <4>1
      <4> QED
        BY <2>1, <4>1, <4>2 DEF Fresh, At
    <3> QED
      BY <3>1, <3>2
  <2>3. ASSUME NEW n \in Tries PROVE Recorded(n)'
    <3>1. \A u \in Runs : At(u, "bought") => run'[u] = run[u]
      OBVIOUS
    <3> QED
      BY <1>1, <1>3, <2>1, <3>1 DEF Recorded, At
  <2> QED
    BY <2>2, <2>3
<1> QED
  BY <1>4, <1>5, <1>6, <1>7 DEF RenewalInv

(* Writing the state of the row leaves its tries and its purchase. *)
LEMMA Marked ==
  ASSUME Typed, NEW state \in RowStates \ {"charging"}, NEW due \in 0 .. EndDay, Mark(state, due)
  PROVE  row' \in Rows /\ row'.buys = row.buys /\ row'.tries = row.tries
         /\ (aged' => aged) /\ aged' \in BOOLEAN
<1>1. row' = [row EXCEPT !.state = state, !.due = due]
  BY DEF Mark, Write
<1>2. row \in Fields
  BY RenewalFields
<1>3. (aged' => aged) /\ aged' \in BOOLEAN
  BY Zenon DEF Mark, Write
<1> QED
  BY <1>1, <1>2, <1>3 DEF Rows, Fields

(* Or nothing is written. *)
LEMMA Kept ==
  ASSUME Typed, Keep
  PROVE  row' \in Rows /\ row' = row /\ (aged' => aged) /\ aged' \in BOOLEAN
<1>1. row' \in Rows /\ row' = row
  BY DEF Typed, Keep
<1>2. (aged' => aged) /\ aged' \in BOOLEAN
  BY Zenon DEF Typed, TypeOK, Keep
<1> QED
  BY <1>1, <1>2

(* Purchases that stay known *)
LEMMA SoldOnceKept ==
  ASSUME Typed, row'.buys = row.buys, UNCHANGED run,
         \A n \in Tries : sale'[n] = "none" => sale[n] = "none"
  PROVE  SoldOnce'
<1>1. row.buys # NoPurchase => row.buys \in Tries
  BY RenewalFields
<1>2. ASSUME NEW u \in Runs, At(u, "listed"), run[u].row.buys # NoPurchase
      PROVE  run[u].row.buys \in Tries
  BY <1>2, RunFields DEF Typed, Listing, Rows, Fields
<1>3. \A u \in Runs : run[u].at \in {"bought", "cleared", "follow"} => run[u].n \in Tries
  BY RunFields DEF Typed, Holding, At
<1> QED
  BY <1>1, <1>2, <1>3 DEF Typed, SoldOnce, At

(* What happens outside the runs, when no purchase is made or ends *)
LEMMA RowKept ==
  ASSUME RenewalInv, TypeOK', row' \in Rows, OneSale', row'.buys = row.buys, row'.tries = row.tries,
         UNCHANGED <<opened, run, crashes, sale>>,
         \A n \in Tries : charge'[n] = "none" <=> charge[n] = "none",
         aged' => aged \/ \A u \in Runs : ~InClaim(u),
         day' = day \/ \A u \in Runs : At(u, "rest")
  PROVE  RenewalInv'
<1>0. Typed
  BY DEF RenewalInv
<1>1. RunsTyped' /\ SameDay'
  BY <1>0 DEF Typed, RunsTyped, SameDay, At
<1>2. SoldOnce'
  BY <1>0, SoldOnceKept
<1>3. \A u \in Runs : At(u, "rest") => ~Holding(u)
  BY DEF At, Holding
<1>4. Typed'
  BY <1>0, <1>1, <1>2 DEF Typed
<1> QED
  BY <1>3, <1>4, Quiet

(* Time passes, and the rider changes their mind. *)
LEMMA RiderKept == ASSUME RenewalInv, Tick \/ Age \/ Rider PROVE RenewalInv'
<1>0. Typed /\ TypeOK /\ OneSale /\ row \in Rows /\ EndDay \in Nat
  BY RenewalFields DEF RenewalInv, Typed
<1>1. UNCHANGED <<opened, charge, sentOn, run, crashes>>
  BY DEF Tick, Age, Rider, TurnOn, TurnOff, RemoveCard, EraseAccount, Hold, BuyElsewhere, Expire
<1>2. CASE Tick \/ Age \/ Hold
  <2>1. UNCHANGED <<row, sale, rival>>
    BY <1>2 DEF Tick, Age, Hold, riderVars
  <2>2. TypeOK'
    <3>1. {enabled', card', erased', held', aged'} \subseteq BOOLEAN
      BY <1>0, <1>2, Zenon DEF TypeOK, Tick, Age, Hold, riderVars
    <3>2. day' \in 0 .. EndDay
      BY <1>0, <1>2 DEF TypeOK, Tick, Age, Hold
    <3> QED
      BY <1>0, <1>1, <2>1, <3>1, <3>2 DEF TypeOK
  <2>3. OneSale'
    BY <1>0, <2>1 DEF OneSale, Waiting, Sold
  <2>4. /\ aged' => aged \/ \A u \in Runs : ~InClaim(u)
        /\ day' = day \/ \A u \in Runs : At(u, "rest")
    BY <1>2 DEF Tick, Age, Hold, riderVars
  <2> QED
    BY <1>0, <1>1, <2>1, <2>2, <2>3, <2>4, RowKept
<1>3. CASE TurnOn \/ TurnOff \/ RemoveCard \/ EraseAccount
  <2>1. UNCHANGED <<day, sale, rival>> /\ {enabled', card', erased', held'} \subseteq BOOLEAN
    BY <1>0, <1>3 DEF TypeOK, TurnOn, TurnOff, RemoveCard, EraseAccount
  <2>2. Mark("scheduled", 0) \/ Mark("cancelled", 0) \/ Keep
    BY <1>3 DEF TurnOn, TurnOff, RemoveCard, EraseAccount, Cancelled
  <2>3. row' \in Rows /\ row'.buys = row.buys /\ row'.tries = row.tries
        /\ (aged' => aged) /\ aged' \in BOOLEAN
    <3>1. 0 \in 0 .. EndDay /\ {"scheduled", "cancelled"} \subseteq RowStates \ {"charging"}
      BY <1>0 DEF RowStates, PENDING
    <3> QED
      BY <1>0, <2>2, <3>1, Marked, Kept
  <2>4. TypeOK'
    BY <1>0, <1>1, <2>1, <2>3 DEF TypeOK, Rows, Fields
  <2>5. OneSale'
    BY <1>0, <2>1 DEF OneSale, Waiting, Sold
  <2> QED
    BY <1>1, <2>1, <2>3, <2>4, <2>5, RowKept
<1>4. CASE BuyElsewhere
  <2>1. UNCHANGED <<day, enabled, card, erased, held, row, aged, sale>>
    BY <1>4 DEF BuyElsewhere
  <2>2. rival' \in {"none", "awaiting_payment", "fulfilled"}
        /\ (rival' # "none" => Waiting = {})
    BY <1>0, <1>4 DEF BuyElsewhere, OneSale
  <2>3. TypeOK'
    BY <1>0, <1>1, <2>1, <2>2 DEF TypeOK
  <2>4. OneSale'
    BY <1>0, <2>1, <2>2 DEF OneSale, Waiting, Sold
  <2> QED
    BY <1>0, <1>1, <2>1, <2>3, <2>4, RowKept
<1>5. CASE Expire
  <2>1. UNCHANGED <<day, riderVars, row, aged>> /\ ~(day < EndDay)
    BY <1>0, <1>5 DEF Expire, TypeOK
  <2>2. \A n \in Tries : sale'[n] = IF n \in Waiting THEN "failed" ELSE sale[n]
    BY <1>5 DEF Expire
  <2>3. sale' \in [Tries -> Sales]
    <3>1. sale' = [n \in Tries |-> IF n \in Waiting THEN "failed" ELSE sale[n]]
      BY <1>5 DEF Expire
    <3> QED
      BY <1>0, <3>1, RenewalFields DEF Sales
  <2>4. TypeOK'
    BY <1>0, <1>1, <2>1, <2>3 DEF TypeOK, riderVars, Sales
  <2>5. \A n \in Tries : /\ sale'[n] = "none" => sale[n] = "none"
                         /\ sale'[n] # "awaiting_payment"
    BY <2>2 DEF Waiting
  <2>6. OneSale'
    BY <2>5 DEF OneSale, Waiting
  <2>7. SoldOnce'
    BY <1>0, <1>1, <2>1, <2>5, SoldOnceKept
  <2>8. Typed'
    <3>1. RunsTyped' /\ SameDay'
      BY <1>0, <1>1, <2>1 DEF Typed, RunsTyped, SameDay, At
    <3> QED
      BY <1>0, <1>1, <2>1, <2>4, <2>7, <3>1 DEF Typed
  <2>9. \A u \in Runs : ~Holding(u)
    BY <1>0, <2>1 DEF Typed, SameDay, At, Holding
  <2> QED
    BY <1>1, <2>1, <2>2, <2>6, <2>8, <2>9, Quiet DEF Waiting
<1> QED
  BY <1>2, <1>3, <1>4, <1>5 DEF Rider

(* The provider collects or declines what was sent to it. *)
LEMMA ChargesKept ==
  ASSUME RenewalInv, NEW n \in Tries, Collect(n) \/ Decline(n) PROVE RenewalInv'
<1>0. TypeOK /\ OneSale /\ row \in Rows
  BY DEF RenewalInv, Typed
<1>1. UNCHANGED <<day, riderVars, row, aged, sale, opened, sentOn, run, crashes>>
  BY DEF Collect, Decline
<1>2. PICK new \in {"taken", "taken_late", "declined"} :
        charge' = [charge EXCEPT ![n] = new] /\ charge[n] = "sent"
  BY DEF Collect, Decline
<1>3. \A m \in Tries : charge'[m] = IF m = n THEN new ELSE charge[m]
  BY <1>0, <1>2 DEF TypeOK
<1>4. \A m \in Tries : charge'[m] = "none" <=> charge[m] = "none"
  BY <1>2, <1>3
<1>5. TypeOK'
  BY <1>0, <1>1, <1>2 DEF TypeOK, riderVars
<1>6. OneSale'
  BY <1>0, <1>1 DEF OneSale, Waiting, Sold, riderVars
<1> QED
  BY <1>0, <1>1, <1>4, <1>5, <1>6, RowKept

(* Evidence of a charge settles its purchase, and one that was charged is nobody's to charge. *)
LEMMA EvidenceKept ==
  ASSUME RenewalInv, NEW n \in Tries, Fulfil(n) \/ Refuse(n) PROVE RenewalInv'
<1>0. Typed /\ TypeOK /\ OneSale /\ row \in Rows /\ EndDay \in Nat
  BY RenewalFields DEF RenewalInv, Typed
<1>1. UNCHANGED <<day, riderVars, opened, charge, sentOn, run, crashes>>
  BY DEF Fulfil, Refuse
<1>2. PICK new \in {"fulfilled", "failed"} :
        /\ sale' = [sale EXCEPT ![n] = new] /\ sale[n] = "awaiting_payment"
        /\ charge[n] # "none"
  BY DEF Fulfil, Refuse
<1>3. \A m \in Tries : sale'[m] = IF m = n THEN new ELSE sale[m]
  BY <1>0, <1>2 DEF TypeOK
<1>4. row' \in Rows /\ row'.buys = row.buys /\ row'.tries = row.tries /\ (aged' => aged) /\ aged' \in BOOLEAN
  <2>1. Mark("paid", 0) \/ Keep
    BY DEF Fulfil, Refuse, Keep
  <2>2. 0 \in 0 .. EndDay /\ "paid" \in RowStates \ {"charging"}
    BY <1>0 DEF RowStates
  <2> QED
    BY <1>0, <2>1, <2>2, Marked, Kept
<1>5. TypeOK'
  BY <1>0, <1>1, <1>2, <1>4 DEF TypeOK, riderVars, Rows, Fields
<1>6. OneSale'
  <2>1. n \in Waiting
    BY <1>2 DEF Waiting
  <2>2. Waiting' = {}
    BY <1>0, <1>2, <1>3, <2>1 DEF OneSale, Waiting
  <2> QED
    BY <2>2 DEF OneSale
<1>7. SoldOnce'
  BY <1>0, <1>1, <1>2, <1>3, <1>4, SoldOnceKept
<1>8. Typed'
  <2>1. RunsTyped' /\ SameDay'
    BY <1>0, <1>1 DEF Typed, RunsTyped, SameDay, At
  <2> QED
    BY <1>0, <1>1, <1>4, <1>5, <1>7, <2>1 DEF Typed
<1>9. \A u \in Runs : Holding(u) => run[u].n # n
  BY <1>2 DEF RenewalInv, Taken
<1> QED
  BY <1>1, <1>2, <1>3, <1>4, <1>6, <1>8, <1>9, Quiet

-----------------------------------------------------------------------------
(* The types, when one run takes a step *)
LEMMA StepTyped ==
  ASSUME Typed, NEW u \in Runs,
         NEW new \in {Rest} \cup Listing \cup Claiming \cup Buying \cup Refusing \cup Following,
         run' = [run EXCEPT ![u] = new], UNCHANGED <<day, riderVars>>,
         row' \in Rows, aged' \in BOOLEAN, crashes' \in Nat,
         sale' \in [Tries -> Sales], {opened', sentOn'} \subseteq [Tries -> 0 .. EndDay],
         charge' \in [Tries -> {"none", "sent", "taken", "taken_late", "declined"}],
         new.at # "rest" => new.today = day /\ day < EndDay,
         new.at = "listed" => new.row = row',
         new.at \in {"bought", "cleared", "follow"} => sale'[new.n] # "none",
         row'.buys # NoPurchase => sale'[row'.buys] # "none",
         \A n \in Tries : sale[n] # "none" => sale'[n] # "none"
  PROVE  Typed' /\ run'[u] = new /\ \A v \in Runs : v # u => run'[v] = run[v]
<1>0. TypeOK
  BY DEF Typed
<1>1. RunsTyped' /\ run'[u] = new /\ \A v \in Runs : v # u => run'[v] = run[v]
  BY OneRun DEF Typed
<1>2. \A v \in Runs : run'[v].at \in {"rest", "listed", "claimed", "refused", "bought", "cleared", "follow"}
  BY <1>0, <1>1 DEF TypeOK, Rest, Listing, Claiming, Buying, Refusing, Following
<1>3. TypeOK'
  <2>1. {enabled', card', erased', held', aged'} \subseteq BOOLEAN
    BY <1>0, Zenon DEF TypeOK, riderVars
  <2> QED
    BY <1>0, <1>2, <2>1 DEF TypeOK, riderVars, Rows, Fields, Sales
<1>4. SameDay'
  BY <1>0, <1>1 DEF Typed, SameDay, At
<1>5. SoldOnce'
  <2>1. ASSUME NEW v \in Runs, At(v, "listed")', run'[v].row.buys # NoPurchase
        PROVE  sale'[run'[v].row.buys] # "none"
    <3>1. CASE v = u
      BY <1>1, <2>1, <3>1 DEF At
    <3>2. CASE v # u
      <4>1. At(v, "listed") /\ run'[v] = run[v]
        BY <1>1, <2>1, <3>2 DEF At
      <4>2. run[v].row.buys \in Tries /\ sale[run[v].row.buys] # "none"
        BY <2>1, <4>1, RunFields DEF Typed, SoldOnce, Listing, Rows, Fields
      <4> QED
        BY <4>1, <4>2
    <3> QED
      BY <3>1, <3>2
  <2>2. ASSUME NEW v \in Runs, run'[v].at \in {"bought", "cleared", "follow"}
        PROVE  sale'[run'[v].n] # "none"
    <3>1. CASE v = u
      BY <1>1, <2>2, <3>1
    <3>2. CASE v # u
      <4>1. run[v].at \in {"bought", "cleared", "follow"} /\ run'[v] = run[v]
        BY <1>1, <2>2, <3>2
      <4>2. run[v].n \in Tries /\ sale[run[v].n] # "none"
        BY <4>1, RunFields DEF Typed, SoldOnce, Holding, At
      <4> QED
        BY <4>1, <4>2
    <3> QED
      BY <3>1, <3>2
  <2> QED
    BY <2>1, <2>2 DEF SoldOnce, At
<1> QED
  BY <1>1, <1>3, <1>4, <1>5 DEF Typed

(* A run lists the row, passes it over, follows it up or is over. *)
LEMMA RunLets ==
  ASSUME RenewalInv, NEW u \in Runs, NEW new \in {Rest} \cup Listing \cup Following,
         run' = [run EXCEPT ![u] = new], new.at # "cleared",
         UNCHANGED <<day, riderVars, opened, charge, sentOn>>,
         crashes' \in Nat, crashes' = 0 => crashes = 0, At(u, "bought") => crashes' # 0,
         row' \in Rows, row'.buys = row.buys, row'.tries = row.tries,
         aged' => aged, aged' \in BOOLEAN,
         new.at # "rest" => new.today = day /\ day < EndDay,
         new.at = "listed" => new.row = row',
         new.at = "follow" => sale[new.n] # "none",
         sale' \in [Tries -> Sales],
         \A n \in Tries :
           \/ sale'[n] = sale[n]
           \/ /\ sale[n] = "awaiting_payment" /\ sale'[n] = "failed"
              /\ \A v \in Runs : crashes = 0 /\ Holding(v) => run[v].n # n
  PROVE  RenewalInv'
<1>0. Typed /\ TypeOK /\ OneSale
  BY DEF RenewalInv, Typed
<1>1. new.at \in {"rest", "listed", "follow"} /\ (new.at = "follow" => new.n \in Tries)
  BY DEF Rest, Listing, Following
<1>2. row.buys # NoPurchase => row.buys \in Tries /\ sale[row.buys] # "none"
  BY <1>0, RenewalFields DEF Typed, SoldOnce
<1>3. \A n \in Tries : sale[n] # "none" => sale'[n] # "none"
  OBVIOUS
<1>4. Typed' /\ run'[u] = new /\ \A v \in Runs : v # u => run'[v] = run[v]
  <2>1. {opened', sentOn'} \subseteq [Tries -> 0 .. EndDay]
        /\ charge' \in [Tries -> {"none", "sent", "taken", "taken_late", "declined"}]
    BY <1>0 DEF TypeOK
  <2>2. row'.buys # NoPurchase => sale'[row'.buys] # "none"
    BY <1>2, <1>3
  <2>3. new.at \in {"bought", "cleared", "follow"} => sale'[new.n] # "none"
    BY <1>1, <1>3
  <2> QED
    BY <1>0, <1>3, <2>1, <2>2, <2>3, StepTyped
<1>5. OneSale'
  <2>1. rival' = rival /\ Waiting' \subseteq Waiting /\ \A n \in Tries : Sold(n)' => Sold(n)
    BY DEF riderVars, Waiting, Sold
  <2> QED
    BY <1>0, <2>1 DEF OneSale
<1>6. ~Holding(u)'
  BY <1>1, <1>4 DEF Holding
<1> QED
  BY <1>4, <1>5, <1>6, Quiet

(* A run that took an attempt goes on with it. *)
LEMMA HolderStays ==
  ASSUME RenewalInv, Typed', OneSale', NEW u \in Runs, NEW n \in Tries,
         Holding(u), run[u].n = n, ~At(u, "cleared"), Holding(u)', run'[u].n = n,
         \A v \in Runs : v # u => run'[v] = run[v],
         UNCHANGED <<day, charge, crashes>>, aged' => aged, aged' \in BOOLEAN,
         row'.tries = row.tries, row'.buys \in {row.buys, n},
         \A m \in Tries : m # n => sale'[m] = sale[m] /\ opened'[m] = opened[m],
         sale'[n] # "cancelled", At(u, "cleared")' => row'.buys = n,
         crashes = 0 => Fresh(u)' /\ Recorded(n)'
  PROVE  RenewalInv'
<1>0. /\ Typed /\ OneRunEach /\ Sent /\ Withdrawn /\ Unbroken
      /\ \A v \in Runs : Taken(v)
      /\ n # NoPurchase /\ n \in Nat /\ row.tries \in Nat
  BY RenewalFields DEF RenewalInv
<1>1. \A m \in Tries : Past(m) => Past(m)'
  BY <1>0 DEF Past
<1>2. ASSUME NEW v \in Runs, v # u, Holding(v)'
      PROVE  /\ Holding(v) /\ run'[v] = run[v] /\ run[v].n \in Tries /\ run[v].n # n
  <2>1. run'[v] = run[v] /\ Holding(v)
    BY <1>2 DEF Holding
  <2> QED
    BY <1>0, <1>2, <2>1, RunFields DEF OneRunEach, Typed
<1>3. ASSUME NEW v \in Runs PROVE Taken(v)'
  <2> SUFFICES ASSUME Holding(v)' PROVE Taken(v)'
    BY DEF Taken
  <2>1. CASE v = u
    <3>1. charge[n] = "none" /\ n <= row.tries /\ ~aged
      BY <1>0 DEF Taken
    <3>2. At(u, "cleared")' => Past(n)'
      BY <1>0, <3>1 DEF Past
    <3> QED
      BY <2>1, <3>1, <3>2 DEF Taken, Past
  <2>2. CASE v # u
    <3>1. run'[v] = run[v] /\ Holding(v) /\ run[v].n \in Tries /\ run[v].n # n /\ Taken(v)
      BY <1>0, <1>2, <2>2
    <3>2. At(v, "cleared")' <=> At(v, "cleared")
      BY <3>1 DEF At
    <3>3. Past(run[v].n) => Past(run[v].n)'
      BY <1>0, <3>1 DEF Past
    <3>4. sale'[run[v].n] = sale[run[v].n]
      BY <3>1
    <3> QED
      BY <1>1, <3>1, <3>2, <3>4 DEF Taken, Past
  <2> QED
    BY <2>1, <2>2
<1>4. OneRunEach'
  BY <1>0, <1>2 DEF OneRunEach
<1>5. Sent' /\ Withdrawn'
  BY <1>0, <1>1 DEF Sent, Withdrawn
<1>6. Unbroken'
  <2> SUFFICES ASSUME crashes' = 0
               PROVE  (\A v \in Runs : Fresh(v)') /\ \A m \in Tries : Recorded(m)'
    BY DEF Unbroken
  <2>1. crashes = 0 /\ (\A v \in Runs : Fresh(v)) /\ \A m \in Tries : Recorded(m)
    BY <1>0 DEF Unbroken
  <2>2. ASSUME NEW v \in Runs PROVE Fresh(v)'
    <3>1. CASE v = u
      BY <2>1, <3>1
    <3>2. CASE v # u /\ ~Holding(v)'
      BY <3>2 DEF Fresh, Holding, At
    <3>3. CASE v # u /\ Holding(v)'
      BY <1>2, <2>1, <3>3 DEF Fresh, At
    <3> QED
      BY <3>1, <3>2, <3>3
  <2>3. ASSUME NEW m \in Tries, m # n PROVE Recorded(m)'
    <3>1. \A v \in Runs : At(v, "bought") /\ run[v].n = m => v # u /\ run'[v] = run[v]
      BY <2>3
    <3> QED
      BY <1>1, <2>1, <2>3, <3>1 DEF Recorded, At
  <2> QED
    BY <2>1, <2>2, <2>3
<1> QED
  BY <1>3, <1>4, <1>5, <1>6 DEF RenewalInv

(* A run is done with the attempt it took: the row names it, or a later one. *)
LEMMA HolderLeaves ==
  ASSUME RenewalInv, Typed', OneSale', NEW u \in Runs, NEW n \in Tries,
         Holding(u), run[u].n = n, ~Holding(u)',
         \A v \in Runs : v # u => run'[v] = run[v],
         UNCHANGED <<day, opened, crashes>>, aged' => aged, aged' \in BOOLEAN,
         row'.tries = row.tries, row'.buys \in {row.buys, n}, Past(n)',
         \A m \in Tries : m # n => sale'[m] = sale[m] /\ charge'[m] = charge[m],
         sale'[n] = "cancelled" => charge'[n] = "none"
  PROVE  RenewalInv'
<1>0. /\ Typed /\ OneRunEach /\ Sent /\ Withdrawn /\ Unbroken
      /\ \A v \in Runs : Taken(v)
      /\ n # NoPurchase /\ n \in Nat /\ row.tries \in Nat
  BY RenewalFields DEF RenewalInv
<1>1. \A m \in Tries : Past(m) => Past(m)'
  BY <1>0 DEF Past
<1>2. ASSUME NEW v \in Runs, Holding(v)'
      PROVE  /\ v # u /\ Holding(v) /\ run'[v] = run[v] /\ run[v].n \in Tries /\ run[v].n # n
  <2>1. run'[v] = run[v] /\ Holding(v) /\ v # u
    BY <1>2 DEF Holding
  <2> QED
    BY <1>0, <1>2, <2>1, RunFields DEF OneRunEach, Typed
<1>3. ASSUME NEW v \in Runs PROVE Taken(v)'
  <2> SUFFICES ASSUME Holding(v)' PROVE Taken(v)'
    BY DEF Taken
  <2>1. run'[v] = run[v] /\ Holding(v) /\ run[v].n \in Tries /\ run[v].n # n /\ Taken(v)
    BY <1>0, <1>2
  <2>2. At(v, "cleared")' <=> At(v, "cleared")
    BY <2>1 DEF At
  <2>3. sale'[run[v].n] = sale[run[v].n] /\ charge'[run[v].n] = charge[run[v].n]
    BY <2>1
  <2> QED
    BY <1>1, <2>1, <2>2, <2>3 DEF Taken, Past
<1>4. OneRunEach'
  BY <1>0, <1>2 DEF OneRunEach
<1>5. Sent' /\ Withdrawn'
  BY <1>0, <1>1 DEF Sent, Withdrawn, Past
<1>6. Unbroken'
  <2> SUFFICES ASSUME crashes' = 0
               PROVE  (\A v \in Runs : Fresh(v)') /\ \A m \in Tries : Recorded(m)'
    BY DEF Unbroken
  <2>1. crashes = 0 /\ (\A v \in Runs : Fresh(v)) /\ \A m \in Tries : Recorded(m)
    BY <1>0 DEF Unbroken
  <2>2. ASSUME NEW v \in Runs PROVE Fresh(v)'
    <3>1. CASE ~Holding(v)'
      BY <3>1 DEF Fresh, Holding, At
    <3>2. CASE Holding(v)'
      BY <1>2, <2>1, <3>2 DEF Fresh, At
    <3> QED
      BY <3>1, <3>2
  <2>3. ASSUME NEW m \in Tries PROVE Recorded(m)'
    <3>1. CASE m = n
      BY <3>1 DEF Recorded, Past
    <3>2. CASE m # n
      <4>1. \A v \in Runs : At(v, "bought") /\ run[v].n = m => run'[v] = run[v]
        BY <3>2
      <4> QED
        BY <1>1, <2>1, <3>2, <4>1 DEF Recorded, At
    <3> QED
      BY <3>1, <3>2
  <2> QED
    BY <2>2, <2>3
<1> QED
  BY <1>3, <1>4, <1>5, <1>6 DEF RenewalInv

-----------------------------------------------------------------------------
(* A run reads the row. *)
LEMMA ScanKept == ASSUME RenewalInv, NEW u \in Runs, Scan(u) PROVE RenewalInv'
<1> DEFINE swept ==
      CASE Sold(row.buys) /\ row.state # "paid" -> [row EXCEPT !.state = "paid"]
        [] ~Sold(row.buys) /\ row.state \in PENDING \cup {"charging"} /\ day >= EndDay ->
             [row EXCEPT !.state = "lapsed"]
        [] OTHER -> row
<1>0. Typed /\ TypeOK /\ row \in Rows /\ row \in Fields /\ crashes \in Nat
  BY RenewalFields DEF RenewalInv, Typed
<1>1. swept \in Rows /\ swept.buys = row.buys /\ swept.tries = row.tries
  <2>1. \/ swept = [row EXCEPT !.state = "paid"]
        \/ swept = [row EXCEPT !.state = "lapsed"]
        \/ swept = row
    OBVIOUS
  <2>2. {"paid", "lapsed"} \subseteq RowStates \ {"charging"}
    BY DEF RowStates, PENDING
  <2> QED
    BY <1>0, <2>1, <2>2 DEF Rows, Fields
<1>2. /\ At(u, "rest")
      /\ IF swept = row THEN Keep ELSE Write(swept)
      /\ IF Due(swept) THEN Go(u, [at |-> "listed", row |-> swept, today |-> day]) ELSE Stop(u)
      /\ UNCHANGED <<day, riderVars, sale, opened, charge, sentOn, crashes>>
  BY DEF Scan
<1> HIDE DEF swept
<1>3. row' = swept
  BY <1>2 DEF Keep, Write
<1>4. (aged' => aged) /\ aged' \in BOOLEAN
  BY <1>0, <1>2, Zenon DEF TypeOK, Keep, Write
<1>5. PICK new \in {Rest} \cup Listing :
        /\ run' = [run EXCEPT ![u] = new]
        /\ new = Rest \/ (new.at = "listed" /\ new.row = swept /\ new.today = day /\ day < EndDay)
  <2>1. CASE Due(swept)
    <3>1. [at |-> "listed", row |-> swept, today |-> day] \in Listing /\ day < EndDay
      BY <1>0, <1>1, <2>1 DEF Listing, Days, Due, TypeOK
    <3> QED
      BY <1>2, <2>1, <3>1 DEF Go
  <2>2. CASE ~Due(swept)
    BY <1>2, <2>2 DEF Go, Stop
  <2> QED
    BY <2>1, <2>2
<1>6. At(u, "bought") => FALSE
  BY <1>2 DEF At
<1>7. new.at # "cleared" /\ new.at # "follow"
  BY <1>5 DEF Rest
<1>8. new.at # "rest" => new.at = "listed" /\ new.row = row' /\ new.today = day /\ day < EndDay
  BY <1>3, <1>5 DEF Rest
<1>9. sale' \in [Tries -> Sales]
  BY <1>0, <1>2 DEF TypeOK, Sales
<1> QED
  BY <1>0, <1>1, <1>2, <1>3, <1>4, <1>5, <1>6, <1>7, <1>8, <1>9, RunLets

(* A run stops, after it has written no more than the state of the row. *)
LEMMA StopKept ==
  ASSUME RenewalInv, NEW u \in Runs, Stop(u), ~At(u, "bought"),
         row' \in Rows, row'.buys = row.buys, row'.tries = row.tries,
         aged' => aged, aged' \in BOOLEAN,
         UNCHANGED <<day, riderVars, sale, opened, charge, sentOn, crashes>>
  PROVE  RenewalInv'
<1>1. run' = [run EXCEPT ![u] = Rest] /\ Rest.at = "rest"
  BY DEF Stop, Go, Rest
<1>2. crashes \in Nat /\ sale' \in [Tries -> Sales]
  BY DEF RenewalInv, Typed, TypeOK, Sales
<1> QED
  BY <1>1, <1>2, RunLets

(* A run takes the next attempt, or the one nobody recorded a purchase for and nobody holds. *)
LEMMA TakeKept ==
  ASSUME RenewalInv, NEW u \in Runs, At(u, "listed"), NEW n \in Tries,
         n = IF Resumable THEN row.tries ELSE row.tries + 1,
         Write([state |-> "charging", buys |-> NoPurchase, tries |-> n, due |-> 0]),
         Go(u, [at |-> "claimed", n |-> n, today |-> run[u].today]),
         UNCHANGED <<day, riderVars, sale, opened, charge, sentOn, crashes>>
  PROVE  RenewalInv'
<1>0. /\ Typed /\ TypeOK /\ OneSale /\ OneRunEach /\ Sent /\ Withdrawn /\ Unbroken
      /\ \A v \in Runs : Taken(v)
      /\ n \in Nat /\ row.tries \in Nat /\ EndDay \in Nat /\ MaxTries \in Nat /\ n <= MaxTries
      /\ crashes \in Nat
  BY RenewalFields DEF RenewalInv, Typed
<1>1. row' = [state |-> "charging", buys |-> NoPurchase, tries |-> n, due |-> 0]
  BY DEF Write
<1>2. ~aged' /\ aged' \in BOOLEAN
  BY Zenon DEF Write
<1>3. ~Past(n) /\ \A m \in Tries : Past(m) => Past(m)'
  <2>1. row'.tries = n /\ \A m \in Tries : m \in Nat
    BY <1>0, <1>1, RenewalFields
  <2>2. CASE Resumable
    BY <1>0, <2>1, <2>2 DEF Past, Resumable
  <2>3. CASE ~Resumable
    <3>1. n = row.tries + 1 /\ row'.tries = row.tries + 1
      BY <2>1, <2>3
    <3>2. ASSUME NEW m \in Tries, Past(m) PROVE m <= row.tries /\ m < row'.tries
      BY <1>0, <2>1, <3>1, <3>2 DEF Past
    <3>3. ~Past(n)
      BY <1>0, <3>1 DEF Past
    <3> QED
      BY <3>2, <3>3 DEF Past
  <2> QED
    BY <2>2, <2>3
<1>4. charge[n] = "none" /\ sale[n] # "cancelled"
  BY <1>0, <1>3 DEF Sent
<1>5. ASSUME NEW v \in Runs, Holding(v)
      PROVE  run[v].n \in Tries /\ run[v].n # n /\ run[v].n <= row'.tries
  <2>1. run[v].n \in Tries /\ run[v].n \in Nat /\ Taken(v)
    BY <1>0, <1>5, RunFields, RenewalFields DEF Typed
  <2>2. CASE Resumable
    <3>1. aged
      BY <2>2 DEF Resumable
    <3>2. Past(run[v].n)
      BY <1>5, <2>1, <3>1 DEF Taken
    <3> QED
      BY <1>0, <1>1, <1>3, <1>5, <2>1, <2>2, <3>2 DEF Taken
  <2>3. CASE ~Resumable
    BY <1>0, <1>1, <1>5, <2>1, <2>3 DEF Taken
  <2> QED
    BY <2>2, <2>3
<1>6. [at |-> "claimed", n |-> n, today |-> run[u].today] \in Claiming
      /\ run[u].today = day /\ day < EndDay
  <2>1. run[u] \in Listing /\ ~At(u, "rest")
    BY <1>0, RunFields DEF Typed, At
  <2>2. run[u].today = day /\ day < EndDay
    BY <1>0, <2>1 DEF Typed, SameDay
  <2> QED
    BY <2>1, <2>2 DEF Listing, Claiming
<1>7. Typed' /\ run'[u] = [at |-> "claimed", n |-> n, today |-> run[u].today]
      /\ \A v \in Runs : v # u => run'[v] = run[v]
  <2>1. row' \in Rows
    <3>1. n # 0 /\ n \in 0 .. MaxTries /\ 0 \in 0 .. EndDay
      BY <1>0, RenewalFields DEF NoPurchase
    <3> QED
      BY <1>1, <3>1 DEF Rows, Fields, RowStates
  <2>2. sale' \in [Tries -> Sales] /\ {opened', sentOn'} \subseteq [Tries -> 0 .. EndDay]
        /\ charge' \in [Tries -> {"none", "sent", "taken", "taken_late", "declined"}]
    BY <1>0 DEF TypeOK, Sales
  <2>3. run' = [run EXCEPT ![u] = [at |-> "claimed", n |-> n, today |-> run[u].today]]
    BY DEF Go
  <2>4. row'.buys = NoPurchase
    BY <1>1
  <2> QED
    BY <1>0, <1>2, <1>6, <2>1, <2>2, <2>3, <2>4, StepTyped
<1>8. OneSale'
  BY <1>0 DEF OneSale, Waiting, Sold, riderVars
<1>9. ~Holding(u) /\ ~At(u, "bought") /\ Holding(u)' /\ ~At(u, "cleared")' /\ ~At(u, "bought")'
  BY <1>7 DEF Holding, At
<1>10. ASSUME NEW v \in Runs, v # u, Holding(v)' PROVE Holding(v) /\ run'[v] = run[v]
  BY <1>7, <1>10 DEF Holding
<1>11. ASSUME NEW v \in Runs PROVE Taken(v)'
  <2>1. CASE v = u
    BY <1>0, <1>1, <1>2, <1>4, <1>7, <1>9, <2>1 DEF Taken
  <2>2. CASE v # u /\ Holding(v)'
    <3>1. Holding(v) /\ run'[v] = run[v] /\ Taken(v) /\ run[v].n \in Tries
          /\ run[v].n <= row'.tries
      BY <1>0, <1>5, <1>10, <2>2
    <3>2. At(v, "cleared")' <=> At(v, "cleared")
      BY <3>1 DEF At
    <3>3. At(v, "cleared") => Past(run[v].n)'
      BY <1>3, <3>1 DEF Taken
    <3> QED
      BY <1>2, <3>1, <3>2, <3>3 DEF Taken, Past
  <2>3. CASE ~Holding(v)'
    BY <2>3 DEF Taken
  <2> QED
    BY <2>1, <2>2, <2>3
<1>12. OneRunEach'
  BY <1>0, <1>5, <1>7, <1>10 DEF OneRunEach
<1>13. Sent' /\ Withdrawn'
  BY <1>0, <1>3 DEF Sent, Withdrawn
<1>14. Unbroken'
  <2> SUFFICES ASSUME crashes' = 0
               PROVE  (\A v \in Runs : Fresh(v)') /\ \A m \in Tries : Recorded(m)'
    BY DEF Unbroken
  <2>1. crashes = 0 /\ (\A v \in Runs : Fresh(v)) /\ \A m \in Tries : Recorded(m)
    BY <1>0 DEF Unbroken
  <2>2. sale[n] = "none"
    <3>1. \A v \in Runs : At(v, "bought") => run[v].n # n
      BY <1>5 DEF At, Holding
    <3> QED
      BY <1>3, <2>1, <3>1 DEF Recorded
  <2>3. ASSUME NEW v \in Runs PROVE Fresh(v)'
    <3>1. CASE v = u
      BY <1>7, <1>9, <2>2, <3>1 DEF Fresh, At
    <3>2. CASE v # u
      BY <1>7, <2>1, <3>2 DEF Fresh, At
    <3> QED
      BY <3>1, <3>2
  <2>4. ASSUME NEW m \in Tries PROVE Recorded(m)'
    <3>1. \A v \in Runs : At(v, "bought") => run'[v] = run[v]
      BY <1>7, <1>9
    <3> QED
      BY <1>3, <2>1, <3>1 DEF Recorded, At
  <2> QED
    BY <2>3, <2>4
<1> QED
  BY <1>7, <1>8, <1>11, <1>12, <1>13, <1>14 DEF RenewalInv

(* A run claims the row it listed, or lets it be. *)
LEMMA ClaimKept == ASSUME RenewalInv, NEW u \in Runs, Claim(u) PROVE RenewalInv'
<1>0. Typed /\ row \in Rows /\ row \in Fields /\ EndDay \in Nat /\ MaxTries \in Nat
      /\ row.tries \in Nat
  BY RenewalFields DEF RenewalInv
<1>1. At(u, "listed") /\ ~At(u, "bought")
      /\ UNCHANGED <<day, riderVars, sale, opened, charge, sentOn, crashes>>
  BY DEF Claim, At
<1> DEFINE n == IF Resumable THEN row.tries ELSE row.tries + 1
<1>2. \/ (Keep \/ Mark("cancelled", 0) \/ Mark("needs_offer", 0)) /\ Stop(u)
      \/ /\ n <= MaxTries
         /\ Write([state |-> "charging", buys |-> NoPurchase, tries |-> n, due |-> 0])
         /\ Go(u, [at |-> "claimed", n |-> n, today |-> run[u].today])
  BY DEF Claim
<1>3. CASE (Keep \/ Mark("cancelled", 0) \/ Mark("needs_offer", 0)) /\ Stop(u)
  <2>1. 0 \in 0 .. EndDay /\ {"cancelled", "needs_offer"} \subseteq RowStates \ {"charging"}
    BY <1>0 DEF RowStates, PENDING
  <2>2. row' \in Rows /\ row'.buys = row.buys /\ row'.tries = row.tries
        /\ (aged' => aged) /\ aged' \in BOOLEAN
    BY <1>0, <1>3, <2>1, Marked, Kept
  <2> QED
    BY <1>1, <1>3, <2>2, StopKept
<1>4. CASE /\ n <= MaxTries
           /\ Write([state |-> "charging", buys |-> NoPurchase, tries |-> n, due |-> 0])
           /\ Go(u, [at |-> "claimed", n |-> n, today |-> run[u].today])
  <2>1. n \in Tries
    <3>1. Resumable => row.tries # 0
      BY <1>0 DEF Resumable, Rows
    <3> QED
      BY <1>0, <1>4, <3>1 DEF Tries
  <2> QED
    BY <1>1, <1>4, <2>1, TakeKept
<1> QED
  BY <1>2, <1>3, <1>4

-----------------------------------------------------------------------------
(* The checkout ends the run, finds the purchase of an earlier attempt, is refused, or sells. *)
LEMMA CheckoutKept == ASSUME RenewalInv, NEW u \in Runs, Checkout(u) PROVE RenewalInv'
<1> DEFINE n == run[u].n
           bought(state) == [at |-> "bought", n |-> n, state |-> state, today |-> run[u].today]
<1>0. /\ Typed /\ TypeOK /\ OneSale /\ Unbroken /\ Taken(u) /\ row \in Rows /\ crashes \in Nat
      /\ aged \in BOOLEAN
  BY RenewalFields, Zenon DEF RenewalInv, Typed, TypeOK
<1>1. /\ At(u, "claimed") /\ ~At(u, "bought") /\ ~At(u, "cleared") /\ Holding(u)
      /\ UNCHANGED <<day, riderVars, row, aged, charge, sentOn, crashes>>
  BY DEF Checkout, At, Holding
<1>2. n \in Tries /\ run[u].today \in Days /\ run[u].today = day /\ day < EndDay
  <2>1. run[u] \in Claiming /\ ~At(u, "rest")
    BY <1>0, <1>1, RunFields DEF Typed, At
  <2> QED
    BY <1>0, <2>1 DEF Claiming, Typed, SameDay
<1>3. /\ {opened, sentOn} \subseteq [Tries -> 0 .. EndDay] /\ sale \in [Tries -> Sales]
      /\ charge \in [Tries -> {"none", "sent", "taken", "taken_late", "declined"}]
      /\ day \in 0 .. EndDay
  BY <1>0 DEF TypeOK, Sales
<1>4. row.buys # NoPurchase => row.buys \in Tries /\ sale[row.buys] # "none"
  BY <1>0, RenewalFields DEF Typed, SoldOnce
<1>5. CASE Stop(u) /\ UNCHANGED <<sale, opened>>
  BY <1>0, <1>1, <1>5, StopKept
<1>6. CASE sale[n] # "none" /\ Go(u, bought(sale[n])) /\ UNCHANGED <<sale, opened>>
  <2>1. bought(sale[n]) \in Buying /\ run' = [run EXCEPT ![u] = bought(sale[n])]
    BY <1>2, <1>3, <1>6 DEF Buying, Go
  <2>2. Typed' /\ run'[u] = bought(sale[n]) /\ \A v \in Runs : v # u => run'[v] = run[v]
    BY <1>0, <1>1, <1>2, <1>3, <1>4, <1>6, <2>1, StepTyped
  <2>3. OneSale'
    BY <1>0, <1>1, <1>6 DEF OneSale, Waiting, Sold, riderVars
  <2>4. Holding(u)' /\ run'[u].n = n /\ ~At(u, "cleared")'
    BY <2>2 DEF Holding, At
  <2>5. sale'[n] # "cancelled" /\ crashes # 0
    BY <1>0, <1>1, <1>6 DEF Taken, Unbroken, Fresh, At
  <2> QED
    BY <1>0, <1>1, <1>2, <1>6, <2>2, <2>3, <2>4, <2>5, HolderStays
<1>7. CASE /\ sale[n] = "none" /\ UNCHANGED <<sale, opened>>
           /\ Go(u, [at |-> "refused", n |-> n, today |-> run[u].today,
                     state |-> IF Covered /\ ~held THEN "cancelled" ELSE "failed"])
  <2>1. PICK new \in Refusing :
          run' = [run EXCEPT ![u] = new] /\ new.n = n /\ new.today = run[u].today
    <3>1. PICK state \in {"cancelled", "failed"} :
            Go(u, [at |-> "refused", n |-> n, today |-> run[u].today, state |-> state])
      BY <1>7
    <3> DEFINE turned == [at |-> "refused", n |-> n, today |-> run[u].today, state |-> state]
    <3>2. turned \in Refusing /\ turned.n = n /\ turned.today = run[u].today
      BY <1>2 DEF Refusing
    <3>3. run' = [run EXCEPT ![u] = turned]
      BY <3>1 DEF Go
    <3> HIDE DEF turned
    <3> QED
      BY <3>2, <3>3
  <2>2. Typed' /\ run'[u] = new /\ new.at = "refused" /\ \A v \in Runs : v # u => run'[v] = run[v]
    <3>1. new.at = "refused"
      BY DEF Refusing
    <3> QED
      BY <1>0, <1>1, <1>2, <1>3, <1>4, <1>7, <2>1, <3>1, StepTyped
  <2>3. OneSale'
    BY <1>0, <1>1, <1>7 DEF OneSale, Waiting, Sold, riderVars
  <2>4. Holding(u)' /\ run'[u].n = n /\ ~At(u, "cleared")'
    BY <2>1, <2>2 DEF Holding, At
  <2>5. sale'[n] # "cancelled" /\ Fresh(u)' /\ Recorded(n)'
    BY <1>7, <2>1, <2>2 DEF Fresh, Recorded, At
  <2> QED
    BY <1>0, <1>1, <1>2, <1>7, <2>2, <2>3, <2>4, <2>5, HolderStays
<1>8. CASE /\ sale[n] = "none" /\ ~Refused
           /\ sale' = [sale EXCEPT ![n] = "awaiting_payment"]
           /\ opened' = [opened EXCEPT ![n] = day]
           /\ Go(u, bought("awaiting_payment"))
  <2>1. bought("awaiting_payment") \in Buying /\ run' = [run EXCEPT ![u] = bought("awaiting_payment")]
    BY <1>2, <1>8 DEF Buying, Go, Sales
  <2>2. /\ sale' \in [Tries -> Sales] /\ opened' \in [Tries -> 0 .. EndDay]
        /\ \A m \in Tries : sale'[m] = IF m = n THEN "awaiting_payment" ELSE sale[m]
        /\ \A m \in Tries : opened'[m] = IF m = n THEN day ELSE opened[m]
    BY <1>2, <1>3, <1>8 DEF Sales
  <2>3. Typed' /\ run'[u] = bought("awaiting_payment") /\ \A v \in Runs : v # u => run'[v] = run[v]
    <3>1. \A m \in Tries : sale[m] # "none" => sale'[m] # "none"
      BY <2>2
    <3>2. sale'[n] # "none"
      BY <1>2, <2>2
    <3>3. sentOn' = sentOn /\ charge' = charge /\ row' = row /\ aged' = aged /\ crashes' = crashes
      BY <1>1
    <3>4. row'.buys # NoPurchase => sale'[row'.buys] # "none"
      BY <1>4, <3>1, <3>3
    <3>5. PICK new \in Buying : /\ run' = [run EXCEPT ![u] = new] /\ new.n = n
                               /\ new.today = run[u].today /\ new = bought("awaiting_payment")
      BY <2>1
    <3>6. new.at = "bought"
      BY DEF Buying
    <3>7. {opened', sentOn'} \subseteq [Tries -> 0 .. EndDay] /\ sale' \in [Tries -> Sales]
          /\ charge' \in [Tries -> {"none", "sent", "taken", "taken_late", "declined"}]
          /\ row' \in Rows /\ aged' \in BOOLEAN /\ crashes' \in Nat
      BY <1>0, <1>3, <2>2, <3>3
    <3>9. UNCHANGED <<day, riderVars>>
      BY <1>1
    <3>10. /\ new.at # "rest" => new.today = day /\ day < EndDay
           /\ new.at \in {"bought", "cleared", "follow"} => sale'[new.n] # "none"
      BY <1>2, <3>2, <3>5
    <3> HIDE DEF bought
    <3>8. Typed' /\ run'[u] = new /\ \A v \in Runs : v # u => run'[v] = run[v]
      BY <1>0, <3>1, <3>4, <3>5, <3>6, <3>7, <3>9, <3>10, StepTyped
    <3> QED
      BY <3>5, <3>8
  <2>4. OneSale'
    <3>1. rival = "none" /\ Waiting = {} /\ \A m \in Tries : ~Sold(m)
      BY <1>0, <1>8 DEF Refused, Covered
    <3>2. rival' = "none"
      BY <1>1, <3>1 DEF riderVars
    <3>3. \A m \in Tries : sale'[m] # "fulfilled" /\ (sale'[m] = "awaiting_payment" => m = n)
      BY <2>2, <3>1 DEF Waiting, Sold
    <3> QED
      BY <3>2, <3>3 DEF OneSale, Waiting, Sold
  <2>5. Holding(u)' /\ run'[u].n = n /\ ~At(u, "cleared")'
    BY <2>3 DEF Holding, At
  <2>6. sale'[n] # "cancelled" /\ Fresh(u)' /\ Recorded(n)'
    BY <1>1, <1>2, <2>2, <2>3 DEF Fresh, Recorded, At
  <2> QED
    BY <1>0, <1>1, <1>2, <2>2, <2>3, <2>4, <2>5, <2>6, HolderStays
<1> QED
  BY <1>5, <1>6, <1>7, <1>8 DEF Checkout

(* A refused attempt is over. *)
LEMMA MarkRefusedKept == ASSUME RenewalInv, NEW u \in Runs, MarkRefused(u) PROVE RenewalInv'
<1>0. Typed /\ EndDay \in Nat
  BY RenewalFields DEF RenewalInv
<1>1. /\ At(u, "refused") /\ ~At(u, "bought") /\ Stop(u)
      /\ Mark(run[u].state, IF run[u].state = "failed" THEN RetryOn(run[u].today) ELSE 0)
      /\ UNCHANGED <<day, riderVars, sale, opened, charge, sentOn, crashes>>
  BY DEF MarkRefused, At
<1>2. run[u] \in Refusing
  BY <1>0, <1>1, RunFields DEF Typed
<1>3. run[u].state \in RowStates \ {"charging"}
      /\ (IF run[u].state = "failed" THEN RetryOn(run[u].today) ELSE 0) \in 0 .. EndDay
  BY <1>0, <1>2 DEF Refusing, Days, RowStates, PENDING, RetryOn
<1>4. row' \in Rows /\ row'.buys = row.buys /\ row'.tries = row.tries
      /\ (aged' => aged) /\ aged' \in BOOLEAN
  BY <1>0, <1>1, <1>3, Marked
<1> QED
  BY <1>1, <1>4, StopKept

(* The purchase is in the row, and the charge goes ahead, or is called off, or was made before. *)
LEMMA LastCheckKept == ASSUME RenewalInv, NEW u \in Runs, LastCheck(u) PROVE RenewalInv'
<1>n. PICK n : n = run[u].n
  OBVIOUS
<1> DEFINE waiting == run[u].state = "awaiting_payment"
           onto(at) == [at |-> at, n |-> n, today |-> run[u].today]
<1>0. /\ Typed /\ TypeOK /\ OneSale /\ Unbroken /\ Taken(u) /\ row \in Fields /\ row \in Rows
      /\ crashes \in Nat /\ row.tries \in Nat
  BY RenewalFields DEF RenewalInv, Typed
<1>1. /\ At(u, "bought") /\ ~At(u, "cleared") /\ Holding(u)
      /\ UNCHANGED <<day, riderVars, opened, charge, sentOn, crashes>>
  BY DEF LastCheck, At, Holding
<1>2. n \in Tries /\ n \in Nat /\ n # NoPurchase /\ run[u].today \in Days /\ run[u].today = day
      /\ day < EndDay /\ sale[n] # "none"
  <2>1. run[u] \in Buying /\ ~At(u, "rest")
    BY <1>0, <1>1, RunFields DEF Typed, At
  <2> QED
    BY <1>0, <1>1, <1>n, <2>1, RenewalFields DEF Buying, Typed, SameDay, SoldOnce, At
<1>3. /\ {opened, sentOn} \subseteq [Tries -> 0 .. EndDay] /\ sale \in [Tries -> Sales]
      /\ charge \in [Tries -> {"none", "sent", "taken", "taken_late", "declined"}]
  BY <1>0 DEF TypeOK, Sales
<1>4. /\ row' \in Rows /\ row'.buys = n /\ row'.tries = row.tries
      /\ (aged' => aged) /\ aged' \in BOOLEAN
  <2>1. PICK state \in {row.state, "cancelled"} : row' = [row EXCEPT !.buys = n, !.state = state]
    BY <1>n DEF LastCheck, Write
  <2>2. row.state \in RowStates /\ "cancelled" \in RowStates \ {"charging"}
    BY <1>0 DEF Fields, RowStates, PENDING
  <2>3. (aged' => aged) /\ aged' \in BOOLEAN
    BY Zenon DEF LastCheck, Write
  <2> QED
    BY <1>0, <1>2, <2>1, <2>2, <2>3 DEF Rows, Fields
<1>5. /\ sale' \in [Tries -> Sales]
      /\ \A m \in Tries : sale'[m] = IF m = n /\ waiting /\ ~Consent THEN "cancelled" ELSE sale[m]
  BY <1>2, <1>3, <1>n DEF LastCheck, Sales
<1>6. OneSale'
  <2>1. rival' = rival /\ Waiting' \subseteq Waiting /\ \A m \in Tries : Sold(m)' => Sold(m)
    BY <1>1, <1>5 DEF riderVars, Waiting, Sold
  <2> QED
    BY <1>0, <2>1 DEF OneSale
<1>7. \A m \in Tries : /\ sale[m] # "none" => sale'[m] # "none"
                       /\ m # n => sale'[m] = sale[m] /\ charge'[m] = charge[m] /\ opened'[m] = opened[m]
  BY <1>1, <1>5
<1>8. Past(n)'
  <2>1. n <= row.tries
    BY <1>0, <1>1, <1>n DEF Taken
  <2> QED
    BY <1>0, <1>2, <1>4, <2>1 DEF Past
<1>9. charge[n] = "none" /\ sale[n] # "cancelled"
  BY <1>0, <1>1, <1>n DEF Taken
<1>10. \/ run' = [run EXCEPT ![u] = onto("cleared")] /\ waiting /\ Consent
       \/ run' = [run EXCEPT ![u] = onto("follow")]
       \/ run' = [run EXCEPT ![u] = Rest]
  BY <1>n DEF LastCheck, Go, Stop
<1>11. {onto("cleared"), onto("follow")} \subseteq Following
  BY <1>2 DEF Following
<1>12. ASSUME NEW new \in {Rest} \cup Following, run' = [run EXCEPT ![u] = new],
              new # Rest => new.n = n /\ new.today = run[u].today
       PROVE  Typed' /\ run'[u] = new /\ \A v \in Runs : v # u => run'[v] = run[v]
  <2>1. new.at # "listed" /\ (new.at # "rest" => new.today = day /\ day < EndDay)
    BY <1>2, <1>12 DEF Rest, Following
  <2>2. new.at \in {"bought", "cleared", "follow"} => sale'[new.n] # "none"
    BY <1>2, <1>7, <1>12 DEF Rest
  <2>3. row'.buys # NoPurchase => sale'[row'.buys] # "none"
    BY <1>2, <1>4, <1>7
  <2>4. /\ {opened', sentOn'} \subseteq [Tries -> 0 .. EndDay] /\ crashes' \in Nat
        /\ charge' \in [Tries -> {"none", "sent", "taken", "taken_late", "declined"}]
    BY <1>0, <1>1, <1>3
  <2> QED
    BY <1>0, <1>1, <1>4, <1>5, <1>7, <1>12, <2>1, <2>2, <2>3, <2>4, StepTyped
<1>13. CASE run' = [run EXCEPT ![u] = onto("cleared")] /\ waiting /\ Consent
  <2>1. onto("cleared") \in {Rest} \cup Following /\ onto("cleared").n = n
        /\ onto("cleared").today = run[u].today
    BY <1>11
  <2>2. Typed' /\ run'[u] = onto("cleared") /\ \A v \in Runs : v # u => run'[v] = run[v]
    BY <1>12, <1>13, <2>1
  <2>3. Holding(u)' /\ run'[u].n = n
    BY <2>2 DEF Holding
  <2>4. sale'[n] = sale[n]
    BY <1>2, <1>5, <1>13
  <2>5. crashes = 0 => Fresh(u)' /\ Recorded(n)'
    <3>1. crashes = 0 => sale[n] = "awaiting_payment" /\ opened[n] = day
      BY <1>0, <1>1, <1>n DEF Unbroken, Fresh, At
    <3> QED
      BY <1>1, <1>8, <2>2, <2>4, <3>1 DEF Fresh, Recorded, At
  <2> QED
    BY <1>1, <1>2, <1>4, <1>6, <1>7, <1>8, <1>9, <1>n, <2>2, <2>3, <2>4, <2>5, HolderStays
<1>14. CASE \/ run' = [run EXCEPT ![u] = onto("follow")]
            \/ run' = [run EXCEPT ![u] = Rest]
  <2>1. PICK new \in {Rest} \cup Following :
          /\ run' = [run EXCEPT ![u] = new] /\ new.at # "cleared"
          /\ new # Rest => new.n = n /\ new.today = run[u].today
    BY <1>11, <1>14 DEF Rest
  <2>2. Typed' /\ run'[u] = new /\ \A v \in Runs : v # u => run'[v] = run[v]
    BY <1>12, <2>1
  <2>3. ~Holding(u)'
    BY <2>1, <2>2 DEF Holding, Rest, Following
  <2>4. sale'[n] = "cancelled" => charge'[n] = "none"
    BY <1>1, <1>9
  <2> QED
    BY <1>1, <1>2, <1>4, <1>6, <1>7, <1>8, <1>n, <2>2, <2>3, <2>4, HolderLeaves
<1> QED
  BY <1>10, <1>13, <1>14

(* The request is sent, or lost on its way; the run no longer charges either way. *)
LEMMA ChargeKept == ASSUME RenewalInv, NEW u \in Runs, Charge(u) PROVE RenewalInv'
<1>n. PICK n : n = run[u].n
  OBVIOUS
<1> DEFINE new == [at |-> "follow", n |-> n, today |-> run[u].today]
<1>0. /\ Typed /\ TypeOK /\ OneSale /\ Taken(u) /\ row \in Rows /\ crashes \in Nat
      /\ aged \in BOOLEAN
  BY RenewalFields, Zenon DEF RenewalInv, Typed, TypeOK
<1>1. /\ At(u, "cleared") /\ Holding(u) /\ run' = [run EXCEPT ![u] = new]
      /\ UNCHANGED <<day, riderVars, row, aged, sale, opened, crashes>>
  BY <1>n DEF Charge, At, Holding, Go
<1>2. n \in Tries /\ run[u].today = day /\ day < EndDay /\ sale[n] # "none" /\ new \in Following
  <2>1. run[u] \in Following /\ ~At(u, "rest")
    BY <1>0, <1>1, RunFields DEF Typed, At
  <2> QED
    BY <1>0, <1>1, <1>n, <2>1 DEF Following, Typed, SameDay, SoldOnce, At
<1>3. /\ {opened, sentOn} \subseteq [Tries -> 0 .. EndDay] /\ sale \in [Tries -> Sales]
      /\ charge \in [Tries -> {"none", "sent", "taken", "taken_late", "declined"}]
      /\ day \in 0 .. EndDay
  BY <1>0 DEF TypeOK, Sales
<1>4. /\ charge' = charge \/ charge' = [charge EXCEPT ![n] = "sent"]
      /\ sentOn' = sentOn \/ sentOn' = [sentOn EXCEPT ![n] = day]
  BY <1>n DEF Charge
<1>5. /\ charge' \in [Tries -> {"none", "sent", "taken", "taken_late", "declined"}]
      /\ sentOn' \in [Tries -> 0 .. EndDay]
      /\ \A m \in Tries : m # n => charge'[m] = charge[m]
  BY <1>3, <1>4
<1>6. row.buys # NoPurchase => row.buys \in Tries /\ sale[row.buys] # "none"
  BY <1>0, RenewalFields DEF Typed, SoldOnce
<1>7. Typed' /\ run'[u] = new /\ \A v \in Runs : v # u => run'[v] = run[v]
  <2>1. new.today = day /\ new.n = n /\ new.at = "follow"
    BY <1>2, <1>n
  <2> HIDE DEF new
  <2> QED
    BY <1>0, <1>1, <1>2, <1>3, <1>5, <1>6, <2>1, StepTyped
<1>8. OneSale'
  BY <1>0, <1>1 DEF OneSale, Waiting, Sold, riderVars
<1>9. ~Holding(u)'
  BY <1>7 DEF Holding
<1>10. Past(n)' /\ sale'[n] # "cancelled"
  BY <1>0, <1>1, <1>n DEF Taken, Past
<1> QED
  BY <1>0, <1>1, <1>2, <1>5, <1>7, <1>8, <1>9, <1>10, <1>n, HolderLeaves

(* A run follows up the purchase it found in the row. *)
LEMMA FollowListedKept == ASSUME RenewalInv, NEW u \in Runs, FollowListed(u) PROVE RenewalInv'
<1>n. PICK n : n = run[u].row.buys
  OBVIOUS
<1> DEFINE new == [at |-> "follow", n |-> n, today |-> run[u].today]
<1>0. /\ Typed /\ TypeOK /\ row \in Rows /\ crashes \in Nat /\ aged \in BOOLEAN
  BY RenewalFields, Zenon DEF RenewalInv, Typed, TypeOK
<1>1. /\ At(u, "listed") /\ ~At(u, "bought") /\ run' = [run EXCEPT ![u] = new] /\ n # NoPurchase
      /\ UNCHANGED <<day, riderVars, row, aged, sale, opened, charge, sentOn, crashes>>
  BY <1>n DEF FollowListed, At, Go, Follows
<1>2. /\ n \in Tries /\ run[u].today = day /\ day < EndDay /\ sale[n] # "none"
      /\ new \in Following
  <2>1. run[u] \in Listing /\ ~At(u, "rest") /\ run[u].row \in Fields
    BY <1>0, <1>1, RunFields DEF Typed, At, Listing, Rows
  <2> QED
    BY <1>0, <1>1, <1>n, <2>1 DEF Following, Listing, Fields, Typed, SameDay, SoldOnce
<1>3. sale' \in [Tries -> Sales]
  BY <1>0, <1>1 DEF TypeOK, Sales
<1>4. new.today = day /\ new.n = n /\ new.at = "follow"
  BY <1>2, <1>n
<1> HIDE DEF new
<1> QED
  BY <1>0, <1>1, <1>2, <1>3, <1>4, RunLets

(* A run reads how its purchase ended, or gives it up a day later; nobody is about to charge one
   that has waited since yesterday. *)
LEMMA ReadOutcomeKept == ASSUME RenewalInv, NEW u \in Runs, ReadOutcome(u) PROVE RenewalInv'
<1>n. PICK n : n = run[u].n
  OBVIOUS
<1>0. /\ Typed /\ TypeOK /\ Unbroken /\ row \in Rows /\ crashes \in Nat /\ EndDay \in Nat
  BY RenewalFields DEF RenewalInv, Typed
<1>1. /\ At(u, "follow") /\ ~At(u, "bought") /\ run' = [run EXCEPT ![u] = Rest]
      /\ UNCHANGED <<day, riderVars, opened, charge, sentOn, crashes>>
  BY DEF ReadOutcome, At, Go, Stop
<1>2. n \in Tries /\ run[u].today = day /\ day < EndDay /\ day \in Nat /\ sale[n] # "none"
      /\ sale \in [Tries -> Sales]
  <2>1. run[u] \in Following /\ ~At(u, "rest")
    BY <1>0, <1>1, RunFields DEF Typed, At
  <2> QED
    BY <1>0, <1>1, <1>n, <2>1, RenewalFields DEF Following, Typed, TypeOK, Sales, SameDay, SoldOnce, At
<1>3. \/ /\ Keep \/ Mark("paid", 0) \/ Mark("failed", day + 1)
         /\ sale' = sale
      \/ /\ sale[n] = "awaiting_payment" /\ opened[n] < day
         /\ sale' = [sale EXCEPT ![n] = "failed"] /\ Mark("failed", day + 1)
  <2>1. sale[n] \in {"awaiting_payment", "fulfilled", "failed", "cancelled"}
    BY <1>2 DEF Sales
  <2> QED
    BY <1>2, <1>n, <2>1 DEF ReadOutcome, RetryOn
<1>4. /\ row' \in Rows /\ row'.buys = row.buys /\ row'.tries = row.tries
      /\ (aged' => aged) /\ aged' \in BOOLEAN
  <2>1. {0, day + 1} \subseteq 0 .. EndDay /\ {"paid", "failed"} \subseteq RowStates \ {"charging"}
    BY <1>0, <1>2 DEF RowStates, PENDING
  <2> QED
    BY <1>0, <1>3, <2>1, Marked, Kept
<1>5. ASSUME sale[n] = "awaiting_payment", opened[n] < day, NEW v \in Runs, crashes = 0, Holding(v)
      PROVE  run[v].n # n
  <2>1. Fresh(v)
    BY <1>0, <1>5 DEF Unbroken
  <2>2. opened[n] # day
    BY <1>2, <1>5
  <2> QED
    BY <1>5, <2>1, <2>2 DEF Fresh, Holding, At
<1>6. sale' \in [Tries -> Sales]
  BY <1>2, <1>3 DEF Sales
<1>7. \A m \in Tries :
        \/ sale'[m] = sale[m]
        \/ /\ sale[m] = "awaiting_payment" /\ sale'[m] = "failed"
           /\ \A v \in Runs : crashes = 0 /\ Holding(v) => run[v].n # m
  BY <1>2, <1>3, <1>5
<1>8. Rest.at = "rest"
  BY DEF Rest
<1> QED
  BY <1>0, <1>1, <1>4, <1>6, <1>7, <1>8, RunLets

(* A run dies. *)
LEMMA CrashKept == ASSUME RenewalInv, NEW u \in Runs, Crash(u) PROVE RenewalInv'
<1>0. /\ Typed /\ TypeOK /\ row \in Rows /\ crashes \in Nat /\ aged \in BOOLEAN
  BY RenewalFields, Zenon DEF RenewalInv, Typed, TypeOK
<1>1. /\ run' = [run EXCEPT ![u] = Rest] /\ crashes' = crashes + 1 /\ Rest.at = "rest"
      /\ UNCHANGED <<day, riderVars, row, aged, sale, opened, charge, sentOn>>
  BY DEF Crash, Go, Stop, Rest
<1>2. sale' \in [Tries -> Sales]
  BY <1>0, <1>1 DEF TypeOK, Sales
<1>3. crashes' \in Nat /\ crashes' # 0
  BY <1>0, <1>1
<1> QED
  BY <1>0, <1>1, <1>2, <1>3, RunLets

-----------------------------------------------------------------------------
LEMMA RenewalInitially == ASSUME Init PROVE RenewalInv
<1>1. TypeOK
  <2>1. {enabled, card, erased, held, aged} \subseteq BOOLEAN
    BY Zenon DEF Init
  <2>2. 0 \in 0 .. EndDay /\ 0 \in 0 .. MaxTries
    BY RenewalAssumption
  <2> QED
    BY <2>1, <2>2 DEF Init, TypeOK, RowStates, PENDING, Rest
<1>2. /\ row \in Rows /\ crashes \in Nat /\ row.buys = NoPurchase
      /\ \A u \in Runs : run[u] = Rest
      /\ \A n \in Tries : sale[n] = "none" /\ charge[n] = "none"
  BY <1>1 DEF Init, TypeOK, Rows, Fields
<1>3. RunsTyped
  BY DEF Init, RunsTyped
<1>4. SameDay /\ SoldOnce /\ OneSale /\ OneRunEach /\ Sent /\ Withdrawn
  BY <1>2 DEF SameDay, SoldOnce, OneSale, Waiting, OneRunEach, Holding, At, Sent, Withdrawn, Rest
<1>5. Unbroken /\ \A u \in Runs : Taken(u)
  BY <1>2 DEF Unbroken, Fresh, Recorded, Taken, Holding, At, Rest
<1> QED
  BY <1>1, <1>2, <1>3, <1>4, <1>5 DEF RenewalInv, Typed

LEMMA RenewalStep == ASSUME RenewalInv, [Next]_vars PROVE RenewalInv'
<1>1. CASE Tick \/ Age \/ Rider
  BY <1>1, RiderKept
<1>2. CASE \E n \in Tries : Collect(n) \/ Decline(n) \/ Fulfil(n) \/ Refuse(n)
  BY <1>2, ChargesKept, EvidenceKept
<1>3. CASE \E u \in Runs : RunStep(u) \/ Crash(u)
  BY <1>3, ScanKept, ClaimKept, CheckoutKept, MarkRefusedKept, LastCheckKept, ChargeKept,
     FollowListedKept, ReadOutcomeKept, CrashKept DEF RunStep
<1>4. CASE UNCHANGED vars
  BY <1>4 DEF vars, riderVars, RenewalInv, Typed, TypeOK, RunsTyped, SameDay, SoldOnce, OneSale,
     Waiting, Sold, Past, Holding, Taken, OneRunEach, Sent, Withdrawn, Fresh, Recorded, Unbroken, At
<1> QED
  BY <1>1, <1>2, <1>3, <1>4 DEF Next

(* The row, the attempts and the runs stay well typed, and nothing was sent to the provider for a
   purchase that was withdrawn, whichever runs overlap and die (auto-renewal.ts:756). *)
THEOREM WithdrawalsAreClean == Spec => []RenewalSafe
<1>1. RenewalInv => RenewalSafe
  BY DEF RenewalInv, Typed, Withdrawn, RenewalSafe, WithdrawnWasNeverSent
<1> QED
  BY <1>1, RenewalInitially, RenewalStep, PTL DEF Spec

(* As long as no run dies, a card is never charged for days the rider has paid for already:
   what is about to be charged still waits for its money, and then nothing else covers the days. *)
THEOREM PaidDaysAreNotCharged == Spec => NeverChargedForPaidDays
<1>1. ASSUME RenewalInv, [Next]_vars
      PROVE  \A n \in Tries : crashes = 0 /\ charge[n] = "none" /\ charge'[n] = "sent" => ~Covered
  <2> SUFFICES ASSUME NEW n \in Tries, crashes = 0, charge[n] = "none", charge'[n] = "sent"
               PROVE  ~Covered
    OBVIOUS
  <2>0. charge \in [Tries -> {"none", "sent", "taken", "taken_late", "declined"}]
        /\ OneSale /\ \A u \in Runs : Fresh(u)
    BY <1>1 DEF RenewalInv, Typed, TypeOK, Unbroken
  <2>1. charge' # charge
    OBVIOUS
  <2>2. PICK u \in Runs : Charge(u)
    <3>1. ASSUME NEW m \in Tries, Collect(m) \/ Decline(m) PROVE FALSE
      BY <2>0, <3>1 DEF Collect, Decline
    <3> QED
      BY <1>1, <2>1, <3>1 DEF Next, vars, Tick, Age, Rider, TurnOn, TurnOff, RemoveCard, EraseAccount,
         Hold, BuyElsewhere, Expire, Fulfil, Refuse, RunStep, Scan, Claim, Checkout, MarkRefused,
         LastCheck, FollowListed, ReadOutcome, Crash
  <2>3. run[u].n = n /\ At(u, "cleared")
    BY <2>0, <2>2 DEF Charge
  <2>4. n \in Waiting
    BY <2>0, <2>3 DEF Fresh, At, Waiting
  <2> QED
    BY <2>0, <2>4 DEF OneSale, Covered
<1> QED
  BY <1>1, RenewalInitially, RenewalStep, PTL DEF Spec, NeverChargedForPaidDays

=============================================================================
