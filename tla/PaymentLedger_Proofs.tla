------------------------ MODULE PaymentLedger_Proofs ------------------------
(***************************************************************************)
(* Theorems about PaymentLedger, for every rider, every set of purchases   *)
(* and terms, and every set of provider evidence in any order:             *)
(*   TypeCorrect          the rows stay well typed,                        *)
(*   MoneyIsSound         credit is reserved once, spent once, covered,    *)
(*   CollectionsAreSound  collected money is coverage or a review,         *)
(* and what the money bought: rides, days, pauses and the promise they     *)
(* keep.  Each is an induction over Next, one lemma per transaction.       *)
(***************************************************************************)
EXTENDS PaymentLedger, FiniteSums, TLAPS

(* An event names a purchase of the rider, and the ids and states its kind has. *)
LEMMA EventFields ==
  ASSUME NEW e \in Events
  PROVE  /\ e.ref \in Purchases /\ e.portion \in Portions
         /\ e.kind = "success" => e.tx \in Transactions /\ e.paidAt \in Day
         /\ e.kind = "refund" => e.id \in Refunds /\ e.state \in RefundStates
         /\ e.kind = "dispute" =>
              e.id \in Disputes /\ e.state \in DisputeStates /\ e.resolution \in Resolutions
BY EventsAssumption DEF EventSet

(* The empty account is well typed. *)
LEMMA TypeInit == Init => TypeOK
<1> SUFFICES ASSUME Init PROVE TypeOK
  OBVIOUS
<1>1. day \in Day /\ credit \in Int
  BY ClockAssumption DEF Init, Day
<1>0. deleted \in BOOLEAN
  BY Zenon DEF Init
<1>2. SaleType
  BY ClockAssumption DEF Init, SaleType, Day
<1>3. CoverType
  <2>1. NoPause \in PauseRows /\ NoClosure \in ClosureRows /\ NoReversal \in ReversalRows
    BY DEF NoPause, PauseRows, NoClosure, ClosureRows, NoReversal, ReversalRows
  <2> QED
    BY <2>1 DEF Init, CoverType, Seats
<1>4. EvidenceType
  <2>1. NoRefund \in RefundRows /\ NoDispute \in DisputeRows
    BY DEF NoRefund, RefundRows, NoDispute, DisputeRows, Resolutions
  <2> QED
    BY <2>1 DEF Init, EvidenceType
<1> QED
  BY <1>0, <1>1, <1>2, <1>3, <1>4 DEF TypeOK

-----------------------------------------------------------------------------
(* What leaves the purchases, holds and attempts alone keeps their types. *)
LEMMA SaleFrame == ASSUME SaleType, UNCHANGED saleVars PROVE SaleType'
BY DEF SaleType, saleVars

(* What leaves periods, seats, pauses and closures alone keeps their types. *)
LEMMA CoverFrame == ASSUME CoverType, UNCHANGED coverVars PROVE CoverType'
BY DEF CoverType, coverVars

(* What leaves the provider's evidence and the reviews alone keeps their types. *)
LEMMA EvidenceFrame == ASSUME EvidenceType, UNCHANGED evidenceVars PROVE EvidenceType'
BY DEF EvidenceType, evidenceVars

(* TypeOK after a step is the sum of its parts when the clock and the account stand still. *)
LEMMA TypeFrame ==
  ASSUME TypeOK, UNCHANGED <<day, deleted>>, credit' \in Int,
         SaleType', CoverType', EvidenceType'
  PROVE  TypeOK'
<1>1. day' \in Day
  BY DEF TypeOK
<1>2. deleted' \in BOOLEAN
  BY Zenon DEF TypeOK
<1> QED
  BY <1>1, <1>2 DEF TypeOK

(* The frozen terms of a purchase are natural numbers, and no price is below the minimum. *)
LEMMA TermFields ==
  ASSUME NEW p \in Purchases
  PROVE  /\ Terms[p].price \in Nat /\ Terms[p].expires \in Nat
         /\ Terms[p].start \in Nat /\ Terms[p].end \in Nat
         /\ Terms[p].rides["outbound"] \in Nat /\ Terms[p].rides["return"] \in Nat
         /\ Terms[p].price >= MinCharge
BY TermsAssumption DEF TermsSet, Direction

(* The sum of the held credit is an integer, whichever rows are held. *)
LEMMA HeldTyped == ASSUME SaleType, NEW holds PROVE HeldIn(holds) \in Int
BY DEF SaleType, HeldIn

(* The cash a purchase asks for is an integer. *)
LEMMA CashTyped == ASSUME SaleType, NEW p \in Purchases PROVE Cash(p) \in Int
BY TermFields DEF SaleType, Cash

(* So is every amount the provider reports for it. *)
LEMMA AmountTyped == ASSUME SaleType, NEW e \in Events PROVE Amount(e) \in Int
BY EventFields, CashTyped DEF Amount, Portions

(* The ride balance of a period is an integer; what was granted is never negative. *)
LEMMA RidesTyped ==
  ASSUME CoverType, NEW p \in Purchases
  PROVE  Granted(p) \in Nat /\ Consumed(p) \in Int /\ RideBalance(p) \in Int
<1>1. Granted(p) \in Nat
  BY TermFields DEF Granted, Both
<1>2. Consumed(p) \in Int
  BY DEF CoverType, Consumed, Both, Seats, Direction
<1>3. closure[p].rides \in Int /\ reversal[p].rides \in Int
  BY DEF CoverType, ClosureRows, ReversalRows
<1> QED
  BY <1>1, <1>2, <1>3 DEF RideBalance

(* Settling due pauses keeps pauses and ends well typed (settle_personal_pauses). *)
LEMMA SettledTyped ==
  ASSUME CoverType
  PROVE  SettledPause \in [Purchases -> PauseRows] /\ SettledEnd \in [Purchases -> Int]
BY DEF CoverType, SettledPause, SettledEnd, PauseRows, DuePauses

(* Expiring unpaid offers keeps purchases and holds well typed (expireUnpaidOffers). *)
LEMMA ExpiredTyped ==
  ASSUME SaleType
  PROVE  /\ ExpiredPurchase \in
              [Purchases -> {"absent", "awaiting_payment", "fulfilled", "failed", "cancelled"}]
         /\ ExpiredFailure \in [Purchases ->
              {"none", "offer_expired", "renewal_lapsed", "offer_coverage_conflict",
               "provider_failed", "renewal_unconfirmed", "renewal_withdrawn"}]
         /\ ExpiredHold \in [Purchases -> {"none", "held", "captured", "released"}]
BY DEF SaleType, ExpiredPurchase, ExpiredFailure, ExpiredHold

(* Closing periods that passed the guards of closeOne writes well-typed closures. *)
LEMMA CloseTyped ==
  ASSUME CoverType, NEW S \in SUBSET Purchases, \A p \in S : Closable(p), Close(S)
  PROVE  /\ period' \in [Purchases -> {"none", "open", "closed", "reversed"}]
         /\ closure' \in [Purchases -> ClosureRows]
<1>1. \A p \in S : [rides |-> RideBalance(p), credit |-> Conversion(p)] \in ClosureRows
  BY RidesTyped DEF Closable, ClosureRows
<1> QED
  BY <1>1 DEF Close, CoverType

(* reverse() writes well-typed reversals, and its debt is an integer: the division
   by the granted rides is never a division by zero. *)
LEMMA ReverseTyped ==
  ASSUME SaleType, CoverType, credit \in Int, NEW p \in Purchases, Reverse(p)
  PROVE  /\ credit' \in Int
         /\ period' \in [Purchases -> {"none", "open", "closed", "reversed"}]
         /\ reserved' \in [Purchases -> Seats]
         /\ pause' \in [Purchases -> PauseRows]
         /\ reversal' \in [Purchases -> ReversalRows]
<1> DEFINE debt == ReversalDebt(Terms[p].price, Consumed(p), Granted(p),
                                closure[p].credit - Recoverable(p))
<1>1. Recoverable(p) \in Int /\ closure[p].credit \in Int
  BY HeldTyped DEF CoverType, ClosureRows, Recoverable, Lesser, Available, Held
<1>2. debt \in Int
  <2>1. Granted(p) \in Nat /\ Granted(p) > 0 /\ Consumed(p) \in Int /\ Terms[p].price \in Int
    BY RidesTyped, TermFields DEF Reverse, Reversible
  <2>2. 2 * Granted(p) \in Int /\ 2 * Granted(p) > 0
    BY <2>1
  <2>3. 2 * Terms[p].price * Consumed(p) + Granted(p) \in Int
    BY <2>1
  <2>4. (2 * Terms[p].price * Consumed(p) + Granted(p)) \div (2 * Granted(p)) \in Int
    BY <2>2, <2>3
  <2> QED
    BY <2>4, <1>1 DEF ReversalDebt
<1>3. reversal' \in [Purchases -> ReversalRows]
  <2>1. [made |-> TRUE, rides |-> RideBalance(p), consumed |-> Consumed(p),
         recovered |-> Recoverable(p), debt |-> debt] \in ReversalRows
    BY RidesTyped, <1>1, <1>2 DEF ReversalRows
  <2> QED
    BY <2>1 DEF Reverse, CoverType
<1>4. credit' \in Int
  BY <1>1 DEF Reverse, SaleType
<1>5. period' \in [Purchases -> {"none", "open", "closed", "reversed"}]
      /\ reserved' \in [Purchases -> Seats]
  BY DEF Reverse, CoverType, Seats
<1>6. pause' \in [Purchases -> PauseRows]
  BY DEF Reverse, CoverType, PauseRows
<1> QED
  BY <1>3, <1>4, <1>5, <1>6

-----------------------------------------------------------------------------
(* One lemma per transaction: each keeps every row well typed.  The clock. *)
LEMMA TickTyped == ASSUME TypeOK, Tick PROVE TypeOK'
<1>1. day' \in Day /\ credit' \in Int
  BY ClockAssumption DEF TypeOK, Tick, Day
<1>2. deleted' \in BOOLEAN
  BY Zenon DEF TypeOK, Tick
<1> QED
  BY <1>1, <1>2, SaleFrame, CoverFrame, EvidenceFrame DEF TypeOK, Tick

(* FinancialFoundation.checkout, with the periods it closes on the way. *)
LEMMA CheckoutTyped ==
  ASSUME TypeOK, NEW p \in Purchases, NEW useCredit \in BOOLEAN, Checkout(p, useCredit)
  PROVE  TypeOK'
<1> DEFINE funds == credit + Earned(Ended)
           held == HeldIn(ExpiredHold)
           contribution ==
             IF useCredit THEN Lesser(funds - held, Terms[p].price - MinCharge) ELSE 0
<1>1. funds \in Int /\ credit' = funds
  BY DEF Checkout
<1>2. contribution \in Int
  BY <1>1, HeldTyped, TermFields, MoneyAssumption DEF TypeOK, Lesser
<1>3. SaleType'
  <2>1. /\ purchase' = [ExpiredPurchase EXCEPT ![p] = "awaiting_payment"]
        /\ failure' = ExpiredFailure
        /\ opened' = [opened EXCEPT ![p] = day]
        /\ applied' = [applied EXCEPT ![p] = contribution]
        /\ hold' = [ExpiredHold EXCEPT ![p] = IF contribution > 0 THEN "held" ELSE "none"]
        /\ attempt' = [attempt EXCEPT ![p] = "pending"]
        /\ attemptTx' = attemptTx
    BY DEF Checkout
  <2> HIDE DEF contribution
  <2> QED
    BY <2>1, <1>2, ExpiredTyped DEF TypeOK, SaleType
<1>4. CoverType'
  <2>1. Ended \in SUBSET Purchases /\ \A q \in Ended : Closable(q)
    BY DEF Checkout, CheckoutAllowed, Ended, Open
  <2> QED
    BY <2>1, CloseTyped, SettledTyped DEF TypeOK, CoverType, Checkout
<1>5. EvidenceType' /\ UNCHANGED <<day, deleted>>
  BY EvidenceFrame DEF TypeOK, Checkout
<1> QED
  BY <1>1, <1>3, <1>4, <1>5, TypeFrame

(* expireUnpaidOffers committed on its own. *)
LEMMA ExpireOffersTyped == ASSUME TypeOK, ExpireOffers PROVE TypeOK'
<1>1. SaleType'
  BY ExpiredTyped DEF TypeOK, ExpireOffers, SaleType
<1> QED
  BY <1>1, CoverFrame, EvidenceFrame, TypeFrame DEF TypeOK, ExpireOffers

(* fulfillInTransaction, the branch that grants coverage. *)
LEMMA FulfilPurchaseTyped ==
  ASSUME TypeOK, NEW e \in Events, FulfilPurchase(e)
  PROVE  TypeOK'
<1>1. SaleType'
  BY EventFields DEF TypeOK, FulfilPurchase, SaleType, Success
<1>2. CoverType'
  BY EventFields, TermFields DEF TypeOK, FulfilPurchase, CoverType
<1>3. EvidenceType'
  BY EventFields DEF TypeOK, FulfilPurchase, EvidenceType, Collect, Success
<1>4. credit' \in Int
  BY EventFields DEF TypeOK, FulfilPurchase, SaleType
<1> QED
  BY <1>1, <1>2, <1>3, <1>4, TypeFrame DEF FulfilPurchase

(* fulfillInTransaction, the branch for a late or overlapping payment. *)
LEMMA RefuseLateTyped ==
  ASSUME TypeOK, NEW e \in Events, RefuseLate(e)
  PROVE  TypeOK'
<1>1. SaleType'
  BY EventFields DEF TypeOK, RefuseLate, SaleType, Success
<1>2. EvidenceType'
  BY EventFields DEF TypeOK, RefuseLate, EvidenceType, Collect, Raise, Success
<1> QED
  BY <1>1, <1>2, CoverFrame, TypeFrame DEF TypeOK, RefuseLate

(* Evidence that only ends in a review. *)
LEMMA ReviewedTyped ==
  ASSUME TypeOK, NEW e \in Events,
         LateSuccess(e) \/ AccountUnavailable(e) \/ ProviderConflict(e)
  PROVE  TypeOK'
<1>1. EvidenceType'
  <2>1. CASE LateSuccess(e) \/ AccountUnavailable(e)
    BY <2>1, EventFields
    DEF TypeOK, LateSuccess, AccountUnavailable, EvidenceType, Collect, Raise, Success
  <2>2. CASE ProviderConflict(e)
    BY <2>2 DEF TypeOK, ProviderConflict, EvidenceType, Raise
  <2> QED
    BY <2>1, <2>2
<1>2. UNCHANGED <<day, deleted, saleVars, coverVars, credit>>
  BY DEF LateSuccess, AccountUnavailable, ProviderConflict
<1> QED
  BY <1>1, <1>2, SaleFrame, CoverFrame, TypeFrame DEF TypeOK

(* The failure branch of PaymentRecovery.process. *)
LEMMA SettleFailureTyped ==
  ASSUME TypeOK, NEW e \in Events, SettleFailure(e)
  PROVE  TypeOK'
<1>1. SaleType'
  BY EventFields DEF TypeOK, SettleFailure, SaleType
<1> QED
  BY <1>1, CoverFrame, EvidenceFrame, TypeFrame DEF TypeOK, SettleFailure

(* PaymentRecovery.refund, with the reversal a complete refund makes. *)
LEMMA RefundProgressTyped ==
  ASSUME TypeOK, NEW e \in Events, RefundProgress(e)
  PROVE  TypeOK'
<1>1. e.ref \in Purchases /\ e.id \in Refunds /\ e.state \in RefundStates
  BY EventFields DEF RefundProgress
<1>2. refund' \in [Refunds -> RefundRows]
  <2>1. Amount(e) \in Int
    BY AmountTyped DEF TypeOK
  <2> QED
    BY <1>1, <2>1 DEF TypeOK, EvidenceType, RefundRows, RefundProgress
<1>3. block' \in [Disputes -> {"none", "active", "released"}]
  BY DEF TypeOK, EvidenceType, RefundProgress, Release
<1>4. review' \in [ReviewKeys -> {"none", "open", "resolved", "waived"}]
  BY DEF TypeOK, EvidenceType, RefundProgress
<1>5. EvidenceType'
  BY <1>2, <1>3, <1>4 DEF TypeOK, EvidenceType, RefundProgress
<1>6. CoverType' /\ credit' \in Int
  <2>1. CASE Reverse(e.ref)
    BY <2>1, <1>1, ReverseTyped DEF TypeOK, CoverType, RefundProgress
  <2>2. CASE UNCHANGED <<reversal, credit, period, reserved, pause>>
    BY <2>2 DEF TypeOK, CoverType, RefundProgress
  <2> QED
    BY <2>1, <2>2 DEF RefundProgress
<1> QED
  BY <1>5, <1>6, SaleFrame, TypeFrame DEF TypeOK, RefundProgress

(* PaymentRecovery.dispute. *)
LEMMA DisputeProgressTyped ==
  ASSUME TypeOK, NEW e \in Events, DisputeProgress(e)
  PROVE  TypeOK'
<1>1. /\ e.ref \in Purchases /\ e.id \in Disputes /\ e.state \in DisputeStates
      /\ e.resolution \in Resolutions
  BY EventFields DEF DisputeProgress
<1>2. dispute' \in [Disputes -> DisputeRows]
  <2>1. Amount(e) \in Int
    BY AmountTyped DEF TypeOK
  <2> QED
    BY <1>1, <2>1 DEF TypeOK, EvidenceType, DisputeRows, DisputeProgress
<1>3. block' \in [Disputes -> {"none", "active", "released"}]
  BY DEF TypeOK, EvidenceType, DisputeProgress, Release
<1>4. review' \in [ReviewKeys -> {"none", "open", "resolved", "waived"}]
  BY DEF TypeOK, EvidenceType, DisputeProgress
<1>5. EvidenceType'
  BY <1>2, <1>3, <1>4 DEF TypeOK, EvidenceType, DisputeProgress
<1> QED
  BY <1>5, SaleFrame, CoverFrame, TypeFrame DEF TypeOK, DisputeProgress

(* FinancialFoundation.closePeriod. *)
LEMMA ClosePeriodTyped ==
  ASSUME TypeOK, NEW p \in Purchases, ClosePeriod(p)
  PROVE  TypeOK'
<1>1. CoverType'
  BY CloseTyped, SettledTyped DEF TypeOK, CoverType, ClosePeriod
<1>2. credit' \in Int
  BY DEF TypeOK, ClosePeriod, Closable
<1> QED
  BY <1>1, <1>2, SaleFrame, EvidenceFrame, TypeFrame DEF TypeOK, ClosePeriod

(* Seats, rides and personal pauses. *)
LEMMA UseTyped == ASSUME TypeOK, NEW p \in Purchases, Use(p) PROVE TypeOK'
<1>1. CASE \E d \in Direction : Reserve(p, d)
  <2>1. CoverType'
    BY <1>1, SettledTyped DEF TypeOK, CoverType, Reserve, Seats
  <2> QED
    BY <1>1, <2>1, SaleFrame, EvidenceFrame, TypeFrame DEF TypeOK, Reserve
<1>2. CASE \E d \in Direction : ReleaseSeat(p, d)
  <2>1. CoverType'
    BY <1>2 DEF TypeOK, CoverType, ReleaseSeat, Seats
  <2> QED
    BY <1>2, <2>1, SaleFrame, EvidenceFrame, TypeFrame DEF TypeOK, ReleaseSeat
<1>3. CASE \E d \in Direction : ChargeRide(p, d)
  <2>1. CoverType'
    BY <1>3 DEF TypeOK, CoverType, ChargeRide, Seats
  <2> QED
    BY <1>3, <2>1, SaleFrame, EvidenceFrame, TypeFrame DEF TypeOK, ChargeRide
<1>4. ASSUME NEW from \in Day, NEW length \in PauseLengths,
             NEW kept \in [Direction -> 0 .. Granted(p)], PlanPause(p, from, length, kept)
      PROVE  TypeOK'
  <2>1. [state |-> "planned", from |-> from, to |-> from + length] \in PauseRows
    BY ClockAssumption DEF PauseRows, Day
  <2>2. kept \in Seats
    BY RidesTyped DEF TypeOK, Seats
  <2>3. CoverType'
    BY <1>4, <2>1, <2>2, SettledTyped DEF TypeOK, CoverType, PlanPause
  <2> QED
    BY <1>4, <2>3, SaleFrame, EvidenceFrame, TypeFrame DEF TypeOK, PlanPause
<1>5. ASSUME NEW to \in Day, ResumePause(p, to) PROVE TypeOK'
  <2>1. to \in Nat
    BY ClockAssumption DEF Day
  <2>2. CoverType'
    BY <1>5, <2>1, SettledTyped DEF TypeOK, CoverType, ResumePause, PauseRows
  <2> QED
    BY <1>5, <2>2, SaleFrame, EvidenceFrame, TypeFrame DEF TypeOK, ResumePause
<1> QED
  BY <1>1, <1>2, <1>3, <1>4, <1>5 DEF Use

(* settle_personal_pauses committed on its own. *)
LEMMA SettleDuePausesTyped == ASSUME TypeOK, SettleDuePauses PROVE TypeOK'
<1>1. CoverType'
  BY SettledTyped DEF TypeOK, CoverType, SettleDuePauses
<1> QED
  BY <1>1, SaleFrame, EvidenceFrame, TypeFrame DEF TypeOK, SettleDuePauses

(* AccountService.erase. *)
LEMMA EraseAccountTyped == ASSUME TypeOK, EraseAccount PROVE TypeOK'
<1>1. CoverType'
  <2>1. reserved' \in [Purchases -> Seats]
    BY DEF EraseAccount, Seats
  <2>2. \A p \in Purchases : [pause[p] EXCEPT !.state = "terminated"] \in PauseRows
    BY DEF TypeOK, CoverType, PauseRows
  <2>3. pause' \in [Purchases -> PauseRows]
    BY <2>2 DEF TypeOK, CoverType, EraseAccount
  <2> QED
    BY <2>1, <2>3 DEF TypeOK, CoverType, EraseAccount
<1>2. deleted' \in BOOLEAN
  BY Zenon DEF EraseAccount
<1>3. day' \in Day /\ credit' \in Int
  BY DEF TypeOK, EraseAccount
<1> QED
  BY <1>1, <1>2, <1>3, SaleFrame, EvidenceFrame DEF TypeOK, EraseAccount

(* The renewal purchases the worker takes back. *)
LEMMA DropTyped ==
  ASSUME TypeOK, NEW p \in Purchases, WithdrawRenewal(p) \/ GiveUpRenewal(p)
  PROVE  TypeOK'
<1>1. SaleType'
  BY DEF TypeOK, SaleType, WithdrawRenewal, GiveUpRenewal, Drop
<1> QED
  BY <1>1, CoverFrame, EvidenceFrame, TypeFrame DEF TypeOK, WithdrawRenewal, GiveUpRenewal, Drop

(* PaymentRecovery.decide. *)
LEMMA DecideTyped ==
  ASSUME TypeOK, NEW k \in OpsDecides, NEW v \in {"resolved", "waived"}, Decide(k, v)
  PROVE  TypeOK'
<1>1. EvidenceType'
  BY DEF TypeOK, EvidenceType, Decide
<1> QED
  BY <1>1, SaleFrame, CoverFrame, TypeFrame DEF TypeOK, Decide

(* Every step keeps the types: the case split over Next. *)
LEMMA TypeStep == ASSUME TypeOK, [Next]_vars PROVE TypeOK'
<1>1. CASE UNCHANGED vars
  BY <1>1, SaleFrame, CoverFrame, EvidenceFrame, TypeFrame DEF TypeOK, vars
<1>2. CASE Tick
  BY <1>2, TickTyped
<1>3. CASE \E p \in Purchases, useCredit \in BOOLEAN : Checkout(p, useCredit)
  BY <1>3, CheckoutTyped
<1>4. CASE ExpireOffers
  BY <1>4, ExpireOffersTyped
<1>5. ASSUME NEW e \in Events, Settle(e) PROVE TypeOK'
  BY <1>5, FulfilPurchaseTyped, RefuseLateTyped, ReviewedTyped, SettleFailureTyped,
     RefundProgressTyped, DisputeProgressTyped DEF Settle
<1>6. ASSUME NEW p \in Purchases,
             ClosePeriod(p) \/ Use(p) \/ WithdrawRenewal(p) \/ GiveUpRenewal(p)
      PROVE  TypeOK'
  BY <1>6, ClosePeriodTyped, UseTyped, DropTyped
<1>7. CASE SettleDuePauses
  BY <1>7, SettleDuePausesTyped
<1>8. CASE EraseAccount
  BY <1>8, EraseAccountTyped
<1>9. CASE \E k \in OpsDecides, decision \in {"resolved", "waived"} : Decide(k, decision)
  BY <1>9, DecideTyped
<1> QED
  BY <1>1, <1>2, <1>3, <1>4, <1>5, <1>6, <1>7, <1>8, <1>9 DEF Next

(* Every row of a rider's account stays well typed forever, whatever the terms, the
   evidence and its order: the states are those the CHECK constraints of migrations 011,
   012, 013 and 025 allow, balances and reversal debts are integers. *)
THEOREM TypeCorrect == Spec => []TypeOK
<1> QED
  BY TypeInit, TypeStep, PTL DEF Spec

-----------------------------------------------------------------------------
(* The money invariant.  Alone, CreditCovered is not inductive: a capture keeps it only
   because the captured hold is the one hold there is (SingleUnresolved) and is what its
   purchase applied (HoldFollowsPurchase), which is never negative. *)
MoneyInv ==
  /\ SingleUnresolved /\ HoldFollowsPurchase /\ CreditCovered
  /\ \A p \in Purchases : 0 <= applied[p]

(* The held row the sum is read from is the one that is held. *)
LEMMA TheHolder ==
  ASSUME NEW holds, NEW p \in Purchases, holds[p] = "held",
         \A q \in Purchases : holds[q] = "held" => q = p
  PROVE  (CHOOSE q \in Purchases : holds[q] = "held") = p
OBVIOUS

(* The held credit is the contribution of the one waiting purchase, or nothing. *)
LEMMA HeldCases ==
  ASSUME TypeOK, SingleUnresolved, HoldFollowsPurchase
  PROVE  /\ \A p \in Purchases : hold[p] = "held" => Held = applied[p]
         /\ (\A p \in Purchases : hold[p] # "held") => Held = 0
<1>1. ASSUME NEW p \in Purchases, hold[p] = "held" PROVE Held = applied[p]
  <2>1. \A q \in Purchases : hold[q] = "held" => q = p
    BY <1>1 DEF HoldFollowsPurchase, SingleUnresolved, Unresolved
  <2> QED
    BY <1>1, <2>1, TheHolder DEF Held, HeldIn
<1> QED
  BY <1>1 DEF Held, HeldIn

(* The same after a step. *)
LEMMA HeldCasesNext ==
  ASSUME TypeOK', SingleUnresolved', HoldFollowsPurchase'
  PROVE  /\ \A p \in Purchases : hold'[p] = "held" => Held' = applied'[p]
         /\ (\A p \in Purchases : hold'[p] # "held") => Held' = 0
<1>1. ASSUME NEW p \in Purchases, hold'[p] = "held" PROVE Held' = applied'[p]
  <2>1. \A q \in Purchases : hold'[q] = "held" => q = p
    BY <1>1 DEF HoldFollowsPurchase, SingleUnresolved, Unresolved
  <2> QED
    BY <1>1, <2>1, TheHolder DEF Held, HeldIn
<1> QED
  BY <1>1 DEF Held, HeldIn

(* An empty account is sound. *)
LEMMA MoneyInit == Init => MoneyInv
BY DEF Init, MoneyInv, SingleUnresolved, Unresolved, HoldFollowsPurchase, CreditCovered, Held, HeldIn

(* A transaction that sells nothing is sound when it leaves the reserved credit covered. *)
LEMMA NoSale ==
  ASSUME MoneyInv, UNCHANGED <<purchase, hold, applied>>, Held <= credit'
  PROVE  MoneyInv'
<1>1. Held' = Held
  BY DEF Held, HeldIn
<1> QED
  BY <1>1
  DEF MoneyInv, SingleUnresolved, Unresolved, HoldFollowsPurchase, CreditCovered

(* A transaction that only lets waiting purchases go, releasing their credit, is sound. *)
LEMMA LetGo ==
  ASSUME TypeOK, TypeOK', MoneyInv, UNCHANGED <<applied, credit>>,
         \A p \in Purchases :
           \/ purchase'[p] = purchase[p] /\ hold'[p] = hold[p]
           \/ /\ purchase[p] = "awaiting_payment" /\ purchase'[p] \in {"failed", "cancelled"}
              /\ hold'[p] = IF hold[p] = "held" THEN "released" ELSE hold[p]
  PROVE  MoneyInv'
<1>1. SingleUnresolved' /\ HoldFollowsPurchase'
  BY DEF MoneyInv, SingleUnresolved, Unresolved, HoldFollowsPurchase
<1>2. credit' \in Int /\ \A p \in Purchases : applied[p] \in Int
  BY DEF TypeOK, SaleType
<1>3. CreditCovered'
  <2>1. CASE \A p \in Purchases : hold'[p] # "held"
    <3>1. Held' = 0
      BY <1>1, <2>1, HeldCasesNext
    <3>2. Held \in Int /\ 0 <= Held /\ Held <= credit
      BY HeldTyped DEF MoneyInv, CreditCovered, TypeOK, Held
    <3> QED
      BY <1>2, <3>1, <3>2 DEF CreditCovered
  <2>2. ASSUME NEW p \in Purchases, hold'[p] = "held" PROVE CreditCovered'
    <3>1. hold[p] = "held"
      BY <2>2
    <3>2. Held' = applied[p] /\ Held = applied[p]
      BY <1>1, <2>2, <3>1, HeldCases, HeldCasesNext DEF MoneyInv
    <3> QED
      BY <3>2 DEF MoneyInv, CreditCovered
  <2> QED
    BY <2>1, <2>2
<1> QED
  BY <1>1, <1>3 DEF MoneyInv

(* Checkout reserves at most what is available, and only after the lapsed purchases
   let go of their holds: this is where SingleUnresolved is earned. *)
LEMMA CheckoutSound ==
  ASSUME TypeOK, TypeOK', MoneyInv, NEW p \in Purchases, NEW useCredit \in BOOLEAN,
         Checkout(p, useCredit)
  PROVE  MoneyInv'
<1> DEFINE funds == credit + Earned(Ended)
           held == HeldIn(ExpiredHold)
           contribution ==
             IF useCredit THEN Lesser(funds - held, Terms[p].price - MinCharge) ELSE 0
<1>1. \A q \in Purchases : ExpiredHold[q] # "held" /\ ExpiredPurchase[q] # "awaiting_payment"
  BY DEF Checkout, CheckoutAllowed, SlotFree, MoneyInv, HoldFollowsPurchase, Unresolved,
         ExpiredHold, ExpiredPurchase
<1>2. held = 0
  BY <1>1 DEF HeldIn
<1>3. funds \in Int /\ 0 <= funds /\ credit' = funds
  BY <1>2 DEF Checkout
<1>4. contribution \in Int /\ 0 <= contribution /\ contribution <= funds
  <2> HIDE DEF funds, held
  <2> QED
    BY <1>2, <1>3, TermFields, MoneyAssumption DEF Lesser
<1>5. /\ purchase' = [ExpiredPurchase EXCEPT ![p] = "awaiting_payment"]
      /\ applied' = [applied EXCEPT ![p] = contribution]
      /\ hold' = [ExpiredHold EXCEPT ![p] = IF contribution > 0 THEN "held" ELSE "none"]
      /\ purchase[p] = "absent"
  BY DEF Checkout, CheckoutAllowed
<1> HIDE DEF contribution, funds, held
<1>6. SingleUnresolved'
  BY <1>1, <1>5 DEF SingleUnresolved, Unresolved, ExpiredPurchase
<1>7. ASSUME NEW q \in Purchases, q # p
      PROVE  /\ purchase'[q] = ExpiredPurchase[q] /\ hold'[q] = ExpiredHold[q]
             /\ applied'[q] = applied[q]
  BY <1>5, <1>7 DEF TypeOK, SaleType, ExpiredPurchase, ExpiredHold
<1>8. /\ purchase'[p] = "awaiting_payment" /\ applied'[p] = contribution
      /\ hold'[p] = IF contribution > 0 THEN "held" ELSE "none"
  BY <1>5 DEF TypeOK, SaleType, ExpiredPurchase, ExpiredHold
<1>9. HoldFollowsPurchase'
  <2>1. ASSUME NEW q \in Purchases, q # p
        PROVE  /\ hold'[q] = "held" <=> purchase'[q] = "awaiting_payment" /\ applied'[q] > 0
               /\ hold'[q] = "captured" <=> purchase'[q] = "fulfilled" /\ applied'[q] > 0
    <3>1. /\ ExpiredHold[q] = "captured" <=> hold[q] = "captured"
          /\ ExpiredPurchase[q] = "fulfilled" <=> purchase[q] = "fulfilled"
      BY DEF ExpiredHold, ExpiredPurchase, Lapsed, Unresolved
    <3> QED
      BY <1>1, <1>7, <2>1, <3>1 DEF MoneyInv, HoldFollowsPurchase
  <2>2. /\ hold'[p] = "held" <=> purchase'[p] = "awaiting_payment" /\ applied'[p] > 0
        /\ hold'[p] = "captured" <=> purchase'[p] = "fulfilled" /\ applied'[p] > 0
    BY <1>8
  <2> QED
    BY <2>1, <2>2 DEF HoldFollowsPurchase
<1>10. CreditCovered'
  <2>1. CASE contribution > 0
    BY <1>3, <1>4, <1>6, <1>8, <1>9, <2>1, HeldCasesNext DEF CreditCovered
  <2>2. CASE ~(contribution > 0)
    <3>1. \A q \in Purchases : hold'[q] # "held"
      BY <1>1, <1>7, <1>8, <2>2
    <3> QED
      BY <1>3, <1>6, <1>9, <3>1, HeldCasesNext DEF CreditCovered
  <2> QED
    BY <2>1, <2>2
<1>11. \A q \in Purchases : 0 <= applied'[q]
  BY <1>4, <1>7, <1>8 DEF MoneyInv
<1> QED
  BY <1>6, <1>9, <1>10, <1>11 DEF MoneyInv

(* Fulfilment spends exactly the credit that was held for the purchase. *)
LEMMA FulfilPurchaseSound ==
  ASSUME TypeOK, TypeOK', MoneyInv, NEW e \in Events, FulfilPurchase(e)
  PROVE  MoneyInv'
<1> DEFINE p == e.ref
<1>1. p \in Purchases /\ purchase[p] = "awaiting_payment"
  BY EventFields DEF FulfilPurchase, Waiting
<1>2. /\ purchase' = [purchase EXCEPT ![p] = "fulfilled"]
      /\ hold' = [hold EXCEPT ![p] = IF applied[p] > 0 THEN "captured" ELSE @]
      /\ credit' = credit - applied[p] /\ applied' = applied
      /\ applied[p] > 0 => hold[p] = "held"
  BY DEF FulfilPurchase
<1> HIDE DEF p
<1>3. SingleUnresolved' /\ HoldFollowsPurchase'
  BY <1>1, <1>2
  DEF TypeOK, SaleType, MoneyInv, SingleUnresolved, Unresolved, HoldFollowsPurchase
<1>4. \A q \in Purchases : hold'[q] # "held"
  BY <1>1, <1>2
  DEF TypeOK, SaleType, MoneyInv, SingleUnresolved, Unresolved, HoldFollowsPurchase
<1>5. Held' = 0
  BY <1>3, <1>4, HeldCasesNext
<1>6. 0 <= credit'
  <2>1. applied[p] \in Int /\ credit \in Int /\ 0 <= applied[p] /\ Held \in Int
    BY <1>1, HeldTyped DEF TypeOK, SaleType, MoneyInv, Held
  <2>2. applied[p] <= credit
    <3>1. CASE applied[p] > 0
      BY <1>1, <1>2, <2>1, <3>1, HeldCases DEF MoneyInv, CreditCovered
    <3>2. CASE applied[p] = 0
      BY <2>1, <3>2 DEF MoneyInv, CreditCovered
    <3> QED
      BY <2>1, <3>1, <3>2
  <2> QED
    BY <1>2, <2>1, <2>2
<1> QED
  BY <1>2, <1>3, <1>5, <1>6 DEF MoneyInv, CreditCovered

(* A reversal takes back no credit another purchase holds (Recoverable). *)
LEMMA RefundProgressSound ==
  ASSUME TypeOK, MoneyInv, NEW e \in Events, RefundProgress(e)
  PROVE  MoneyInv'
<1> DEFINE p == e.ref
<1>1. p \in Purchases /\ 0 <= applied[p] /\ applied[p] \in Int
  BY EventFields DEF MoneyInv, TypeOK, SaleType
<1>2. credit \in Int /\ Held \in Int /\ Held <= credit /\ closure[p].credit \in Int
  BY <1>1, HeldTyped DEF TypeOK, CoverType, ClosureRows, MoneyInv, CreditCovered, Held
<1>3. Held <= credit'
  <2>1. CASE Reverse(p)
    <3>1. credit' = credit - Recoverable(p) + applied[p]
      BY <2>1 DEF Reverse
    <3>2. Recoverable(p) \in Int /\ Recoverable(p) <= credit - Held
      BY <1>2 DEF Recoverable, Lesser, Available
    <3> HIDE DEF p
    <3> QED
      BY <1>1, <1>2, <3>1, <3>2
  <2>2. CASE UNCHANGED credit
    BY <1>2, <2>2
  <2> QED
    BY <2>1, <2>2 DEF RefundProgress
<1> QED
  BY <1>3, NoSale DEF RefundProgress, saleVars

(* Every step keeps the money invariant. *)
LEMMA MoneyStep == ASSUME TypeOK, TypeOK', MoneyInv, [Next]_vars PROVE MoneyInv'
<1>0. Held \in Int /\ credit \in Int /\ Held <= credit
  BY HeldTyped DEF TypeOK, Held, MoneyInv, CreditCovered
<1>1. CASE UNCHANGED <<saleVars, credit>>
  BY <1>0, <1>1, NoSale DEF saleVars
<1>2. CASE \E p \in Purchases, useCredit \in BOOLEAN : Checkout(p, useCredit)
  BY <1>2, CheckoutSound
<1>3. CASE ExpireOffers
  <2>1. \A p \in Purchases :
          \/ purchase'[p] = purchase[p] /\ hold'[p] = hold[p]
          \/ /\ purchase[p] = "awaiting_payment" /\ purchase'[p] \in {"failed", "cancelled"}
             /\ hold'[p] = IF hold[p] = "held" THEN "released" ELSE hold[p]
    BY <1>3 DEF ExpireOffers, ExpiredPurchase, ExpiredHold, Lapsed, Unresolved
  <2> QED
    BY <1>3, <2>1, LetGo DEF ExpireOffers
<1>4. ASSUME NEW e \in Events, RefuseLate(e) PROVE MoneyInv'
  BY <1>4, LetGo, EventFields DEF RefuseLate, Waiting, TypeOK, SaleType
<1>5. ASSUME NEW e \in Events, SettleFailure(e) PROVE MoneyInv'
  BY <1>5, LetGo, EventFields
  DEF SettleFailure, TypeOK, SaleType, MoneyInv, HoldFollowsPurchase
<1>6. ASSUME NEW p \in Purchases, WithdrawRenewal(p) \/ GiveUpRenewal(p) PROVE MoneyInv'
  BY <1>6, LetGo DEF WithdrawRenewal, GiveUpRenewal, Drop, Waiting, TypeOK, SaleType
<1>7. ASSUME NEW p \in Purchases, ClosePeriod(p) PROVE MoneyInv'
  <2>1. Held <= credit'
    BY <1>0, <1>7 DEF ClosePeriod, Closable
  <2> QED
    BY <1>7, <2>1, NoSale DEF ClosePeriod, saleVars
<1>8. ASSUME NEW e \in Events, Settle(e) PROVE MoneyInv'
  BY <1>1, <1>4, <1>5, <1>8, FulfilPurchaseSound, RefundProgressSound
  DEF Settle, LateSuccess, AccountUnavailable, ProviderConflict, DisputeProgress
<1>9. ASSUME NEW p \in Purchases, Use(p) PROVE MoneyInv'
  BY <1>1, <1>9 DEF Use, Reserve, ReleaseSeat, ChargeRide, PlanPause, ResumePause
<1> QED
  BY <1>1, <1>2, <1>3, <1>6, <1>7, <1>8, <1>9
  DEF Next, vars, Tick, SettleDuePauses, EraseAccount, Decide

(* For every rider: at most one purchase waits for payment, credit is held exactly while
   its purchase waits and captured exactly when it was fulfilled, and the ledger always
   covers what is held (one_unresolved_purchase_per_rider, credit_holds, balances()). *)
THEOREM MoneyIsSound == Spec => [](SingleUnresolved /\ HoldFollowsPurchase /\ CreditCovered)
<1>1. TypeOK /\ MoneyInv /\ [Next]_vars => (TypeOK /\ MoneyInv)'
  BY TypeStep, MoneyStep
<1>2. MoneyInv => SingleUnresolved /\ HoldFollowsPurchase /\ CreditCovered
  BY DEF MoneyInv
<1> QED
  BY TypeInit, MoneyInit, <1>1, <1>2, PTL DEF Spec

(* Whatever checkouts race, a rider never has two purchases that wait for *)
(* their payment (one_unresolved_purchase_per_rider).                     *)
THEOREM OneUnresolvedPurchase == Spec => []SingleUnresolved
BY MoneyIsSound, PTL

(* However a purchase ends, its credit hold ends with it, and no hold is  *)
(* kept by a purchase that no longer waits.                               *)
THEOREM HoldsEndWithPurchases == Spec => []HoldFollowsPurchase
BY MoneyIsSound, PTL

-----------------------------------------------------------------------------
(* The collection invariant: the two properties are inductive together, because an
   attempt becomes successful only in the step that stores its collection. *)
PaidInv == CoverageIsPaid /\ CollectedIsAccounted

(* An account without collections is accounted for. *)
LEMMA PaidInit == Init => PaidInv
BY DEF Init, PaidInv, CoverageIsPaid, CollectedIsAccounted

(* CoverageIsPaid depends on sales, collections and whether a period exists, only. *)
LEMMA CoverageFrame ==
  ASSUME CoverageIsPaid,
         \A p \in Purchases :
           /\ purchase'[p] = "fulfilled" <=> purchase[p] = "fulfilled"
           /\ period'[p] = "none" <=> period[p] = "none"
           /\ purchase[p] = "fulfilled" =>
                attempt'[p] = attempt[p] /\ attemptTx'[p] = attemptTx[p],
         UNCHANGED collection
  PROVE  CoverageIsPaid'
BY DEF CoverageIsPaid

(* CollectedIsAccounted survives what keeps sales, collections and review rows. *)
LEMMA AccountedFrame ==
  ASSUME CollectedIsAccounted, UNCHANGED collection,
         \A p \in Purchases : purchase[p] = "fulfilled" => purchase'[p] = "fulfilled",
         \A k \in ReviewKeys : review[k] # "none" => review'[k] # "none"
  PROVE  CollectedIsAccounted'
<1> SUFFICES ASSUME NEW p \in Purchases, collection'[p] # NoTx, purchase'[p] # "fulfilled"
             PROVE  \E e \in Events, reason \in {"late_success", "account_unavailable"} :
                      /\ e.kind = "success" /\ e.ref = p /\ e.tx = collection'[p]
                      /\ review'[<<reason, e>>] # "none"
  BY DEF CollectedIsAccounted
<1>1. PICK e \in Events, reason \in {"late_success", "account_unavailable"} :
        /\ e.kind = "success" /\ e.ref = p /\ e.tx = collection[p]
        /\ review[<<reason, e>>] # "none"
  BY DEF CollectedIsAccounted
<1>2. <<reason, e>> \in ReviewKeys
  BY DEF ReviewKeys, EventReasons
<1> QED
  BY <1>1, <1>2

(* Applying a collection keeps the transactions distinct: TxConflict refused the others. *)
LEMMA CollectPaid ==
  ASSUME TypeOK, PaidInv, NEW e \in Events, Success(e), Collect(e),
         NEW served \in BOOLEAN,
         \A p \in Purchases :
           /\ purchase'[p] = "fulfilled" <=>
                purchase[p] = "fulfilled" \/ (served /\ p = e.ref)
           /\ period'[p] = "none" <=> period[p] = "none" /\ ~(served /\ p = e.ref)
           /\ purchase[p] = "fulfilled" =>
                attempt'[p] = attempt[p] /\ attemptTx'[p] = attemptTx[p],
         served => attempt'[e.ref] = "successful" /\ attemptTx'[e.ref] = e.tx,
         \A k \in ReviewKeys : review[k] # "none" => review'[k] # "none",
         ~served => \E reason \in {"late_success", "account_unavailable"} :
                      review'[<<reason, e>>] # "none"
  PROVE  PaidInv'
<1>1. e.ref \in Purchases /\ e.tx \in Transactions /\ e.tx # NoTx /\ e.kind = "success"
  BY EventFields, EventsAssumption DEF Success
<1>2. collection'[e.ref] = e.tx
      /\ \A p \in Purchases \ {e.ref} : collection'[p] = collection[p]
  BY <1>1 DEF Collect, TypeOK, EvidenceType
<1>3. \A p \in Purchases : collection[p] # NoTx => (p = e.ref <=> collection[p] = e.tx)
  BY DEF Success, TxConflict
<1>4. \A p \in Purchases : collection[p] # NoTx => collection'[p] = collection[p]
  BY <1>1, <1>2, <1>3
<1>5. CoverageIsPaid'
  <2> SUFFICES ASSUME NEW p \in Purchases
               PROVE  /\ period'[p] # "none" <=> purchase'[p] = "fulfilled"
                      /\ purchase'[p] = "fulfilled" =>
                           /\ attempt'[p] = "successful" /\ attemptTx'[p] # NoTx
                           /\ collection'[p] = attemptTx'[p]
                           /\ \A q \in Purchases \ {p} : collection'[q] # collection'[p]
    BY DEF CoverageIsPaid
  <2>1. period'[p] # "none" <=> purchase'[p] = "fulfilled"
    BY DEF PaidInv, CoverageIsPaid
  <2>2. CASE purchase[p] = "fulfilled"
    <3>1. /\ attempt[p] = "successful" /\ attemptTx[p] # NoTx
          /\ collection[p] = attemptTx[p]
          /\ \A q \in Purchases \ {p} : collection[q] # collection[p]
      BY <2>2 DEF PaidInv, CoverageIsPaid
    <3>2. \A q \in Purchases \ {p} : collection'[q] # collection'[p]
      BY <1>1, <1>2, <1>3, <1>4, <3>1
    <3> QED
      BY <1>4, <2>1, <2>2, <3>1, <3>2
  <2>3. CASE served /\ p = e.ref
    BY <1>1, <1>2, <1>3, <2>1, <2>3
  <2> QED
    BY <2>1, <2>2, <2>3
<1>6. CollectedIsAccounted'
  <2> SUFFICES ASSUME NEW p \in Purchases, collection'[p] # NoTx, purchase'[p] # "fulfilled"
               PROVE  \E f \in Events, reason \in {"late_success", "account_unavailable"} :
                        /\ f.kind = "success" /\ f.ref = p /\ f.tx = collection'[p]
                        /\ review'[<<reason, f>>] # "none"
    BY DEF CollectedIsAccounted
  <2>1. CASE p = e.ref
    <3>1. PICK reason \in {"late_success", "account_unavailable"} :
            review'[<<reason, e>>] # "none"
      BY <2>1
    <3> QED
      BY <1>1, <1>2, <2>1, <3>1
  <2>2. CASE p # e.ref
    <3>1. collection'[p] = collection[p] /\ purchase[p] # "fulfilled"
      BY <1>2, <2>2
    <3>2. PICK f \in Events, reason \in {"late_success", "account_unavailable"} :
            /\ f.kind = "success" /\ f.ref = p /\ f.tx = collection[p]
            /\ review[<<reason, f>>] # "none"
      BY <3>1 DEF PaidInv, CollectedIsAccounted
    <3>3. <<reason, f>> \in ReviewKeys
      BY DEF ReviewKeys, EventReasons
    <3> QED
      BY <3>1, <3>2, <3>3
  <2> QED
    BY <2>1, <2>2
<1> QED
  BY <1>5, <1>6 DEF PaidInv

(* Every kind of provider evidence keeps collected money accounted for. *)
LEMMA SettlePaid ==
  ASSUME TypeOK, PaidInv, NEW e \in Events, Settle(e)
  PROVE  PaidInv'
<1>1. CASE FulfilPurchase(e)
  BY <1>1, EventFields, CollectPaid
  DEF FulfilPurchase, Waiting, TypeOK, SaleType, CoverType, PaidInv, CoverageIsPaid
<1>2. ASSUME RefuseLate(e) \/ LateSuccess(e) \/ AccountUnavailable(e) PROVE PaidInv'
  <2>1. PICK reason \in {"late_success", "account_unavailable"} : Raise(<<reason, e>>, TRUE)
    BY <1>2 DEF RefuseLate, LateSuccess, AccountUnavailable
  <2>2. <<reason, e>> \in ReviewKeys
    BY DEF ReviewKeys, EventReasons
  <2>3. /\ review'[<<reason, e>>] # "none"
        /\ \A k \in ReviewKeys : review[k] # "none" => review'[k] # "none"
    BY <2>1, <2>2 DEF Raise, TypeOK, EvidenceType
  <2>4. /\ Success(e) /\ Collect(e) /\ UNCHANGED period
        /\ \A p \in Purchases :
             /\ purchase'[p] = "fulfilled" <=> purchase[p] = "fulfilled"
             /\ purchase[p] = "fulfilled" =>
                  attempt'[p] = attempt[p] /\ attemptTx'[p] = attemptTx[p]
    <3>1. CASE RefuseLate(e)
      BY <3>1, EventFields DEF RefuseLate, saleVars, coverVars, Waiting, TypeOK, SaleType
    <3>2. CASE LateSuccess(e)
      BY <3>2, EventFields DEF LateSuccess, saleVars, coverVars, Waiting, TypeOK, SaleType
    <3>3. CASE AccountUnavailable(e)
      BY <3>3, EventFields DEF AccountUnavailable, saleVars, coverVars, Waiting, TypeOK, SaleType
    <3> QED
      BY <1>2, <3>1, <3>2, <3>3
  <2> QED
    BY <2>3, <2>4, CollectPaid
<1>3. CASE ProviderConflict(e)
  BY <1>3, CoverageFrame, AccountedFrame
  DEF ProviderConflict, Raise, saleVars, coverVars, PaidInv, TypeOK, EvidenceType
<1>4. CASE SettleFailure(e)
  BY <1>4, EventFields, CoverageFrame, AccountedFrame
  DEF SettleFailure, coverVars, evidenceVars, PaidInv, TypeOK, SaleType, CoverageIsPaid
<1>5. CASE RefundProgress(e)
  <2>1. \A k \in ReviewKeys : review[k] # "none" => review'[k] # "none"
    BY <1>5 DEF RefundProgress
  <2>2. \A p \in Purchases : period'[p] = "none" <=> period[p] = "none"
    <3>1. CASE Reverse(e.ref) /\ purchase[e.ref] = "fulfilled"
      BY <3>1, EventFields DEF Reverse, PaidInv, CoverageIsPaid, TypeOK, CoverType
    <3>2. CASE UNCHANGED period
      BY <3>2
    <3> QED
      BY <1>5, <3>1, <3>2 DEF RefundProgress
  <2> QED
    BY <1>5, <2>1, <2>2, CoverageFrame, AccountedFrame DEF RefundProgress, saleVars, PaidInv
<1>6. CASE DisputeProgress(e)
  <2>1. \A k \in ReviewKeys : review[k] # "none" => review'[k] # "none"
    BY <1>6 DEF DisputeProgress
  <2> QED
    BY <1>6, <2>1, CoverageFrame, AccountedFrame
    DEF DisputeProgress, saleVars, coverVars, PaidInv
<1> QED
  BY <1>1, <1>2, <1>3, <1>4, <1>5, <1>6 DEF Settle

(* Every step does. *)
LEMMA PaidStep == ASSUME TypeOK, PaidInv, [Next]_vars PROVE PaidInv'
<1>1. CASE UNCHANGED <<purchase, attempt, attemptTx, period, collection, review>>
  BY <1>1, CoverageFrame, AccountedFrame DEF PaidInv
<1>2. ASSUME NEW p \in Purchases, NEW useCredit \in BOOLEAN, Checkout(p, useCredit)
      PROVE  PaidInv'
  <2>1. \A q \in Purchases :
          /\ purchase'[q] = "fulfilled" <=> purchase[q] = "fulfilled"
          /\ purchase[q] = "fulfilled" =>
               attempt'[q] = attempt[q] /\ attemptTx'[q] = attemptTx[q]
    BY <1>2 DEF Checkout, CheckoutAllowed, ExpiredPurchase, Lapsed, Unresolved, TypeOK, SaleType
  <2>2. \A q \in Purchases : period'[q] = "none" <=> period[q] = "none"
    BY <1>2 DEF Checkout, Close, Ended, Open, TypeOK, CoverType
  <2> QED
    BY <1>2, <2>1, <2>2, CoverageFrame, AccountedFrame DEF Checkout, evidenceVars, PaidInv
<1>3. CASE ExpireOffers
  BY <1>3, CoverageFrame, AccountedFrame
  DEF ExpireOffers, ExpiredPurchase, Lapsed, Unresolved, coverVars, evidenceVars, PaidInv
<1>4. ASSUME NEW p \in Purchases, ClosePeriod(p) PROVE PaidInv'
  <2>1. \A q \in Purchases : period'[q] = "none" <=> period[q] = "none"
    BY <1>4 DEF ClosePeriod, Close, Ended, Open, TypeOK, CoverType
  <2> QED
    BY <1>4, <2>1, CoverageFrame, AccountedFrame DEF ClosePeriod, saleVars, evidenceVars, PaidInv
<1>5. ASSUME NEW p \in Purchases, WithdrawRenewal(p) \/ GiveUpRenewal(p) PROVE PaidInv'
  BY <1>5, CoverageFrame, AccountedFrame
  DEF WithdrawRenewal, GiveUpRenewal, Drop, Waiting, coverVars, evidenceVars, PaidInv, TypeOK,
      SaleType
<1>6. ASSUME NEW p \in Purchases, Use(p) PROVE PaidInv'
  BY <1>1, <1>6
  DEF Use, Reserve, ReleaseSeat, ChargeRide, PlanPause, ResumePause, saleVars, evidenceVars
<1>7. CASE Tick \/ SettleDuePauses \/ EraseAccount \/ UNCHANGED vars
  BY <1>1, <1>7
  DEF Tick, SettleDuePauses, EraseAccount, vars, saleVars, coverVars, evidenceVars
<1>8. ASSUME NEW k \in OpsDecides, NEW v \in {"resolved", "waived"}, Decide(k, v)
      PROVE  PaidInv'
  BY <1>8, CoverageFrame, AccountedFrame
  DEF Decide, saleVars, coverVars, PaidInv, TypeOK, EvidenceType
<1> QED
  BY <1>2, <1>3, <1>4, <1>5, <1>6, <1>7, <1>8, SettlePaid DEF Next

(* For every rider, event set and order of evidence: coverage exists exactly for fulfilled
   purchases, each under a transaction of its own, and every collected transaction bought
   coverage or is named by a review (fulfillInTransaction, PaymentRecovery.process). *)
THEOREM CollectionsAreSound == Spec => [](CoverageIsPaid /\ CollectedIsAccounted)
<1>1. TypeOK /\ PaidInv /\ [Next]_vars => (TypeOK /\ PaidInv)'
  BY TypeStep, PaidStep
<1>2. PaidInv => CoverageIsPaid /\ CollectedIsAccounted
  BY DEF PaidInv
<1> QED
  BY TypeInit, PaidInit, <1>1, <1>2, PTL DEF Spec

(* Coverage is only ever given against a collection of its own, whatever  *)
(* transactions the provider reports and in whatever order.               *)
THEOREM CoverageIsAlwaysPaid == Spec => []CoverageIsPaid
BY CollectionsAreSound, PTL

-----------------------------------------------------------------------------
(* Provider facts and reviews.  Evidence is ranked, and every write compares ranks. *)

(* A fact replaces a fact of lower rank only (RefundRank). *)
LEMMA RefundRanks ==
  ASSUME NEW new \in RefundStates \cup {"none"}, NEW old \in RefundStates \cup {"none"}
  PROVE  /\ RefundRank[new] \in Int /\ RefundRank[old] \in Int
         /\ RefundRank["none"] <= RefundRank[old]
BY DEF RefundRank, RefundStates

(* The same for disputes (DisputeRank). *)
LEMMA DisputeRanks ==
  ASSUME NEW new \in DisputeStates \cup {"none"}, NEW old \in DisputeStates \cup {"none"}
  PROVE  /\ DisputeRank[new] \in Int /\ DisputeRank[old] \in Int
         /\ DisputeRank["none"] <= DisputeRank[old]
BY DEF DisputeRank, DisputeStates

(* What leaves the provider facts and the decided reviews alone is progress. *)
LEMMA ProgressFrame ==
  ASSUME TypeOK, UNCHANGED <<refund, dispute, block>>,
         \A k \in ReviewKeys : review[k] \in {"resolved", "waived"} => review'[k] = review[k]
  PROVE  Progress
BY RefundRanks, DisputeRanks DEF TypeOK, EvidenceType, RefundRows, DisputeRows, Progress

(* A refund fact moves its row forward, and closes reviews only (PaymentRecovery.refund). *)
LEMMA RefundProgresses ==
  ASSUME TypeOK, NEW e \in Events, RefundProgress(e)
  PROVE  Progress
<1>1. e.id \in Refunds /\ e.state \in RefundStates
  BY EventFields DEF RefundProgress
<1>2. ASSUME NEW r \in Refunds
      PROVE  RefundRank[refund'[r].state] >= RefundRank[refund[r].state]
  <2>1. refund[r].state \in RefundStates \cup {"none"}
    BY DEF TypeOK, EvidenceType, RefundRows
  <2>2. CASE r # e.id
    BY <2>1, <2>2, RefundRanks DEF RefundProgress, TypeOK, EvidenceType
  <2>3. CASE r = e.id
    <3>1. \/ refund'[r].state = refund[r].state
          \/ /\ refund'[r].state = e.state
             /\ Newer(RefundRank, e.state, refund[r].state)
      <4>1. refund' = [refund EXCEPT ![e.id] =
                         IF refund[e.id].state = "none"
                         THEN [state |-> e.state, ref |-> e.ref, amount |-> Amount(e)]
                         ELSE [refund[e.id] EXCEPT !.state =
                                 IF Newer(RefundRank, e.state, @) THEN e.state ELSE @]]
        BY DEF RefundProgress
      <4>2. refund \in [Refunds -> RefundRows] /\ refund[r] \in RefundRows
        BY DEF TypeOK, EvidenceType
      <4>3. refund[r].state = "none" => Newer(RefundRank, e.state, refund[r].state)
        BY <1>1 DEF Newer, RefundRank, RefundStates
      <4> QED
        BY <2>3, <4>1, <4>2, <4>3 DEF RefundRows
    <3> QED
      BY <1>1, <2>1, <2>3, <3>1, RefundRanks DEF Newer
  <2> QED
    BY <2>2, <2>3
<1>3. \A k \in ReviewKeys : review[k] \in {"resolved", "waived"} => review'[k] = review[k]
  BY DEF RefundProgress
<1>4. \A d \in Disputes : block[d] = "released" => block'[d] = "released"
  BY DEF RefundProgress, Release, TypeOK, EvidenceType
<1>5. \A d \in Disputes : DisputeRank[dispute'[d].state] >= DisputeRank[dispute[d].state]
  <2>1. UNCHANGED dispute
    BY DEF RefundProgress
  <2> QED
    BY <2>1, DisputeRanks DEF TypeOK, EvidenceType, DisputeRows
<1> QED
  BY <1>2, <1>3, <1>4, <1>5 DEF Progress

(* A dispute fact moves its row forward, and never blocks what a verdict let go of
   (PaymentRecovery.dispute). *)
LEMMA DisputeProgresses ==
  ASSUME TypeOK, NEW e \in Events, DisputeProgress(e)
  PROVE  Progress
<1>1. e.id \in Disputes /\ e.state \in DisputeStates
  BY EventFields DEF DisputeProgress
<1>0. /\ DOMAIN dispute = Disputes
      /\ dispute' = [dispute EXCEPT ![e.id] =
           IF Newer(DisputeRank, e.state, dispute[e.id].state)
           THEN [state |-> e.state, ref |-> e.ref, amount |-> Amount(e),
                 resolution |-> e.resolution]
           ELSE dispute[e.id]]
  BY DEF DisputeProgress, TypeOK, EvidenceType
<1>2. ASSUME NEW d \in Disputes
      PROVE  DisputeRank[dispute'[d].state] >= DisputeRank[dispute[d].state]
  <2>1. dispute[d].state \in DisputeStates \cup {"none"}
    BY DEF TypeOK, EvidenceType, DisputeRows
  <2>2. CASE d # e.id
    BY <1>0, <2>1, <2>2, DisputeRanks
  <2>3. CASE d = e.id
    <3>1. \/ dispute'[d].state = dispute[d].state
          \/ /\ dispute'[d].state = e.state
             /\ Newer(DisputeRank, e.state, dispute[d].state)
      BY <1>0, <2>3
    <3> QED
      BY <1>1, <2>1, <2>3, <3>1, DisputeRanks DEF Newer
  <2> QED
    BY <2>2, <2>3
<1>3. \A k \in ReviewKeys : review[k] \in {"resolved", "waived"} => review'[k] = review[k]
  BY DEF DisputeProgress
<1>4. \A d \in Disputes : block[d] = "released" => block'[d] = "released"
  BY DEF DisputeProgress, Release, TypeOK, EvidenceType
<1>5. \A r \in Refunds : RefundRank[refund'[r].state] >= RefundRank[refund[r].state]
  <2>1. UNCHANGED refund
    BY DEF DisputeProgress
  <2> QED
    BY <2>1, RefundRanks DEF TypeOK, EvidenceType, RefundRows
<1> QED
  BY <1>2, <1>3, <1>4, <1>5 DEF Progress

(* Every step is progress. *)
LEMMA ProgressStep == ASSUME TypeOK, [Next]_vars PROVE Progress
<1>1. CASE UNCHANGED evidenceVars
  BY <1>1, ProgressFrame DEF evidenceVars
<1>2. ASSUME NEW e \in Events, Settle(e) PROVE Progress
  <2>1. CASE RefundProgress(e) \/ DisputeProgress(e)
    BY <2>1, RefundProgresses, DisputeProgresses
  <2>2. ASSUME NEW k, Raise(k, TRUE), UNCHANGED <<refund, dispute, block>> PROVE Progress
    BY <2>2, ProgressFrame DEF Raise, TypeOK, EvidenceType
  <2>3. CASE FulfilPurchase(e) \/ SettleFailure(e)
    BY <2>3, ProgressFrame DEF FulfilPurchase, SettleFailure, evidenceVars
  <2> QED
    BY <1>2, <2>1, <2>2, <2>3
    DEF Settle, RefuseLate, LateSuccess, AccountUnavailable, ProviderConflict
<1>3. ASSUME NEW k \in OpsDecides, NEW v \in {"resolved", "waived"}, Decide(k, v)
      PROVE  Progress
  BY <1>3, ProgressFrame DEF Decide, TypeOK, EvidenceType
<1>4. ASSUME NEW p \in Purchases, Use(p) PROVE Progress
  BY <1>1, <1>4 DEF Use, Reserve, ReleaseSeat, ChargeRide, PlanPause, ResumePause
<1> QED
  BY <1>1, <1>2, <1>3, <1>4
  DEF Next, vars, Tick, Checkout, ExpireOffers, ClosePeriod, WithdrawRenewal, GiveUpRenewal,
      Drop, SettleDuePauses, EraseAccount

(* Whatever evidence is replayed, in whatever order, no refund and no dispute goes back,
   no decided review reopens, and no released block returns. *)
THEOREM ReplaysAreHarmless == Spec => ReplaysChangeNothing
<1>1. TypeOK /\ [Next]_vars => Progress
  BY ProgressStep
<1> QED
  BY <1>1, TypeCorrect, PTL DEF Spec, ReplaysChangeNothing

-----------------------------------------------------------------------------
(* Sales. *)

(* What the states of a sale say together: an absent purchase left no trace, one that
   waits has its attempt pending and, while the account exists, nothing collected, and
   the cash every purchase asks for is at least the minimum charge. *)
SaleInv ==
  \A p \in Purchases :
    /\ purchase[p] = "absent" <=> attempt[p] = "none"
    /\ purchase[p] = "absent" => hold[p] = "none" /\ collection[p] = NoTx /\ applied[p] = 0
    /\ purchase[p] = "awaiting_payment" =>
         attempt[p] = "pending" /\ (~deleted => collection[p] = NoTx)
    /\ Cash(p) >= MinCharge

(* Nothing is sold yet. *)
LEMMA SaleInit == Init => SaleInv
<1> SUFFICES ASSUME Init PROVE SaleInv
  OBVIOUS
<1>1. ASSUME NEW p \in Purchases
      PROVE  /\ purchase[p] = "absent" /\ attempt[p] = "none" /\ hold[p] = "none"
             /\ collection[p] = NoTx /\ applied[p] = 0
  BY DEF Init
<1>2. ASSUME NEW p \in Purchases PROVE Cash(p) >= MinCharge
  BY <1>1, TermFields, MoneyAssumption DEF Cash
<1> QED
  BY <1>1, <1>2 DEF SaleInv

(* What leaves sales and collections alone leaves this alone; an account stays erased. *)
LEMMA SaleInvFrame ==
  ASSUME SaleInv, UNCHANGED <<purchase, attempt, hold, collection, applied>>,
         deleted => deleted'
  PROVE  SaleInv'
BY DEF SaleInv, Cash

(* The cash of a new purchase: credit pays at most down to the minimum charge. *)
LEMMA ContributionLeavesCash ==
  ASSUME NEW p \in Purchases, NEW funds \in Int, NEW held \in Int
  PROVE  Terms[p].price - Lesser(funds - held, Terms[p].price - MinCharge) >= MinCharge
BY TermFields, MoneyAssumption DEF Lesser

(* Checkout. *)
LEMMA CheckoutSale ==
  ASSUME TypeOK, SaleInv, NEW p \in Purchases, NEW useCredit \in BOOLEAN,
         Checkout(p, useCredit)
  PROVE  SaleInv'
<1> DEFINE funds == credit + Earned(Ended)
           held == HeldIn(ExpiredHold)
           contribution ==
             IF useCredit THEN Lesser(funds - held, Terms[p].price - MinCharge) ELSE 0
<1>1. Terms[p].price - contribution >= MinCharge
  <2>1. funds \in Int /\ held \in Int
    BY HeldTyped DEF Checkout, TypeOK
  <2>2. Terms[p].price - 0 >= MinCharge
    BY TermFields, MoneyAssumption
  <2> HIDE DEF funds, held
  <2> QED
    BY <2>1, <2>2, ContributionLeavesCash
<1>2. /\ purchase' = [ExpiredPurchase EXCEPT ![p] = "awaiting_payment"]
      /\ applied' = [applied EXCEPT ![p] = contribution]
      /\ hold' = [ExpiredHold EXCEPT ![p] = IF contribution > 0 THEN "held" ELSE "none"]
      /\ attempt' = [attempt EXCEPT ![p] = "pending"]
      /\ purchase[p] = "absent" /\ UNCHANGED <<deleted, collection>>
  BY DEF Checkout, CheckoutAllowed, evidenceVars
<1> HIDE DEF contribution
<1>3. /\ purchase'[p] = "awaiting_payment" /\ attempt'[p] = "pending"
      /\ collection'[p] = NoTx /\ Cash(p)' >= MinCharge
  BY <1>1, <1>2 DEF SaleInv, TypeOK, SaleType, ExpiredPurchase, Cash
<1>4. ASSUME NEW q \in Purchases, q # p
      PROVE  /\ purchase'[q] = IF q \in Lapsed THEN "failed" ELSE purchase[q]
             /\ purchase[q] = "absent" => hold'[q] = hold[q]
             /\ attempt'[q] = attempt[q] /\ applied'[q] = applied[q]
  BY <1>2, <1>4 DEF TypeOK, SaleType, ExpiredPurchase, ExpiredHold, Lapsed, Unresolved
<1>5. ASSUME NEW q \in Purchases, q # p PROVE Cash(q)' >= MinCharge
  BY <1>4, <1>5 DEF SaleInv, Cash
<1> QED
  BY <1>2, <1>3, <1>4, <1>5 DEF SaleInv, Lapsed, Unresolved

(* The branches of provider evidence. *)
LEMMA SettleSale ==
  ASSUME TypeOK, SaleInv, NEW e \in Events, Settle(e)
  PROVE  SaleInv'
<1>1. CASE FulfilPurchase(e) \/ RefuseLate(e)
  <2>1. e.ref \in Purchases /\ purchase[e.ref] = "awaiting_payment"
    BY <1>1, EventFields DEF FulfilPurchase, RefuseLate, Waiting
  <2>2. ASSUME NEW p \in Purchases
        PROVE  /\ p # e.ref => /\ purchase'[p] = purchase[p] /\ attempt'[p] = attempt[p]
                               /\ hold'[p] = hold[p] /\ collection'[p] = collection[p]
               /\ p = e.ref => purchase'[p] \in {"fulfilled", "failed"}
                               /\ attempt'[p] = "successful"
    <3>1. CASE FulfilPurchase(e)
      BY <2>1, <3>1 DEF FulfilPurchase, Collect, TypeOK, SaleType, EvidenceType
    <3>2. CASE RefuseLate(e)
      BY <2>1, <3>2 DEF RefuseLate, Collect, TypeOK, SaleType, EvidenceType
    <3> QED
      BY <1>1, <3>1, <3>2
  <2>3. UNCHANGED <<applied, deleted>>
    BY <1>1 DEF FulfilPurchase, RefuseLate
  <2> QED
    BY <2>1, <2>2, <2>3 DEF SaleInv, Cash
<1>2. CASE LateSuccess(e) \/ AccountUnavailable(e)
  <2>1. e.ref \in Purchases /\ attempt[e.ref] # "none"
    BY <1>2, EventFields DEF LateSuccess, AccountUnavailable, Success, Known
  <2>2. ASSUME NEW p \in Purchases
        PROVE  p # e.ref => collection'[p] = collection[p]
    BY <1>2 DEF LateSuccess, AccountUnavailable, Collect, TypeOK, EvidenceType
  <2>3. UNCHANGED <<purchase, attempt, hold, applied, deleted>>
    BY <1>2 DEF LateSuccess, AccountUnavailable, saleVars
  <2>4. deleted \/ ~(purchase[e.ref] = "awaiting_payment")
    BY <1>2, <2>1 DEF LateSuccess, AccountUnavailable, NotPending, Waiting, SaleInv
  <2> QED
    BY <2>1, <2>2, <2>3, <2>4 DEF SaleInv, Cash
<1>3. CASE ProviderConflict(e) \/ RefundProgress(e) \/ DisputeProgress(e)
  <2>1. UNCHANGED <<saleVars, collection, deleted>>
    BY <1>3 DEF ProviderConflict, RefundProgress, DisputeProgress
  <2> QED
    BY <2>1, SaleInvFrame DEF saleVars
<1>4. CASE SettleFailure(e)
  <2>1. e.ref \in Purchases /\ attempt[e.ref] = "pending"
    BY <1>4, EventFields DEF SettleFailure
  <2>2. ASSUME NEW p \in Purchases
        PROVE  /\ p # e.ref => /\ purchase'[p] = purchase[p] /\ attempt'[p] = attempt[p]
                               /\ hold'[p] = hold[p]
               /\ p = e.ref => /\ attempt'[p] = "failed"
                               /\ purchase'[p] # "awaiting_payment"
                               /\ purchase'[p] = "absent" => purchase[p] = "absent"
    BY <1>4, <2>1 DEF SettleFailure, TypeOK, SaleType
  <2>3. UNCHANGED <<applied, deleted, collection>>
    BY <1>4 DEF SettleFailure, evidenceVars
  <2> QED
    BY <2>1, <2>2, <2>3 DEF SaleInv, Cash
<1> QED
  BY <1>1, <1>2, <1>3, <1>4 DEF Settle

(* Every step keeps it. *)
LEMMA SaleStep == ASSUME TypeOK, SaleInv, [Next]_vars PROVE SaleInv'
<1>1. CASE UNCHANGED <<saleVars, collection>> /\ (deleted => deleted')
  BY <1>1, SaleInvFrame DEF saleVars
<1>2. CASE ExpireOffers
  <2>1. /\ purchase' = ExpiredPurchase /\ hold' = ExpiredHold
        /\ UNCHANGED <<deleted, applied, attempt, collection>>
    BY <1>2 DEF ExpireOffers, evidenceVars
  <2> QED
    BY <2>1 DEF SaleInv, Cash, ExpiredPurchase, ExpiredHold, Lapsed, Unresolved
<1>3. ASSUME NEW p \in Purchases, WithdrawRenewal(p) \/ GiveUpRenewal(p) PROVE SaleInv'
  <2>1. purchase[p] = "awaiting_payment"
    BY <1>3 DEF WithdrawRenewal, GiveUpRenewal, Drop, Waiting
  <2>2. ASSUME NEW q \in Purchases
        PROVE  /\ q # p => /\ purchase'[q] = purchase[q] /\ attempt'[q] = attempt[q]
                           /\ hold'[q] = hold[q]
               /\ q = p => attempt'[q] # "none" /\ purchase'[q] \in {"failed", "cancelled"}
    BY <1>3, <2>1 DEF WithdrawRenewal, GiveUpRenewal, Drop, TypeOK, SaleType, SaleInv
  <2>3. UNCHANGED <<applied, deleted, collection>>
    BY <1>3 DEF WithdrawRenewal, GiveUpRenewal, Drop, evidenceVars
  <2> QED
    BY <2>1, <2>2, <2>3 DEF SaleInv, Cash
<1>4. ASSUME NEW p \in Purchases, Use(p) \/ ClosePeriod(p) PROVE SaleInv'
  BY <1>1, <1>4
  DEF Use, Reserve, ReleaseSeat, ChargeRide, PlanPause, ResumePause, ClosePeriod, evidenceVars
<1> QED
  BY <1>1, <1>2, <1>3, <1>4, CheckoutSale, SettleSale
  DEF Next, vars, Tick, SettleDuePauses, EraseAccount, Decide, evidenceVars

-----------------------------------------------------------------------------
(* Rides. *)

(* What a period is before, while and after it is open.  RidesConserved is its last two
   conjuncts; alone it is not inductive, because closing and reversing subtract what was
   converted or removed before (closeOne, reverse). *)
PeriodInv ==
  \A p \in Purchases :
    /\ reversal[p].made <=> period[p] = "reversed"
    /\ ~reversal[p].made => reversal[p] = NoReversal
    /\ period[p] \in {"none", "open"} => closure[p] = NoClosure
    /\ period[p] = "none" =>
         /\ pause[p] = NoPause
         /\ \A d \in Direction : charged[p][d] = 0 /\ reserved[p][d] = 0
    /\ period[p] = "open" =>
         \A d \in Direction : 0 <= reserved[p][d] /\ reserved[p][d] <= LeftOver(p, d)
    /\ period[p] \in {"closed", "reversed"} =>
         RideBalance(p) = 0 /\ \A d \in Direction : reserved[p][d] = 0

(* There is no period yet. *)
LEMMA PeriodInit == Init => PeriodInv
<1> SUFFICES ASSUME Init PROVE PeriodInv
  OBVIOUS
<1>1. ASSUME NEW p \in Purchases
      PROVE  /\ period[p] = "none" /\ reversal[p] = NoReversal /\ closure[p] = NoClosure
             /\ pause[p] = NoPause
             /\ \A d \in Direction : charged[p][d] = 0 /\ reserved[p][d] = 0
  BY DEF Init
<1> QED
  BY <1>1 DEF PeriodInv, NoReversal

(* Pauses may change wherever there is a period. *)
LEMMA PeriodFrame ==
  ASSUME PeriodInv, UNCHANGED <<period, charged, reserved, closure, reversal>>,
         \A p \in Purchases : period[p] = "none" => pause'[p] = pause[p]
  PROVE  PeriodInv'
<1>1. \A p \in Purchases :
        /\ RideBalance(p)' = RideBalance(p)
        /\ \A d \in Direction : LeftOver(p, d)' = LeftOver(p, d)
  BY DEF LeftOver, RideBalance, Consumed, Granted
<1> QED
  BY <1>1 DEF PeriodInv

(* A period that does not exist has no pause to settle. *)
LEMMA SettledIsThere ==
  ASSUME PeriodInv
  PROVE  \A p \in Purchases : period[p] = "none" => SettledPause[p] = pause[p]
BY DEF PeriodInv, SettledPause, DuePauses, NoPause

(* Rides and seats are integers in each direction. *)
LEMMA RideFields ==
  ASSUME TypeOK, NEW p \in Purchases, NEW d \in Direction
  PROVE  /\ charged[p][d] \in Int /\ reserved[p][d] \in Int /\ Terms[p].rides[d] \in Nat
         /\ LeftOver(p, d) \in Int
<1>1. charged[p][d] \in Int /\ reserved[p][d] \in Int
  BY DEF TypeOK, CoverType, Seats
<1>2. Terms[p].rides[d] \in Nat
  BY TermFields DEF Direction
<1> QED
  BY <1>1, <1>2 DEF LeftOver

(* Closing converts every ride that is left, and leaves no seat (closeOne). *)
LEMMA CloseRides ==
  ASSUME TypeOK, PeriodInv, NEW S \in SUBSET Open, \A p \in S : Closable(p), Close(S),
         UNCHANGED <<charged, reserved, reversal>>,
         \A p \in Purchases : period[p] = "none" => pause'[p] = pause[p]
  PROVE  PeriodInv'
<1>1. ASSUME NEW p \in Purchases, p \in S
      PROVE  /\ period'[p] = "closed" /\ period[p] = "open"
             /\ RideBalance(p)' = 0 /\ \A d \in Direction : reserved[p][d] = 0
  <2>1. closure'[p].rides = RideBalance(p) /\ period'[p] = "closed" /\ period[p] = "open"
    BY <1>1 DEF Close, TypeOK, CoverType, Open
  <2>2. closure[p].rides = 0 /\ reversal[p].rides = 0
    BY <2>1 DEF PeriodInv, NoClosure, NoReversal
  <2>3. RideBalance(p) = Granted(p) - Consumed(p)
    BY <2>2, RidesTyped DEF RideBalance, TypeOK
  <2>4. RideBalance(p)' = Granted(p) - Consumed(p) - closure'[p].rides - reversal[p].rides
    BY DEF RideBalance, Granted, Consumed
  <2>5. RideBalance(p)' = 0
    BY <2>1, <2>2, <2>3, <2>4, RidesTyped DEF TypeOK
  <2>6. \A d \in Direction : reserved[p][d] = 0
    BY <1>1, <2>1, RideFields DEF Closable, Both, PeriodInv, Direction
  <2> QED
    BY <2>1, <2>5, <2>6
<1>2. ASSUME NEW p \in Purchases, p \notin S
      PROVE  /\ period'[p] = period[p] /\ closure'[p] = closure[p]
             /\ RideBalance(p)' = RideBalance(p)
             /\ \A d \in Direction : LeftOver(p, d)' = LeftOver(p, d)
  BY <1>2 DEF Close, RideBalance, LeftOver, Granted, Consumed
<1> QED
  BY <1>1, <1>2 DEF PeriodInv

(* A reversal removes every ride that is left, and cancels every seat (reverse). *)
LEMMA ReverseRides ==
  ASSUME TypeOK, PeriodInv, NEW p \in Purchases, ~reversal[p].made, period[p] # "none",
         Reverse(p), UNCHANGED <<charged, closure>>
  PROVE  PeriodInv'
<1>1. /\ period'[p] = "reversed" /\ reversal'[p].made /\ reversal'[p].rides = RideBalance(p)
      /\ \A d \in Direction : reserved'[p][d] = 0
  BY DEF Reverse, TypeOK, CoverType
<1>2. RideBalance(p)' = 0
  <2>1. reversal[p].rides = 0 /\ closure[p].rides \in Int
    BY DEF PeriodInv, NoReversal, TypeOK, CoverType, ClosureRows
  <2>2. RideBalance(p) = Granted(p) - Consumed(p) - closure[p].rides
    BY <2>1, RidesTyped DEF RideBalance, TypeOK
  <2>3. RideBalance(p)' = Granted(p) - Consumed(p) - closure[p].rides - reversal'[p].rides
    BY DEF RideBalance, Granted, Consumed
  <2> QED
    BY <1>1, <2>1, <2>2, <2>3, RidesTyped DEF TypeOK
<1>3. ASSUME NEW q \in Purchases, q # p
      PROVE  /\ period'[q] = period[q] /\ reversal'[q] = reversal[q]
             /\ reserved'[q] = reserved[q] /\ pause'[q] = pause[q]
             /\ RideBalance(q)' = RideBalance(q)
             /\ \A d \in Direction : LeftOver(q, d)' = LeftOver(q, d)
  <2>1. /\ period'[q] = period[q] /\ reversal'[q] = reversal[q]
        /\ reserved'[q] = reserved[q] /\ pause'[q] = pause[q]
    BY <1>3 DEF Reverse, TypeOK, CoverType
  <2> QED
    BY <2>1 DEF RideBalance, LeftOver, Granted, Consumed
<1> QED
  BY <1>1, <1>2, <1>3 DEF PeriodInv

(* Coverage starts with every ride, and no seat. *)
LEMMA FulfilRides ==
  ASSUME TypeOK, PaidInv, PeriodInv, NEW e \in Events, FulfilPurchase(e)
  PROVE  PeriodInv'
<1> DEFINE p == e.ref
<1>1. p \in Purchases /\ period[p] = "none"
  BY EventFields DEF FulfilPurchase, Waiting, PaidInv, CoverageIsPaid
<1>2. /\ period' = [period EXCEPT ![p] = "open"]
      /\ UNCHANGED <<charged, reserved, pause, closure, reversal>>
  BY DEF FulfilPurchase
<1> HIDE DEF p
<1>3. /\ \A d \in Direction : LeftOver(p, d) >= 0 /\ reserved[p][d] = 0
      /\ closure[p] = NoClosure /\ reversal[p] = NoReversal /\ ~reversal[p].made
  BY <1>1, RideFields DEF PeriodInv, LeftOver
<1>4. \A q \in Purchases :
        /\ RideBalance(q)' = RideBalance(q)
        /\ \A d \in Direction : LeftOver(q, d)' = LeftOver(q, d)
  BY <1>2 DEF RideBalance, LeftOver, Granted, Consumed
<1>5. \A q \in Purchases : period'[q] = IF q = p THEN "open" ELSE period[q]
  BY <1>2 DEF TypeOK, CoverType
<1>6. 0 <= 0
  OBVIOUS
<1> QED
  BY <1>1, <1>2, <1>3, <1>4, <1>5, <1>6 DEF PeriodInv

(* A seat taken or given back, or a ride charged, one direction at a time. *)
LEMMA SeatRides ==
  ASSUME TypeOK, PeriodInv, NEW p \in Purchases, NEW d \in Direction,
         Reserve(p, d) \/ ReleaseSeat(p, d) \/ ChargeRide(p, d)
  PROVE  PeriodInv'
<1>1. /\ UNCHANGED <<period, closure, reversal>>
      /\ \A q \in Purchases : period[q] = "none" => pause'[q] = pause[q]
  BY SettledIsThere DEF Reserve, ReleaseSeat, ChargeRide
<1>2. ASSUME NEW q \in Purchases, NEW x \in Direction, q # p \/ x # d
      PROVE  reserved'[q][x] = reserved[q][x] /\ charged'[q][x] = charged[q][x]
  BY <1>2 DEF Reserve, ReleaseSeat, ChargeRide, TypeOK, CoverType, Seats
<1>3. period[p] = "open"
  BY RideFields DEF Reserve, ReleaseSeat, ChargeRide, Open, PeriodInv, TypeOK, CoverType
<1>4. 0 <= reserved'[p][d] /\ reserved'[p][d] <= LeftOver(p, d)'
  <2>1. 0 <= reserved[p][d] /\ reserved[p][d] <= LeftOver(p, d)
    BY <1>3 DEF PeriodInv
  <2>2. CASE Reserve(p, d)
    <3>1. /\ reserved'[p][d] = reserved[p][d] + 1 /\ LeftOver(p, d)' = LeftOver(p, d)
          /\ LeftOver(p, d) - reserved[p][d] > 0
      BY <2>2 DEF Reserve, TypeOK, CoverType, Seats, LeftOver
    <3> QED
      BY <2>1, <3>1, RideFields
  <2>3. CASE ReleaseSeat(p, d)
    <3>1. /\ reserved'[p][d] = reserved[p][d] - 1 /\ LeftOver(p, d)' = LeftOver(p, d)
          /\ reserved[p][d] > 0
      BY <2>3 DEF ReleaseSeat, TypeOK, CoverType, Seats, LeftOver
    <3> QED
      BY <2>1, <3>1, RideFields
  <2>4. CASE ChargeRide(p, d)
    <3>1. /\ reserved'[p][d] = reserved[p][d] - 1 /\ charged'[p][d] = charged[p][d] + 1
          /\ reserved[p][d] > 0
      BY <2>4 DEF ChargeRide, TypeOK, CoverType, Seats
    <3>2. LeftOver(p, d)' = LeftOver(p, d) - 1
      BY <3>1, RideFields DEF LeftOver
    <3> QED
      BY <2>1, <3>1, <3>2, RideFields
  <2> QED
    BY <2>2, <2>3, <2>4
<1>5. ASSUME NEW q \in Purchases, q # p
      PROVE  /\ \A x \in Direction : LeftOver(q, x)' = LeftOver(q, x)
             /\ RideBalance(q)' = RideBalance(q)
  BY <1>1, <1>2, <1>5 DEF LeftOver, RideBalance, Consumed, Granted, Both, Direction
<1>6. \A x \in Direction : x # d => LeftOver(p, x)' = LeftOver(p, x)
  BY <1>2 DEF LeftOver
<1>7. \A q \in Purchases : period[q] = "none" => q # p
  BY <1>3
<1> QED
  BY <1>1, <1>2, <1>3, <1>4, <1>5, <1>6, <1>7 DEF PeriodInv

(* Seats only given back: a pause that is planned, an account that is erased. *)
LEMMA FewerSeats ==
  ASSUME TypeOK, PeriodInv, UNCHANGED <<period, charged, closure, reversal>>,
         \A p \in Purchases : period[p] = "none" => pause'[p] = pause[p],
         \A p \in Purchases, d \in Direction :
           reserved'[p][d] \in Nat /\ (reserved[p][d] = 0 \/ period[p] = "open"
                                         => reserved'[p][d] <= reserved[p][d])
  PROVE  PeriodInv'
<1>1. \A p \in Purchases :
        /\ RideBalance(p)' = RideBalance(p)
        /\ \A d \in Direction : LeftOver(p, d)' = LeftOver(p, d)
  BY DEF LeftOver, RideBalance, Consumed, Granted
<1> QED
  BY <1>1, RideFields DEF PeriodInv

(* Every step keeps the periods as they should be. *)
LEMMA PeriodStep ==
  ASSUME TypeOK, PaidInv, PeriodInv, [Next]_vars
  PROVE  PeriodInv'
<1>1. CASE UNCHANGED <<period, charged, reserved, closure, reversal, pause>>
  BY <1>1, PeriodFrame
<1>2. ASSUME NEW p \in Purchases, NEW useCredit \in BOOLEAN, Checkout(p, useCredit)
      PROVE  PeriodInv'
  <2>1. Ended \in SUBSET Open
    BY DEF Ended
  <2> QED
    BY <1>2, <2>1, SettledIsThere, CloseRides DEF Checkout, CheckoutAllowed
<1>3. ASSUME NEW p \in Purchases, ClosePeriod(p) PROVE PeriodInv'
  <2>1. {p} \in SUBSET Open
    BY <1>3 DEF ClosePeriod, Ended
  <2> QED
    BY <1>3, <2>1, SettledIsThere, CloseRides DEF ClosePeriod
<1>4. ASSUME NEW e \in Events, Settle(e) PROVE PeriodInv'
  <2>1. CASE FulfilPurchase(e)
    BY <2>1, FulfilRides
  <2>2. CASE RefundProgress(e)
    <3>1. CASE Reverse(e.ref) /\ ~reversal[e.ref].made /\ purchase[e.ref] = "fulfilled"
      BY <2>2, <3>1, EventFields, ReverseRides DEF PaidInv, CoverageIsPaid, RefundProgress
    <3>2. CASE UNCHANGED <<reversal, credit, period, reserved, pause>>
      BY <1>1, <2>2, <3>2 DEF RefundProgress
    <3> QED
      BY <2>2, <3>1, <3>2 DEF RefundProgress
  <2>3. CASE UNCHANGED coverVars
    BY <1>1, <2>3 DEF coverVars
  <2> QED
    BY <1>4, <2>1, <2>2, <2>3
    DEF Settle, RefuseLate, LateSuccess, AccountUnavailable, ProviderConflict, SettleFailure,
        DisputeProgress
<1>5. ASSUME NEW p \in Purchases, NEW from \in Day, NEW length \in PauseLengths,
             NEW kept \in [Direction -> 0 .. Granted(p)], PlanPause(p, from, length, kept)
      PROVE  PeriodInv'
  <2>1. period[p] = "open"
    BY <1>5 DEF PlanPause, CurrentPeriod, Open
  <2>2. \A q \in Purchases : period[q] = "none" => pause'[q] = pause[q]
    BY <1>5, <2>1, SettledIsThere DEF PlanPause, SettledPause
  <2>3. ASSUME NEW q \in Purchases, NEW d \in Direction
        PROVE  IF q = p THEN reserved'[q][d] = kept[d] /\ kept[d] <= reserved[q][d]
               ELSE reserved'[q][d] = reserved[q][d]
    BY <1>5 DEF PlanPause, TypeOK, CoverType
  <2>4. \A d \in Direction : kept[d] \in Nat
    BY RidesTyped DEF TypeOK
  <2>5. UNCHANGED <<period, charged, closure, reversal>>
    BY <1>5 DEF PlanPause
  <2>6. \A q \in Purchases, d \in Direction : reserved[q][d] \in Nat
    <3>1. \A q \in Purchases : period[q] \in {"none", "open", "closed", "reversed"}
      BY DEF TypeOK, CoverType
    <3>2. \A q \in Purchases, d \in Direction : 0 <= reserved[q][d] /\ reserved[q][d] \in Int
      BY <3>1, RideFields DEF PeriodInv
    <3> QED
      BY <3>2
  <2> QED
    BY <2>1, <2>2, <2>3, <2>4, <2>5, <2>6, FewerSeats
<1>6. ASSUME NEW p \in Purchases, NEW to \in Day, ResumePause(p, to) PROVE PeriodInv'
  <2>1. period[p] # "none"
    BY <1>6 DEF ResumePause, PeriodInv, NoPause
  <2>2. \A q \in Purchases : period[q] = "none" => pause'[q] = pause[q]
    BY <1>6, <2>1, SettledIsThere DEF ResumePause, SettledPause
  <2> QED
    BY <1>6, <2>2, PeriodFrame DEF ResumePause
<1>7. CASE SettleDuePauses
  BY <1>7, SettledIsThere, PeriodFrame DEF SettleDuePauses
<1>8. CASE EraseAccount
  <2>1. \A q \in Purchases : period[q] = "none" => pause'[q] = pause[q]
    BY <1>8 DEF EraseAccount, PeriodInv, NoPause
  <2>2. \A q \in Purchases, d \in Direction : reserved'[q][d] = 0 /\ reserved[q][d] \in Nat
    <3>1. \A q \in Purchases, d \in Direction : reserved'[q][d] = 0
      BY <1>8 DEF EraseAccount
    <3>2. \A q \in Purchases : period[q] \in {"none", "open", "closed", "reversed"}
      BY DEF TypeOK, CoverType
    <3>3. \A q \in Purchases, d \in Direction : 0 <= reserved[q][d] /\ reserved[q][d] \in Int
      BY <3>2, RideFields DEF PeriodInv
    <3> QED
      BY <3>1, <3>3
  <2>3. UNCHANGED <<period, charged, closure, reversal>>
    BY <1>8 DEF EraseAccount
  <2>4. \A q \in Purchases, d \in Direction :
          reserved'[q][d] \in Nat /\ (reserved[q][d] = 0 \/ period[q] = "open"
                                        => reserved'[q][d] <= reserved[q][d])
    BY <2>2
  <2> QED
    BY <2>1, <2>3, <2>4, FewerSeats
<1>9. ASSUME NEW p \in Purchases, Use(p) PROVE PeriodInv'
  BY <1>5, <1>6, <1>9, SeatRides DEF Use
<1> QED
  BY <1>1, <1>2, <1>3, <1>4, <1>7, <1>8, <1>9
  DEF Next, vars, coverVars, Tick, ExpireOffers, WithdrawRenewal, GiveUpRenewal, Drop, Decide

(* Every granted ride of every period is left, charged, converted or removed exactly once,
   and every seat in reserve is covered by a ride that is left, whatever was reserved,
   charged, paused, closed, refunded or erased in between (closeOne, reverse, reserve). *)
THEOREM RidesAreConserved == Spec => []RidesConserved
<1>1. TypeOK /\ PaidInv /\ PeriodInv /\ [Next]_vars => (TypeOK /\ PaidInv /\ PeriodInv)'
  BY TypeStep, PaidStep, PeriodStep
<1>2. PeriodInv => RidesConserved
  <2>1. \A p \in Purchases : (\A d \in Direction : reserved[p][d] = 0) => Both(reserved[p]) = 0
    BY DEF Both, Direction
  <2> QED
    BY <2>1 DEF PeriodInv, RidesConserved
<1> QED
  BY TypeInit, PaidInit, PeriodInit, <1>1, <1>2, PTL DEF Spec

-----------------------------------------------------------------------------
(* Days. *)

(* The end of a period once its pause is settled, and the days already given back. *)
FinalEnd(p) ==
  endsAt[p] + (IF pause[p].state = "planned" THEN pause[p].to - pause[p].from ELSE 0)
PausedDays(p) == IF pause[p].state = "completed" THEN pause[p].to - pause[p].from ELSE 0
Lasting == {p \in Purchases : period[p] \in {"open", "closed"}}

(* Pauses belong to open periods, and a period ends when its terms and its pause say. *)
PauseInv ==
  \A p \in Purchases :
    /\ pause[p].state \in {"planned", "completed"} => pause[p].from < pause[p].to
    /\ pause[p].state = "planned" => period[p] = "open"
    /\ period[p] = "open" =>
         /\ endsAt[p] = Terms[p].end + PausedDays(p)
         /\ pause[p].state = "terminated" => deleted
    /\ period[p] = "closed" => endsAt[p] <= day /\ Terms[p].end <= endsAt[p]

(* No day is sold twice, counting the days that planned pauses will give back, and the
   days of a purchase that still waits for its payment.  NoDaySoldTwice alone is not
   inductive: a pause settles and a payment arrives after the dates were compared. *)
DaysInv ==
  \A p \in Purchases, q \in Lasting :
    p # q =>
      /\ p \in Lasting => FinalEnd(p) <= Terms[q].start \/ FinalEnd(q) <= Terms[p].start
      /\ purchase[p] = "awaiting_payment" => FinalEnd(q) <= Terms[p].start

CalendarInv ==
  /\ PauseInv /\ DaysInv
  /\ \A p \in Purchases : failure[p] # "offer_coverage_conflict"

(* An empty calendar. *)
LEMMA CalendarInit == Init => CalendarInv
<1> SUFFICES ASSUME Init PROVE CalendarInv
  OBVIOUS
<1>1. ASSUME NEW p \in Purchases
      PROVE  period[p] = "none" /\ pause[p].state = "unused" /\ failure[p] = "none"
  BY DEF Init, NoPause
<1> QED
  BY <1>1 DEF CalendarInv, PauseInv, DaysInv, Lasting

(* The dates of a purchase are integers. *)
LEMMA DateFields ==
  ASSUME TypeOK, NEW p \in Purchases
  PROVE  /\ endsAt[p] \in Int /\ pause[p].from \in Int /\ pause[p].to \in Int
         /\ Terms[p].start \in Int /\ Terms[p].end \in Int /\ Terms[p].start < Terms[p].end
         /\ FinalEnd(p) \in Int /\ day \in Int
<1>1. endsAt[p] \in Int /\ pause[p].from \in Int /\ pause[p].to \in Int /\ day \in Int
  BY ClockAssumption DEF TypeOK, CoverType, PauseRows, Day
<1>2. Terms[p].start \in Int /\ Terms[p].end \in Int /\ Terms[p].start < Terms[p].end
  BY TermFields, TermsAssumption
<1> QED
  BY <1>1, <1>2 DEF FinalEnd

(* A period never ends before its terms say, nor after its pause is settled. *)
LEMMA EndsInOrder ==
  ASSUME TypeOK, PauseInv, NEW p \in Lasting
  PROVE  /\ Terms[p].start < endsAt[p]
         /\ endsAt[p] <= SettledEnd[p] /\ SettledEnd[p] <= FinalEnd(p)
<1>1. p \in Purchases /\ Terms[p].end <= endsAt[p]
  BY DateFields DEF Lasting, PauseInv, PausedDays
<1>2. SettledEnd[p] = IF p \in DuePauses THEN FinalEnd(p) ELSE endsAt[p]
  BY <1>1, DateFields DEF SettledEnd, DuePauses, FinalEnd
<1>3. endsAt[p] <= FinalEnd(p)
  BY <1>1, DateFields DEF FinalEnd, PauseInv
<1> QED
  BY <1>1, <1>2, <1>3, DateFields

(* Settling a pause moves the end to where it was going to be (settle_personal_pauses),
   and closing an ended period changes no date. *)
LEMMA SettleDates ==
  ASSUME TypeOK, PauseInv, pause' = SettledPause, endsAt' = SettledEnd,
         UNCHANGED <<day, deleted>>,
         \A p \in Purchases :
           \/ period'[p] = period[p]
           \/ p \in Ended /\ Closable(p) /\ period'[p] = "closed"
  PROVE  PauseInv' /\ \A p \in Purchases : FinalEnd(p)' = FinalEnd(p)
<1>1. ASSUME NEW p \in Purchases, p \in DuePauses
      PROVE  /\ pause[p].state = "planned" /\ pause'[p].state = "completed"
             /\ pause'[p].from = pause[p].from /\ pause'[p].to = pause[p].to
             /\ endsAt'[p] = endsAt[p] + pause[p].to - pause[p].from
  BY <1>1 DEF SettledPause, SettledEnd, DuePauses, TypeOK, CoverType, PauseRows
<1>2. ASSUME NEW p \in Purchases, p \notin DuePauses
      PROVE  pause'[p] = pause[p] /\ endsAt'[p] = endsAt[p]
  BY <1>2 DEF SettledPause, SettledEnd
<1>3. ASSUME NEW p \in Purchases PROVE FinalEnd(p)' = FinalEnd(p)
  BY <1>1, <1>2, DateFields DEF FinalEnd
<1>4. ASSUME NEW p \in Purchases
      PROVE  /\ pause'[p].state \in {"planned", "completed"} => pause'[p].from < pause'[p].to
             /\ pause'[p].state = "planned" => period'[p] = "open"
             /\ period'[p] = "open" =>
                  /\ endsAt'[p] = Terms[p].end + PausedDays(p)'
                  /\ pause'[p].state = "terminated" => deleted'
             /\ period'[p] = "closed" => endsAt'[p] <= day' /\ Terms[p].end <= endsAt'[p]
  <2>1. CASE period'[p] = period[p]
    <3>1. CASE p \in DuePauses
      BY <1>1, <2>1, <3>1, DateFields DEF PauseInv, PausedDays
    <3>2. CASE p \notin DuePauses
      BY <1>2, <2>1, <3>2 DEF PauseInv, PausedDays
    <3> QED
      BY <3>1, <3>2
  <2>2. CASE p \in Ended /\ Closable(p) /\ period'[p] = "closed"
    <3>1. pause'[p].state # "planned" /\ endsAt'[p] <= day /\ period[p] = "open"
      BY <2>2 DEF Ended, Open, Closable
    <3>2. Terms[p].end <= endsAt[p] /\ endsAt[p] <= endsAt'[p]
      BY <3>1, EndsInOrder, DateFields DEF Lasting, PauseInv, PausedDays
    <3>3. pause'[p].state = "completed" => pause'[p].from < pause'[p].to
      BY <1>1, <1>2 DEF PauseInv
    <3>4. Terms[p].end <= endsAt'[p]
      BY <3>2, DateFields, SettledTyped DEF TypeOK
    <3> QED
      BY <2>2, <3>1, <3>3, <3>4
  <2> QED
    BY <2>1, <2>2
<1> QED
  BY <1>3, <1>4 DEF PauseInv

(* Dates that stay, or that planned pauses no longer move, stay apart. *)
LEMMA DaysFrame ==
  ASSUME TypeOK, TypeOK', DaysInv,
         \A p \in Purchases : purchase'[p] = "awaiting_payment" => purchase[p] = "awaiting_payment",
         \A p \in Lasting' : p \in Lasting /\ FinalEnd(p)' <= FinalEnd(p)
  PROVE  DaysInv'
<1> SUFFICES ASSUME NEW p \in Purchases, NEW q \in Lasting', p # q
             PROVE  /\ p \in Lasting' =>
                         FinalEnd(p)' <= Terms[q].start \/ FinalEnd(q)' <= Terms[p].start
                    /\ purchase'[p] = "awaiting_payment" => FinalEnd(q)' <= Terms[p].start
  BY DEF DaysInv
<1>1. q \in Purchases /\ q \in Lasting /\ FinalEnd(q)' <= FinalEnd(q)
  BY DEF Lasting
<1>2. \A x \in Purchases : FinalEnd(x) \in Int /\ FinalEnd(x)' \in Int /\ Terms[x].start \in Int
  <2>1. ASSUME NEW x \in Purchases PROVE FinalEnd(x)' \in Int
    BY DEF FinalEnd, TypeOK, CoverType, PauseRows
  <2> QED
    BY <2>1, DateFields
<1> QED
  BY <1>1, <1>2 DEF DaysInv

(* Checkout leaves the past alone, waits for planned pauses, and sells days after the end
   of every other period: this is where DaysInv is earned for a waiting purchase. *)
LEMMA CheckoutDays ==
  ASSUME TypeOK, TypeOK', PaidInv, PeriodInv, CalendarInv, NEW p \in Purchases,
         NEW useCredit \in BOOLEAN, Checkout(p, useCredit)
  PROVE  CalendarInv'
<1>1. /\ CheckoutAllowed(p) /\ Close(Ended) /\ UNCHANGED <<day, deleted>>
      /\ pause' = SettledPause /\ endsAt' = SettledEnd /\ failure' = ExpiredFailure
      /\ purchase' = [ExpiredPurchase EXCEPT ![p] = "awaiting_payment"]
  BY DEF Checkout
<1>2. PauseInv' /\ \A q \in Purchases : FinalEnd(q)' = FinalEnd(q)
  <2>1. \A q \in Purchases :
          period'[q] = period[q] \/ (q \in Ended /\ Closable(q) /\ period'[q] = "closed")
    BY <1>1 DEF Close, CheckoutAllowed
  <2> QED
    BY <1>1, <2>1, SettleDates DEF CalendarInv
<1>3. Lasting' = Lasting
  BY <1>1 DEF Lasting, Close, Ended, Open
<1>4. \A q \in Purchases : failure'[q] # "offer_coverage_conflict"
  BY <1>1 DEF ExpiredFailure, CalendarInv
<1>5. period[p] = "none"
  BY <1>1 DEF CheckoutAllowed, PaidInv, CoverageIsPaid
<1>6. day < Terms[p].start
  <2>1. CASE Terms[p].renews = NoPurchase
    BY <1>1, <2>1, TermFields, TermsAssumption, DateFields DEF CheckoutAllowed
  <2>2. CASE Terms[p].renews # NoPurchase
    <3> DEFINE q == Terms[p].renews
    <3>1. q \in Open \ Ended /\ SettledEnd[q] = Terms[p].start
      BY <1>1, <2>2 DEF CheckoutAllowed, RenewalMatches
    <3>2. ~(SettledEnd[q] <= day)
      BY <3>1 DEF Ended
    <3> HIDE DEF q
    <3> QED
      BY <3>1, <3>2, DateFields
  <2> QED
    BY <2>1, <2>2
<1>7. ASSUME NEW q \in Lasting, q # p PROVE FinalEnd(q) <= Terms[p].start
  <2>1. CASE period[q] = "open"
    <3>1. SettledPause[q].state # "planned" /\ SettledEnd[q] <= Terms[p].start
      BY <1>1, <2>1 DEF CheckoutAllowed, Open, Lasting
    <3>2. FinalEnd(q)' = SettledEnd[q]
      BY <1>1, <3>1, SettledTyped DEF FinalEnd, TypeOK, Lasting
    <3> QED
      BY <1>2, <3>1, <3>2 DEF Lasting
  <2>2. CASE period[q] = "closed"
    <3>1. endsAt[q] <= day /\ FinalEnd(q) = endsAt[q]
      BY <2>2, DateFields DEF CalendarInv, PauseInv, FinalEnd, Lasting
    <3> QED
      BY <1>6, <3>1, DateFields DEF Lasting
  <2> QED
    BY <2>1, <2>2 DEF Lasting
<1>8. DaysInv'
  <2> SUFFICES ASSUME NEW r \in Purchases, NEW q \in Lasting, r # q
               PROVE  /\ r \in Lasting =>
                           FinalEnd(r)' <= Terms[q].start \/ FinalEnd(q)' <= Terms[r].start
                      /\ purchase'[r] = "awaiting_payment" => FinalEnd(q)' <= Terms[r].start
    BY <1>3 DEF DaysInv
  <2>1. q \in Purchases
    BY DEF Lasting
  <2>2. r # p /\ purchase'[r] = "awaiting_payment" => purchase[r] = "awaiting_payment"
    BY <1>1 DEF TypeOK, SaleType, ExpiredPurchase
  <2> QED
    BY <1>2, <1>7, <2>1, <2>2 DEF CalendarInv, DaysInv
<1> QED
  BY <1>2, <1>4, <1>8 DEF CalendarInv

(* Fulfilment opens exactly the days that were free for the waiting purchase. *)
LEMMA FulfilDays ==
  ASSUME TypeOK, TypeOK', MoneyInv, PaidInv, PeriodInv, CalendarInv, NEW e \in Events,
         FulfilPurchase(e)
  PROVE  CalendarInv'
<1> DEFINE p == e.ref
<1>1. /\ p \in Purchases /\ purchase[p] = "awaiting_payment" /\ period[p] = "none"
      /\ pause[p].state = "unused"
  BY EventFields DEF FulfilPurchase, Waiting, PaidInv, CoverageIsPaid, PeriodInv, NoPause
<1>2. /\ period' = [period EXCEPT ![p] = "open"] /\ endsAt' = [endsAt EXCEPT ![p] = Terms[p].end]
      /\ purchase' = [purchase EXCEPT ![p] = "fulfilled"]
      /\ UNCHANGED <<day, deleted, pause, failure>>
  BY DEF FulfilPurchase
<1> HIDE DEF p
<1>3. /\ Lasting' = Lasting \cup {p} /\ p \notin Lasting
      /\ \A q \in Purchases : q # p => /\ period'[q] = period[q] /\ endsAt'[q] = endsAt[q]
                                       /\ purchase'[q] = purchase[q]
      /\ period'[p] = "open" /\ endsAt'[p] = Terms[p].end /\ purchase'[p] = "fulfilled"
  BY <1>1, <1>2 DEF Lasting, TypeOK, SaleType, CoverType
<1>4. /\ \A q \in Purchases : q # p => FinalEnd(q)' = FinalEnd(q)
      /\ FinalEnd(p)' = Terms[p].end /\ PausedDays(p)' = 0
  BY <1>1, <1>2, <1>3, DateFields DEF FinalEnd, PausedDays
<1>5. PauseInv'
  <2>1. \A q \in Purchases : q # p => PausedDays(q)' = PausedDays(q)
    BY <1>2 DEF PausedDays
  <2>2. Terms[p].end = Terms[p].end + 0
    BY <1>1, DateFields
  <2> QED
    BY <1>1, <1>2, <1>3, <1>4, <2>1, <2>2 DEF CalendarInv, PauseInv
<1>6. \A r \in Purchases : purchase'[r] # "awaiting_payment"
  BY <1>1, <1>3 DEF MoneyInv, SingleUnresolved, Unresolved
<1>7. DaysInv'
  <2> SUFFICES ASSUME NEW r \in Lasting', NEW q \in Lasting', r # q
               PROVE  FinalEnd(r)' <= Terms[q].start \/ FinalEnd(q)' <= Terms[r].start
    BY <1>6 DEF DaysInv
  <2>1. \A x \in Lasting : x # p /\ x \in Purchases
    BY <1>3 DEF Lasting
  <2> QED
    BY <1>1, <1>3, <1>4, <2>1 DEF CalendarInv, DaysInv
<1> QED
  BY <1>2, <1>5, <1>7 DEF CalendarInv

(* A waiting purchase never overlaps what lasts: the refusal for overlapping coverage
   in fulfillInTransaction is never needed. *)
LEMMA NeverOverlaps ==
  ASSUME TypeOK, PaidInv, CalendarInv, NEW p \in Purchases, Waiting(p)
  PROVE  ~Overlaps(p)
<1> SUFFICES ASSUME NEW q \in Lasting, Terms[p].start < endsAt[q] PROVE FALSE
  BY DEF Overlaps, Lasting
<1>1. q # p /\ q \in Purchases
  BY DEF Waiting, Lasting, PaidInv, CoverageIsPaid
<1>2. FinalEnd(q) <= Terms[p].start
  BY <1>1 DEF Waiting, CalendarInv, DaysInv
<1>3. endsAt[q] <= FinalEnd(q)
  BY <1>1, DateFields DEF FinalEnd, CalendarInv, PauseInv
<1> QED
  BY <1>1, <1>2, <1>3, DateFields

(* A planned pause may move its period's end past no other one: later periods and waiting
   purchases forbid the pause (PendingRenewal), earlier ones ended before. *)
LEMMA PlanPauseDays ==
  ASSUME TypeOK, TypeOK', PaidInv, CalendarInv, NEW p \in Purchases, NEW from \in Day,
         NEW length \in PauseLengths, NEW kept, PlanPause(p, from, length, kept)
  PROVE  CalendarInv'
<1>1. /\ pause[p].state = "unused" /\ period[p] = "open" /\ Terms[p].start <= day
      /\ day < SettledEnd[p] /\ ~PendingRenewal(p) /\ CurrentPeriod(p)
      /\ pause' = [SettledPause EXCEPT ![p] =
                     [state |-> "planned", from |-> from, to |-> from + length]]
      /\ endsAt' = SettledEnd
      /\ UNCHANGED <<day, deleted, purchase, failure, period>>
  BY DEF PlanPause, CurrentPeriod, Open, saleVars
<1>2. from \in Int /\ length \in Int /\ length > 0 /\ from < from + length
  BY ClockAssumption DEF Day
<1>3. /\ pause'[p].state = "planned" /\ pause'[p].from = from /\ pause'[p].to = from + length
      /\ endsAt'[p] = endsAt[p]
  BY <1>1, SettledTyped DEF TypeOK, SettledEnd, DuePauses
<1>4. ASSUME NEW q \in Purchases, q # p
      PROVE  /\ pause'[q] = SettledPause[q] /\ endsAt'[q] = SettledEnd[q]
             /\ FinalEnd(q)' = FinalEnd(q)
  <2>1. pause'[q] = SettledPause[q] /\ endsAt'[q] = SettledEnd[q]
    BY <1>1, <1>4, SettledTyped DEF TypeOK
  <2>2. CASE q \in DuePauses
    BY <2>1, <2>2, DateFields DEF FinalEnd, SettledPause, SettledEnd, DuePauses, TypeOK,
       CoverType, PauseRows
  <2>3. CASE q \notin DuePauses
    BY <2>1, <2>3 DEF FinalEnd, SettledPause, SettledEnd
  <2> QED
    BY <2>1, <2>2, <2>3
<1>5. PauseInv'
  <2>1. ASSUME NEW q \in Purchases, q # p
        PROVE  /\ pause'[q].state \in {"planned", "completed"} =>
                    pause'[q].from < pause'[q].to
               /\ pause'[q].state = "planned" => period'[q] = "open"
               /\ period'[q] = "open" =>
                    /\ endsAt'[q] = Terms[q].end + PausedDays(q)'
                    /\ pause'[q].state = "terminated" => deleted'
               /\ period'[q] = "closed" => endsAt'[q] <= day' /\ Terms[q].end <= endsAt'[q]
    <3>1. CASE q \in DuePauses
      <4>1. /\ pause[q].state = "planned" /\ pause'[q].state = "completed"
            /\ pause'[q].from = pause[q].from /\ pause'[q].to = pause[q].to
            /\ endsAt'[q] = endsAt[q] + pause[q].to - pause[q].from
        BY <1>4, <2>1, <3>1
        DEF SettledPause, SettledEnd, DuePauses, TypeOK, CoverType, PauseRows
      <4> QED
        BY <1>1, <4>1, DateFields DEF CalendarInv, PauseInv, PausedDays
    <3>2. CASE q \notin DuePauses
      <4>1. pause'[q] = pause[q] /\ endsAt'[q] = endsAt[q]
        BY <1>4, <2>1, <3>2 DEF SettledPause, SettledEnd
      <4> QED
        BY <1>1, <4>1 DEF CalendarInv, PauseInv, PausedDays
    <3> QED
      BY <3>1, <3>2
  <2>2. endsAt'[p] = Terms[p].end + PausedDays(p)'
    BY <1>1, <1>3 DEF CalendarInv, PauseInv, PausedDays
  <2> QED
    BY <1>1, <1>2, <1>3, <2>1, <2>2 DEF PauseInv
<1>6. FinalEnd(p) = endsAt[p] /\ SettledEnd[p] = endsAt[p]
  BY <1>1, DateFields DEF FinalEnd, SettledEnd, DuePauses
<1>7. p \in Lasting /\ Lasting' = Lasting /\ Terms[p].start < FinalEnd(p)
  BY <1>1, <1>6, EndsInOrder DEF Lasting, CalendarInv
<1>8. ASSUME NEW q \in Lasting, q # p PROVE FinalEnd(q) <= Terms[p].start
  <2>1. q \in Purchases /\ (FinalEnd(p) <= Terms[q].start \/ FinalEnd(q) <= Terms[p].start)
    BY <1>7, <1>8 DEF CalendarInv, DaysInv, Lasting
  <2>2. CASE FinalEnd(p) <= Terms[q].start
    <3>1. Terms[q].start > Terms[p].start
      BY <1>7, <2>1, <2>2, DateFields
    <3>2. period[q] = "closed"
      BY <1>1, <1>8, <2>1, <3>1 DEF PendingRenewal, PaidInv, CoverageIsPaid, Lasting
    <3>3. Terms[q].start < endsAt[q] /\ endsAt[q] <= day
      BY <1>8, <2>1, <3>2, EndsInOrder DEF CalendarInv, PauseInv
    <3>4. day < FinalEnd(p)
      BY <1>1, <1>6
    <3> QED
      BY <2>1, <2>2, <3>3, <3>4, DateFields
  <2> QED
    BY <2>1, <2>2
<1>9. ASSUME NEW r \in Purchases PROVE r = p \/ purchase[r] # "awaiting_payment"
  <2> SUFFICES ASSUME r # p, purchase[r] = "awaiting_payment" PROVE FALSE
    OBVIOUS
  <2>1. FinalEnd(p) <= Terms[r].start
    BY <1>7 DEF CalendarInv, DaysInv
  <2>2. Terms[r].start > Terms[p].start
    BY <1>7, <2>1, DateFields
  <2> QED
    BY <1>1, <2>2 DEF PendingRenewal
<1>10. DaysInv'
  <2> SUFFICES ASSUME NEW r \in Purchases, NEW q \in Lasting, r # q
               PROVE  /\ r \in Lasting =>
                           FinalEnd(r)' <= Terms[q].start \/ FinalEnd(q)' <= Terms[r].start
                      /\ purchase'[r] = "awaiting_payment" => FinalEnd(q)' <= Terms[r].start
    BY <1>7 DEF DaysInv
  <2>1. q \in Purchases
    BY DEF Lasting
  <2>2. purchase'[r] = "awaiting_payment" => r = p
    BY <1>1, <1>9
  <2> QED
    BY <1>1, <1>4, <1>8, <2>1, <2>2 DEF CalendarInv, DaysInv
<1> QED
  BY <1>1, <1>5, <1>10 DEF CalendarInv

(* A pause resumed early gives back fewer days. *)
LEMMA ResumePauseDays ==
  ASSUME TypeOK, TypeOK', CalendarInv, NEW p \in Purchases, NEW to \in Day,
         ResumePause(p, to)
  PROVE  CalendarInv'
<1>1. /\ p \notin DuePauses /\ pause[p].state = "planned"
      /\ pause[p].from < to /\ to < pause[p].to /\ to \in Int
      /\ pause' = [SettledPause EXCEPT ![p].to = to] /\ endsAt' = SettledEnd
      /\ UNCHANGED <<day, deleted, purchase, failure, period>>
  BY ClockAssumption DEF ResumePause, saleVars, Day
<1>2. /\ pause'[p].state = "planned" /\ pause'[p].from = pause[p].from /\ pause'[p].to = to
      /\ endsAt'[p] = endsAt[p]
  BY <1>1, SettledTyped DEF TypeOK, SettledEnd, SettledPause, PauseRows
<1>3. ASSUME NEW q \in Purchases, q # p
      PROVE  pause'[q] = SettledPause[q] /\ endsAt'[q] = SettledEnd[q]
  BY <1>1, <1>3, SettledTyped DEF TypeOK
<1>4. ASSUME NEW q \in Purchases, q # p, q \in DuePauses
      PROVE  /\ pause[q].state = "planned" /\ pause'[q].state = "completed"
             /\ pause'[q].from = pause[q].from /\ pause'[q].to = pause[q].to
             /\ endsAt'[q] = endsAt[q] + pause[q].to - pause[q].from
  BY <1>3, <1>4 DEF SettledPause, SettledEnd, DuePauses, TypeOK, CoverType, PauseRows
<1>5. ASSUME NEW q \in Purchases, q # p, q \notin DuePauses
      PROVE  pause'[q] = pause[q] /\ endsAt'[q] = endsAt[q]
  BY <1>3, <1>5 DEF SettledPause, SettledEnd
<1>6. ASSUME NEW q \in Purchases PROVE FinalEnd(q)' <= FinalEnd(q)
  <2>1. CASE q = p
    BY <1>1, <1>2, <2>1, DateFields DEF FinalEnd
  <2>2. CASE q # p /\ q \in DuePauses
    BY <1>4, <2>2, DateFields DEF FinalEnd
  <2>3. CASE q # p /\ q \notin DuePauses
    <3>1. FinalEnd(q)' = FinalEnd(q)
      BY <1>5, <2>3 DEF FinalEnd
    <3> QED
      BY <3>1, DateFields
  <2> QED
    BY <2>1, <2>2, <2>3
<1>7. PauseInv'
  <2> SUFFICES ASSUME NEW q \in Purchases
               PROVE  /\ pause'[q].state \in {"planned", "completed"} =>
                           pause'[q].from < pause'[q].to
                      /\ pause'[q].state = "planned" => period'[q] = "open"
                      /\ period'[q] = "open" =>
                           /\ endsAt'[q] = Terms[q].end + PausedDays(q)'
                           /\ pause'[q].state = "terminated" => deleted'
                      /\ period'[q] = "closed" =>
                           endsAt'[q] <= day' /\ Terms[q].end <= endsAt'[q]
    BY DEF PauseInv
  <2>1. CASE q = p
    BY <1>1, <1>2, <2>1 DEF CalendarInv, PauseInv, PausedDays
  <2>2. CASE q # p /\ q \in DuePauses
    BY <1>1, <1>4, <2>2, DateFields DEF CalendarInv, PauseInv, PausedDays
  <2>3. CASE q # p /\ q \notin DuePauses
    BY <1>1, <1>5, <2>3 DEF CalendarInv, PauseInv, PausedDays
  <2> QED
    BY <2>1, <2>2, <2>3
<1>8. Lasting' = Lasting
  BY <1>1 DEF Lasting
<1>9. DaysInv'
  BY <1>1, <1>6, <1>8, DaysFrame DEF CalendarInv, Lasting
<1> QED
  BY <1>1, <1>7, <1>9 DEF CalendarInv

(* Pauses that planned nothing more: an account erased, a period reversed. *)
LEMMA TerminatedDays ==
  ASSUME TypeOK, TypeOK', CalendarInv, UNCHANGED <<day, endsAt, purchase, failure>>,
         deleted => deleted',
         \A p \in Purchases :
           /\ \/ period'[p] = period[p] /\ pause'[p] = pause[p]
              \/ /\ pause'[p].state = IF pause[p].state = "planned" THEN "terminated"
                                      ELSE pause[p].state
                 /\ pause'[p].from = pause[p].from /\ pause'[p].to = pause[p].to
                 /\ period'[p] = "reversed" \/ (deleted' /\ period'[p] = period[p])
  PROVE  CalendarInv'
<1>1. ASSUME NEW p \in Purchases PROVE FinalEnd(p)' = FinalEnd(p) \/ FinalEnd(p)' = endsAt[p]
  BY DEF FinalEnd, TypeOK, CoverType
<1>2. \A p \in Lasting' : p \in Lasting /\ FinalEnd(p)' <= FinalEnd(p)
  <2> SUFFICES ASSUME NEW p \in Lasting' PROVE p \in Lasting /\ FinalEnd(p)' <= FinalEnd(p)
    OBVIOUS
  <2>1. p \in Lasting /\ p \in Purchases
    BY DEF Lasting
  <2>2. endsAt[p] <= SettledEnd[p] /\ SettledEnd[p] <= FinalEnd(p)
    BY <2>1, EndsInOrder DEF CalendarInv
  <2> QED
    BY <1>1, <2>1, <2>2, DateFields, SettledTyped DEF TypeOK
<1>3. DaysInv'
  BY <1>2, DaysFrame DEF CalendarInv
<1>4. PauseInv'
  <2>1. ASSUME NEW p \in Purchases
        PROVE  PausedDays(p)' = PausedDays(p)
    BY DEF PausedDays
  <2> QED
    BY <2>1 DEF CalendarInv, PauseInv
<1> QED
  BY <1>3, <1>4 DEF CalendarInv

(* Settling pauses, and closing periods that ended, keep the calendar. *)
LEMMA SettledDays ==
  ASSUME TypeOK, TypeOK', CalendarInv, pause' = SettledPause, endsAt' = SettledEnd,
         UNCHANGED <<day, deleted, purchase, failure>>,
         \A p \in Purchases :
           \/ period'[p] = period[p]
           \/ p \in Ended /\ Closable(p) /\ period'[p] = "closed"
  PROVE  CalendarInv'
<1>1. PauseInv' /\ \A p \in Purchases : FinalEnd(p)' = FinalEnd(p)
  BY SettleDates DEF CalendarInv
<1>2. \A p \in Lasting' : p \in Lasting /\ FinalEnd(p)' <= FinalEnd(p)
  <2> SUFFICES ASSUME NEW p \in Lasting' PROVE p \in Lasting /\ FinalEnd(p)' <= FinalEnd(p)
    OBVIOUS
  <2>1. p \in Lasting /\ p \in Purchases
    BY DEF Lasting, Ended, Open
  <2> QED
    BY <1>1, <2>1, DateFields
<1> QED
  BY <1>1, <1>2, DaysFrame DEF CalendarInv

(* Waiting purchases that stop waiting keep the calendar. *)
LEMMA FewerWaiting ==
  ASSUME TypeOK, TypeOK', CalendarInv, UNCHANGED <<day, period, endsAt, pause>>,
         deleted => deleted',
         \A p \in Purchases :
           /\ purchase'[p] = "awaiting_payment" => purchase[p] = "awaiting_payment"
           /\ failure'[p] # "offer_coverage_conflict"
  PROVE  CalendarInv'
<1>1. \A p \in Purchases : FinalEnd(p)' = FinalEnd(p) /\ PausedDays(p)' = PausedDays(p)
  BY DEF FinalEnd, PausedDays
<1>2. \A p \in Lasting' : p \in Lasting /\ FinalEnd(p)' <= FinalEnd(p)
  BY <1>1, DateFields DEF Lasting
<1>3. PauseInv'
  BY <1>1 DEF CalendarInv, PauseInv
<1> QED
  BY <1>2, <1>3, DaysFrame DEF CalendarInv


(* The clock moves on: what has closed stays in the past. *)
LEMMA TickDays == ASSUME TypeOK, TypeOK', CalendarInv, Tick PROVE CalendarInv'
<1>1. /\ day' = day + 1
      /\ UNCHANGED <<deleted, purchase, failure, period, endsAt, pause>>
  BY DEF Tick, saleVars, coverVars
<1>2. \A p \in Purchases : FinalEnd(p)' = FinalEnd(p) /\ PausedDays(p)' = PausedDays(p)
  BY <1>1 DEF FinalEnd, PausedDays
<1>3. DaysInv'
  <2>1. \A p \in Lasting' : p \in Lasting /\ FinalEnd(p)' <= FinalEnd(p)
    BY <1>1, <1>2, DateFields DEF Lasting
  <2> QED
    BY <1>1, <2>1, DaysFrame DEF CalendarInv
<1>4. \A p \in Purchases : endsAt[p] <= day => endsAt[p] <= day'
  BY <1>1, DateFields
<1>5. PauseInv'
  BY <1>1, <1>2, <1>4 DEF CalendarInv, PauseInv
<1> QED
  BY <1>1, <1>3, <1>5 DEF CalendarInv

(* A reversal, and an erased account, end the planned pauses (reverse, erase). *)
LEMMA ReverseDays ==
  ASSUME TypeOK, TypeOK', CalendarInv, NEW p \in Purchases, Reverse(p),
         UNCHANGED <<day, deleted, endsAt, purchase, failure>>
  PROVE  CalendarInv'
<1>1. /\ period' = [period EXCEPT ![p] = "reversed"]
      /\ pause' = [pause EXCEPT ![p].state = IF @ = "planned" THEN "terminated" ELSE @]
  BY DEF Reverse
<1>2. ASSUME NEW q \in Purchases
      PROVE  \/ period'[q] = period[q] /\ pause'[q] = pause[q]
             \/ /\ pause'[q].state = IF pause[q].state = "planned" THEN "terminated"
                                     ELSE pause[q].state
                /\ pause'[q].from = pause[q].from /\ pause'[q].to = pause[q].to
                /\ period'[q] = "reversed" \/ (deleted' /\ period'[q] = period[q])
  <2>1. CASE q # p
    BY <1>1, <2>1 DEF TypeOK, CoverType
  <2>2. CASE q = p
    <3>1. pause[p] \in PauseRows /\ pause'[p].from = pause[p].from
          /\ pause'[p].to = pause[p].to
          /\ pause'[p].state = IF pause[p].state = "planned" THEN "terminated"
                               ELSE pause[p].state
      BY <1>1 DEF TypeOK, CoverType, PauseRows
    <3>2. period'[p] = "reversed"
      BY <1>1 DEF TypeOK, CoverType
    <3> QED
      BY <2>2, <3>1, <3>2
  <2> QED
    BY <2>1, <2>2
<1> QED
  BY <1>2, TerminatedDays

(* The same for erasure, of every period at once. *)
LEMMA EraseDays ==
  ASSUME TypeOK, TypeOK', CalendarInv, EraseAccount
  PROVE  CalendarInv'
<1>1. /\ deleted' = TRUE /\ UNCHANGED <<day, endsAt, purchase, failure, period>>
      /\ pause' = [q \in Purchases |->
           IF pause[q].state = "planned" THEN [pause[q] EXCEPT !.state = "terminated"]
           ELSE pause[q]]
  BY DEF EraseAccount, saleVars
<1>2. ASSUME NEW q \in Purchases
      PROVE  /\ pause'[q].state = IF pause[q].state = "planned" THEN "terminated"
                                  ELSE pause[q].state
             /\ pause'[q].from = pause[q].from /\ pause'[q].to = pause[q].to
  BY <1>1 DEF TypeOK, CoverType, PauseRows
<1> QED
  BY <1>1, <1>2, TerminatedDays

(* Evidence. *)
LEMMA SettleEvidenceDays ==
  ASSUME TypeOK, TypeOK', MoneyInv, PaidInv, PeriodInv, CalendarInv, NEW e \in Events,
         Settle(e)
  PROVE  CalendarInv'
<1>1. CASE FulfilPurchase(e)
  BY <1>1, FulfilDays
<1>2. CASE RefuseLate(e)
  <2>1. e.ref \in Purchases /\ ~Overlaps(e.ref)
    BY <1>2, EventFields, NeverOverlaps DEF RefuseLate
  <2>2. UNCHANGED <<day, period, endsAt, pause, deleted>>
    BY <1>2 DEF RefuseLate, coverVars
  <2>3. ASSUME NEW p \in Purchases
        PROVE  /\ purchase'[p] = "awaiting_payment" => purchase[p] = "awaiting_payment"
               /\ failure'[p] # "offer_coverage_conflict"
    <3>1. CASE p = e.ref
      BY <1>2, <2>1, <3>1 DEF RefuseLate, TypeOK, SaleType
    <3>2. CASE p # e.ref
      BY <1>2, <3>2 DEF RefuseLate, TypeOK, SaleType, CalendarInv
    <3> QED
      BY <3>1, <3>2
  <2> QED
    BY <2>2, <2>3, FewerWaiting
<1>3. CASE SettleFailure(e)
  <2>1. UNCHANGED <<day, period, endsAt, pause, deleted>>
    BY <1>3 DEF SettleFailure, coverVars
  <2>2. ASSUME NEW p \in Purchases
        PROVE  /\ purchase'[p] = "awaiting_payment" => purchase[p] = "awaiting_payment"
               /\ failure'[p] # "offer_coverage_conflict"
    <3>1. CASE p = e.ref
      BY <1>3, <3>1 DEF SettleFailure, TypeOK, SaleType, CalendarInv
    <3>2. CASE p # e.ref
      BY <1>3, <3>2 DEF SettleFailure, TypeOK, SaleType, CalendarInv
    <3> QED
      BY <3>1, <3>2
  <2> QED
    BY <2>1, <2>2, FewerWaiting
<1>4. CASE UNCHANGED <<day, deleted, purchase, failure, period, endsAt, pause>>
  BY <1>4, FewerWaiting DEF CalendarInv
<1>5. CASE RefundProgress(e)
  <2>1. UNCHANGED <<day, deleted, purchase, failure, endsAt>>
    BY <1>5 DEF RefundProgress, saleVars
  <2>2. CASE Reverse(e.ref)
    BY <2>1, <2>2, EventFields, ReverseDays
  <2>3. CASE UNCHANGED <<reversal, credit, period, reserved, pause>>
    BY <1>4, <2>1, <2>3
  <2> QED
    BY <1>5, <2>2, <2>3 DEF RefundProgress
<1> QED
  BY <1>1, <1>2, <1>3, <1>4, <1>5
  DEF Settle, LateSuccess, AccountUnavailable, ProviderConflict, DisputeProgress, saleVars,
      coverVars

(* Every step keeps the calendar. *)
LEMMA CalendarStep ==
  ASSUME TypeOK, TypeOK', MoneyInv, PaidInv, PeriodInv, CalendarInv, [Next]_vars
  PROVE  CalendarInv'
<1>1. CASE UNCHANGED <<day, deleted, purchase, failure, period, endsAt, pause>>
  BY <1>1, FewerWaiting DEF CalendarInv
<1>2. CASE ExpireOffers
  <2>1. /\ UNCHANGED <<day, deleted, period, endsAt, pause>>
        /\ purchase' = ExpiredPurchase /\ failure' = ExpiredFailure
    BY <1>2 DEF ExpireOffers, coverVars
  <2>2. \A p \in Purchases :
          /\ purchase'[p] = "awaiting_payment" => purchase[p] = "awaiting_payment"
          /\ failure'[p] # "offer_coverage_conflict"
    BY <2>1 DEF ExpiredPurchase, ExpiredFailure, CalendarInv
  <2> QED
    BY <2>1, <2>2, FewerWaiting
<1>3. ASSUME NEW p \in Purchases, WithdrawRenewal(p) \/ GiveUpRenewal(p) PROVE CalendarInv'
  <2>1. UNCHANGED <<day, deleted, period, endsAt, pause>>
    BY <1>3 DEF WithdrawRenewal, GiveUpRenewal, Drop, coverVars
  <2>2. \A q \in Purchases :
          /\ purchase'[q] = "awaiting_payment" => purchase[q] = "awaiting_payment"
          /\ failure'[q] # "offer_coverage_conflict"
    BY <1>3 DEF WithdrawRenewal, GiveUpRenewal, Drop, TypeOK, SaleType, CalendarInv
  <2> QED
    BY <2>1, <2>2, FewerWaiting
<1>4. ASSUME NEW p \in Purchases, ClosePeriod(p) PROVE CalendarInv'
  <2>1. /\ pause' = SettledPause /\ endsAt' = SettledEnd /\ p \in Ended /\ Closable(p)
        /\ UNCHANGED <<day, deleted, purchase, failure>> /\ Close({p})
    BY <1>4 DEF ClosePeriod, saleVars
  <2>2. \A q \in Purchases :
          period'[q] = period[q] \/ (q \in Ended /\ Closable(q) /\ period'[q] = "closed")
    BY <2>1 DEF Close
  <2> QED
    BY <2>1, <2>2, SettledDays
<1>5. CASE SettleDuePauses
  BY <1>5, SettledDays DEF SettleDuePauses, saleVars
<1>6. ASSUME NEW p \in Purchases, Use(p) PROVE CalendarInv'
  <2>1. ASSUME NEW d \in Direction, Reserve(p, d) PROVE CalendarInv'
    BY <2>1, SettledDays DEF Reserve, saleVars
  <2>2. ASSUME NEW d \in Direction, ReleaseSeat(p, d) \/ ChargeRide(p, d) PROVE CalendarInv'
    BY <1>1, <2>2 DEF ReleaseSeat, ChargeRide, saleVars
  <2> QED
    BY <1>6, <2>1, <2>2, PlanPauseDays, ResumePauseDays DEF Use
<1> QED
  BY <1>1, <1>2, <1>3, <1>4, <1>5, <1>6, TickDays, CheckoutDays, SettleEvidenceDays, EraseDays
  DEF Next, vars, Decide, saleVars, coverVars

(* What the calendar says of two periods that last: their dates are apart, whether or not
   the pauses that are due have been settled. *)
LEMMA DatesApart ==
  ASSUME TypeOK, CalendarInv, NEW p \in Lasting, NEW q \in Lasting, p # q
  PROVE  SettledEnd[p] <= Terms[q].start \/ SettledEnd[q] <= Terms[p].start
<1>1. p \in Purchases /\ q \in Purchases
  BY DEF Lasting
<1>2. FinalEnd(p) <= Terms[q].start \/ FinalEnd(q) <= Terms[p].start
  BY <1>1 DEF CalendarInv, DaysInv
<1>3. SettledEnd[p] <= FinalEnd(p) /\ SettledEnd[q] <= FinalEnd(q)
  BY EndsInOrder DEF CalendarInv
<1> QED
  BY <1>1, <1>2, <1>3, DateFields, SettledTyped DEF TypeOK

(* The ledger invariants hold together. *)
LedgerInv == TypeOK /\ MoneyInv /\ PaidInv /\ SaleInv /\ PeriodInv /\ CalendarInv

(* They hold in every state of every rider's account. *)
LEMMA LedgerHolds == Spec => []LedgerInv
<1>1. Init => LedgerInv
  BY TypeInit, MoneyInit, PaidInit, SaleInit, PeriodInit, CalendarInit DEF LedgerInv
<1>2. LedgerInv /\ [Next]_vars => LedgerInv'
  BY TypeStep, MoneyStep, PaidStep, SaleStep, PeriodStep, CalendarStep DEF LedgerInv
<1> QED
  BY <1>1, <1>2, PTL DEF Spec

(* Offers, renewals, pauses and late payments never sell a rider the same day twice, and
   the refusal of an overlapping collection never happens (billing_periods, guard_pause_overlap,
   fulfillInTransaction). *)
THEOREM DaysAreSoldOnce == Spec => []NoDaySoldTwice
<1>1. LedgerInv => NoDaySoldTwice
  <2> SUFFICES ASSUME LedgerInv PROVE NoDaySoldTwice
    OBVIOUS
  <2>1. ASSUME NEW p \in Lasting, NEW q \in Lasting PROVE ~Overlapping(p, q, endsAt)
    <3>1. p \in Purchases /\ q \in Purchases
      BY DEF Lasting
    <3>2. endsAt[p] <= SettledEnd[p] /\ endsAt[q] <= SettledEnd[q]
      BY EndsInOrder DEF LedgerInv, CalendarInv
    <3>3. p # q => endsAt[p] <= Terms[q].start \/ endsAt[q] <= Terms[p].start
      BY <3>1, <3>2, DatesApart, DateFields, SettledTyped DEF LedgerInv, TypeOK
    <3> QED
      BY <3>1, <3>3, DateFields DEF Overlapping, LedgerInv
  <2> QED
    BY <2>1 DEF NoDaySoldTwice, Lasting, LedgerInv, CalendarInv
<1> QED
  BY <1>1, LedgerHolds, PTL

(* A pause that is over can always be settled, so no operation of the rider that settles
   first is ever refused for good (settle_personal_pauses). *)
THEOREM PausesCanSettle == Spec => []SettlementNeverStuck
<1>1. LedgerInv => SettlementNeverStuck
  <2> SUFFICES ASSUME LedgerInv PROVE SettlementAccepted
    BY DEF SettlementNeverStuck
  <2>1. DuePauses \subseteq Open
    BY DEF LedgerInv, CalendarInv, PauseInv, DuePauses, Open
  <2>2. ASSUME NEW p \in DuePauses, NEW q \in Lasting PROVE ~Overlapping(p, q, SettledEnd)
    <3>1. p \in Purchases /\ q \in Purchases /\ p \in Lasting
      BY <2>1 DEF Lasting, Open
    <3>2. p # q => SettledEnd[p] <= Terms[q].start \/ SettledEnd[q] <= Terms[p].start
      BY <3>1, DatesApart DEF LedgerInv
    <3> QED
      BY <3>1, <3>2, DateFields, SettledTyped DEF Overlapping, LedgerInv, TypeOK
  <2> QED
    BY <2>1, <2>2 DEF SettlementAccepted, Lasting
<1> QED
  BY <1>1, LedgerHolds, PTL

-----------------------------------------------------------------------------
(* Action properties of the ledger. *)

(* A period that closes has served its last day. *)
LEMMA ServedWhenClosed ==
  ASSUME LedgerInv, ~deleted, NEW p \in Open, p \in Ended, Closable(p), endsAt' = SettledEnd
  PROVE  /\ endsAt'[p] <= day
         /\ endsAt'[p] = Terms[p].end
              + (IF pause[p].state = "unused" THEN 0 ELSE pause[p].to - pause[p].from)
         /\ Both(reserved[p]) = 0 /\ ~Blocked(p)
<1>0. p \in Purchases /\ period[p] = "open"
  BY DEF Open
<1>1. endsAt'[p] <= day /\ Both(reserved[p]) = 0 /\ ~Blocked(p)
  BY DEF Ended, Closable
<1>2. /\ endsAt[p] = Terms[p].end + PausedDays(p) /\ pause[p].state # "terminated"
      /\ pause[p].state \in {"unused", "planned", "completed"}
  BY <1>0 DEF LedgerInv, CalendarInv, PauseInv, TypeOK, CoverType, PauseRows
<1>3. pause[p].state = "planned" => p \in DuePauses
  BY <1>0 DEF Closable, SettledPause
<1>4. endsAt'[p] = IF p \in DuePauses THEN endsAt[p] + pause[p].to - pause[p].from ELSE endsAt[p]
  BY <1>0 DEF SettledEnd
<1>5. endsAt'[p] = Terms[p].end
        + (IF pause[p].state = "unused" THEN 0 ELSE pause[p].to - pause[p].from)
  <2>1. CASE pause[p].state = "planned"
    BY <1>0, <1>2, <1>3, <1>4, <2>1, DateFields DEF PausedDays, LedgerInv
  <2>2. CASE pause[p].state # "planned"
    <3>1. p \notin DuePauses
      BY <2>2 DEF DuePauses
    <3> QED
      BY <1>0, <1>2, <1>4, <2>2, <3>1, DateFields DEF PausedDays, LedgerInv
  <2> QED
    BY <2>1, <2>2
<1> QED
  BY <1>1, <1>5

(* Checkout and the closing run are the only ones to close periods. *)
LEMMA ServedStep == ASSUME LedgerInv, [Next]_vars PROVE FullyServed
<1>1. CASE \A p \in Purchases : period'[p] = "closed" => period[p] # "open"
  BY <1>1 DEF FullyServed
<1>2. ASSUME NEW p \in Purchases, NEW useCredit \in BOOLEAN, Checkout(p, useCredit)
      PROVE  FullyServed
  <2>1. /\ ~deleted /\ endsAt' = SettledEnd /\ Close(Ended)
        /\ \A q \in Ended : Closable(q)
    BY <1>2 DEF Checkout, CheckoutAllowed
  <2>2. \A q \in Purchases : period[q] = "open" /\ period'[q] = "closed" =>
          q \in Open /\ q \in Ended
    BY <2>1 DEF Close, Ended, Open
  <2> QED
    BY <2>1, <2>2, ServedWhenClosed DEF FullyServed
<1>3. ASSUME NEW p \in Purchases, ClosePeriod(p) PROVE FullyServed
  <2>1. ~deleted /\ endsAt' = SettledEnd /\ Close({p}) /\ p \in Ended /\ Closable(p)
    BY <1>3 DEF ClosePeriod
  <2>2. \A q \in Purchases : period[q] = "open" /\ period'[q] = "closed" => q = p
    BY <2>1 DEF Close
  <2>3. p \in Open
    BY <2>1 DEF Ended
  <2> QED
    BY <2>1, <2>2, <2>3, ServedWhenClosed DEF FullyServed
<1>4. ASSUME NEW e \in Events, Settle(e) PROVE FullyServed
  <2>1. CASE FulfilPurchase(e)
    BY <1>1, <2>1 DEF FulfilPurchase, LedgerInv, TypeOK, CoverType
  <2>2. CASE RefundProgress(e)
    BY <1>1, <2>2 DEF RefundProgress, Reverse, LedgerInv, TypeOK, CoverType
  <2>3. CASE UNCHANGED period
    BY <1>1, <2>3
  <2> QED
    BY <1>4, <2>1, <2>2, <2>3
    DEF Settle, RefuseLate, LateSuccess, AccountUnavailable, ProviderConflict, SettleFailure,
        DisputeProgress, coverVars
<1>5. ASSUME NEW p \in Purchases, Use(p) PROVE FullyServed
  BY <1>1, <1>5 DEF Use, Reserve, ReleaseSeat, ChargeRide, PlanPause, ResumePause
<1>6. CASE UNCHANGED period
  BY <1>1, <1>6
<1> QED
  BY <1>2, <1>3, <1>4, <1>5, <1>6
  DEF Next, vars, coverVars, Tick, ExpireOffers, WithdrawRenewal, GiveUpRenewal, Drop,
      SettleDuePauses, EraseAccount, Decide

(* No period closes before every day it paid for was there to ride on, the paused days
   given back included, and none closes over a seat or a dispute (closeOne). *)
THEOREM ClosesAreServed == Spec => ClosesServed
<1>1. LedgerInv /\ [Next]_vars => FullyServed
  BY ServedStep
<1> QED
  BY <1>1, LedgerHolds, PTL DEF Spec, ClosesServed

(* The two halves of OneWay: what sales may do, and what periods may do. *)
SaleOneWay(p) ==
  /\ purchase[p] \in {"fulfilled", "failed", "cancelled"} => purchase'[p] = purchase[p]
  /\ attempt[p] \in {"successful", "failed"} =>
       attempt'[p] = attempt[p] /\ attemptTx'[p] = attemptTx[p]
  /\ hold[p] \in {"captured", "released"} => hold'[p] = hold[p]
  /\ collection[p] # NoTx => collection'[p] = collection[p]
PeriodOneWay(p) ==
  /\ period[p] = "closed" => period'[p] \in {"closed", "reversed"}
  /\ period[p] = "reversed" => period'[p] = "reversed" /\ reversal'[p] = reversal[p]
  /\ period[p] # "none" => endsAt'[p] >= endsAt[p]

(* A purchase leaves a waiting state only once, and an attempt its pending state. *)
LEMMA SaleOneWayStep ==
  ASSUME LedgerInv, [Next]_vars, NEW p \in Purchases
  PROVE  SaleOneWay(p)
<1>1. CASE UNCHANGED <<purchase, attempt, attemptTx, hold, collection>>
  BY <1>1 DEF SaleOneWay
<1>2. ASSUME NEW q \in Purchases, NEW useCredit \in BOOLEAN, Checkout(q, useCredit)
      PROVE  SaleOneWay(p)
  <2>1. /\ purchase' = [ExpiredPurchase EXCEPT ![q] = "awaiting_payment"]
        /\ attempt' = [attempt EXCEPT ![q] = "pending"]
        /\ purchase[q] = "absent" /\ UNCHANGED <<attemptTx, collection>>
    BY <1>2 DEF Checkout, CheckoutAllowed, evidenceVars
  <2>2. p # q => hold'[p] = ExpiredHold[p]
    BY <1>2 DEF Checkout, ExpiredHold
  <2>3. attempt[q] = "none" /\ hold[q] = "none"
    BY <2>1 DEF LedgerInv, SaleInv
  <2> QED
    BY <2>1, <2>2, <2>3
    DEF SaleOneWay, ExpiredPurchase, ExpiredHold, Lapsed, Unresolved, LedgerInv, TypeOK, SaleType
<1>3. CASE ExpireOffers
  <2>1. /\ purchase' = ExpiredPurchase /\ hold' = ExpiredHold
        /\ UNCHANGED <<attempt, attemptTx, collection>>
    BY <1>3 DEF ExpireOffers, evidenceVars
  <2> QED
    BY <2>1 DEF SaleOneWay, ExpiredPurchase, ExpiredHold, Lapsed, Unresolved
<1>4. ASSUME NEW q \in Purchases, WithdrawRenewal(q) \/ GiveUpRenewal(q) PROVE SaleOneWay(p)
  BY <1>4
  DEF WithdrawRenewal, GiveUpRenewal, Drop, Waiting, evidenceVars, SaleOneWay, LedgerInv, TypeOK,
      SaleType
<1>5. ASSUME NEW e \in Events, Success(e), Collect(e)
      PROVE  collection[p] # NoTx => collection'[p] = collection[p]
  BY <1>5, EventFields DEF Success, TxConflict, Collect, LedgerInv, TypeOK, EvidenceType
<1>6. ASSUME NEW e \in Events, Settle(e) PROVE SaleOneWay(p)
  <2>1. CASE FulfilPurchase(e)
    <3>1. /\ Success(e) /\ Collect(e) /\ Waiting(e.ref)
          /\ purchase' = [purchase EXCEPT ![e.ref] = "fulfilled"]
          /\ attempt' = [attempt EXCEPT ![e.ref] = "successful"]
          /\ attemptTx' = [attemptTx EXCEPT ![e.ref] = e.tx]
          /\ hold' = [hold EXCEPT ![e.ref] = IF applied[e.ref] > 0 THEN "captured" ELSE @]
          /\ applied[e.ref] > 0 => hold[e.ref] = "held"
      BY <2>1 DEF FulfilPurchase
    <3> QED
      BY <1>5, <3>1 DEF SaleOneWay, Waiting, LedgerInv, TypeOK, SaleType
  <2>2. CASE RefuseLate(e)
    <3>1. /\ Success(e) /\ Collect(e) /\ Waiting(e.ref)
          /\ purchase' = [purchase EXCEPT ![e.ref] = "failed"]
          /\ attempt' = [attempt EXCEPT ![e.ref] = "successful"]
          /\ attemptTx' = [attemptTx EXCEPT ![e.ref] = e.tx]
          /\ hold' = [hold EXCEPT ![e.ref] = IF @ = "held" THEN "released" ELSE @]
      BY <2>2 DEF RefuseLate
    <3> QED
      BY <1>5, <3>1 DEF SaleOneWay, Waiting, LedgerInv, TypeOK, SaleType
  <2>3. CASE LateSuccess(e) \/ AccountUnavailable(e)
    <3>1. Success(e) /\ Collect(e) /\ UNCHANGED <<purchase, attempt, attemptTx, hold>>
      BY <2>3 DEF LateSuccess, AccountUnavailable, saleVars
    <3> QED
      BY <1>5, <3>1 DEF SaleOneWay
  <2>4. CASE SettleFailure(e)
    BY <2>4
    DEF SettleFailure, SaleOneWay, evidenceVars, LedgerInv, TypeOK, SaleType
  <2> QED
    BY <1>1, <1>6, <2>1, <2>2, <2>3, <2>4
    DEF Settle, ProviderConflict, RefundProgress, DisputeProgress, saleVars
<1>7. ASSUME NEW q \in Purchases, Use(q) PROVE SaleOneWay(p)
  BY <1>1, <1>7
  DEF Use, Reserve, ReleaseSeat, ChargeRide, PlanPause, ResumePause, saleVars, evidenceVars
<1> QED
  BY <1>1, <1>2, <1>3, <1>4, <1>6, <1>7
  DEF Next, vars, Tick, ClosePeriod, SettleDuePauses, EraseAccount, Decide, saleVars, evidenceVars

(* A period only moves on, and its end only away. *)
LEMMA PeriodOneWayStep ==
  ASSUME LedgerInv, [Next]_vars, NEW p \in Purchases
  PROVE  PeriodOneWay(p)
<1>0. endsAt[p] \in Int
  BY DateFields DEF LedgerInv
<1>1. CASE UNCHANGED <<period, endsAt, reversal>>
  BY <1>0, <1>1 DEF PeriodOneWay
<1>2. ASSUME endsAt' = SettledEnd, UNCHANGED reversal,
             period'[p] = period[p] \/ (period[p] = "open" /\ period'[p] = "closed")
      PROVE  PeriodOneWay(p)
  <2>1. endsAt'[p] >= endsAt[p]
    BY <1>0, <1>2, DateFields DEF SettledEnd, DuePauses, LedgerInv, CalendarInv, PauseInv
  <2> QED
    BY <1>2, <2>1 DEF PeriodOneWay
<1>3. ASSUME NEW q \in Purchases, NEW useCredit \in BOOLEAN, Checkout(q, useCredit)
      PROVE  PeriodOneWay(p)
  BY <1>2, <1>3 DEF Checkout, Close, Ended, Open
<1>4. ASSUME NEW q \in Purchases, ClosePeriod(q) PROVE PeriodOneWay(p)
  BY <1>2, <1>4 DEF ClosePeriod, Close, Ended, Open
<1>5. ASSUME NEW e \in Events, Settle(e) PROVE PeriodOneWay(p)
  <2>1. CASE FulfilPurchase(e)
    <3>1. period[e.ref] = "none" /\ e.ref \in Purchases
      BY <2>1, EventFields
      DEF FulfilPurchase, Waiting, LedgerInv, PaidInv, CoverageIsPaid
    <3>2. /\ period' = [period EXCEPT ![e.ref] = "open"] /\ UNCHANGED reversal
          /\ endsAt' = [endsAt EXCEPT ![e.ref] = Terms[e.ref].end]
      BY <2>1 DEF FulfilPurchase
    <3> QED
      BY <1>0, <3>1, <3>2 DEF PeriodOneWay, LedgerInv, TypeOK, CoverType
  <2>2. CASE RefundProgress(e)
    <3>1. CASE Reverse(e.ref) /\ ~reversal[e.ref].made
      <4>1. /\ period' = [period EXCEPT ![e.ref] = "reversed"] /\ UNCHANGED endsAt
            /\ \A q \in Purchases : q # e.ref => reversal'[q] = reversal[q]
        BY <2>2, <3>1 DEF RefundProgress, Reverse, LedgerInv, TypeOK, CoverType
      <4>2. period[e.ref] # "reversed"
        BY <3>1, EventFields DEF LedgerInv, PeriodInv
      <4> QED
        BY <1>0, <4>1, <4>2 DEF PeriodOneWay, LedgerInv, TypeOK, CoverType
    <3>2. CASE UNCHANGED <<reversal, period>>
      BY <1>1, <2>2, <3>2 DEF RefundProgress
    <3> QED
      BY <2>2, <3>1, <3>2 DEF RefundProgress
  <2> QED
    BY <1>1, <1>5, <2>1, <2>2
    DEF Settle, RefuseLate, LateSuccess, AccountUnavailable, ProviderConflict, SettleFailure,
        DisputeProgress, coverVars
<1>6. ASSUME NEW q \in Purchases, Use(q) PROVE PeriodOneWay(p)
  BY <1>1, <1>2, <1>6 DEF Use, Reserve, ReleaseSeat, ChargeRide, PlanPause, ResumePause
<1>7. CASE SettleDuePauses
  BY <1>2, <1>7 DEF SettleDuePauses
<1> QED
  BY <1>1, <1>3, <1>4, <1>5, <1>6, <1>7
  DEF Next, vars, coverVars, Tick, ExpireOffers, WithdrawRenewal, GiveUpRenewal, Drop,
      EraseAccount, Decide

(* No transaction ever attempts an update the schema's triggers refuse: final states are
   final, stored transactions stay, and no period gets shorter (guard_purchase_terms,
   guard_billing_period, guard_personal_pause). *)
THEOREM NoUpdateIsRejected == Spec => NoRejectedUpdate
<1>1. LedgerInv /\ [Next]_vars => OneWay
  BY SaleOneWayStep, PeriodOneWayStep DEF OneWay, SaleOneWay, PeriodOneWay
<1> QED
  BY <1>1, LedgerHolds, PTL DEF Spec, NoRejectedUpdate

-----------------------------------------------------------------------------
(* The ledger keeps the payment promise. *)

StageMap == [p \in Purchases |-> Stage(p)]

(* A step that changes no stage is a stutter of the promise. *)
LEMMA PromiseStutters ==
  ASSUME \A p \in Purchases : Stage(p)' = Stage(p)
  PROVE  UNCHANGED StageMap
BY DEF StageMap

(* The stage is read off three rows. *)
LEMMA StageFrame ==
  ASSUME NEW p \in Purchases, period'[p] = period[p], collection'[p] = collection[p],
         purchase'[p] = purchase[p]
  PROVE  Stage(p)' = Stage(p)
BY DEF Stage

(* Reading the promise's sets in the ledger. *)
LEMMA InStage ==
  ASSUME NEW p \in Purchases, NEW s PROVE p \in Promise!In(s) <=> Stage(p) = s
BY DEF Promise!In

(* A step that moves one purchase is a move of the promise. *)
LEMMA OneMoves ==
  ASSUME NEW p \in Purchases, NEW s, Stage(p)' = s,
         \A q \in Purchases : q # p => Stage(q)' = Stage(q)
  PROVE  StageMap' = Promise!Move({p}, s)
BY DEF StageMap, Promise!Move

(* One of the moves of a single purchase. *)
LEMMA SinglePromise ==
  ASSUME NEW p \in Purchases, \A q \in Purchases : q # p => Stage(q)' = Stage(q),
         \/ Stage(p)' = Stage(p)
         \/ Stage(p) = "asked" /\ Stage(p)' \in {"served", "claimed", "dropped"}
         \/ Stage(p) = "dropped" /\ Stage(p)' = "claimed"
         \/ Stage(p) = "served" /\ Stage(p)' \in {"ended", "unwound"}
         \/ Stage(p) = "ended" /\ Stage(p)' = "unwound"
  PROVE  Promise!Next \/ UNCHANGED StageMap
<1>1. CASE Stage(p)' = Stage(p)
  BY <1>1, PromiseStutters
<1>2. CASE Stage(p) = "asked" /\ Stage(p)' = "served"
  BY <1>2, OneMoves, InStage DEF Promise!Next, Promise!Serve, StageMap
<1>3. CASE Stage(p) \in {"asked", "dropped"} /\ Stage(p)' = "claimed"
  BY <1>3, OneMoves, InStage DEF Promise!Next, Promise!Claim, StageMap
<1>4. CASE Stage(p) = "asked" /\ Stage(p)' = "dropped"
  <2>1. {p} \in SUBSET Purchases /\ {p} \subseteq Promise!In("asked")
    BY <1>4, InStage
  <2>2. StageMap' = Promise!Move({p}, "dropped")
    BY <1>4, OneMoves
  <2> QED
    BY <2>1, <2>2 DEF Promise!Next, Promise!Drop, StageMap
<1>5. CASE Stage(p) = "served" /\ Stage(p)' = "ended"
  BY <1>5, OneMoves, InStage DEF Promise!Next, Promise!End, StageMap
<1>6. CASE Stage(p) \in {"served", "ended"} /\ Stage(p)' = "unwound"
  BY <1>6, OneMoves, InStage DEF Promise!Next, Promise!Unwind, StageMap
<1> QED
  BY <1>1, <1>2, <1>3, <1>4, <1>5, <1>6

(* Nothing is promised at first. *)
LEMMA PromiseInit == Init => Promise!Init
BY DEF Init, Promise!Init, Stage

(* Checkout asks for the purchase, drops the one that lapsed, ends what is over. *)
LEMMA CheckoutAsks ==
  ASSUME LedgerInv, NEW p \in Purchases, NEW useCredit \in BOOLEAN, Checkout(p, useCredit)
  PROVE  Promise!Next
<1>1. /\ purchase' = [ExpiredPurchase EXCEPT ![p] = "awaiting_payment"]
      /\ purchase[p] = "absent" /\ UNCHANGED collection /\ Close(Ended)
      /\ Unresolved \subseteq Lapsed
  BY DEF Checkout, CheckoutAllowed, SlotFree, evidenceVars
<1>2. \A q \in Purchases : period[q] # "none" <=> purchase[q] = "fulfilled"
  BY DEF LedgerInv, PaidInv, CoverageIsPaid
<1>3. /\ Stage(p) = "none" /\ p \notin Ended /\ Stage(p)' = "asked"
  <2>1. period[p] = "none" /\ collection[p] = NoTx /\ p \notin Ended
    BY <1>1, <1>2 DEF LedgerInv, SaleInv, Ended, Open
  <2>2. period'[p] = "none" /\ collection'[p] = NoTx /\ purchase'[p] = "awaiting_payment"
    BY <1>1, <2>1 DEF Close, LedgerInv, TypeOK, SaleType, ExpiredPurchase
  <2> QED
    BY <1>1, <2>1, <2>2 DEF Stage
<1>4. ASSUME NEW q \in Purchases, q # p
      PROVE  /\ Stage(q) = "asked" => Stage(q)' = "dropped"
             /\ q \in Ended => Stage(q) = "served" /\ Stage(q)' = "ended"
             /\ Stage(q) # "asked" /\ q \notin Ended => Stage(q)' = Stage(q)
  <2>1. /\ purchase'[q] = IF q \in Lapsed THEN "failed" ELSE purchase[q]
        /\ period'[q] = IF q \in Ended THEN "closed" ELSE period[q]
        /\ collection'[q] = collection[q]
        /\ q \in Ended => period[q] = "open"
        /\ q \in Lapsed <=> purchase[q] = "awaiting_payment"
    BY <1>1, <1>4 DEF ExpiredPurchase, Close, Ended, Open, Lapsed, Unresolved
  <2>2. Stage(q) = "asked" => Stage(q)' = "dropped"
    BY <1>2, <2>1 DEF Stage, LedgerInv, TypeOK, CoverType
  <2>3. q \in Ended => Stage(q) = "served" /\ Stage(q)' = "ended"
    BY <2>1 DEF Stage
  <2>4. Stage(q) # "asked" /\ q \notin Ended => Stage(q)' = Stage(q)
    BY <2>1 DEF Stage
  <2> QED
    BY <2>2, <2>3, <2>4
<1>5. Ended \in SUBSET Promise!In("served") /\ p \in Promise!In("none")
  BY <1>3, <1>4, InStage DEF Ended, Open
<1>6. StageMap' = [q \in Purchases |->
        CASE q = p -> "asked"
          [] q \in Promise!In("asked") -> "dropped"
          [] q \in Ended -> "ended"
          [] OTHER -> StageMap[q]]
  <2>1. \A q \in Purchases : q # p => (q \in Promise!In("asked") <=> Stage(q) = "asked")
    BY InStage
  <2>2. ASSUME NEW q \in Purchases
        PROVE  StageMap'[q] = CASE q = p -> "asked"
                                [] q \in Promise!In("asked") -> "dropped"
                                [] q \in Ended -> "ended"
                                [] OTHER -> StageMap[q]
    <3>1. StageMap'[q] = Stage(q)' /\ StageMap[q] = Stage(q)
      BY DEF StageMap
    <3>2. CASE q = p
      BY <1>3, <3>1, <3>2, InStage
    <3>3. CASE q # p
      BY <1>3, <1>4, <2>1, <3>1, <3>3
    <3> QED
      BY <3>2, <3>3
  <2> QED
    BY <2>2 DEF StageMap
<1> QED
  BY <1>5, <1>6 DEF Promise!Next, Promise!Ask, StageMap

(* Offers that lapse, all at once, are dropped. *)
LEMMA ExpiryDrops == ASSUME LedgerInv, ExpireOffers PROVE Promise!Next
<1>1. /\ ~deleted /\ purchase' = ExpiredPurchase /\ UNCHANGED <<period, collection>>
  BY DEF ExpireOffers, coverVars, evidenceVars
<1>2. ASSUME NEW q \in Lapsed
      PROVE  q \in Purchases /\ Stage(q) = "asked" /\ Stage(q)' = "dropped"
  <2>1. /\ q \in Purchases /\ purchase[q] = "awaiting_payment" /\ purchase'[q] = "failed"
        /\ collection[q] = NoTx /\ period[q] = "none"
    BY <1>1 DEF Lapsed, Unresolved, ExpiredPurchase, LedgerInv, SaleInv, PaidInv, CoverageIsPaid
  <2> QED
    BY <1>1, <2>1 DEF Stage
<1>3. \A q \in Purchases : q \notin Lapsed => Stage(q)' = Stage(q)
  BY <1>1, StageFrame DEF ExpiredPurchase
<1>4. StageMap' = Promise!Move(Lapsed, "dropped")
  BY <1>2, <1>3 DEF StageMap, Promise!Move
<1>5. Lapsed \subseteq Promise!In("asked") /\ Lapsed \in SUBSET Purchases
  BY <1>2, InStage
<1> QED
  BY <1>4, <1>5 DEF Promise!Next, Promise!Drop, StageMap

(* Evidence serves, claims, drops or unwinds its purchase. *)
LEMMA SettlePromise ==
  ASSUME LedgerInv, NEW e \in Events, Settle(e)
  PROVE  Promise!Next \/ UNCHANGED StageMap
<1> DEFINE p == e.ref
<1>0. p \in Purchases
  BY EventFields
<1>1. \A q \in Purchases : period[q] # "none" <=> purchase[q] = "fulfilled"
  BY DEF LedgerInv, PaidInv, CoverageIsPaid
<1>2. ASSUME Success(e), Collect(e)
      PROVE  /\ collection'[p] # NoTx
             /\ collection[p] # NoTx => collection'[p] = collection[p]
             /\ \A q \in Purchases : q # p => collection'[q] = collection[q]
             /\ purchase[p] # "absent"
  <2>1. e.tx \in Transactions /\ e.tx # NoTx
    BY <1>2, EventFields, EventsAssumption DEF Success
  <2>2. attempt[p] # "none" /\ (collection[p] # NoTx => collection[p] = e.tx)
    BY <1>0, <1>2 DEF Success, Known, TxConflict
  <2> QED
    BY <1>0, <1>2, <2>1, <2>2 DEF Collect, LedgerInv, TypeOK, EvidenceType, SaleInv
<1>3. CASE FulfilPurchase(e)
  <2>1. /\ Success(e) /\ Collect(e) /\ purchase[p] = "awaiting_payment" /\ ~deleted
        /\ period' = [period EXCEPT ![p] = "open"]
        /\ purchase' = [purchase EXCEPT ![p] = "fulfilled"]
    BY <1>3 DEF FulfilPurchase, Waiting
  <2> HIDE DEF p
  <2>2. Stage(p) = "asked" /\ Stage(p)' = "served"
    BY <1>0, <1>1, <2>1 DEF Stage, LedgerInv, SaleInv, TypeOK, CoverType
  <2>3. \A q \in Purchases : q # p => Stage(q)' = Stage(q)
    BY <1>0, <1>2, <2>1, StageFrame DEF LedgerInv, TypeOK, CoverType, SaleType
  <2> QED
    BY <1>0, <2>2, <2>3, SinglePromise
<1>4. CASE RefuseLate(e)
  <2>1. /\ Success(e) /\ Collect(e) /\ purchase[p] = "awaiting_payment" /\ ~deleted
        /\ UNCHANGED period /\ purchase' = [purchase EXCEPT ![p] = "failed"]
    BY <1>4 DEF RefuseLate, Waiting, coverVars
  <2> HIDE DEF p
  <2>2. Stage(p) = "asked" /\ Stage(p)' = "claimed"
    BY <1>0, <1>1, <1>2, <2>1 DEF Stage, LedgerInv, SaleInv
  <2>3. \A q \in Purchases : q # p => Stage(q)' = Stage(q)
    BY <1>0, <1>2, <2>1, StageFrame DEF LedgerInv, TypeOK, SaleType
  <2> QED
    BY <1>0, <2>2, <2>3, SinglePromise
<1>5. CASE LateSuccess(e) \/ AccountUnavailable(e)
  <2>1. Success(e) /\ Collect(e) /\ UNCHANGED <<period, purchase>>
    BY <1>5 DEF LateSuccess, AccountUnavailable, coverVars, saleVars
  <2> HIDE DEF p
  <2>2. CASE collection[p] # NoTx
    <3>1. \A q \in Purchases : Stage(q)' = Stage(q)
      BY <1>0, <1>2, <2>1, <2>2, StageFrame
    <3> QED
      BY <3>1, PromiseStutters
  <2>3. CASE collection[p] = NoTx
    <3>1. purchase[p] # "fulfilled" /\ period[p] = "none"
      BY <1>0, <1>1, <2>3 DEF LedgerInv, PaidInv, CoverageIsPaid
    <3>2. Stage(p) \in {"asked", "dropped"} /\ Stage(p)' = "claimed"
      BY <1>0, <1>2, <2>1, <2>3, <3>1 DEF Stage
    <3>3. \A q \in Purchases : q # p => Stage(q)' = Stage(q)
      BY <1>0, <1>2, <2>1, StageFrame
    <3> QED
      BY <1>0, <3>2, <3>3, SinglePromise
  <2> QED
    BY <2>2, <2>3
<1>6. CASE SettleFailure(e)
  <2>1. /\ UNCHANGED <<period, collection>>
        /\ purchase' = [purchase EXCEPT ![p] = IF @ = "awaiting_payment" THEN "failed" ELSE @]
    BY <1>6 DEF SettleFailure, coverVars, evidenceVars
  <2> HIDE DEF p
  <2>2. \A q \in Purchases : q # p => Stage(q)' = Stage(q)
    BY <1>0, <2>1, StageFrame DEF LedgerInv, TypeOK, SaleType
  <2>3. Stage(p)' = Stage(p) \/ (Stage(p) = "asked" /\ Stage(p)' = "dropped")
    BY <1>0, <2>1 DEF Stage, LedgerInv, TypeOK, SaleType
  <2> QED
    BY <1>0, <2>2, <2>3, SinglePromise
<1>7. CASE RefundProgress(e)
  <2>1. UNCHANGED <<collection, purchase>>
    BY <1>7 DEF RefundProgress, saleVars
  <2>2. CASE Reverse(p) /\ ~reversal[p].made /\ purchase[p] = "fulfilled"
    <3>1. period' = [period EXCEPT ![p] = "reversed"]
      BY <2>2 DEF Reverse
    <3> HIDE DEF p
    <3>2. period[p] \in {"open", "closed"}
      BY <1>0, <1>1, <2>2 DEF LedgerInv, PeriodInv, TypeOK, CoverType
    <3>3. \A q \in Purchases : q # p => Stage(q)' = Stage(q)
      BY <1>0, <2>1, <3>1, StageFrame DEF LedgerInv, TypeOK, CoverType
    <3>4. Stage(p) \in {"served", "ended"} /\ Stage(p)' = "unwound"
      BY <1>0, <3>1, <3>2 DEF Stage, LedgerInv, TypeOK, CoverType
    <3> QED
      BY <1>0, <3>3, <3>4, SinglePromise
  <2>3. CASE UNCHANGED period
    BY <2>1, <2>3, StageFrame, PromiseStutters
  <2> QED
    BY <1>7, <2>2, <2>3 DEF RefundProgress
<1>8. CASE UNCHANGED <<period, collection, purchase>>
  BY <1>8, StageFrame, PromiseStutters
<1> QED
  BY <1>3, <1>4, <1>5, <1>6, <1>7, <1>8
  DEF Settle, ProviderConflict, DisputeProgress, saleVars, coverVars

(* Every transaction of the ledger is a step of the promise, or none. *)
LEMMA PromiseStep ==
  ASSUME LedgerInv, [Next]_vars PROVE Promise!Next \/ UNCHANGED StageMap
<1>1. CASE UNCHANGED <<period, collection, purchase>>
  BY <1>1, StageFrame, PromiseStutters
<1>2. ASSUME NEW p \in Purchases, ClosePeriod(p) PROVE Promise!Next \/ UNCHANGED StageMap
  <2>1. UNCHANGED <<collection, purchase>> /\ Close({p}) /\ p \in Open
    BY <1>2 DEF ClosePeriod, Ended, saleVars, evidenceVars
  <2>2. period[p] = "open" /\ period'[p] = "closed"
    BY <2>1 DEF Close, Open
  <2>3. \A q \in Purchases : q # p => Stage(q)' = Stage(q)
    BY <2>1, StageFrame DEF Close
  <2>4. Stage(p) = "served" /\ Stage(p)' = "ended"
    BY <2>2 DEF Stage
  <2> QED
    BY <2>3, <2>4, SinglePromise
<1>3. ASSUME NEW p \in Purchases, WithdrawRenewal(p) \/ GiveUpRenewal(p)
      PROVE  Promise!Next \/ UNCHANGED StageMap
  <2>1. /\ UNCHANGED <<period, collection>> /\ purchase[p] = "awaiting_payment"
        /\ purchase'[p] \in {"failed", "cancelled"}
        /\ \A q \in Purchases : q # p => purchase'[q] = purchase[q]
    BY <1>3
    DEF WithdrawRenewal, GiveUpRenewal, Drop, Waiting, coverVars, evidenceVars, LedgerInv, TypeOK,
        SaleType
  <2>2. \A q \in Purchases : q # p => Stage(q)' = Stage(q)
    BY <2>1, StageFrame
  <2>3. Stage(p)' = Stage(p) \/ (Stage(p) = "asked" /\ Stage(p)' = "dropped")
    BY <2>1 DEF Stage
  <2> QED
    BY <2>2, <2>3, SinglePromise
<1>4. ASSUME NEW p \in Purchases, Use(p) PROVE UNCHANGED StageMap
  <2>1. UNCHANGED <<period, collection, purchase>>
    BY <1>4
    DEF Use, Reserve, ReleaseSeat, ChargeRide, PlanPause, ResumePause, saleVars, evidenceVars
  <2> QED
    BY <2>1, StageFrame, PromiseStutters
<1> QED
  BY <1>1, <1>2, <1>3, <1>4, CheckoutAsks, ExpiryDrops, SettlePromise
  DEF Next, vars, Tick, SettleDuePauses, EraseAccount, Decide, saleVars, coverVars, evidenceVars

(* Seen through its stages, the whole ledger implements the promise: a purchase that waits
   is served or let go, money without service stays a claim, and what was let go is never
   served (PaymentPromise). *)
THEOREM PromiseIsKept == Spec => PromiseKept
<1>1. LedgerInv /\ [Next]_vars => [Promise!Next]_[p \in Purchases |-> Stage(p)]
  BY PromiseStep DEF StageMap
<1> QED
  BY <1>1, PromiseInit, LedgerHolds, PTL DEF Spec, PromiseKept, Promise!Spec
==============================================================================
