---------------------------- MODULE PaymentLedger ----------------------------
(***************************************************************************)
(* The money and coverage of one rider: purchases, Ride Credit, billing    *)
(* periods, refunds, disputes and the reviews operators work from.         *)
(*                                                                         *)
(* Every operation of payments/foundation.ts and payments/recovery.ts is   *)
(* one PostgreSQL transaction that starts by locking the rider's row, so   *)
(* two of them never interleave for the same rider: one action is one      *)
(* transaction, and a refused transaction (every fail(...)) is a step that *)
(* is not enabled, because ROLLBACK leaves nothing behind.                 *)
(*                                                                         *)
(* Provider evidence (an element of Events) may be applied here at any     *)
(* time, in any order and any number of times.  PaymentInbox restricts     *)
(* that to what the durable inbox really delivers.                         *)
(***************************************************************************)
EXTENDS Integers, FiniteSets, FiniteSetsExt

CONSTANTS
  Purchases,      \* purchases of the rider; each has one attempt, one reference
  Terms,          \* frozen terms of each purchase, see TermsAssumption
  Events,         \* provider evidence rows, see EventSet
  Refunds,        \* provider references of refunds
  Disputes,       \* provider ids of disputes
  Transactions,   \* provider transaction ids
  NoTx,           \* no transaction
  NoPurchase,     \* renews nothing: the purchase is bought by an Ops offer
  MinCharge,      \* MIN_CHARGE_PESEWAS (100 in the code)
  PauseLengths,   \* days a personal pause may last (3..14 in the code)
  OpsDecides,     \* bound: the reviews operators decide in this instance
  LastDay         \* bound: the last day of the clock

Direction == {"outbound", "return"}
Day == 0 .. LastDay
Resolutions == {"merchant-accepted", "declined", "none"}
RefundStates == {"pending", "processing", "needs_attention", "failed", "processed"}
DisputeStates == {"created", "reminded", "resolved"}

(* A provider amount as the code tells amounts apart: relative to the cash *)
(* the attempt asked for.  "part" and "rest" add up to that cash, "over"   *)
(* exceeds it.                                                             *)
Portions == {"part", "rest", "full", "over"}

EventSet ==
  [kind : {"success"}, row : Nat, ref : Purchases, portion : Portions,
   tx : Transactions, paidAt : Day]
  \cup [kind : {"failure"}, row : Nat, ref : Purchases, portion : Portions]
  \cup [kind : {"unresolved"}, row : Nat, ref : Purchases, portion : Portions]
  \cup [kind : {"refund"}, row : Nat, ref : Purchases, portion : Portions,
        id : Refunds, state : RefundStates]
  \cup [kind : {"dispute"}, row : Nat, ref : Purchases, portion : Portions,
        id : Disputes, state : DisputeStates, resolution : Resolutions]

TermsSet ==
  [price : Nat, rides : [Direction -> Nat], rate : [Direction -> Nat],
   expires : Nat, start : Nat, end : Nat, renews : Purchases \cup {NoPurchase}]

(* membership/offer-terms.ts: a package costs at least the minimum charge, *)
(* covers at least one day and must be paid before its coverage starts.    *)
ASSUME TermsAssumption ==
  /\ Terms \in [Purchases -> TermsSet]
  /\ \A p \in Purchases :
       /\ Terms[p].price >= MinCharge
       /\ Terms[p].expires <= Terms[p].start
       /\ Terms[p].start < Terms[p].end
  /\ NoPurchase \notin Purchases

ASSUME MoneyAssumption == MinCharge \in Nat /\ MinCharge >= 2

ASSUME ClockAssumption == LastDay \in Nat /\ PauseLengths \subseteq Nat \ {0}

(* A rider has finitely many rows in every table.                          *)
ASSUME RowsAssumption ==
  IsFiniteSet(Purchases) /\ IsFiniteSet(Refunds) /\ IsFiniteSet(Disputes)

ASSUME EventsAssumption ==
  /\ Events \subseteq EventSet
  /\ NoTx \notin Transactions

EventReasons == {"late_success", "provider_conflict", "account_unavailable"}

(* A review is keyed by its reason and the one row it is about.            *)
ReviewKeys ==
  (EventReasons \X Events)
  \cup ({"refund_progress"} \X Refunds)
  \cup ({"dispute_progress"} \X Disputes)
  \cup ({"consumed_value_after_refund"} \X Purchases)

VARIABLES
  day,         \* the clock
  deleted,     \* users.deleted_at is set
  purchase,    \* purchases.state
  failure,     \* purchases.failure_code
  opened,      \* purchases.created_at
  applied,     \* purchases.applied_credit_pesewas
  hold,        \* credit_holds.state
  attempt,     \* payment_attempts.state
  attemptTx,   \* payment_attempts.provider_transaction_id
  collection,  \* payment_collections.provider_transaction_id
  period,      \* billing_periods.state
  endsAt,      \* billing_periods.effective_ends_at
  charged,     \* rides charged, per direction (reservation_charges)
  reserved,    \* seats reserved and not settled, per direction
  pause,       \* personal_pauses row of the period
  closure,     \* period_closures row: rides converted, credit granted
  reversal,    \* payment_reversals row
  credit,      \* SUM(credit_entries.delta_pesewas)
  refund,      \* payment_refunds rows
  dispute,     \* payment_disputes rows
  block,       \* payment_access_blocks of each dispute
  review       \* payment_reviews.state

saleVars == <<purchase, failure, opened, applied, hold, attempt, attemptTx>>
coverVars == <<period, endsAt, charged, reserved, pause, closure, reversal>>
evidenceVars == <<collection, refund, dispute, block, review>>
vars == <<day, deleted, saleVars, coverVars, credit, evidenceVars>>

PauseRows ==
  [state : {"unused", "planned", "completed", "terminated"}, from : Nat, to : Nat]
NoPause == [state |-> "unused", from |-> 0, to |-> 0]
NoClosure == [rides |-> 0, credit |-> 0]
NoReversal == [made |-> FALSE, rides |-> 0, consumed |-> 0, recovered |-> 0, debt |-> 0]
NoRefund == [state |-> "none", ref |-> NoPurchase, amount |-> 0]
NoDispute ==
  [state |-> "none", ref |-> NoPurchase, amount |-> 0, resolution |-> "none"]

Init ==
  /\ day = 0 /\ deleted = FALSE /\ credit = 0
  /\ purchase = [p \in Purchases |-> "absent"]
  /\ failure = [p \in Purchases |-> "none"]
  /\ opened = [p \in Purchases |-> 0]
  /\ applied = [p \in Purchases |-> 0]
  /\ hold = [p \in Purchases |-> "none"]
  /\ attempt = [p \in Purchases |-> "none"]
  /\ attemptTx = [p \in Purchases |-> NoTx]
  /\ collection = [p \in Purchases |-> NoTx]
  /\ period = [p \in Purchases |-> "none"]
  /\ endsAt = [p \in Purchases |-> 0]
  /\ charged = [p \in Purchases |-> [d \in Direction |-> 0]]
  /\ reserved = [p \in Purchases |-> [d \in Direction |-> 0]]
  /\ pause = [p \in Purchases |-> NoPause]
  /\ closure = [p \in Purchases |-> NoClosure]
  /\ reversal = [p \in Purchases |-> NoReversal]
  /\ refund = [r \in Refunds |-> NoRefund]
  /\ dispute = [d \in Disputes |-> NoDispute]
  /\ block = [d \in Disputes |-> "none"]
  /\ review = [k \in ReviewKeys |-> "none"]

-----------------------------------------------------------------------------
(* Reading the rows *)

Both(f) == f["outbound"] + f["return"]
Lesser(a, b) == IF a < b THEN a ELSE b

Cash(p) == Terms[p].price - applied[p]              \* cash_due_pesewas
Amount(e) ==
  [part |-> 1, rest |-> Cash(e.ref) - 1, full |-> Cash(e.ref),
   over |-> Cash(e.ref) + 1][e.portion]

Unresolved == {p \in Purchases : purchase[p] = "awaiting_payment"}
Deadline(p) == IF Terms[p].renews = NoPurchase THEN Terms[p].expires ELSE Terms[p].start
Lapsed == {p \in Unresolved : Deadline(p) <= day}

(* SUM(amount) of the held rows.  A rider has at most one unresolved       *)
(* purchase (index one_unresolved_purchase_per_rider), hence one hold.     *)
HeldIn(holds) ==
  IF \E p \in Purchases : holds[p] = "held"
  THEN applied[CHOOSE p \in Purchases : holds[p] = "held"]
  ELSE 0
Held == HeldIn(hold)
Available == credit - Held

Granted(p) == Both(Terms[p].rides)
Consumed(p) == Both(charged[p])
LeftOver(p, d) == Terms[p].rides[d] - charged[p][d]
Conversion(p) ==
  LeftOver(p, "outbound") * Terms[p].rate["outbound"]
    + LeftOver(p, "return") * Terms[p].rate["return"]
RideBalance(p) == Granted(p) - Consumed(p) - closure[p].rides - reversal[p].rides

Open == {p \in Purchases : period[p] = "open"}
Blocked(p) == \E d \in Disputes : block[d] = "active" /\ dispute[d].ref = p

(* A renewal of q's coverage is bought or being bought: its dates are      *)
(* fixed, so q's end must not move any more.                               *)
PendingRenewal_Unchecked(q) == FALSE      \* mutant: a pause may move a sold end
PendingRenewal(q) ==
  \E p \in Purchases :
    /\ Terms[p].start > Terms[q].start
    /\ purchase[p] = "awaiting_payment" \/ (purchase[p] = "fulfilled" /\ period[p] = "open")

Paused(p) ==
  pause[p].state \in {"planned", "completed"} /\ pause[p].from <= day /\ day < pause[p].to

-----------------------------------------------------------------------------
(* Steps shared by several transactions *)

(* expireUnpaidOffers: the service promise lapses locally.  The attempt    *)
(* stays pending, because nobody knows yet whether money was collected.    *)
ExpiredPurchase_Unlisted ==               \* mutant: a state the schema lacks
  [p \in Purchases |-> IF p \in Lapsed THEN "expired" ELSE purchase[p]]
ExpiredPurchase == [p \in Purchases |-> IF p \in Lapsed THEN "failed" ELSE purchase[p]]
ExpiredFailure ==
  [p \in Purchases |->
     IF p \notin Lapsed THEN failure[p]
     ELSE IF Terms[p].renews = NoPurchase THEN "offer_expired" ELSE "renewal_lapsed"]
ExpiredHold_Kept == hold                  \* mutant: the credit stays reserved
ExpiredHold ==
  [p \in Purchases |-> IF p \in Lapsed /\ hold[p] = "held" THEN "released" ELSE hold[p]]

(* settle_personal_pauses: a pause that is over extends its period by the  *)
(* days it took.                                                           *)
DuePauses == {p \in Purchases : pause[p].state = "planned" /\ pause[p].to <= day}
SettledPause ==
  [p \in Purchases |->
     IF p \in DuePauses THEN [pause[p] EXCEPT !.state = "completed"] ELSE pause[p]]
SettledEnd ==
  [p \in Purchases |->
     IF p \in DuePauses THEN endsAt[p] + pause[p].to - pause[p].from ELSE endsAt[p]]

Overlapping(p, q, ends) ==
  p # q /\ Terms[p].start < ends[q] /\ Terms[q].start < ends[p]

(* The database refuses to settle a pause of a period that is not open,    *)
(* and to let two periods that are not reversed overlap.                   *)
SettlementAccepted ==
  /\ DuePauses \subseteq Open
  /\ \A p \in DuePauses, q \in Purchases :
       period[q] \in {"open", "closed"} => ~Overlapping(p, q, SettledEnd)

(* closeOne refuses a period whose service or payment is not settled.      *)
Closable_Reserved(p) ==                   \* mutant: seats in reserve are ignored
  ~Blocked(p) /\ SettledPause[p].state # "planned"
Closable(p) ==
  /\ ~Blocked(p)
  /\ SettledPause[p].state # "planned"
  /\ Both(reserved[p]) = 0
  /\ \A d \in Direction : LeftOver(p, d) >= 0
  /\ Conversion(p) \in Nat                             \* whole()

Ended_Snapshot == {p \in Open : endsAt[p] <= day}   \* mutant: the end before the pause
Ended == {p \in Open : SettledEnd[p] <= day}
Earned_Forgotten(S) == 0                  \* mutant: the rides end, no credit comes
Earned(S) == MapThenSumSet(Conversion, S)

Close(S) ==
  /\ period' = [p \in Purchases |-> IF p \in S THEN "closed" ELSE period[p]]
  /\ closure' = [p \in Purchases |->
       IF p \in S THEN [rides |-> RideBalance(p), credit |-> Conversion(p)] ELSE closure[p]]

Raise_Silent(k, open) == UNCHANGED review \* mutant: nobody is told
Raise(k, open) ==
  review' = [review EXCEPT ![k] =
    IF @ \notin {"none", "open"} THEN @ ELSE IF open THEN "open" ELSE "resolved"]

-----------------------------------------------------------------------------
(* Time, and what the rider does *)

Tick ==
  /\ day < LastDay
  /\ day' = day + 1
  /\ UNCHANGED <<deleted, saleVars, coverVars, credit, evidenceVars>>

(* FinancialFoundation.checkout under the rider's lock: expire, settle     *)
(* pauses, check the open periods, close the ended ones, freeze the terms, *)
(* hold credit and open the attempt.                                       *)
RenewalMatches(p) ==
  LET q == Terms[p].renews IN
    q # NoPurchase =>
      /\ q \in Open \ Ended
      /\ SettledEnd[q] = Terms[p].start
      /\ Terms[q].price = Terms[p].price

SlotFree_Unchecked == TRUE                \* mutant: a second purchase may wait
SlotFree == Unresolved \subseteq Lapsed

CheckoutAllowed(p) ==
  /\ ~deleted
  /\ purchase[p] = "absent"
  /\ Terms[p].renews = NoPurchase => day < Terms[p].expires
  /\ SlotFree
  /\ SettlementAccepted
  /\ \A q \in Open :
       /\ ~Blocked(q) /\ SettledPause[q].state # "planned"
       /\ Terms[q].start <= day
       /\ SettledEnd[q] <= Terms[p].start
  /\ \A q \in Ended : Closable(q)
  /\ RenewalMatches(p)

Checkout(p, useCredit) ==
  LET funds == credit + Earned(Ended)
      held == HeldIn(ExpiredHold)
      contribution ==
        IF useCredit THEN Lesser(funds - held, Terms[p].price - MinCharge) ELSE 0
  IN
  /\ CheckoutAllowed(p)
  /\ funds \in Int /\ funds >= held                       \* balances()
  /\ Close(Ended)
  /\ credit' = funds
  /\ pause' = SettledPause /\ endsAt' = SettledEnd
  /\ purchase' = [ExpiredPurchase EXCEPT ![p] = "awaiting_payment"]
  /\ failure' = ExpiredFailure
  /\ opened' = [opened EXCEPT ![p] = day]
  /\ applied' = [applied EXCEPT ![p] = contribution]
  /\ hold' = [ExpiredHold EXCEPT ![p] = IF contribution > 0 THEN "held" ELSE "none"]
  /\ attempt' = [attempt EXCEPT ![p] = "pending"]
  /\ UNCHANGED <<day, deleted, attemptTx, charged, reserved, reversal, evidenceVars>>

(* The same expiry commits on its own: a replayed checkout key returns the *)
(* old purchase after it, and so does a rider reading the standby pool.    *)
ExpireOffers ==
  /\ ~deleted /\ Lapsed # {}
  /\ purchase' = ExpiredPurchase /\ failure' = ExpiredFailure /\ hold' = ExpiredHold
  /\ UNCHANGED <<day, deleted, opened, applied, attempt, attemptTx, coverVars, credit,
                 evidenceVars>>

-----------------------------------------------------------------------------
(* Provider evidence: PaymentRecovery.process with fulfillInTransaction *)

Known(e) == attempt[e.ref] # "none"

(* What the provider reports cannot precede the attempt or the present.    *)
Happened(e) == e.kind = "success" => opened[e.ref] <= e.paidAt /\ e.paidAt <= day

AmountFits(e) ==
  IF e.kind \in {"refund", "dispute"} THEN Amount(e) <= Cash(e.ref)
  ELSE Amount(e) = Cash(e.ref)

Collected(p) == attempt[p] = "successful" \/ collection[p] # NoTx

(* Another transaction already stands for this attempt, or this            *)
(* transaction for another attempt: Conflict, everything rolls back.       *)
TxConflict_Ignored(e) == FALSE            \* mutant: any transaction will do
TxConflict(e) ==
  \/ \E p \in Purchases :
       /\ collection[p] # NoTx
       /\ (p = e.ref) # (collection[p] = e.tx)
  \/ attempt[e.ref] = "successful" /\ attemptTx[e.ref] # e.tx

Success(e) ==
  e.kind = "success" /\ Known(e) /\ Happened(e) /\ AmountFits(e) /\ ~TxConflict(e)

Waiting_Attempt(p) == attempt[p] = "pending"   \* mutant: the purchase is not asked
Waiting(p) == attempt[p] = "pending" /\ purchase[p] = "awaiting_payment"

Overlaps(p) ==
  \E q \in Purchases :
    /\ period[q] \in {"open", "closed"}
    /\ Terms[q].start < Terms[p].end /\ Terms[p].start < endsAt[q]

Late(e) == e.paidAt >= Terms[e.ref].start \/ e.paidAt >= Deadline(e.ref)

Collect(e) == collection' = [collection EXCEPT ![e.ref] = e.tx]

FulfilPurchase(e) ==
  LET p == e.ref IN
  /\ Success(e) /\ ~deleted /\ Waiting(p)
  /\ ~Late(e) /\ ~Overlaps(p)
  /\ applied[p] > 0 => credit >= Held /\ hold[p] = "held"
  /\ Collect(e)
  /\ purchase' = [purchase EXCEPT ![p] = "fulfilled"]
  /\ attempt' = [attempt EXCEPT ![p] = "successful"]
  /\ attemptTx' = [attemptTx EXCEPT ![p] = e.tx]
  /\ hold' = [hold EXCEPT ![p] = IF applied[p] > 0 THEN "captured" ELSE @]
  /\ credit' = credit - applied[p]
  /\ period' = [period EXCEPT ![p] = "open"]
  /\ endsAt' = [endsAt EXCEPT ![p] = Terms[p].end]
  /\ UNCHANGED <<day, deleted, failure, opened, applied, charged, reserved, pause, closure,
                 reversal, refund, dispute, block, review>>

(* Paid too late, or for days that are covered already: the money is kept  *)
(* as evidence, the purchase fails, its credit is free again.              *)
RefuseLate(e) ==
  LET p == e.ref IN
  /\ Success(e) /\ ~deleted /\ Waiting(p)
  /\ Late(e) \/ Overlaps(p)
  /\ Collect(e)
  /\ hold' = [hold EXCEPT ![p] = IF @ = "held" THEN "released" ELSE @]
  /\ attempt' = [attempt EXCEPT ![p] = "successful"]
  /\ attemptTx' = [attemptTx EXCEPT ![p] = e.tx]
  /\ purchase' = [purchase EXCEPT ![p] = "failed"]
  /\ failure' = [failure EXCEPT ![p] =
       IF Overlaps(p) THEN "offer_coverage_conflict" ELSE "offer_expired"]
  /\ Raise(<<"late_success", e>>, TRUE)
  /\ UNCHANGED <<day, deleted, opened, applied, coverVars, credit, refund, dispute, block>>

(* The purchase stopped waiting before its collection was seen.            *)
NotPending(p) ==
  IF attempt[p] = "successful"
  THEN failure[p] \in {"offer_expired", "offer_coverage_conflict"}
  ELSE ~Waiting(p)

LateSuccess(e) ==
  /\ Success(e) /\ ~deleted /\ NotPending(e.ref)
  /\ Collect(e)
  /\ Raise(<<"late_success", e>>, TRUE)
  /\ UNCHANGED <<day, deleted, saleVars, coverVars, credit, refund, dispute, block>>

(* The account was erased: no coverage is granted to nobody.               *)
AccountUnavailable(e) ==
  /\ Success(e) /\ deleted
  /\ Collect(e)
  /\ Raise(<<"account_unavailable", e>>, TRUE)
  /\ UNCHANGED <<day, deleted, saleVars, coverVars, credit, refund, dispute, block>>

ProviderConflict(e) ==
  /\ Known(e) /\ ~AmountFits(e)
  /\ Raise(<<"provider_conflict", e>>, TRUE)
  /\ UNCHANGED <<day, deleted, saleVars, coverVars, credit, collection, refund, dispute, block>>

SettleFailure(e) ==
  LET p == e.ref IN
  /\ e.kind = "failure" /\ AmountFits(e) /\ attempt[p] = "pending"
  /\ hold' = [hold EXCEPT ![p] = IF @ = "held" THEN "released" ELSE @]
  /\ attempt' = [attempt EXCEPT ![p] = "failed"]
  /\ purchase' = [purchase EXCEPT ![p] = IF @ = "awaiting_payment" THEN "failed" ELSE @]
  /\ failure' = [failure EXCEPT ![p] =
       IF purchase[p] = "awaiting_payment" THEN "provider_failed" ELSE @]
  /\ UNCHANGED <<day, deleted, opened, applied, attemptTx, coverVars, credit, evidenceVars>>

-----------------------------------------------------------------------------
(* Refunds and disputes: provider facts that only ever move forward *)

RefundRank ==
  [none |-> -1, pending |-> 0, processing |-> 1, needs_attention |-> 2, failed |-> 3,
   processed |-> 4]
DisputeRank == [none |-> -1, created |-> 0, reminded |-> 1, resolved |-> 2]

Newer_Always(rank, new, old) == TRUE      \* mutant: the last fact to arrive wins
Newer(rank, new, old) == rank[new] > rank[old]

Refunded(rows, p) ==
  MapThenSumSet(LAMBDA r : rows[r].amount,
                {r \in Refunds : rows[r].ref = p /\ rows[r].state = "processed"})

Accepted(rows, p) ==
  {d \in Disputes : rows[d].ref = p /\ rows[d].state = "resolved"
                      /\ rows[d].resolution = "merchant-accepted"}
Conceded(rows, p) == MapThenSumSet(LAMBDA d : rows[d].amount, Accepted(rows, p))

(* releaseAccepted: the disputes the merchant conceded are settled once    *)
(* the refunds of the purchase cover them.                                 *)
SettledDisputes_Unpaid(refunds, disputes, p) == Accepted(disputes, p)   \* mutant
SettledDisputes(refunds, disputes, p) ==
  IF Conceded(disputes, p) > 0 /\ Refunded(refunds, p) >= Conceded(disputes, p)
  THEN Accepted(disputes, p) ELSE {}

Release_Never(blocks, S) == blocks        \* mutant: access is not given back
Release(blocks, S) ==
  [d \in Disputes |-> IF d \in S /\ blocks[d] = "active" THEN "released" ELSE blocks[d]]

(* reversalDebt: the consumed share of the price, rounded half up, and the *)
(* conversion credit that was spent already.                               *)
ReversalDebt(price, consumed, granted, unrecovered) ==
  (2 * price * consumed + granted) \div (2 * granted) + unrecovered

Reversible(p) ==
  /\ Available >= 0
  /\ 0 <= Consumed(p) /\ Consumed(p) <= Granted(p) /\ Granted(p) > 0

(* Conversion credit the reversal takes back: what no hold reserves.       *)
Recoverable_Held(p) == Lesser(closure[p].credit, credit)   \* mutant: held credit too
Recoverable(p) == Lesser(closure[p].credit, Available)

Reverse(p) ==
  LET recovered == Recoverable(p)
      debt == ReversalDebt(Terms[p].price, Consumed(p), Granted(p),
                           closure[p].credit - recovered)
  IN
  /\ Reversible(p)
  /\ reversal' = [reversal EXCEPT ![p] =
       [made |-> TRUE, rides |-> RideBalance(p), consumed |-> Consumed(p),
        recovered |-> recovered, debt |-> debt]]
  /\ credit' = credit - recovered + applied[p]
  /\ period' = [period EXCEPT ![p] = "reversed"]
  /\ reserved' = [reserved EXCEPT ![p] = [d \in Direction |-> 0]]
  /\ pause' = [pause EXCEPT ![p].state = IF @ = "planned" THEN "terminated" ELSE @]

EndsCoverage_Single(rows, r, p) ==        \* mutant: only one refund of everything
  rows[r].amount = Cash(p) /\ rows[r].state = "processed"
EndsCoverage(rows, r, p) ==
  Refunded(rows, p) = Cash(p) /\ rows[r].state = "processed"

OwesReview(p) == reversal'[p].made /\ (reversal'[p].consumed > 0 \/ reversal'[p].debt > 0)

RefundProgress(e) ==
  LET p == e.ref
      old == refund[e.id]
      row == IF old.state = "none"
             THEN [state |-> e.state, ref |-> p, amount |-> Amount(e)]
             ELSE [old EXCEPT !.state =
                     IF Newer(RefundRank, e.state, @) THEN e.state ELSE @]
      rows == [refund EXCEPT ![e.id] = row]
      settled == SettledDisputes(rows, dispute, p)
  IN
  /\ e.kind = "refund" /\ Known(e) /\ AmountFits(e) /\ Collected(p)
  /\ old.state # "none" => old.ref = p /\ old.amount = Amount(e)
  /\ Refunded(rows, p) <= Cash(p)
  /\ refund' = rows
  /\ IF EndsCoverage(rows, e.id, p) /\ ~reversal[p].made /\ purchase[p] = "fulfilled"
     THEN Reverse(p)
     ELSE UNCHANGED <<reversal, credit, period, reserved, pause>>
  /\ block' = Release(block, settled)
  /\ review' = [k \in ReviewKeys |->
       CASE k = <<"refund_progress", e.id>> /\ review[k] \in {"none", "open"} ->
              IF row.state = "processed" THEN "resolved" ELSE "open"
         [] k[1] = "dispute_progress" /\ k[2] \in settled /\ review[k] = "open" -> "resolved"
         [] k = <<"consumed_value_after_refund", p>> /\ review[k] = "none" /\ OwesReview(p) ->
              "open"
         [] OTHER -> review[k]]
  /\ UNCHANGED <<day, deleted, saleVars, endsAt, charged, closure, collection, dispute>>

DisputeProgress(e) ==
  LET p == e.ref
      old == dispute[e.id]
      row == IF Newer(DisputeRank, e.state, old.state)
             THEN [state |-> e.state, ref |-> p, amount |-> Amount(e),
                   resolution |-> e.resolution]
             ELSE old
      rows == [dispute EXCEPT ![e.id] = row]
      declined == row.state = "resolved" /\ row.resolution = "declined"
      covered == period[p] # "none"
      settled == IF covered THEN SettledDisputes(refund, rows, p) ELSE {}
      blocks == Release(
        [block EXCEPT ![e.id] = IF covered /\ @ = "none" THEN "active" ELSE @],
        IF covered THEN settled \cup (IF declined THEN {e.id} ELSE {}) ELSE {})
      complete == IF covered THEN blocks[e.id] # "active" ELSE declined
  IN
  /\ e.kind = "dispute" /\ Known(e) /\ AmountFits(e) /\ Collected(p)
  /\ old.state # "none" => old.ref = p
  /\ e.state = old.state => e.resolution = old.resolution /\ Amount(e) = old.amount
  /\ dispute' = rows
  /\ block' = blocks
  /\ review' = [k \in ReviewKeys |->
       CASE k = <<"dispute_progress", e.id>> /\ review[k] \in {"none", "open"} ->
              IF complete \/ (e.id \in settled /\ review[k] = "open") THEN "resolved" ELSE "open"
         [] k[1] = "dispute_progress" /\ k[2] \in settled /\ review[k] = "open" -> "resolved"
         [] OTHER -> review[k]]
  /\ UNCHANGED <<day, deleted, saleVars, coverVars, credit, collection, refund>>

-----------------------------------------------------------------------------
(* Coverage: periods, pauses, seats *)

(* closePeriod, by the maintenance worker.                                 *)
ClosePeriod(p) ==
  /\ ~deleted /\ p \in Ended /\ SettlementAccepted /\ Closable(p)
  /\ Close({p})
  /\ credit' = credit + Conversion(p)
  /\ pause' = SettledPause /\ endsAt' = SettledEnd
  /\ UNCHANGED <<day, deleted, saleVars, charged, reserved, reversal, evidenceVars>>

SettleDuePauses ==
  /\ ~deleted /\ DuePauses # {} /\ SettlementAccepted
  /\ pause' = SettledPause /\ endsAt' = SettledEnd
  /\ UNCHANGED <<day, deleted, saleVars, period, charged, reserved, closure, reversal, credit,
                 evidenceVars>>

(* A seat on a covered departure, today or later: reserve() and its guards. *)
Reserve(p, d) ==
  /\ ~deleted /\ SettlementAccepted /\ p \in Open /\ day < SettledEnd[p]
  /\ LeftOver(p, d) - reserved[p][d] > 0
  /\ ~Blocked(p) /\ ~Paused(p)
  /\ reserved' = [reserved EXCEPT ![p][d] = @ + 1]
  /\ pause' = SettledPause /\ endsAt' = SettledEnd
  /\ UNCHANGED <<day, deleted, saleVars, period, charged, closure, reversal, credit,
                 evidenceVars>>

(* A seat given back, by the rider or because the departure is cancelled.  *)
ReleaseSeat(p, d) ==
  /\ reserved[p][d] > 0
  /\ reserved' = [reserved EXCEPT ![p][d] = @ - 1]
  /\ UNCHANGED <<day, deleted, saleVars, period, endsAt, charged, pause, closure, reversal,
                 credit, evidenceVars>>

(* A boarding or a no-show charges one ride of the reserved direction.     *)
ChargeRide(p, d) ==
  /\ ~deleted /\ p \in Open /\ Terms[p].start <= day
  /\ reserved[p][d] > 0 /\ RideBalance(p) >= 1
  /\ ~Blocked(p) /\ ~Paused(p)
  /\ charged' = [charged EXCEPT ![p][d] = @ + 1]
  /\ reserved' = [reserved EXCEPT ![p][d] = @ - 1]
  /\ UNCHANGED <<day, deleted, saleVars, period, endsAt, pause, closure, reversal, credit,
                 evidenceVars>>

(* insertPersonalPause: one pause per paid period, starting after today    *)
(* and inside it, never while its end is fixed by a renewal.  The seats it *)
(* declines are those of the paused days.                                  *)
CurrentPeriod(p) ==
  /\ p \in Open /\ Terms[p].start <= day
  /\ \A q \in Open : Terms[q].start <= day => Terms[q].start <= Terms[p].start

PlanPause(p, from, length, kept) ==
  /\ ~deleted /\ SettlementAccepted /\ CurrentPeriod(p) /\ day < SettledEnd[p]
  /\ ~PendingRenewal(p) /\ pause[p].state = "unused" /\ ~Blocked(p)
  /\ day < from /\ from < SettledEnd[p]
  /\ \A d \in Direction : kept[d] <= reserved[p][d]
  /\ pause' = [SettledPause EXCEPT ![p] =
       [state |-> "planned", from |-> from, to |-> from + length]]
  /\ endsAt' = SettledEnd
  /\ reserved' = [reserved EXCEPT ![p] = kept]
  /\ UNCHANGED <<day, deleted, saleVars, period, charged, closure, reversal, credit,
                 evidenceVars>>

ResumePause(p, to) ==
  /\ ~deleted /\ SettlementAccepted /\ \E q \in Open : CurrentPeriod(q)
  /\ p \notin DuePauses /\ pause[p].state = "planned"
  /\ pause[p].from < to /\ day < to /\ to < pause[p].to
  /\ pause' = [SettledPause EXCEPT ![p].to = to]
  /\ endsAt' = SettledEnd
  /\ UNCHANGED <<day, deleted, saleVars, period, charged, reserved, closure, reversal, credit,
                 evidenceVars>>

(* AccountService.erase with its triggers: future seats are cancelled and  *)
(* planned pauses end; purchases, holds and money records stay.            *)
EraseAccount ==
  /\ ~deleted
  /\ deleted' = TRUE
  /\ reserved' = [p \in Purchases |-> [d \in Direction |-> 0]]
  /\ pause' = [p \in Purchases |->
       IF pause[p].state = "planned" THEN [pause[p] EXCEPT !.state = "terminated"] ELSE pause[p]]
  /\ UNCHANGED <<day, saleVars, period, endsAt, charged, closure, reversal, credit,
                 evidenceVars>>

-----------------------------------------------------------------------------
(* Renewal purchases the auto-renewal worker takes back *)

Drop(p, state, code) ==
  /\ Terms[p].renews # NoPurchase /\ Waiting(p)
  /\ hold' = [hold EXCEPT ![p] = IF @ = "held" THEN "released" ELSE @]
  /\ purchase' = [purchase EXCEPT ![p] = state]
  /\ failure' = [failure EXCEPT ![p] = code]
  /\ UNCHANGED <<day, deleted, opened, applied, attemptTx, coverVars, credit, evidenceVars>>

(* The consent is gone before the card was charged.                        *)
WithdrawRenewal(p) ==
  /\ Drop(p, "cancelled", "renewal_withdrawn")
  /\ attempt' = [attempt EXCEPT ![p] = "failed"]

(* The charge stayed unconfirmed for a day; it may still have happened.    *)
GiveUpRenewal(p) ==
  /\ opened[p] < day
  /\ Drop(p, "failed", "renewal_unconfirmed")
  /\ UNCHANGED attempt

(* PaymentRecovery.decide: an operator closes an open review, once.        *)
Decide(k, decision) ==
  /\ review[k] = "open"
  /\ review' = [review EXCEPT ![k] = decision]
  /\ UNCHANGED <<day, deleted, saleVars, coverVars, credit, collection, refund, dispute, block>>

Settle(e) ==
  \/ FulfilPurchase(e) \/ RefuseLate(e) \/ LateSuccess(e) \/ AccountUnavailable(e)
  \/ ProviderConflict(e) \/ SettleFailure(e) \/ RefundProgress(e) \/ DisputeProgress(e)

Use(p) ==
  \/ \E d \in Direction : Reserve(p, d) \/ ReleaseSeat(p, d) \/ ChargeRide(p, d)
  \/ \E from \in Day, length \in PauseLengths :
       \E kept \in [Direction -> 0 .. Granted(p)] : PlanPause(p, from, length, kept)
  \/ \E to \in Day : ResumePause(p, to)

Next ==
  \/ Tick
  \/ \E p \in Purchases, useCredit \in BOOLEAN : Checkout(p, useCredit)
  \/ ExpireOffers
  \/ \E e \in Events : Settle(e)
  \/ \E p \in Purchases :
       ClosePeriod(p) \/ Use(p) \/ WithdrawRenewal(p) \/ GiveUpRenewal(p)
  \/ SettleDuePauses
  \/ EraseAccount
  \/ \E k \in OpsDecides, decision \in {"resolved", "waived"} : Decide(k, decision)

Spec == Init /\ [][Next]_vars

-----------------------------------------------------------------------------
(* Types *)

Seats == [Direction -> Int]

SaleType ==
  /\ purchase \in [Purchases ->
       {"absent", "awaiting_payment", "fulfilled", "failed", "cancelled"}]
  /\ failure \in [Purchases ->
       {"none", "offer_expired", "renewal_lapsed", "offer_coverage_conflict",
        "provider_failed", "renewal_unconfirmed", "renewal_withdrawn"}]
  /\ opened \in [Purchases -> Day]
  /\ applied \in [Purchases -> Int]
  /\ hold \in [Purchases -> {"none", "held", "captured", "released"}]
  /\ attempt \in [Purchases -> {"none", "pending", "successful", "failed"}]
  /\ attemptTx \in [Purchases -> Transactions \cup {NoTx}]

ClosureRows == [rides : Int, credit : Int]
ReversalRows == [made : BOOLEAN, rides : Int, consumed : Int, recovered : Int, debt : Int]

CoverType ==
  /\ period \in [Purchases -> {"none", "open", "closed", "reversed"}]
  /\ endsAt \in [Purchases -> Int]
  /\ charged \in [Purchases -> Seats] /\ reserved \in [Purchases -> Seats]
  /\ pause \in [Purchases -> PauseRows]
  /\ closure \in [Purchases -> ClosureRows]
  /\ reversal \in [Purchases -> ReversalRows]

RefundRows ==
  [state : RefundStates \cup {"none"}, ref : Purchases \cup {NoPurchase}, amount : Int]
DisputeRows ==
  [state : DisputeStates \cup {"none"}, ref : Purchases \cup {NoPurchase},
   amount : Int, resolution : Resolutions]

EvidenceType ==
  /\ collection \in [Purchases -> Transactions \cup {NoTx}]
  /\ refund \in [Refunds -> RefundRows]
  /\ dispute \in [Disputes -> DisputeRows]
  /\ block \in [Disputes -> {"none", "active", "released"}]
  /\ review \in [ReviewKeys -> {"none", "open", "resolved", "waived"}]

TypeOK ==
  /\ day \in Day /\ deleted \in BOOLEAN /\ credit \in Int
  /\ SaleType /\ CoverType /\ EvidenceType

-----------------------------------------------------------------------------
(* Safety *)

(* A rider never has two purchases waiting for payment, whatever lapses,   *)
(* is retried or is renewed: the slot checkout relies on is really free.   *)
SingleUnresolved == \A p, q \in Unresolved : p = q

(* Credit is reserved exactly while its purchase waits, and spent exactly  *)
(* when that purchase was fulfilled: no path out of the waiting state      *)
(* forgets the hold, and none releases credit that bought coverage.        *)
HoldFollowsPurchase ==
  \A p \in Purchases :
    /\ hold[p] = "held" <=> purchase[p] = "awaiting_payment" /\ applied[p] > 0
    /\ hold[p] = "captured" <=> purchase[p] = "fulfilled" /\ applied[p] > 0

(* The ledger always covers what is reserved, also when a refund takes     *)
(* conversion credit back while a later purchase holds part of it.         *)
CreditCovered == 0 <= Held /\ Held <= credit

(* The balance is what its sources say: conversions, less captured         *)
(* contributions, plus what each reversal restored and less what it took.  *)
CreditAddsUp ==
  credit = MapThenSumSet(LAMBDA p :
    closure[p].credit - (IF hold[p] = "captured" THEN applied[p] ELSE 0)
      + (IF reversal[p].made THEN applied[p] - reversal[p].recovered ELSE 0), Purchases)

(* Coverage is granted exactly for a fulfilled purchase, and only on the   *)
(* evidence of one collected transaction that no other purchase used.      *)
CoverageIsPaid ==
  \A p \in Purchases :
    /\ period[p] # "none" <=> purchase[p] = "fulfilled"
    /\ purchase[p] = "fulfilled" =>
         /\ attempt[p] = "successful" /\ attemptTx[p] # NoTx
         /\ collection[p] = attemptTx[p]
         /\ \A q \in Purchases \ {p} : collection[q] # collection[p]

(* Collected money is never lost: it bought coverage, or an operator was   *)
(* given a review that names the very transaction.                         *)
CollectedIsAccounted ==
  \A p \in Purchases :
    collection[p] # NoTx =>
      \/ purchase[p] = "fulfilled"
      \/ \E e \in Events : \E reason \in {"late_success", "account_unavailable"} :
           /\ e.kind = "success" /\ e.ref = p /\ e.tx = collection[p]
           /\ review[<<reason, e>>] # "none"

(* No day is sold twice: offers, renewals and extended pauses never make   *)
(* two periods that are not reversed overlap, so the late branch for       *)
(* overlapping coverage is never needed.                                   *)
NoDaySoldTwice ==
  /\ \A p, q \in Purchases :
       {period[p], period[q]} \subseteq {"open", "closed"} => ~Overlapping(p, q, endsAt)
  /\ \A p \in Purchases : failure[p] # "offer_coverage_conflict"

(* A pause that is over can always be settled.  Every coverage operation   *)
(* of the rider starts by settling, so one pause the database refuses to   *)
(* settle would lock the rider out of all of them.                         *)
SettlementNeverStuck == SettlementAccepted

(* Every granted ride is left, charged, converted or removed, once; seats  *)
(* in reserve are covered by what is left in their direction.              *)
RidesConserved ==
  \A p \in Purchases :
    /\ period[p] = "open" =>
         \A d \in Direction : 0 <= reserved[p][d] /\ reserved[p][d] <= LeftOver(p, d)
    /\ period[p] \in {"closed", "reversed"} => RideBalance(p) = 0 /\ Both(reserved[p]) = 0

(* Coverage ends exactly when all the cash went back, however many refunds *)
(* that took and in whatever order their facts arrived.                    *)
RefundEndsCoverage ==
  \A p \in Purchases :
    purchase[p] = "fulfilled" =>
      (Refunded(refund, p) = Cash(p) <=> period[p] = "reversed")

(* A dispute on covered days stops them until a verdict lets go of them: a *)
(* declined dispute, or a conceded one that was paid back at least.        *)
DisputeHoldsCoverage ==
  \A d \in Disputes :
    LET row == dispute[d] IN
    /\ row.state # "none" /\ period[row.ref] # "none" => block[d] # "none"
    /\ block[d] = "released" =>
         /\ row.state = "resolved"
         /\ \/ row.resolution = "declined"
            \/ row.resolution = "merchant-accepted" /\ Refunded(refund, row.ref) >= row.amount

(* Once refunds cover what was conceded, no conceded dispute still blocks, *)
(* whether the last refund or the last verdict arrived last.               *)
PaidBackIsReleased ==
  \A p \in Purchases :
    \A d \in SettledDisputes(refund, dispute, p) : block[d] # "active"

-----------------------------------------------------------------------------
(* What a step may never do *)

(* The immutability triggers of the schema refuse these changes, so a      *)
(* transaction that tried one would fail forever: no purchase, attempt,    *)
(* hold, period or pause leaves a final state, no period gets shorter.     *)
OneWay ==
  \A p \in Purchases :
    /\ purchase[p] \in {"fulfilled", "failed", "cancelled"} => purchase'[p] = purchase[p]
    /\ attempt[p] \in {"successful", "failed"} =>
         attempt'[p] = attempt[p] /\ attemptTx'[p] = attemptTx[p]
    /\ hold[p] \in {"captured", "released"} => hold'[p] = hold[p]
    /\ period[p] = "closed" => period'[p] \in {"closed", "reversed"}
    /\ period[p] = "reversed" => period'[p] = "reversed" /\ reversal'[p] = reversal[p]
    /\ period[p] # "none" => endsAt'[p] >= endsAt[p]
    /\ collection[p] # NoTx => collection'[p] = collection[p]
NoRejectedUpdate == [][OneWay]_vars

(* Provider progress and operator decisions survive replays: no evidence   *)
(* reorders a refund or dispute backwards, reopens a decided review or     *)
(* blocks coverage again that a verdict released.                          *)
Progress ==
  /\ \A r \in Refunds : RefundRank[refund'[r].state] >= RefundRank[refund[r].state]
  /\ \A d \in Disputes :
       /\ DisputeRank[dispute'[d].state] >= DisputeRank[dispute[d].state]
       /\ block[d] = "released" => block'[d] = "released"
  /\ \A k \in ReviewKeys : review[k] \in {"resolved", "waived"} => review'[k] = review[k]
ReplaysChangeNothing == [][Progress]_vars

(* A period closes only after every day it paid for, the paused ones given *)
(* back included, with no seat in reserve and no dispute pending.          *)
FullyServed ==
  \A p \in Purchases :
    period[p] = "open" /\ period'[p] = "closed" =>
      /\ endsAt'[p] <= day
      /\ endsAt'[p] = Terms[p].end
           + (IF pause[p].state = "unused" THEN 0 ELSE pause[p].to - pause[p].from)
      /\ Both(reserved[p]) = 0 /\ ~Blocked(p)
ClosesServed == [][FullyServed]_vars

-----------------------------------------------------------------------------
(* The ledger keeps the payment promise: seen through this mapping, every  *)
(* transaction asks, serves, drops, claims, ends or unwinds a purchase.    *)
Stage(p) ==
  IF period[p] # "none"
  THEN [open |-> "served", closed |-> "ended", reversed |-> "unwound"][period[p]]
  ELSE IF collection[p] # NoTx THEN "claimed"
  ELSE IF purchase[p] = "awaiting_payment" THEN "asked"
  ELSE IF purchase[p] = "absent" THEN "none"
  ELSE "dropped"

Promise == INSTANCE PaymentPromise WITH stage <- [p \in Purchases |-> Stage(p)]

(* A rider who asked to pay is served or let go, money taken without       *)
(* service is a claim forever, and a purchase let go is never served.      *)
PromiseKept == Promise!Spec

==============================================================================
