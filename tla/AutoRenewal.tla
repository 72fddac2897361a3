----------------------------- MODULE AutoRenewal -----------------------------
(***************************************************************************)
(* Renewing one paid period with a saved card.  A run of the worker        *)
(* (payments/auto-renewal.ts) reads the due renewals, then takes each      *)
(* through separate transactions: claim, checkout, last check, the charge  *)
(* itself (an HTTP request), and the follow-up that reads its outcome.     *)
(* Between any two of them the rider, another run (the schedule and Ops    *)
(* may start one each), the provider or a crash may come in.               *)
(*                                                                         *)
(* The purchases of the renewal are reduced to what the worker reads; what *)
(* they do to the ledger is PaymentLedger.                                 *)
(***************************************************************************)
EXTENDS Integers, FiniteSets

CONSTANTS
  Runs,          \* runs that may overlap
  EndDay,        \* the day the paid period ends and the renewal would start
  ChargeBefore,  \* CHARGE_BEFORE_DAYS (3 in the code)
  MaxTries,      \* bound: attempts (the schema allows 30)
  MaxCrashes     \* bound: runs that die

ASSUME RenewalAssumption ==
  /\ EndDay \in Nat /\ ChargeBefore \in Nat
  /\ MaxTries \in Nat \ {0} /\ MaxCrashes \in Nat

Tries == 1 .. MaxTries      \* attempt n has checkout key n, one purchase, one reference
NoPurchase == 0

VARIABLES
  day,       \* the clock
  enabled,   \* auto_renewal_preferences.enabled
  card,      \* a card is saved (card_authorizations.removed_at IS NULL)
  erased,    \* users.deleted_at
  held,      \* a pause or a payment block may move or freeze the end
  row,       \* the auto_renewals row
  aged,      \* its updated_at is more than ten minutes ago
  sale,      \* purchases.state of each attempt
  opened,    \* payment_attempts.created_at
  rival,     \* the rider's own purchase of the following days
  charge,    \* what the provider did with the reference of each attempt
  sentOn,    \* the day the charge was sent
  run,       \* where each run is, and what it holds in memory
  crashes

riderVars == <<enabled, card, erased, held, rival>>
vars == <<day, riderVars, row, aged, sale, opened, charge, sentOn, run, crashes>>

PENDING == {"scheduled", "failed"}   \* "reminded" only differs by the mail it sent
RowStates == PENDING \cup {"charging", "paid", "needs_offer", "lapsed", "cancelled"}

Rest == [at |-> "rest"]

Init ==
  /\ day = 0 /\ enabled = TRUE /\ card = TRUE /\ erased = FALSE /\ held = FALSE
  /\ row = [state |-> "scheduled", buys |-> NoPurchase, tries |-> 0, due |-> 0]
  /\ aged = FALSE
  /\ sale = [n \in Tries |-> "none"]
  /\ opened = [n \in Tries |-> 0]
  /\ rival = "none"
  /\ charge = [n \in Tries |-> "none"]
  /\ sentOn = [n \in Tries |-> 0]
  /\ run = [u \in Runs |-> Rest]
  /\ crashes = 0

-----------------------------------------------------------------------------
(* Helpers *)

Waiting == {n \in Tries : sale[n] = "awaiting_payment"}
Sold(n) == n \in Tries /\ sale[n] = "fulfilled"
Covered == rival = "fulfilled" \/ \E n \in Tries : Sold(n)

(* Every UPDATE of the row sets updated_at.                                *)
Write(new) == row' = new /\ aged' = FALSE
Mark(state, due) == Write([row EXCEPT !.state = state, !.due = due])
Keep == UNCHANGED <<row, aged>>

Go(u, where) == run' = [run EXCEPT ![u] = where]
Stop(u) == Go(u, Rest)
At(u, step) == run[u].at = step

(* RETRY is 23 hours after the time the run started: the next day's runs.   *)
RetryOn(today) == today + 1

-----------------------------------------------------------------------------
(* Time and the rider *)

(* A day passes.  No run lasts that long.                                  *)
Tick ==
  /\ day < EndDay /\ \A u \in Runs : At(u, "rest")
  /\ day' = day + 1
  /\ UNCHANGED <<riderVars, row, aged, sale, opened, charge, sentOn, run, crashes>>

(* Ten minutes pass.  No claim lasts that long: its transactions and the   *)
(* request time out in seconds.                                            *)
InClaim(u) == run[u].at \in {"claimed", "bought", "refused"}
Age ==
  /\ ~aged /\ \A u \in Runs : ~InClaim(u)
  /\ aged' = TRUE
  /\ UNCHANGED <<day, riderVars, row, sale, opened, charge, sentOn, run, crashes>>

TurnOn ==
  /\ ~erased /\ ~enabled
  /\ enabled' = TRUE
  /\ IF card /\ ~Covered /\ row.state = "cancelled" THEN Mark("scheduled", 0) ELSE Keep
  /\ UNCHANGED <<day, card, erased, held, rival, sale, opened, charge, sentOn, run, crashes>>

Cancelled == IF row.state \in PENDING THEN Mark("cancelled", 0) ELSE Keep

TurnOff ==
  /\ ~erased /\ enabled
  /\ enabled' = FALSE
  /\ Cancelled
  /\ UNCHANGED <<day, card, erased, held, rival, sale, opened, charge, sentOn, run, crashes>>

RemoveCard ==
  /\ ~erased /\ card
  /\ card' = FALSE /\ enabled' = FALSE
  /\ Cancelled
  /\ UNCHANGED <<day, erased, held, rival, sale, opened, charge, sentOn, run, crashes>>

EraseAccount ==
  /\ ~erased
  /\ erased' = TRUE /\ card' = FALSE /\ enabled' = FALSE
  /\ Cancelled
  /\ UNCHANGED <<day, held, rival, sale, opened, charge, sentOn, run, crashes>>

(* A personal pause is planned or settled, a dispute opens or ends.        *)
Hold ==
  /\ held' = ~held
  /\ UNCHANGED <<day, enabled, card, erased, rival, row, aged, sale, opened, charge, sentOn, run, crashes>>

(* The rider takes an Ops offer for the same days, pays it or lets it go.  *)
BuyElsewhere ==
  /\ ~erased
  /\ \/ rival = "none" /\ Waiting = {} /\ ~Covered /\ rival' = "awaiting_payment"
     \/ rival = "awaiting_payment" /\ rival' \in {"fulfilled", "none"}
  /\ UNCHANGED <<day, enabled, card, erased, held, row, aged, sale, opened, charge, sentOn, run, crashes>>

(* expireUnpaidOffers in any operation of the rider, once the days a       *)
(* renewal would buy have begun.                                           *)
Expire ==
  /\ ~erased /\ day >= EndDay /\ Waiting # {}
  /\ sale' = [n \in Tries |-> IF n \in Waiting THEN "failed" ELSE sale[n]]
  /\ UNCHANGED <<day, riderVars, row, aged, opened, charge, sentOn, run, crashes>>

-----------------------------------------------------------------------------
(* The provider, and its evidence *)

Collect(n) ==
  /\ charge[n] = "sent"
  /\ charge' = [charge EXCEPT ![n] = IF day < EndDay THEN "taken" ELSE "taken_late"]
  /\ UNCHANGED <<day, riderVars, row, aged, sale, opened, sentOn, run, crashes>>

Decline(n) ==
  /\ charge[n] = "sent"
  /\ charge' = [charge EXCEPT ![n] = "declined"]
  /\ UNCHANGED <<day, riderVars, row, aged, sale, opened, sentOn, run, crashes>>

(* Fulfilment tells the row, in its own transaction (purchaseSettled).     *)
Fulfil(n) ==
  /\ charge[n] = "taken" /\ sale[n] = "awaiting_payment" /\ ~erased
  /\ sale' = [sale EXCEPT ![n] = "fulfilled"]
  /\ IF row.buys = n THEN Mark("paid", 0) ELSE Keep
  /\ UNCHANGED <<day, riderVars, opened, charge, sentOn, run, crashes>>

(* A declined charge, or one that came too late for the coverage.          *)
Refuse(n) ==
  /\ sale[n] = "awaiting_payment"
  /\ charge[n] = "declined" \/ (charge[n] = "taken_late" /\ ~erased)
  /\ sale' = [sale EXCEPT ![n] = "failed"]
  /\ UNCHANGED <<day, riderVars, row, aged, opened, charge, sentOn, run, crashes>>

-----------------------------------------------------------------------------
(* A run *)

(* The first transaction sweeps paid and ended rows, then lists the due    *)
(* ones; the run keeps the row as it was then.                             *)
Due(r) ==
  /\ day < EndDay
  /\ \/ r.state = "charging"
     \/ r.state \in PENDING /\ day + ChargeBefore >= EndDay /\ r.due <= day

Scan(u) ==
  LET swept ==
        CASE Sold(row.buys) /\ row.state # "paid" -> [row EXCEPT !.state = "paid"]
          [] ~Sold(row.buys) /\ row.state \in PENDING \cup {"charging"} /\ day >= EndDay ->
               [row EXCEPT !.state = "lapsed"]
          [] OTHER -> row
  IN
  /\ At(u, "rest")
  /\ swept # row \/ Due(swept)
  /\ IF swept = row THEN Keep ELSE Write(swept)
  /\ IF Due(swept) THEN Go(u, [at |-> "listed", row |-> swept, today |-> day]) ELSE Stop(u)
  /\ UNCHANGED <<day, riderVars, sale, opened, charge, sentOn, crashes>>

Follows(r) == r.state = "charging" /\ r.buys # NoPurchase

(* Claimed by a run that stopped before recording its purchase.            *)
Resumable_Never == FALSE                       \* mutant: an interrupted claim stays claimed
Resumable_AtOnce == row.state = "charging" /\ row.buys = NoPurchase      \* mutant
Resumable == row.state = "charging" /\ row.buys = NoPurchase /\ aged

Claim(u) ==
  /\ At(u, "listed") /\ ~Follows(run[u].row)
  /\ IF row.state \notin PENDING /\ ~Resumable THEN Keep /\ Stop(u)
     ELSE IF ~enabled \/ ~card THEN Mark("cancelled", 0) /\ Stop(u)
     ELSE IF held THEN Keep /\ Stop(u)
     ELSE
       LET n == IF Resumable THEN row.tries ELSE row.tries + 1 IN
       \/ Mark("needs_offer", 0) /\ Stop(u)             \* fare or service changed
       \/ /\ n <= MaxTries
          /\ Write([state |-> "charging", buys |-> NoPurchase, tries |-> n, due |-> 0])
          /\ Go(u, [at |-> "claimed", n |-> n, today |-> run[u].today])
  /\ UNCHANGED <<day, riderVars, sale, opened, charge, sentOn, crashes>>

(* Why a new renewal purchase is refused: another purchase waits, the days *)
(* are covered, or the old period is paused or blocked, which is said first.*)
Refused_Waiting == Waiting # {} \/ held       \* mutant: an offer for the days is no matter
Refused == Waiting # {} \/ rival # "none" \/ Covered \/ held

(* The checkout: its key is the attempt, so a resumed attempt finds the    *)
(* purchase it made.  "today" is the time the run started.                 *)
Checkout(u) ==
  LET n == run[u].n
      today == run[u].today
      bought(state) == [at |-> "bought", n |-> n, state |-> state, today |-> today]
  IN
  /\ At(u, "claimed")
  /\ \/ /\ erased /\ Stop(u)                            \* 401 ends the whole run
        /\ UNCHANGED <<sale, opened>>
     \/ /\ ~erased /\ sale[n] # "none" /\ Go(u, bought(sale[n]))
        /\ UNCHANGED <<sale, opened>>
     \/ /\ ~erased /\ sale[n] = "none"
        /\ IF Refused
           THEN /\ Go(u, [at |-> "refused", n |-> n, today |-> today,
                          state |-> IF Covered /\ ~held THEN "cancelled" ELSE "failed"])
                /\ UNCHANGED <<sale, opened>>
           ELSE /\ sale' = [sale EXCEPT ![n] = "awaiting_payment"]
                /\ opened' = [opened EXCEPT ![n] = day]
                /\ Go(u, bought("awaiting_payment"))
  /\ UNCHANGED <<day, riderVars, row, aged, charge, sentOn, crashes>>

MarkRefused(u) ==
  /\ At(u, "refused")
  /\ Mark(run[u].state, IF run[u].state = "failed" THEN RetryOn(run[u].today) ELSE 0)
  /\ Stop(u)
  /\ UNCHANGED <<day, riderVars, sale, opened, charge, sentOn, crashes>>

(* The last check before money moves: the purchase is recorded, the        *)
(* consent is read again; the purchase itself is the one checkout returned. *)
Consent == enabled /\ card /\ ~erased

LastCheck(u) ==
  LET n == run[u].n
      waiting == run[u].state = "awaiting_payment"
      next(at) == Go(u, [at |-> at, n |-> n, today |-> run[u].today])
  IN
  /\ At(u, "bought")
  /\ Write([row EXCEPT !.buys = n, !.state = IF Consent THEN @ ELSE "cancelled"])
  /\ sale' = IF waiting /\ ~Consent THEN [sale EXCEPT ![n] = "cancelled"] ELSE sale
  /\ CASE waiting /\ Consent -> next("cleared")
       [] run[u].state = "fulfilled" -> next("follow")
       [] OTHER -> Stop(u)
  /\ UNCHANGED <<day, riderVars, opened, charge, sentOn, crashes>>

(* The request, which may or may not arrive; the provider takes one        *)
(* reference at most once.                                                 *)
Charge(u) ==
  LET n == run[u].n IN
  /\ At(u, "cleared")
  /\ \/ /\ charge[n] = "none"
        /\ charge' = [charge EXCEPT ![n] = "sent"]
        /\ sentOn' = [sentOn EXCEPT ![n] = day]
     \/ UNCHANGED <<charge, sentOn>>
  /\ Go(u, [at |-> "follow", n |-> n, today |-> run[u].today])
  /\ UNCHANGED <<day, riderVars, row, aged, sale, opened, crashes>>

FollowListed(u) ==
  /\ At(u, "listed") /\ Follows(run[u].row)
  /\ Go(u, [at |-> "follow", n |-> run[u].row.buys, today |-> run[u].today])
  /\ UNCHANGED <<day, riderVars, row, aged, sale, opened, charge, sentOn, crashes>>

(* readOutcome, after it asked the provider (the evidence of which is      *)
(* Fulfil or Refuse): paid, declined, unconfirmed for a day, or not yet.   *)
ReadOutcome(u) ==
  LET n == run[u].n
      tomorrow == RetryOn(run[u].today)
  IN
  /\ At(u, "follow")
  /\ CASE row.state = "paid" -> Keep /\ UNCHANGED sale
       [] row.state # "paid" /\ sale[n] = "fulfilled" -> Mark("paid", 0) /\ UNCHANGED sale
       [] row.state # "paid" /\ sale[n] \in {"failed", "cancelled"} ->
            Mark("failed", tomorrow) /\ UNCHANGED sale
       [] row.state # "paid" /\ sale[n] = "awaiting_payment" ->
            \/ Keep /\ UNCHANGED sale
            \/ /\ opened[n] < day
               /\ sale' = [sale EXCEPT ![n] = "failed"]
               /\ Mark("failed", tomorrow)
  /\ Stop(u)
  /\ UNCHANGED <<day, riderVars, opened, charge, sentOn, crashes>>

Crash(u) ==
  /\ ~At(u, "rest") /\ crashes < MaxCrashes
  /\ Stop(u)
  /\ crashes' = crashes + 1
  /\ UNCHANGED <<day, riderVars, row, aged, sale, opened, charge, sentOn>>

RunStep(u) ==
  \/ Scan(u) \/ Claim(u) \/ Checkout(u) \/ MarkRefused(u) \/ LastCheck(u) \/ Charge(u)
  \/ FollowListed(u) \/ ReadOutcome(u)

Rider ==
  TurnOn \/ TurnOff \/ RemoveCard \/ EraseAccount \/ Hold \/ BuyElsewhere \/ Expire

Next ==
  \/ Tick \/ Age \/ Rider
  \/ \E n \in Tries : Collect(n) \/ Decline(n) \/ Fulfil(n) \/ Refuse(n)
  \/ \E u \in Runs : RunStep(u) \/ Crash(u)

(* The worker is started every fifteen minutes, so ten minutes pass        *)
(* between two runs again and again; a run that does not die goes on.      *)
Spec == Init /\ [][Next]_vars /\ SF_vars(Age) /\ \A u \in Runs : WF_vars(RunStep(u))

-----------------------------------------------------------------------------

(* The row, the attempts and the runs are well typed; tries never exceed   *)
(* the attempts there are purchases for.                                   *)
TypeOK ==
  /\ day \in 0 .. EndDay /\ {enabled, card, erased, held, aged} \subseteq BOOLEAN
  /\ row \in [state : RowStates, buys : Tries \cup {NoPurchase}, tries : 0 .. MaxTries,
              due : 0 .. EndDay]
  /\ sale \in [Tries -> {"none", "awaiting_payment", "fulfilled", "failed", "cancelled"}]
  /\ opened \in [Tries -> 0 .. EndDay] /\ sentOn \in [Tries -> 0 .. EndDay]
  /\ rival \in {"none", "awaiting_payment", "fulfilled"}
  /\ charge \in [Tries -> {"none", "sent", "taken", "taken_late", "declined"}]
  /\ \A u \in Runs :
       run[u].at \in {"rest", "listed", "claimed", "refused", "bought", "cleared", "follow"}

(* A card is never charged for days the rider has paid for already, by an  *)
(* earlier attempt or by an offer, whichever runs and purchases race, as   *)
(* long as no run dies.                                                    *)
NeverChargedForPaidDays == [][
  \A n \in Tries : crashes = 0 /\ charge[n] = "none" /\ charge'[n] = "sent" => ~Covered]_vars

(* Nothing was sent to Paystack for a purchase that was withdrawn          *)
(* (auto-renewal.ts:756), whichever runs overlap or die, as long as none   *)
(* stalls for ten minutes.                                                 *)
WithdrawnWasNeverSent ==
  \A n \in Tries : sale[n] = "cancelled" => charge[n] = "none"

(* A claim is well typed in every run that holds it, and what was          *)
(* withdrawn was never sent.                                               *)
RenewalSafe == TypeOK /\ WithdrawnWasNeverSent

(* A claim whose run died before it recorded a purchase is taken up again  *)
(* or given up, unless a pause or a block comes first.                     *)
ClaimIsResumed ==
  (row.state = "charging" /\ row.buys = NoPurchase)
    ~> (row.state # "charging" \/ row.buys # NoPurchase \/ held)

(* "Unconfirmed for a day: the charge most likely never reached Paystack"  *)
(* (auto-renewal.ts:858): a charge that was sent and is not answered is    *)
(* given up, and the rider told to pay another way, only a day later.      *)
UnconfirmedForADay == [][
  \A n \in Tries :
    /\ day < EndDay /\ charge[n] = "sent"
    /\ sale[n] = "awaiting_payment" /\ sale'[n] = "failed"
    => sentOn[n] < day]_vars

==============================================================================
