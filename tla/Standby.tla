------------------------------ MODULE Standby ------------------------------
(***************************************************************************)
(* The standby applications of one rider, the priced offer of each, and    *)
(* the purchases made from them (membership/standby.ts with the checkout   *)
(* of payments/foundation.ts and the triggers of 038 and 042).             *)
(*                                                                         *)
(* Accepting an offer takes three transactions with a call of the payment  *)
(* service between them; requests of one key or of several are under way   *)
(* at once, and each may end anywhere.                                     *)
(***************************************************************************)
EXTENDS Integers, Sequences

CONSTANTS
  Keys,              \* request keys; a phone repeats its own
  Requests,          \* acceptances handled at once
  MaxApplications,   \* bound: applications of the rider
  LastDay,           \* bound: the clock
  MaxOffer           \* how far ahead an offer may expire (seven days)

ASSUME StandbyAssumption == {MaxApplications, LastDay, MaxOffer} \subseteq Nat

VARIABLES
  today,
  verified,       \* whether the phone of the rider is verified
  erased,
  applications,   \* standby_applications, each with its offer
  sales,          \* purchases made from offers
  acceptance      \* requests under way

standbyVars == <<today, verified, erased, applications, sales, acceptance>>

NoKey == "none"
NoOffer == [state |-> "none", key |-> NoKey, expires |-> 0, sale |-> 0]
AppIdle == [step |-> "idle", key |-> NoKey, on |-> 0, sale |-> 0]

StandbyInit ==
  /\ today = 0 /\ verified = TRUE /\ erased = FALSE
  /\ applications = <<>> /\ sales = <<>>
  /\ acceptance = [r \in Requests |-> AppIdle]

Eligible == verified /\ ~erased
OpenStates == {"submitted", "offered", "checkout_open"}
OpenApplications == {a \in DOMAIN applications : applications[a].state \in OpenStates}
OfferOf(a) == applications[a].offer
Unresolved(s) == sales[s].state = "awaiting_payment"

(* complete_standby_checkout: purchases that end complete applications.    *)
SalesWith(ended, state) == [s \in DOMAIN sales |->
  IF s \in ended THEN [sales[s] EXCEPT !.state = state] ELSE sales[s]]
CompletingSale(ended) == [a \in DOMAIN applications |->
  IF OfferOf(a).sale \in ended /\ applications[a].state = "checkout_open"
  THEN [applications[a] EXCEPT !.state = "completed"] ELSE applications[a]]

(* expireUnpaidOffers, first thing in whatever the rider does              *)
Lapsed == {s \in DOMAIN sales : Unresolved(s) /\ OfferOf(sales[s].offer).expires <= today}

-----------------------------------------------------------------------------
(* The rider and Ops                                                       *)

DayPasses ==
  /\ today < LastDay /\ today' = today + 1
  /\ UNCHANGED <<verified, erased, applications, sales, acceptance>>

(* list, or a join while an application is open                            *)
Browse ==
  /\ ~erased
  /\ sales' = SalesWith(Lapsed, "failed") /\ applications' = CompletingSale(Lapsed)
  /\ UNCHANGED <<today, verified, erased, acceptance>>

Join ==
  LET kept == CompletingSale(Lapsed) IN
  /\ Eligible /\ Len(applications) < MaxApplications
  /\ \A a \in DOMAIN kept : kept[a].state \notin OpenStates
  /\ applications' = Append(kept, [state |-> "submitted", offer |-> NoOffer])
  /\ sales' = SalesWith(Lapsed, "failed")
  /\ UNCHANGED <<today, verified, erased, acceptance>>

Withdraw(a) ==
  /\ ~erased /\ applications[a].state \in {"submitted", "offered"}
  /\ OfferOf(a).state # "accepting"
  /\ applications' = [applications EXCEPT ![a].state = "withdrawn",
       ![a].offer.state = IF @ = "offered" THEN "cancelled" ELSE @]
  /\ UNCHANGED <<today, verified, erased, sales, acceptance>>

Offer(a, days) ==
  /\ applications[a].state = "submitted"
  /\ applications' = [applications EXCEPT ![a].state = "offered",
       ![a].offer = [NoOffer EXCEPT !.state = "offered", !.expires = today + days]]
  /\ UNCHANGED <<today, verified, erased, sales, acceptance>>

ChangePhone ==
  /\ ~erased /\ verified' = ~verified
  /\ UNCHANGED <<today, erased, applications, sales, acceptance>>

(* erase_standby_application *)
EraseRider ==
  /\ ~erased /\ erased' = TRUE
  /\ applications' = [a \in DOMAIN applications |->
       [state |-> IF applications[a].state \in {"submitted", "offered"} THEN "withdrawn"
                  ELSE applications[a].state,
        offer |-> [OfferOf(a) EXCEPT !.state = IF @ = "offered" THEN "cancelled" ELSE @]]]
  /\ UNCHANGED <<today, verified, sales, acceptance>>

-----------------------------------------------------------------------------
(* accept                                                                  *)

(* The first transaction locks the offer to the key of the request; the    *)
(* same key passes again.                                                  *)
Claim(r, a, key) ==
  /\ acceptance[r] = AppIdle /\ Eligible
  /\ \/ /\ applications[a].state = "offered" /\ OfferOf(a).state = "offered"
        /\ today < OfferOf(a).expires
        /\ applications' = [applications EXCEPT ![a].offer.state = "accepting",
                                                ![a].offer.key = key]
     \/ /\ OfferOf(a).state \in {"accepting", "checkout_open"} /\ OfferOf(a).key = key
        /\ UNCHANGED applications
  /\ acceptance' = [acceptance EXCEPT ![r] = [step |-> "claimed", key |-> key, on |-> a, sale |-> 0]]
  /\ UNCHANGED <<today, verified, erased, sales>>

SalesOf(key) == {s \in DOMAIN sales : sales[s].key = key}
Goes(r, step, sale) ==
  acceptance' = [acceptance EXCEPT ![r].step = step, ![r].sale = sale]

(* FinancialFoundation.checkout with an offer: the purchase of the key, or *)
(* a new one if the offer is still accepted by that key, in time, and no   *)
(* purchase of the rider is unresolved                                     *)
Buy(r) ==
  LET call == acceptance[r]
      a == call.on
      kept == SalesWith(Lapsed, "failed")
  IN
  /\ call.step = "claimed" /\ ~erased
  /\ IF SalesOf(call.key) # {}
     THEN /\ \E s \in SalesOf(call.key) : sales[s].offer = a /\ Goes(r, "bought", s)
          /\ sales' = kept /\ applications' = CompletingSale(Lapsed)
     ELSE /\ OfferOf(a).state = "accepting" /\ OfferOf(a).key = call.key
          /\ today < OfferOf(a).expires /\ verified
          /\ \A s \in DOMAIN kept : kept[s].state # "awaiting_payment"
          /\ sales' = Append(kept, [offer |-> a, key |-> call.key, state |-> "awaiting_payment"])
          /\ applications' = [CompletingSale(Lapsed) EXCEPT ![a].state = "checkout_open",
               ![a].offer.state = "checkout_open", ![a].offer.sale = Len(sales) + 1]
          /\ Goes(r, "bought", Len(sales) + 1)
  /\ UNCHANGED <<today, verified, erased>>

(* The offer, the session, the coverage, the membership or the timetable   *)
(* has changed, or the key is too old: nothing is written.                 *)
Refuse(r) ==
  /\ acceptance[r].step = "claimed" /\ Goes(r, "refused", 0)
  /\ UNCHANGED <<today, verified, erased, applications, sales>>

(* The definite refusal unlocks the offer.                                 *)
Release(r) ==
  LET call == acceptance[r] offer == OfferOf(call.on) IN
  /\ call.step = "refused"
  /\ applications' =
       IF offer.state = "accepting" /\ offer.key = call.key /\ offer.sale = 0
       THEN [applications EXCEPT ![call.on].offer.state = "offered", ![call.on].offer.key = NoKey]
       ELSE applications
  /\ acceptance' = [acceptance EXCEPT ![r] = AppIdle]
  /\ UNCHANGED <<today, verified, erased, sales>>

Recorded_Open(s) == "checkout_open"    \* mutant: the purchase may have ended meanwhile
Recorded(s) == IF Unresolved(s) THEN "checkout_open" ELSE "completed"

(* The last transaction; refused, it changes nothing.                      *)
Record(r) ==
  LET call == acceptance[r] offer == OfferOf(call.on) IN
  /\ call.step = "bought" /\ Eligible
  /\ offer.key = call.key /\ offer.sale \in {0, call.sale}
  /\ applications' = [applications EXCEPT ![call.on] =
       [state |-> Recorded(call.sale),
        offer |-> [offer EXCEPT !.state = "checkout_open", !.sale = call.sale]]]
  /\ acceptance' = [acceptance EXCEPT ![r] = AppIdle]
  /\ UNCHANGED <<today, verified, erased, sales>>

(* A crash, a provider that is down, a refusal at the end                  *)
Drop(r) ==
  /\ acceptance[r] # AppIdle /\ acceptance' = [acceptance EXCEPT ![r] = AppIdle]
  /\ UNCHANGED <<today, verified, erased, applications, sales>>

(* What the workers make of the payment                                    *)
Settle(s, outcome) ==
  /\ Unresolved(s) /\ sales' = SalesWith({s}, outcome) /\ applications' = CompletingSale({s})
  /\ UNCHANGED <<today, verified, erased, acceptance>>

-----------------------------------------------------------------------------

StandbyNext ==
  \/ DayPasses \/ Browse \/ Join \/ ChangePhone \/ EraseRider
  \/ \E a \in DOMAIN applications : \/ Withdraw(a) \/ \E days \in 1 .. MaxOffer : Offer(a, days)
                                    \/ \E r \in Requests, key \in Keys : Claim(r, a, key)
  \/ \E r \in Requests : Buy(r) \/ Refuse(r) \/ Release(r) \/ Record(r) \/ Drop(r)
  \/ \E s \in DOMAIN sales, outcome \in {"fulfilled", "failed"} : Settle(s, outcome)
StandbySpec == StandbyInit /\ [][StandbyNext]_standbyVars

-----------------------------------------------------------------------------

Application == [state : OpenStates \cup {"withdrawn", "completed"},
                offer : [state : {"none", "offered", "accepting", "checkout_open", "cancelled"},
                         key : Keys \cup {NoKey}, expires : Nat, sale : Nat]]
StandbyTypeOK ==
  /\ today \in 0 .. LastDay /\ verified \in BOOLEAN /\ erased \in BOOLEAN
  /\ applications \in Seq(Application) /\ Len(applications) <= MaxApplications
  /\ sales \in Seq([offer : Nat, key : Keys, state : {"awaiting_payment", "fulfilled", "failed"}])
  /\ acceptance \in [Requests -> [step : {"idle", "claimed", "refused", "bought"},
                                  key : Keys \cup {NoKey}, on : Nat, sale : Nat]]

(* A purchase and the offer it was made from name each other and carry the *)
(* same key; its application is open for checkout exactly as long as the   *)
(* purchase is unresolved, and completed after.  A rider has one open      *)
(* application and one unresolved purchase at most, whichever acceptances, *)
(* retries, refusals, expiries, payments and withdrawals cross.            *)
OfferHonoured ==
  /\ \A a, b \in OpenApplications : a = b
  /\ \A s, t \in DOMAIN sales : Unresolved(s) /\ Unresolved(t) => s = t
  /\ \A s \in DOMAIN sales :
       LET a == sales[s].offer IN
       /\ OfferOf(a).state = "checkout_open" /\ OfferOf(a).sale = s
       /\ OfferOf(a).key = sales[s].key
       /\ applications[a].state = IF Unresolved(s) THEN "checkout_open" ELSE "completed"
  /\ \A a \in DOMAIN applications :
       OfferOf(a).state = "checkout_open" => OfferOf(a).sale \in DOMAIN sales

(* The promise to a rider who was offered a price, over states of the      *)
(* expected shape                                                          *)
StandbySafe == StandbyTypeOK /\ OfferHonoured
=============================================================================
