--------------------------- MODULE MCPaymentLedger ---------------------------
(* Small instances of PaymentLedger.  Days are counted from 0; a price of 4 *)
(* with a minimum charge of 2 leaves 2 to pay by credit, which is what one  *)
(* unused package of two rides converts to.                                 *)
EXTENDS PaymentLedger, TLC

CONSTANTS a, b, c, t1, t2, t3, r1, r2, r3, d1, d2

BothWays(n) == [d \in Direction |-> n]
Package(start, end, renews) ==
  [price |-> 4, rides |-> BothWays(1), rate |-> BothWays(1),
   expires |-> start, start |-> start, end |-> end, renews |-> renews]

Charge(row, p, tx, paidAt) ==
  [kind |-> "success", row |-> row, ref |-> p, portion |-> "full", tx |-> tx,
   paidAt |-> paidAt]
Failed(row, p) == [kind |-> "failure", row |-> row, ref |-> p, portion |-> "full"]
Refund(row, p, r, state, portion) ==
  [kind |-> "refund", row |-> row, ref |-> p, portion |-> portion, id |-> r, state |-> state]
Dispute(row, p, d, state, resolution, portion) ==
  [kind |-> "dispute", row |-> row, ref |-> p, portion |-> portion, id |-> d,
   state |-> state, resolution |-> resolution]

NoDecisions == {}

(* Two packages with a free day between them.  Each may be paid in time,    *)
(* paid late, declined, or reported under another one's transaction.        *)
TwoOffers == a :> Package(1, 2, NoPurchase) @@ b :> Package(3, 4, NoPurchase)
OfferEvents ==
  {Charge(1, a, t1, 0), Charge(2, a, t1, 1), Failed(3, a),
   Charge(4, b, t2, 2), Charge(5, b, t1, 2), Failed(6, b),
   [Charge(7, b, t2, 2) EXCEPT !.portion = "part"]}

(* A package, its renewal for the day it ends, and a second renewal that    *)
(* fits only when a pause moved that end.                                   *)
Renewals ==
  a :> Package(1, 3, NoPurchase) @@ b :> Package(3, 4, a) @@ c :> Package(4, 5, a)
RenewalEvents ==
  {Charge(1, a, t1, 0), Charge(2, b, t2, 2), Charge(3, b, t2, 3), Failed(4, b),
   Charge(5, c, t3, 3)}

(* The first package is refunded in two parts, before or after its unused  *)
(* rides became credit and that credit paid for the second one.            *)
RefundEvents ==
  {Charge(1, a, t1, 0), Charge(2, b, t2, 2), Charge(3, a, t1, 1),
   Refund(5, a, r1, "processed", "part"), Refund(6, a, r1, "pending", "part"),
   Refund(7, a, r2, "processed", "rest"), Refund(8, b, r3, "processed", "full")}

(* Two disputes of one purchase, with or without coverage, against a       *)
(* refund in two parts, and the reviews an operator may close meanwhile.   *)
OnePackage == a :> Package(1, 2, NoPurchase)
DisputeEvents ==
  {Charge(1, a, t1, 0), Charge(2, a, t1, 1),
   Dispute(3, a, d1, "created", "none", "part"),
   Dispute(4, a, d1, "resolved", "merchant-accepted", "part"),
   Dispute(5, a, d1, "resolved", "declined", "part"),
   Dispute(6, a, d2, "reminded", "none", "full"),
   Dispute(7, a, d2, "resolved", "merchant-accepted", "rest"),
   Refund(8, a, r1, "processed", "part"), Refund(9, a, r2, "failed", "rest"),
   Refund(10, a, r2, "processed", "rest")}
DisputeDecisions == {<<"dispute_progress", d1>>, <<"refund_progress", r2>>}
==============================================================================
