---------------------------- MODULE MCPaymentInbox ----------------------------
(* One package of one ride, its charge reported by webhook and by answers,  *)
(* an answer that the payment was abandoned, a refund that may overtake the *)
(* charge, and a second transaction for the same attempt.                   *)
EXTENDS PaymentInbox, TLC

CONSTANTS a, t1, t2, r1, w1

OneRide ==
  a :> [price |-> 4, rides |-> "outbound" :> 1 @@ "return" :> 0,
        rate |-> "outbound" :> 1 @@ "return" :> 1,
        expires |-> 1, start |-> 1, end |-> 2, renews |-> NoPurchase]

Charge(row, tx, paidAt) ==
  [kind |-> "success", row |-> row, ref |-> a, portion |-> "full", tx |-> tx,
   paidAt |-> paidAt]

PaidAnswers == {Charge(1, t1, 0), Charge(2, t1, 1)}
Abandoned == [kind |-> "failure", row |-> 3, ref |-> a, portion |-> "full"]
AnswerRows == PaidAnswers \cup {Abandoned}
WebhookRows ==
  {Charge(4, t2, 0),
   [kind |-> "refund", row |-> 5, ref |-> a, portion |-> "full", id |-> r1,
    state |-> "processed"]}
Rows == AnswerRows \cup WebhookRows

NoDecisions == {}
==============================================================================
