--------------------------- MODULE RefundIntents ---------------------------
(***************************************************************************)
(* Refunds that operators ask for: RefundInitiation of payments/refunds.ts *)
(* for one purchase whose cash was collected.                              *)
(*                                                                         *)
(* A call commits the intent, then asks the provider once, then notes the  *)
(* answer: three steps, between which the process may die and other        *)
(* operators call.  The rider's row is locked by the first of them.  What  *)
(* the provider did comes back on its own way, as the refund facts that    *)
(* PaymentRecovery books, those of refunds made on the provider's pages    *)
(* among them.                                                             *)
(***************************************************************************)
EXTENDS Integers, Sequences, FiniteSetsExt

CONSTANTS
  Admins,       \* operators
  CallKeys,     \* Idempotency-Keys they may send
  Paid,         \* pesewas of payment_collections
  MaxRefunds    \* bound: refunds the provider makes

ASSUME RefundsAssumption == {Paid, MaxRefunds} \subseteq Nat

VARIABLES
  intent,    \* the row of refund_initiations
  request,   \* the call of an operator under way, or what the last one told
  made,      \* refunds of the provider in the order of their ids
  booked,    \* payment_refunds: the states booked so far, by id
  posts      \* requests sent to the provider so far

refundVars == <<intent, request, made, booked, posts>>

NoIntent == [state |-> "none", by |-> "none", key |-> "none", amount |-> 0, id |-> 0]
Untold == [step |-> "idle", told |-> "none", id |-> 0]
Told(row) == [step |-> "idle", told |-> row.state, id |-> row.id]
Committed == [step |-> "committed", told |-> "none", id |-> 0]
Answered(i) == [step |-> "answered", told |-> "none", id |-> i]

RefundsInit ==
  /\ intent = NoIntent /\ made = <<>> /\ posts = 0
  /\ booked = [i \in 1 .. MaxRefunds |-> "none"]
  /\ request = [o \in Admins |-> Untold]

Amounts(S) == MapThenSumSet(LAMBDA i : made[i].amount, S)
(* payment_refunds ... state<>'failed'                                     *)
Remaining == Paid - Amounts({i \in DOMAIN made : booked[i] = "pending"})

(* One row for a purchase: while there is one, a call is refused unless it *)
(* repeats the one that made it.                                           *)
Admitted(o, k, a) ==
  IF intent = NoIntent THEN a <= Remaining
  ELSE intent.by = o /\ intent.key = k /\ intent.amount = a

Asks_Repeated == TRUE                         \* mutant: a repeated call has its reference too
(* { row: old, reference: null }                                           *)
Asks == intent = NoIntent

-----------------------------------------------------------------------------

(* initiate, up to the commit of its transaction                           *)
Initiate(o, k, a) ==
  /\ request[o].step = "idle" /\ Admitted(o, k, a)
  /\ intent' = IF intent = NoIntent
               THEN [state |-> "submitting", by |-> o, key |-> k, amount |-> a, id |-> 0]
               ELSE intent
  /\ request' = [request EXCEPT ![o] = IF Asks THEN Committed ELSE Told(intent)]
  /\ UNCHANGED <<made, booked, posts>>

Make(a, ours) ==
  /\ Len(made) < MaxRefunds /\ a <= Paid - Amounts({i \in DOMAIN made : made[i].state = "pending"})
  /\ made' = Append(made, [amount |-> a, state |-> "pending", ours |-> ours])

(* The only request: the provider makes the refund or not, and its answer  *)
(* arrives or not.                                                         *)
Post(o) ==
  /\ request[o].step = "committed" /\ posts' = posts + 1
  /\ \/ /\ Make(intent.amount, TRUE)
        /\ \E i \in {0, Len(made')} : request' = [request EXCEPT ![o] = Answered(i)]
     \/ UNCHANGED made /\ request' = [request EXCEPT ![o] = Answered(0)]
  /\ UNCHANGED <<intent, booked>>

(* state='accepted' or 'unknown' WHERE state='submitting'                  *)
Noted(i) ==
  IF intent.state # "submitting" THEN intent
  ELSE [intent EXCEPT !.state = IF i = 0 THEN "unknown" ELSE "accepted", !.id = i]
Note(o) ==
  /\ request[o].step = "answered"
  /\ intent' = Noted(request[o].id)
  /\ request' = [request EXCEPT ![o] = Told(Noted(request[o].id))]
  /\ UNCHANGED <<made, booked, posts>>

(* The process dies, and the operator hears nothing.                       *)
Die(o) ==
  /\ request[o].step # "idle"
  /\ request' = [request EXCEPT ![o] = Untold]
  /\ UNCHANGED <<intent, made, booked, posts>>

-----------------------------------------------------------------------------
(* The provider                                                            *)

(* a refund asked for on its own pages                                     *)
MakeOther(a) == Make(a, FALSE) /\ UNCHANGED <<intent, request, booked, posts>>

FailRefund(i) ==
  /\ made[i].state = "pending" /\ made' = [made EXCEPT ![i].state = "failed"]
  /\ UNCHANGED <<intent, request, booked, posts>>

(* its fact arrives and is booked by PaymentRecovery                       *)
Book(i) ==
  /\ booked[i] # made[i].state /\ booked' = [booked EXCEPT ![i] = made[i].state]
  /\ UNCHANGED <<intent, request, made, posts>>

-----------------------------------------------------------------------------

RefundsNext ==
  \/ \E o \in Admins, a \in 1 .. Paid :
       (\E k \in CallKeys : Initiate(o, k, a)) \/ Post(o) \/ Note(o) \/ Die(o) \/ MakeOther(a)
  \/ \E i \in DOMAIN made : FailRefund(i) \/ Book(i)
RefundsSpec == RefundsInit /\ [][RefundsNext]_refundVars

-----------------------------------------------------------------------------

Steps == {"idle", "committed", "answered"}
States == {"none", "submitting", "accepted", "unknown"}
RefundsTypeOK ==
  /\ intent \in {NoIntent} \cup
       [state : States, by : Admins, key : CallKeys, amount : 1 .. Paid, id : 0 .. MaxRefunds]
  /\ request \in [Admins -> [step : Steps, told : States, id : 0 .. MaxRefunds]]
  /\ made \in Seq([amount : 1 .. Paid, state : {"pending", "failed"}, ours : BOOLEAN])
  /\ Len(made) <= MaxRefunds
  /\ booked \in [1 .. MaxRefunds -> {"none", "pending", "failed"}]
  /\ posts \in Nat

(* Whatever operators call, repeat and lose to crashes, the provider is    *)
(* asked once.                                                             *)
AskedOnce ==
  posts <= 1 /\ \A i, j \in DOMAIN made : made[i].ours /\ made[j].ours => i = j

(* An intent is accepted when the provider made that refund, and whoever   *)
(* was told so may rely on it.                                             *)
AcceptedWasMade ==
  /\ intent.state = "accepted" =>
       /\ intent.id \in DOMAIN made
       /\ made[intent.id].ours /\ made[intent.id].amount = intent.amount
  /\ \A o \in Admins : request[o].told \in {"accepted", "unknown"} =>
       request[o].told = intent.state /\ request[o].id = intent.id

(* The promises to whoever asks for a refund                               *)
RefundsSafe == RefundsTypeOK /\ AskedOnce /\ AcceptedWasMade
=============================================================================
