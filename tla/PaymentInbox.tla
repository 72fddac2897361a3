----------------------------- MODULE PaymentInbox -----------------------------
(***************************************************************************)
(* How provider evidence reaches the ledger.  The provider takes money     *)
(* whenever the rider pays; what it says about that arrives as webhooks    *)
(* (lost, late, repeated) or as answers to a question (Verify), and every  *)
(* piece is first a row of the durable inbox app.payment_events.  Workers  *)
(* (the process that received the webhook, the scheduled job, an Ops       *)
(* command) race for the rows: processing one is a transaction, recording  *)
(* that it failed is another, and a process may die in between.            *)
(***************************************************************************)
EXTENDS PaymentLedger

CONSTANTS
  Answers,       \* the evidence that is an answer to Verify; the rest are webhooks
  Workers,       \* processes that work on the inbox
  MaxAttempts,   \* failed attempts after which a row is given up (10 in the code)
  MaxFaults      \* bound: transient database errors and crashes of workers

ASSUME InboxAssumption ==
  /\ Answers \subseteq Events
  /\ MaxAttempts \in Nat \ {0} /\ MaxFaults \in Nat

VARIABLES
  taken,       \* the day the provider took the money, Never before (external)
  inbox,       \* payment_events.state
  attempts,    \* payment_events.attempts
  answers,     \* answers of the provider held in memory, not stored yet
  failing,     \* per worker: the failure it has to record, at most one
  faults       \* errors and crashes so far

inboxVars == <<taken, inbox, attempts, answers, failing, faults>>

Never == LastDay + 1
Failures == [row : Events, conflict : BOOLEAN]

InboxInit ==
  /\ Init
  /\ taken = [p \in Purchases |-> Never]
  /\ inbox = [e \in Events |-> "absent"]
  /\ attempts = [e \in Events |-> 0]
  /\ answers = {}
  /\ failing = [w \in Workers |-> {}]
  /\ faults = 0

-----------------------------------------------------------------------------
(* The provider *)

(* The payment page stays open at the provider after the purchase lapsed   *)
(* here, and after an answer called the payment abandoned.                 *)
Pay(p) ==
  /\ attempt[p] # "none" /\ taken[p] = Never
  /\ taken' = [taken EXCEPT ![p] = day]
  /\ UNCHANGED <<vars, inbox, attempts, answers, failing, faults>>

(* What the provider may say now.                                          *)
Truthful(e) ==
  /\ attempt[e.ref] # "none"
  /\ CASE e.kind = "success" -> taken[e.ref] = e.paidAt
       [] e.kind \in {"failure", "unresolved"} -> taken[e.ref] = Never
       [] OTHER -> taken[e.ref] # Never

-----------------------------------------------------------------------------
(* The inbox *)

(* enqueue: one row per environment, source and payload, ON CONFLICT DO    *)
(* NOTHING; a repeated delivery finds the row that is there.               *)
Enqueued(e) == [inbox EXCEPT ![e] = IF @ = "absent" THEN "ready" ELSE @]

(* acceptWebhook, once the signature is valid.  A webhook that never       *)
(* arrives is this action never taken.                                     *)
AcceptWebhook(e) ==
  /\ e \notin Answers /\ inbox[e] = "absent" /\ Truthful(e)
  /\ inbox' = Enqueued(e)
  /\ UNCHANGED <<vars, taken, attempts, answers, failing, faults>>

(* reconcile and settleReference ask outside of any transaction, ...       *)
Reconcilable_Waiting(p) == Waiting(p)     \* mutant: lapsed purchases are not asked about
Reconcilable(p) == attempt[p] = "pending"
Verify(e) ==
  /\ e \in Answers \ answers /\ Reconcilable(e.ref) /\ Truthful(e)
  /\ answers' = answers \cup {e}
  /\ UNCHANGED <<vars, taken, inbox, attempts, failing, faults>>

(* ... and store the answer in one of its own, however old it is by then.  *)
StoreAnswer(e) ==
  /\ e \in answers
  /\ answers' = answers \ {e}
  /\ inbox' = Enqueued(e)
  /\ UNCHANGED <<vars, taken, attempts, failing, faults>>

(* Evidence that is acknowledged without an effect: the charge that was    *)
(* fulfilled already, a failure of an attempt that is over, "not yet".     *)
Silent_Early(e) ==                        \* mutant: a refund before its charge is dropped
  /\ Known(e) /\ AmountFits(e)
  /\ \/ Success(e) /\ ~deleted /\ ~Waiting(e.ref) /\ ~NotPending(e.ref)
     \/ e.kind = "failure" /\ attempt[e.ref] # "pending"
     \/ e.kind = "unresolved"
     \/ e.kind \in {"refund", "dispute"} /\ ~Collected(e.ref)
Silent(e) ==
  /\ Known(e) /\ AmountFits(e)
  /\ \/ Success(e) /\ ~deleted /\ ~Waiting(e.ref) /\ ~NotPending(e.ref)
     \/ e.kind = "failure" /\ attempt[e.ref] # "pending"
     \/ e.kind = "unresolved"

Escalates(e) ==
  LateSuccess(e) \/ RefuseLate(e) \/ AccountUnavailable(e) \/ ProviderConflict(e)
Applies(e) ==
  FulfilPurchase(e) \/ SettleFailure(e) \/ RefundProgress(e) \/ DisputeProgress(e)
    \/ (Silent(e) /\ UNCHANGED vars)

(* process: the effect and the acknowledgement commit together.  The row   *)
(* is locked with SKIP LOCKED, so one process at a time is in there.       *)
Process(e) ==
  /\ inbox[e] = "ready"
  /\ \/ Applies(e) /\ inbox' = [inbox EXCEPT ![e] = "processed"]
     \/ Escalates(e) /\ inbox' = [inbox EXCEPT ![e] = "quarantined"]
  /\ UNCHANGED <<taken, attempts, answers, failing, faults>>

(* The transaction throws and rolls back: a conflicting transaction id, a  *)
(* refund or dispute whose charge was not seen yet, or a row the schema    *)
(* refuses.                                                                *)
Rejected(e) == ~Silent(e) /\ ~ENABLED Settle(e)
RollBack(w, e) ==
  /\ failing[w] = {} /\ inbox[e] = "ready" /\ Rejected(e)
  /\ failing' = [failing EXCEPT ![w] =
       {[row |-> e, conflict |-> e.kind = "success" /\ TxConflict(e)]}]
  /\ UNCHANGED <<vars, taken, inbox, attempts, answers, faults>>

(* Any transaction may also fail for no reason of its own.                 *)
DatabaseError(w, e) ==
  /\ failing[w] = {} /\ inbox[e] = "ready" /\ faults < MaxFaults
  /\ failing' = [failing EXCEPT ![w] = {[row |-> e, conflict |-> FALSE]}]
  /\ faults' = faults + 1
  /\ UNCHANGED <<vars, taken, inbox, attempts, answers>>

(* The second transaction of a failure.  Another worker may have processed *)
(* the row since the rollback: then its outcome stands.                    *)
StillReady_Assumed(e) == TRUE             \* mutant: no look at the row's state
StillReady(e) == inbox[e] = "ready"
GivesUp(n) == n >= MaxAttempts - 1
RecordFailure(w) ==
  /\ \E f \in failing[w] :
       IF StillReady(f.row)
       THEN /\ attempts' = [attempts EXCEPT ![f.row] = @ + 1]
            /\ inbox' = [inbox EXCEPT ![f.row] =
                 IF f.conflict \/ GivesUp(attempts[f.row])
                 THEN "quarantined" ELSE "ready"]
       ELSE UNCHANGED <<attempts, inbox>>
  /\ failing' = [failing EXCEPT ![w] = {}]
  /\ UNCHANGED <<vars, taken, answers, faults>>

(* A process dies: what it held in memory is gone.                         *)
Crash ==
  /\ faults < MaxFaults
  /\ \/ \E e \in answers : answers' = answers \ {e} /\ UNCHANGED failing
     \/ \E w \in Workers :
          /\ failing[w] # {}
          /\ failing' = [failing EXCEPT ![w] = {}]
          /\ UNCHANGED answers
  /\ faults' = faults + 1
  /\ UNCHANGED <<vars, taken, inbox, attempts>>

(* Everything else that changes the ledger.                                *)
Elsewhere ==
  /\ \/ Tick \/ ExpireOffers \/ SettleDuePauses \/ EraseAccount
     \/ \E p \in Purchases :
          \/ \E useCredit \in BOOLEAN : Checkout(p, useCredit)
          \/ ClosePeriod(p) \/ Use(p) \/ WithdrawRenewal(p) \/ GiveUpRenewal(p)
     \/ \E k \in OpsDecides, decision \in {"resolved", "waived"} : Decide(k, decision)
  /\ UNCHANGED inboxVars

InboxNext ==
  \/ \E p \in Purchases : Pay(p)
  \/ \E e \in Events : AcceptWebhook(e) \/ Verify(e) \/ StoreAnswer(e) \/ Process(e)
  \/ \E w \in Workers :
       RecordFailure(w) \/ \E e \in Events : RollBack(w, e) \/ DatabaseError(w, e)
  \/ Crash
  \/ Elsewhere

allVars == <<vars, inboxVars>>

(* The payments job runs every fifteen minutes for ever: it tries every    *)
(* ready row and asks about every pending attempt.  Nothing forces the     *)
(* provider to deliver a webhook, or the rider to do anything.             *)
Fairness ==
  \A e \in Events :
    WF_allVars(Process(e)) /\ WF_allVars(Verify(e)) /\ WF_allVars(StoreAnswer(e))

InboxSpec == InboxInit /\ [][InboxNext]_allVars /\ Fairness

-----------------------------------------------------------------------------

(* The inbox and what its workers hold are well typed; in particular no    *)
(* row is tried more often than the code allows.                           *)
InboxTypeOK ==
  /\ taken \in [Purchases -> 0 .. Never]
  /\ inbox \in [Events -> {"absent", "ready", "processed", "quarantined"}]
  /\ attempts \in [Events -> 0 .. MaxAttempts]
  /\ answers \subseteq Answers
  /\ failing \in [Workers -> SUBSET Failures] /\ \A w \in Workers : Cardinality(failing[w]) <= 1
  /\ faults \in 0 .. MaxFaults

(* An acknowledged row promises that its effect is in the ledger: no error *)
(* path, early arrival or race acknowledges evidence it did not apply.     *)
ProcessedIsApplied ==
  \A e \in Events :
    inbox[e] = "processed" =>
      CASE e.kind = "success" -> purchase[e.ref] = "fulfilled" /\ attemptTx[e.ref] = e.tx
        [] e.kind = "failure" -> attempt[e.ref] # "pending"
        [] e.kind = "unresolved" -> TRUE
        [] e.kind = "refund" -> RefundRank[refund[e.id].state] >= RefundRank[e.state]
        [] e.kind = "dispute" -> DisputeRank[dispute[e.id].state] >= DisputeRank[e.state]

(* No row is tried beyond the limit, and none is acknowledged early.       *)
InboxSafe == InboxTypeOK /\ ProcessedIsApplied

(* The outcome of a row is final: a worker that failed on a row another    *)
(* worker finished meanwhile does not put it back, or the guard trigger of *)
(* payment_events would refuse its bookkeeping.                            *)
OutcomesStand == [][
  \A e \in Events :
    inbox[e] \in {"processed", "quarantined"} =>
      inbox'[e] = inbox[e] /\ attempts'[e] = attempts[e]]_allVars

(* Money the provider took is found without any webhook, also when the     *)
(* purchase lapsed or the account was erased before, as long as the        *)
(* attempt has no verdict yet and the database fails less often than a     *)
(* row may be tried.                                                       *)
PaidIsFound ==
  \A p \in Purchases :
    (taken[p] # Never /\ attempt[p] = "pending")
      ~> (collection[p] # NoTx \/ attempt[p] # "pending")

==============================================================================
