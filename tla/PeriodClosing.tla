---------------------------- MODULE PeriodClosing ----------------------------
(***************************************************************************)
(* The period part of the payments job: closeEndedPeriods lists the open   *)
(* periods that ended, in the order they ended, and closes them one by     *)
(* one, each in a transaction of its own that starts by locking its rider. *)
(* The list is read once, without locks, so riders, operators and a second *)
(* run (the Ops command beside the schedule) change the periods under it.  *)
(* What a closure does to the ledger is PaymentLedger!ClosePeriod; here    *)
(* each rider has one period and what matters is who is reached.           *)
(***************************************************************************)
EXTENDS Integers, SequencesExt

CONSTANTS
  Riders,      \* one open period each
  EndsAt,      \* billing_periods.effective_ends_at of each rider's period
  Id,          \* billing_periods.id, the second key of the order
  Closers,     \* runs that may overlap
  Limit,       \* periods a run lists at most (100 in the code)
  Malformed,   \* periods whose closure throws an unexpected error, always
  Disputed,    \* bound: periods a dispute or an unsettled seat may block
  Erasable,    \* bound: riders who may erase their account
  Horizon      \* bound: the last day of the clock

ASSUME ClosingAssumption ==
  /\ Horizon \in Nat /\ Limit \in Nat \ {0}
  /\ EndsAt \in [Riders -> 0 .. Horizon]
  /\ Id \in [Riders -> Nat] /\ \A r, s \in Riders : Id[r] = Id[s] => r = s
  /\ Malformed \subseteq Riders /\ Disputed \subseteq Riders /\ Erasable \subseteq Riders

VARIABLES
  today,
  gone,        \* riders whose users.deleted_at is set
  blocked,     \* riders whose period funds something unsettled
  periodState, \* billing_periods.state
  closures,    \* period_closures rows written for the period
  batch        \* what a run still has to do, in order; "off" is no run

closingVars == <<today, gone, blocked, periodState, closures, batch>>

Off == <<"off">>

ClosingInit ==
  /\ today = 0 /\ gone = {} /\ blocked = {}
  /\ periodState = [r \in Riders |-> "open"]
  /\ closures = [r \in Riders |-> 0]
  /\ batch = [run \in Closers |-> Off]

-----------------------------------------------------------------------------

NextDay ==
  /\ today < Horizon
  /\ today' = today + 1
  /\ UNCHANGED <<gone, blocked, periodState, closures, batch>>

(* Erasing an account does not touch its billing periods.                  *)
Erase(r) ==
  /\ r \in Erasable \ gone
  /\ gone' = gone \cup {r}
  /\ UNCHANGED <<today, blocked, periodState, closures, batch>>

(* A dispute opens or gets its verdict, a seat is reserved or settled.     *)
Block(r) ==
  /\ r \in Disputed \ blocked /\ periodState[r] = "open"
  /\ blocked' = blocked \cup {r}
  /\ UNCHANGED <<today, gone, periodState, closures, batch>>

Unblock(r) ==
  /\ r \in blocked
  /\ blocked' = blocked \ {r}
  /\ UNCHANGED <<today, gone, periodState, closures, batch>>

HasEnded(r) == EndsAt[r] <= today

(* closeOne re-reads the period under the lock.                            *)
StillOpen_Listed(r) == TRUE               \* mutant: the list is trusted
StillOpen(r) == periodState[r] = "open"

CloseOne(r) ==
  /\ periodState' = [periodState EXCEPT ![r] = "closed"]
  /\ closures' = [closures EXCEPT ![r] = @ + 1]

(* A checkout closes the ended period of its own rider, or fails.          *)
CheckoutOwn(r) ==
  /\ r \notin gone /\ r \notin Malformed \cup blocked /\ HasEnded(r) /\ periodState[r] = "open"
  /\ CloseOne(r)
  /\ UNCHANGED <<today, gone, blocked, batch>>

-----------------------------------------------------------------------------
(* The run *)

EndedBefore(r, s) == EndsAt[r] < EndsAt[s] \/ (EndsAt[r] = EndsAt[s] /\ Id[r] < Id[s])

Listed ==
  LET rows == SetToSortSeq({r \in Riders : periodState[r] = "open" /\ HasEnded(r)}, EndedBefore)
  IN  SubSeq(rows, 1, IF Len(rows) < Limit THEN Len(rows) ELSE Limit)

Start(run) ==
  /\ batch[run] = Off
  /\ batch' = [batch EXCEPT ![run] = Listed]
  /\ UNCHANGED <<today, gone, blocked, periodState, closures>>

(* The lock of an erased rider fails with 401, which closeEndedPeriods     *)
(* takes for the loss of its own authority and rethrows; every other       *)
(* failure of one period is counted and the run goes on.                   *)
Aborts_Blocked(r) == r \in gone \cup blocked      \* mutant: so does a blocked period
Aborts(r) == r \in gone

Abort(run) ==
  /\ batch[run] \notin {Off, <<>>} /\ Aborts(Head(batch[run]))
  /\ batch' = [batch EXCEPT ![run] = Off]
  /\ UNCHANGED <<today, gone, blocked, periodState, closures>>

CloseNext(run) ==
  /\ batch[run] \notin {Off, <<>>}
  /\ LET r == Head(batch[run]) IN
       /\ ~Aborts(r)
       /\ IF StillOpen(r) /\ r \notin Malformed \cup blocked
          THEN CloseOne(r)
          ELSE UNCHANGED <<periodState, closures>>
  /\ batch' = [batch EXCEPT ![run] = Tail(@)]
  /\ UNCHANGED <<today, gone, blocked>>

Finish(run) ==
  /\ batch[run] = <<>>
  /\ batch' = [batch EXCEPT ![run] = Off]
  /\ UNCHANGED <<today, gone, blocked, periodState, closures>>

CloserStep(run) == Start(run) \/ Abort(run) \/ CloseNext(run) \/ Finish(run)

ClosingNext ==
  \/ NextDay
  \/ \E r \in Riders : Erase(r) \/ Block(r) \/ Unblock(r) \/ CheckoutOwn(r)
  \/ \E run \in Closers : CloserStep(run)

(* The scheduler starts the job every fifteen minutes, after a failed run  *)
(* too.  Nobody has to buy again, and no dispute has to end.               *)
ClosingSpec == ClosingInit /\ [][ClosingNext]_closingVars /\ \A run \in Closers : WF_closingVars(CloserStep(run))

-----------------------------------------------------------------------------

ClosingTypeOK ==
  /\ today \in 0 .. Horizon
  /\ gone \subseteq Erasable /\ blocked \subseteq Disputed /\ DOMAIN batch = Closers
  /\ periodState \in [Riders -> {"open", "closed"}]
  /\ closures \in [Riders -> Nat]

(* However many runs and checkouts listed a period before one of them      *)
(* closed it, its unused rides become credit once.                         *)
ConvertedOnce == \A r \in Riders : closures[r] = IF periodState[r] = "closed" THEN 1 ELSE 0

(* What every run may rely on when it takes up a period it listed: the     *)
(* periods are well typed and nothing was converted twice.                 *)
ClosingSafe == ClosingTypeOK /\ ConvertedOnce

(* A period that ended and has nothing left to settle is closed, whatever  *)
(* is wrong with the periods of other riders.                              *)
EndedPeriodsClose ==
  \A r \in Riders \ Malformed :
    (HasEnded(r) /\ periodState[r] = "open" /\ r \notin gone \cup blocked)
      ~> (periodState[r] = "closed" \/ r \in gone \cup blocked)

==============================================================================
