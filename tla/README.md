# TLA+ models of the TROTXI mobility core

TROTXI sells commuters packages of rides in advance, reserves their seats, boards
them and settles what was not ridden as Ride Credit. This directory holds TLA+
models of that program (`src/services/api-next`), the TLC configurations that check
them and the TLAPS proofs about them. Paths below are relative to
`src/services/api-next/src/` unless they say otherwise.

The models cover the part of the system where a mistake costs a rider money
(payments, coverage, credit, provider evidence, card renewals), the seats that this
money buys (decisions, asks, defaults, boarding, sweeps, change requests, standby
offers), who may sign in and operate, and the machinery around them: sessions, account
erasure and restored databases, the outboxes, the scheduler and the offline positions of a driver. What is
left out is listed below with its reason or the plan for it.

## Inventory

The backend is one Fastify API in TypeScript and one worker program, both over
PostgreSQL. Every handler is a transaction that locks the rows it needs, the rider's
row first, and leaves a receipt under an idempotency key; a failed handler rolls back
whole. Concurrency is therefore between transactions, never inside one, and the hard
cases lie where one operation takes *several* transactions, calls a provider between
them, or reads a list once and works through it later.

| Component | State it keeps | Operations | Hard behaviour | What makes it correct |
| --- | --- | --- | --- | --- |
| Purchases, coverage, credit (`payments/foundation.ts`, `offer-expiry.ts`) | purchases, attempts, credit holds and entries, billing periods, closures | checkout, expire, fulfil, refuse late, close | one unresolved purchase per rider; late money; ends that move | credit covered, coverage paid for, no money unaccounted, no day sold twice |
| Refunds, disputes, reviews (`payments/recovery.ts`) | refunds, disputes, access blocks, reversals, reviews | apply a fact, reverse, block, release, decide | facts repeated, reordered, partial | coverage ends exactly at full refund; blocks follow verdicts; decisions stand |
| Payment inbox (`payments/recovery.ts`) | payment_events | accept webhook, verify, reconcile, process, record failure | lost webhooks, crashes, racing workers | acknowledged is applied; outcomes stand; paid is found |
| Period closing run (`payments/recovery.ts`) | none of its own | list ended periods, close each | overlapping runs, one bad period | each converted once; ended periods close |
| Card auto-renewal (`payments/auto-renewal.ts`) | auto_renewals, preferences, saved cards | on, off, remove card, run | five steps, a card charge between them | no charge for paid days or for withdrawn purchases; claims resumed |
| Prices and terms (`payments/pricing.ts`, `terms.ts`, `membership/offer-terms.ts`) | price versions, frozen terms | quote, publish, freeze | rounding, rate per direction | frozen terms decide; conversions never exceed the price |
| Purchase API, refund initiation, retention | receipts, refund_initiations | list, start a refund, redact | one request to the provider, never two | at most one refund per intent |
| Membership (`membership/service.ts`) | assignments, slots, reservations, personal and account pauses, change requests | reserve, release, ask, default, pause, resume, request, decide | capacity, service-day cut-off, pause against renewal | seats within capacity and balance |
| Standby and offers (`membership/standby.ts`) | standby requests, offers | join, offer, accept, expire | the same slot offered twice | an offer is taken once |
| Boarding (`boarding/`) | proofs, commands, ride charges | issue, scan, code, no-show, correct | scan against no-show sweep | one ride per reservation |
| Transport (`transport/`) | catalog versions, schedules, trips, fleet, driver assignments | publish, generate, assign, start, finish, cancel | trip changes against reservations | one driver and vehicle at a time |
| GPS (`transport/gps.ts`) | positions, traces, holds, learned speeds | record, hold, learn, purge | late uploads, purge against hold | held evidence survives |
| Authentication (`auth/`) | sessions, refresh credentials, identities, challenges, driver credentials, passkeys, invitations | sign in, refresh, revoke, elevate, invite | refresh reuse, codes and links that outlive what they were for, the last superadmin | a consumed credential works once; a number and an address are one rider's; somebody manages the team |
| Accounts and erasure (`account/`) | users, erasures, avatars, journal | rename, avatar, erase, external cleanup, restore | erasure against everything; restored snapshot | an erased account stays erased |
| Notifications (`notifications/`) | inbox, email, SMS and push outboxes | enqueue, claim, send, retry | duplicate and lost delivery | sent is not resent; due is sent |
| Scheduler, maintenance, admission (`runtime/`) | maintenance runs, rate windows | tick, drain, audit, admit | lost lock, at-least-once | a due slot runs again until it succeeds |
| Configuration (`config/`) | versions | publish | concurrent edit | one winner |
| HTTP, composition, observability, migrations | none | | | |
| Mobile clients (`apps/trotxi_client`, `apps/trotxi_driver/lib/data`) | tokens, a checkout in progress, queued positions | refresh, resume checkout, enqueue and flush positions | lost answers, app restarts, account switch | one refresh in flight; a fix is kept until its receipt |
| Ops console, app screens, generated clients, maps, infrastructure | caches | | | never establish payment or entitlement |

How they interact. A paid checkout is fulfilled by payment evidence, which opens a
billing period and asks membership for the commute assignment. Boarding charges rides
to the period; membership releases seats; both decide whether a period may close.
Closing converts unused rides to credit that later checkouts hold. The auto-renewal
run calls checkout, then Paystack, then the inbox. Erasure revokes sessions, removes
cards, cancels renewals and releases seats. The worker calls the services as any
client does; nothing prevents an Ops command from running beside the schedule.

`PROJECT.json` lists the hazards at the lines where they bite, with the properties
that cover them or the reason none does yet.

## Modules

| Module | Models | Checked by |
| --- | --- | --- |
| `PaymentLedger` | purchases, credit, coverage, refunds, disputes, reviews of one rider | `ledger_*` |
| `PaymentPromise` | what a purchase promises a rider, the abstract specification | `PromiseKept` in `ledger_refunds` |
| `PaymentInbox` | the inbox, its workers and the provider; extends `PaymentLedger` | `inbox` |
| `PeriodClosing` | runs of `closeEndedPeriods` over several riders | `access`, `period_closing_erased` |
| `AutoRenewal` | a renewal run for one period | `auto_renewal*` |
| `Reservations` | seats of a direction: rider, ask, defaults, boarding, no-shows, pauses, trips, vehicles | `reservation*` |
| `DaySweeps` | the daily runs of the defaults and the no-show catch-up; extends `Reservations` | `reservation*` |
| `CommuteChanges` | change requests, commute slots, the account pause, renewals meanwhile | `services` |
| `Standby` | standby applications, priced offers and their acceptance | `services` |
| `Sessions` | driver sign-in, refresh rotation, PIN and suspension; the phone's token store | `services` |
| `ErasureRecovery` | erasure with its journal, fence, restore, replay, promotion | `services` |
| `Delivery` | SMS, mail and push outboxes with several drains | `services` |
| `Scheduler` | the advisory lock, due slots, passes and backlog of the sweeps | `services` |
| `TripPositions` | the driver's position queue, the server's positions, the end of a trip | `services` |
| `PhoneCodes` | codes by SMS, the number of an account, registration by phone | `access` |
| `EmailAccess` | email links, passwords, their sessions and the purge | `access` |
| `OperatorAccess` | invitations, superadmins, passkeys and sessions of the Ops team | `access` |
| `RefundIntents` | the one refund request an operator makes of a purchase | `access` |
| `PaymentLedger_Proofs` | theorems: money, collections, rides, days, the promise | TLAPS |
| `PaymentLedger_Evidence_Proofs` | theorems: refunds, disputes, the sum of credit, the inbox | TLAPS |
| `FiniteSums` | lemmas about sums over finite sets, which the two rest on | TLAPS |
| `Operations_Proofs` | theorems: `PeriodClosing`, `RefundIntents`, `Scheduler`, `AutoRenewal` | TLAPS |
| `Reservations_Proofs` | theorems: `Reservations`, `DaySweeps` | TLAPS |
| `Membership_Proofs` | theorems: `CommuteChanges`, `Standby` | TLAPS |
| `Accounts_Proofs` | theorems: `ErasureRecovery`, `Sessions`, `Delivery`, `TripPositions` | TLAPS |
| `Access_Proofs` | theorems: `PhoneCodes`, `EmailAccess`, `OperatorAccess` | TLAPS |
| `MC*` | the constants of the runs | |

### PaymentLedger

One variable per column that later decisions read, as a function of the purchase,
refund, dispute or review. One action is one transaction. That is what the code's lock
order gives: `lock` takes the rider's row before anything else, so two transactions of
one rider never interleave. A refused operation rolls back and is a disabled action.

* `Checkout(p, useCredit)` is `checkout` whole: settle due pauses, expire unpaid
  offers, close the ended period and convert it, check the slot and the renewal, hold
  credit, create the purchase and its attempt.
* `Settle(e)` dispatches one provider row as `process` does: collect and fulfil, refuse
  late, record for review, fail, progress a refund or a dispute. Rows may be applied in
  any order and any number of times, which is weaker than what the inbox allows, so
  the safety results do not rest on delivery order.
* `ClosePeriod`, `SettleDuePauses`, `ExpireOffers`, `EraseAccount`, `WithdrawRenewal`,
  `GiveUpRenewal`, `Decide` are the other writers of these tables; `Reserve`,
  `ReleaseSeat`, `ChargeRide`, `PlanPause`, `ResumePause` are what membership and
  boarding do to them, with the guards closing depends on and no others.

A provider amount is a portion (part, rest, full, over) of what was asked, since the
code only compares and adds them. Days stand for times. Ids, hashes, receipts, wording
and currency are left out. One purchase has one attempt, as an attempt is never
repeated under one purchase in this code. The sum of held credit is read as the one hold
there can be; that there is one at most is `SingleUnresolved` with `HoldFollowsPurchase`,
checked and proved.

`TermsAssumption` says of frozen terms what `buildOfferTerms` ensures: a price of at
least the minimum charge, an expiry no later than the start, at least one day.

### PaymentPromise

A purchase is asked for, then served or dropped; service ends or is unwound by full
refund; money that arrives for a dropped purchase is a claim. `Stage` maps the tables
to that, and `PromiseKept` says every transaction is a step of it: a purchase let go is
never served later, a claim never disappears, unwound service never resumes.

### PaymentInbox

Adds what lies before the ledger: when the provider took the money, rows with their
state and count of attempts, answers held in memory, a worker that has rolled back and
has not yet recorded its failure. `Process` applies a row and its outcome in one
transaction; `RollBack` and `RecordFailure` are two, and a crash may fall between. The
provider is external: it answers truthfully for the moment it is asked, and an answer
may be stored late.

### PeriodClosing

Several riders with one period each, listed once without locks and closed one by one.
`CloseOne` re-reads the period under its rider's lock. A rider may check out meanwhile,
a dispute may come and go, a second run may work through the same list.

### AutoRenewal

A run is at one of seven places: at rest, with a list, with a claim, refused, with a
purchase, past its last check, following up. Each is a separate transaction or request
in `renew`. The rider, the provider and the other run come in between any two. The row
is `{state, buys, tries, due}`; attempt *n* has its own checkout key, purchase and
reference, as in the code. What a purchase does to the ledger is `PaymentLedger`.

### Reservations

One row per rider and service day of one direction, with its charge; the trip and the
bus of the day; the period with its end and its pause. `Refusal` is the whole guard of
`reserve` and of its triggers in the order in which they speak, because the defaults
decide by the first reason they meet. `Confirm`, `AskOne` and `DefaultOne` call it as the
rider, the ask and the defaults do; `Charge` is the command of the driver, which
`Board`, `MarkNoShow` and the sweep share. A batch lists riders and takes each in a
transaction that believes nothing of the list, so `AskOne`, `DefaultOne` and `MarkNoShow`
may come at any later moment. Half days are the clock: one for the evening in which the
ask and the departure of the model lie. Ops can move a departure by up to a day, past the
midnight that ends its service day and past the catch-up that follows.

### DaySweeps

When the runs come, and for how long. The defaults of a day and the catch-up of its no-shows
have one `slot` each: `done` once a run of it succeeded (`due` finds `completed`), the riders
that the run at work has yet to take (`left`), and whether it has failed so far. `StartRun`
lists riders as the query of the batch does, today's asks or the past departures of
yesterday, and nobody is added later. `TakeOne` reads the rider's row again and then is
`DefaultOne` or `MarkNoShow`, or passes the rider over. `BreakRun` loses the rest of a run, and
a failed or broken run leaves the slot due. The job of the other direction shares the slot and
may fail it. The sweep of 23:30 has a slot of its own on which nothing rests; what it does is
the `MarkNoShow` of `Reservations`. The lock and full batches are in `Scheduler`.

### CommuteChanges

The open request of each rider with its slot, the slot of the current assignment, the
account pause and the renewal that is waiting or paid. Periods come and go as the ledger
lets them. `EndCommute` is what closing, reversal and erasure share.

### Standby

The acceptance of an offer is `Claim`, `Buy` and `Record`, each a transaction of its own,
with `Refuse` and `Release` on the way back and `Drop` wherever a request may end.
Several requests run at once under the same key or another. Payments, expiry, erasure
and withdrawal come in between.

### Sessions

The server's side is one action per call (the row of the user is locked); the phone's
side is send, handle, read, each way may be lost, and the store compares generation and
token before it saves or clears as `ScopedTokenStore` does. PINs are version numbers, so
typing an older number is typing an old PIN.

### ErasureRecovery

The journal is one object replaced on condition of the version read, so a revision
stands for its etag. `Begin...` reads it, the second half writes or commits, and either
may be lost with the transaction rolled back. Each database has its control row, which a
restore copies with the rest; a backend may serve when `MayServe`.

### Delivery

An outbox row goes through claim, the transaction that locks the user and reads again,
the provider's call, and the record of the answer; a drain may die between any two. The
provider of SMS has no memory; that of mail forgets its keys after a day; a push may
come twice.

### Scheduler

Two replicas and the two groups that sweep the no-shows of one day. `Cut` drops the
database session and the lock with it while the replica works on; `Notice` is when it
hears of it. A pass settles a batch; a batch that is full and not settled is a backlog,
which is a failed run.

### TripPositions

The publisher is single-threaded, so an action is what lies between two awaits. `Bind` and
`BindSaves` are two actions because the storage is cleared in between. The server's
verdict on a fix is `Verdict`, in the order of the code.

### PhoneCodes

A row of `codes` is a challenge; `holder` is the phone identity a number signs in to,
`verified` the number an account proved. Every transaction locks the number, then the
account, so each is one action; `NoteSms` is the update after the gateway answered, which
may come when the code is over. The code remembers whose number it was when it was asked
for, which only the properties read.

### EmailAccess

Passwords are hashed and checked outside every lock, so completing a link, signing in and
changing the password are a snapshot (`Read...`) and a transaction that decides on what it
finds. A password is the version of the credential it was set for: that tells apart what
the properties need. A link carries the address it was mailed to.

### OperatorAccess

All team commands, claims, passkey ceremonies and erasures take the team lock first. A
session (`shifts`) keeps the rights its operator had when it was opened, which only the
invariant reads, and how old its passkey check is: moments, a shift, more.

### RefundIntents

A call commits the intent, asks Paystack, notes the answer: `Initiate`, `Post`, `Note`,
with a crash between any two. The provider may make the refund and its answer be lost; its
facts come back as `Book`.

### MCServices and MCAccess

The seven modules from `CommuteChanges` to `TripPositions`, and the four above with
`PeriodClosing`, share no state, or only state
that no modelled step of another one changes, so checking them side by side asks nothing
that one after the other does not. `MCServices` and `MCAccess` pick the part in the initial state (`focus`)
and keep the others at rest; the `VIEW` of the first tells apart only the part that moves.
Each part has one property, the conjunction of what its promises are, and `PeriodClosing` its
liveness as well. `InboxSafe`, `RenewalSafe` and `SeatsSafe` join type and safety in the same way.

## Runs

| Run | Asks | Bounds |
| --- | --- | --- |
| `ledger_offers` | two offers of one rider, each paid, unpaid, late, declined or misreported | 2 purchases, 7 rows, days 0..4, one pause of a day |
| `ledger_renewals` | dates sold ahead against ends that move | 3 purchases (2 renewals), 5 rows, days 0..5, a pause of two days |
| `ledger_refunds` | refunds in parts against credit already spent | 2 purchases, 3 refunds, 7 rows, days 0..3 |
| `ledger_disputes` | two disputes against two refunds and operators | 1 purchase, 10 rows, days 0..3 |
| `inbox` | delivery, retries, racing recorders, crash | 1 purchase, 5 rows, 2 attempts, 1 fault |
| `period_closing_erased` | overlapping closing runs, an erased rider not the last | violation, see below |
| `auto_renewal` | two runs, two attempts, the rider and an offer, a run that dies anywhere | 2 runs, days 0..2, 1 crash |
| `auto_renewal_unconfirmed` | the clock of giving up | violation, see below |
| `reservations` | two riders and one bus through a day, or one rider through two days, with batches at any time; the daily runs, for one rider | 1 or 2 seats, 1 ride each, half days 1..4 or 1..5, 2 edits or reversals |
| `reservation_defaults` | the same, every ask is settled | violation, see below |
| `services` | the seven parts of `MCServices`, one at a time | see below |
| `access` | the five parts of `MCAccess`, one at a time | see below |

Why these bounds are enough to meet the cases. Two purchases are the fewest where credit
moves from one to the next and where a transaction can be claimed for the wrong one; a
third is needed only when two renewals compete for days. Prices are 4 with a minimum
charge of 2, and a package converts to 2, so credit can pay exactly what it may and
held credit can be in the way of a claw-back. Two refunds make a whole, so order
matters. The clock reaches the end of the last coverage, except in `ledger_refunds`, where
only the first one has to end. Two attempts
at the inbox reach the limit with one retry. A list limit of 3 for 4 periods makes one
wait for the next run. Two tries of a renewal show the first abandoned and the second
charged; a day is more than the 23 hours of `RETRY`.

`reservations` has one ride per rider and one or two seats, so capacity and balance bind
at the second decision; the second day exists only for one rider at a time, which is what
keeps the run short and is enough to reserve the last ride for another day after the ask.
A pause is planned for two days, so that it can be shortened to one and settled in time.
Where the slots of `DaySweeps` are at work there is one rider: the plain one, with one day and
one edit of it, or the offered one, with two days that Ops leaves alone. The clock stops at the
second noon (`Noon`), after the defaults of both days and in the time of the first catch-up.
That is enough for a run that breaks, one that fails and is started again, an ask and a
departure that come too late for their run, and a vehicle taken away from an ask.

`services`, by part. Sessions: one phone, two sign-ins, one rotation, one order about the
account; two sessions are the fewest in which a late refusal can clear the newer one.
Erasure: two database names, two accounts, four writes of the journal, which is a first
fence and promotion with erasures around them. Standby: two keys, two requests, two
applications, three days. Commute: two riders who want one slot. Delivery: one message and
two drains; a second message does not meet the first, as every rule is about one row.
Scheduler: three seats of which one departs late and one is refused, batches of two, so
that a full batch, a backlog and a late departure all happen. Positions: two fixes and a
queue of two.

`access`, by part. Codes: two numbers, three accounts of which one joined by Google, two codes
of two tries; a third account is what an old code would make, and two codes are the fewest in
which a newer one ends the older. Email: two owners, one by phone, two addresses, two calls at
once, three versions and one session; two calls are the fewest in which
one decides on a snapshot the other outdated. Team: two people, two operators, invitations,
mailings and sessions, so that an operator can be promoted and dismissed and an invitation can
be claimed by a link of the version before; superadmins who demote each other need a third
session, and a changed address against a sign-in a second call that opens one, for which
`TeamIsSafe` and `AddressesAreSafe` stand. Refunds: two operators, two keys, two pesewas, two
refunds. Closing: four riders, two runs, lists of three.

`CHECK_DEADLOCK FALSE` is in every configuration because clocks, days and provider
evidence are finite: a rider with nothing left to do is a legitimate end.

Every property of a passing run has a mutant, a plausible slip in a mapped definition
(the `*_Suffix` operators in the modules), under which TLC finds it violated.

### Fairness

The ledger has none: its properties are safety. In `PaymentInbox`, the payments job
runs every fifteen minutes for ever (`runtime/job-schedule.ts`,
`docs/operations/job-scheduler.md`), so processing, verification and storing an answer
are weakly fair; webhooks, riders and crashes are not. In `PeriodClosing`, the job is
started again after a failed run too. In `AutoRenewal`, a run that does not die goes
on, and ten minutes pass between two runs again and again (strong fairness of `Age`,
which overlapping runs may disable for a while). In `DaySweeps`, a slot that is due
is started (`StartRun` is weakly fair: every tick looks, and retries after five minutes), a run at
work comes to each rider it listed (`TakeOne`), and runs do not break for ever. No fairness
outlives the first success of a slot or its day, so `EveryDaySettles` speaks of the asks and past
departures that a slot still to run finds. It promises nothing about an ask dispatched after the
defaults of its day succeeded or a departure moved past the catch-up, which the code never
takes, and it excuses a slot whose time went by without a success. Riders, drivers and Ops owe
nothing. The seven parts of
`services`, and the parts of `access` but for `PeriodClosing`, are checked for safety only.

## Proofs

Every invariant, action property and refinement of the passing runs is also a theorem, for
all values of the constants that meet the assumptions of the modules. Only the four liveness
properties are not; see the end of this section. Each proof is an induction over the
next-state relation with one lemma per action. What follows says which invariant each one
needs and why the property alone is not inductive.

### The ledger (`PaymentLedger_Proofs`)

* `TypeCorrect`: the type invariant.
* `MoneyIsSound`: `SingleUnresolved`, `HoldFollowsPurchase` and `CreditCovered`.
  They hold only together. That held credit is covered needs to know that only one
  purchase can hold any, so that `Held` is the contribution of that purchase or nothing;
  that needs expiry to free the slot and the hold in one step; and a hold must be tied to
  the state of its purchase for the capture at fulfilment to be the very credit that was
  held. A reversal takes back no more than is available, which leaves exactly what is held.
* `CollectionsAreSound`: `CoverageIsPaid` and `CollectedIsAccounted`. The two are inductive
  together, on top of the type invariant: an attempt becomes successful only in the step
  that stores its collection, and the check for another transaction is made in that step.
* `OneUnresolvedPurchase`, `HoldsEndWithPurchases` and `CoverageIsAlwaysPaid` state the parts
  of these that the runs check by name.
* `ReplaysAreHarmless` (`ReplaysChangeNothing`) needs the types only: each handler compares
  ranks before it writes.
* `RidesAreConserved` (`RidesConserved`), by `PeriodInv`: what a period is before, while and
  after it is open. Closing and reversing subtract what was converted or removed before, so
  the balance is only kept if a period that is not yet reversed has no reversal, one that is
  not closed no conversion, and one that is over no ride and no seat.
* `DaysAreSoldOnce`, `PausesCanSettle` and `ClosesAreServed`, by `CalendarInv`. Dates are
  compared at checkout, but a pause settles and a payment arrives later. `DaysInv` therefore
  counts the days that planned pauses will give back (`FinalEnd`) and the purchases that still
  wait; `PauseInv` ties the end of a period to its terms and its pause.
* `NoUpdateIsRejected` (`NoRejectedUpdate`), by all of the above and `SaleInv`: an absent
  purchase left no trace, a waiting one has its attempt pending. No handler tries a transition
  that a trigger of the schema refuses.
* `PromiseIsKept` (`PromiseKept`): the ledger implements `PaymentPromise`. The initial states map to
  initial states, and each transaction maps to a step of the promise or to a stutter, by the
  conjunction `LedgerInv` of the invariants above.

### Evidence and credit (`PaymentLedger_Evidence_Proofs`, `FiniteSums`)

* `RefundsEndCoverage`, `DisputesHoldCoverage`, `PaidBackDisputesRelease`, by `EvidenceInv`.
  They need each other and two facts about rows: refunds and disputes are of purchases whose
  money was collected, and a dispute has a block exactly if there is a period. Without
  them a purchase could be fulfilled while its refunds are already known, and would be covered and
  paid back at once.
* `CreditIsAccounted` (`CreditAddsUp`): the balance is the sum over all purchases of what each
  converted, captured, restored and took back.
* `InboxUsesLedger`: every step of the inbox and its workers is a transaction of the ledger or
  leaves it alone (`InboxSpec => Spec`). So each theorem about the ledger holds under the inbox.
* `AcknowledgedIsApplied` (`InboxSafe`) and `RowOutcomesStand` (`OutcomesStand`), by `InboxInv`:
  a row that may be tried has a try left (`TriesLeft`); a successful attempt was fulfilled or
  refused by name (`Verdicts`), so that the success acknowledged in silence is the one that
  was fulfilled; and an acknowledged row is what the ledger says or older (`Applied`).

The sums are over the rows of one rider. `MapThenSumSet` is a recursive function on subsets,
and the induction theorems of the library take an operator as a parameter, which the provers
cannot instantiate. `FiniteSums` does the induction as a choice: of the subsets a statement
fails for, take a smallest one and refute it. It gives the empty sum, one element split off,
one row updated, and a part bounded by the whole.

### Workers and operators (`Operations_Proofs`)

* `EveryPeriodConvertedOnce` (`ClosingSafe`), for any riders, runs and limits; the invariant
  is inductive once the state of the other riders is typed.
* `RefundsAskedOnce` (`RefundsSafe`), by `OneAsker`: the call that committed the intent is the
  only one between its three steps, and while it has not asked the provider nobody has.
* `SweepsAreComplete` (`SchedulerSafe`). A replica whose session is up holds the lock (`Holds`); the
  catch-up of a day is listed only when the day is over (`Todo`), so no departure is still to
  come; and a run ends well only when nothing that can be settled was left (`Running`,
  `Honest`).
* `WithdrawalsAreClean` (`RenewalSafe`) and `PaidDaysAreNotCharged` (`NeverChargedForPaidDays`),
  by `RenewalInv`. Which run may charge which attempt is nowhere locked. It follows from the
  row, whose tries and purchase only ever name a newer attempt (`Past`), and from the ten minutes
  that no claim lasts: a run that may still charge an attempt is the only one (`OneRunEach`), finds it
  uncharged and not withdrawn (`Taken`), and what was charged or withdrawn is never claimed
  again (`Sent`). The second theorem needs `Unbroken` as well: as long as no run died, an attempt that
  is about to be charged still waits for its money (`Fresh`) and is in the row or in the hands
  of a run (`Recorded`). A death loses exactly this, which is the second finding below.

### Reservations (`Reservations_Proofs`)

`SeatsStayFunded` (`SeatsSafe`), `RidersNeverOverbook` (`OnlyEditsOverbook`) and `AnswersStand`
(`AnswersAndChargesStand`), by `SeatsInv`. It adds that what is boarded or missed is what was
charged, without which a correction could charge a ride that another seat counts on, and that
a pause does not end before it begins. The count of seats against the rides left is an argument about
cardinalities: a decision takes one ride that is free, a reversal frees the seats in the same
transaction.

`SweepsUseSeats` shows that each step of `DaySweeps` is a step of `Reservations` or leaves its
variables alone, so the three hold of the daily runs too.

### Commutes and offers (`Membership_Proofs`)

* `CommutesAreKept` (`CommuteSafe`) needs that an approval is what holds a slot (`Held`).
* `OffersAreHonoured` (`StandbySafe`) needs that an offer at checkout names its sale and back
  (`Links`), and what a request remembers between its three transactions (`Remembered`): the
  application it locked and the purchase it made, of the same key.

### Accounts, messages and positions (`Accounts_Proofs`)

`DeletionSurvivesRestore`, that is `ErasureSafe`, is about databases that may serve, and it is
not inductive: a database that may not serve yet can be promoted. The
invariant `Authority` says where the authority lies and what each process still knows.
Until the first database has a journal, every deletion is closed in it and nothing else may
serve; from then on every deletion is in the journal, the journal names an existing database
with the identity of its writer, and a database that the journal names has closed all that
was deleted. What a step of the tool has read is the journal of today or an older one whose
conditional write fails. An erasure under way holds the shared lock, so its database still
is the writer and its entry is in the journal when it commits. With these, a promotion, which
compares the journal with what was replayed, hands the authority to a database that has it all.

`SessionsAreSafe` (`SessionsSafe`). The invariant `SessionsInv` adds that every credential on a
phone, in a request or in an answer was issued by the server; that an answer still says the
truth when it is read (`AnswersStand`: a rotated credential is consumed, a denied one is dead);
and that a sign-in which is still fresh belongs to a driver who wants to be signed in. The
server only moves forward (`Forward`), so a credential once consumed, ended or expired never
becomes usable again: that is why an answer may be as late as it likes.

`MessagesAreTrue` (`DeliverySafe`). An SMS belongs to the one drain that claimed it and has not been
sent before that drain sends it (`TextedOnce`). A mail may be claimed again; it goes out
once because the provider knows its key since a moment no earlier than the first claim, and the ceiling
that counts from that claim is inside the provider's window (`MailedOnce`). A drain that is sending
holds the lock of the driver (`OneSender`), so what it read is still so (`SendersHold`).

`NoFixIsLost` (`PositionsSafe`). While the app binds its queue the storage may be cleared, so the
promise that a fix is kept holds by the queue in memory for that while (`WholeWhileBinding`);
an open app has saved what it knows (`OpenToWork`); a receipt that was read is true
(`ReceiptHolds`); and nothing moves but what was captured (`OnlyCaptured`).

### Access (`Access_Proofs`)

* `NumbersAreSafe` (`PhonesSafe`) needs that a live code asked for while the number was an
  account's would still open that account (`HeldStands`): a number changes hands only in steps
  that end its codes.
* `AddressesAreSafe` (`EmailSafe`). A link and what a call read are for the credential as it
  is or for an earlier version (`LinkFits`, `ReadingFits`), and a session is not from before
  the current password (`EntryFits`). `Standing` ties a password to its version and a verified address
  to a password and a living account.
* `TeamIsSafe` (`OperatorsSafe`). A pending operator is never a superadmin and not the founder
  (`Rights`); each session has the rights its operator has now (`ShiftsFit`); one person has one
  open invitation, and one that was answered names its account (`Invitations`).

### Assumptions

A constant is assumed to be what the code makes it, and TLC evaluates each assumption on every
run. Those the proofs brought in:

* The sets that are counted or summed over are finite: the rows of one rider
  (`RowsAssumption`), riders and days (`ReservationsAssumption`), the seats of a sweep
  (`SchedulerAssumption`). Tables are finite.
* The values that stand for NULL (`NoSlot`, `None`, `NoBus`, `NoAccount`, `NoNumber`,
  `NoAddress`, "nobody") are not among the values they are the absence of.
* `Ceiling <= Window`: mail is retried for 23 hours and the provider keeps a key for 24
  (`notifications/email.ts:561`). Were it otherwise, a mail could come twice.
* `MaxMailings` is at least one, as an invitation is mailed when it is made, and the clock of
  `Reservations` moves at least once.

### What the proofs changed

`PromiseIsKept` needs `Stage` to be an ordered choice, because its cases overlap: when the account
was erased in between, money is recorded for a purchase that still waits, and that is a claim. `Reservations` let an initial state use up any number of edits, so its type invariant
was not invariant for every constant. That nothing is sent for a withdrawn renewal was first
stated for runs that do not die; the invariant showed that the condition is not needed, and
`RenewalSafe` now states it without.

### Model-checked only

`PaidIsFound`, `ClaimIsResumed`, `EveryDaySettles` and `EndedPeriodsClose` are liveness under
fairness, which the proof system does not reach. They rest on TLC and the bounds above. The
properties of the three runs that expect a violation do not hold, so there is nothing to prove.

## Findings

* `period_closing_erased`. `closeEndedPeriods` rethrows every authorization failure, and
  the lock of an erased rider fails with 401 as well. An erased rider with an open ended
  period stops every run at that period; the worker never closes those behind it. A test
  says "one malformed close cannot abort another rider"
  (`tests/payment-recovery.pg.test.ts:738`). The passing run `access` lets only
  the rider whose period ends last erase the account, which keeps the rest checkable.
* `auto_renewal_unconfirmed`. A charge is given up as "unconfirmed for a day" by the age
  of the attempt, which is made at checkout. An attempt taken up a day after its checkout
  is charged and given up in one run, while the charge just sent may still collect.
  With a crash and two runs the same clock lets one run give up an attempt that another
  is about to charge, and the card is charged for days paid elsewhere; that is one cause, so
  it is not a second finding, and `NeverChargedForPaidDays` speaks of runs that do not die.
* `reservation_defaults`. The defaults turn the refusals of two lists into an outcome and
  leave an ask pending on any other. `journey_rides_exhausted`, which a rider with a priced
  offer gets when the last ride of the direction was reserved for another day after the
  ask, is in neither list: each run counts it as failed, and the ask outlives its day. The
  operation is documented as "settle unanswered requests"
  (`docs/features/reservations.md:14`). `EveryDaySettles` leaves the asks of such riders out.

## What is not modelled

In the modelled parts: prices other than as numbers; receipts under idempotency keys,
because a repeated key changes nothing (except in `Standby`, where keys are the point);
saving a new card and its sealing; the reminder mail; the redaction of raw evidence. The
two directions of a commute are independent but for the rides of an offer, so one is
modelled. A claim of the renewal run is assumed not to last ten minutes, because its
statements and requests time out within seconds (`Age`); a run is assumed not to span
days. Reconciliation's limit of 100 attempts is not reached. `TripPositions` excuses the
fixes that go with a sign-out, which the code deletes on purpose, and the count of expired
fixes that a kill inside `bind` loses. `Scheduler` has the sweeps, whose loss would cost
money; other groups use the same cycle. `DaySweeps` has no slot for the ask dispatch, for which
nothing waits. `OperatorAccess` starts after the bootstrap of the first superadmin, when the session that
the bootstrap asks for has ended. `Sessions` follows the driver app; the commuter app
shares the server's rows and its token store and differs in how it signs in. The budgets of SMS,
mail and password guesses are left out of `PhoneCodes` and `EmailAccess`, whose promises do not
rest on them, and so is the sealing of codes. `RefundIntents` takes the collection as given and
leaves the effect of a booked refund to `PaymentLedger`. When a run dies after the checkout of a
renewal and the rider turns renewal off, the purchase stays: `ExpireOffers` ends it when its days
begin, so the slot and the hold are not kept for ever.

Not at all: the catalog, timetables and trip generation beyond a trip that appears, drivers
and vehicles assigned to trips beyond capacity, incidents and driver requests; trace holds
and the purge of positions; prices, terms and
their versions; configuration and admission windows. They could
be modelled and are in the plan. The generated API clients, the Ops console and the app
screens, routing, migrations and infrastructure hold no state of the domain.

## Plan

1. Done: ledger and promise, inbox, closing, renewals, reservations, the seven parts of
   `MCServices`, the five of `MCAccess`; every safety invariant, action property and the
   refinement that a passing run checks is a theorem.
2. To model: trips with their drivers and the generation of departures, trace holds against
   the purge, `PaymentTerms` as operators against a reference. Larger instances of `services`
   by splitting it where time allows.
3. To prove: the safety properties of those. Worth stating beside them: that `AutoRenewal`,
   `Standby` and `Reservations` do to the purchases and seats they share with `PaymentLedger`
   only what its transactions allow, as `InboxUsesLedger` does for the inbox.
