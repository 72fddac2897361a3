----------------------------- MODULE Delivery -----------------------------
(***************************************************************************)
(* What Trotxi sends to one driver: the temporary PIN by SMS               *)
(* (notifications/driver-sms.ts) or by mail (notifications/email.ts), the  *)
(* acknowledgement of the closing of the account, and pushed notices of    *)
(* assignments (notifications/push.ts).  Messages are queued in the        *)
(* transaction that makes them true, and sent by drains of which several   *)
(* run at once: the maintenance job, and the API process after a commit.   *)
(*                                                                         *)
(* A drain sends inside a transaction that holds the row of the user, so   *)
(* that nothing can make the message false meanwhile; it may die with the  *)
(* message sent and the transaction lost.  The SMS provider has no         *)
(* idempotency key, the mail provider forgets its keys.                    *)
(*                                                                         *)
(* A tick stands for the lease of a claim and for the delay before a       *)
(* retry; Ceiling for the 23 hours in which a mail is tried, Window for    *)
(* the 24 in which the provider knows its key, MaxTries for 20 and 5.      *)
(***************************************************************************)
EXTENDS Integers, Sequences

CONSTANTS
  Drains,
  PinLife, Ceiling, Window, MaxTries,
  LastTick, MaxVersion, MaxMessages       \* bounds: the clock, PINs set, messages queued

ASSUME DeliveryAssumption ==
  /\ {PinLife, Ceiling, Window, MaxTries, LastTick, MaxVersion, MaxMessages} \subseteq Nat
  /\ Ceiling <= Window

VARIABLES
  tick,
  driver,      \* app.users, drivers, driver_credentials and push_devices
  outbox,      \* driver_sms_outbox, email_outbox and push_deliveries
  drain,       \* what each drain is doing
  copies,      \* history: how often a message went out, or that a push did
  remembered   \* external: since when the mail provider knows a key

deliveryVars == <<tick, driver, outbox, drain, copies, remembered>>

Unset == -1
Nobody == "nobody"
Rest == [at |-> "rest", id |-> 0, answer |-> "none"]

DeliveryInit ==
  /\ tick = 0
  /\ driver = [deleted |-> FALSE, archived |-> FALSE, active |-> TRUE, version |-> 1,
               temporary |-> FALSE, until |-> Unset, contact |-> 1, signedIn |-> FALSE,
               device |-> "mine"]
  /\ outbox = <<>>
  /\ drain = [d \in Drains |-> Rest]
  /\ copies = [i \in 1..MaxMessages |-> 0]
  /\ remembered = [i \in 1..MaxMessages |-> Unset]

Rows == 1..Len(outbox)
Credentials == {"sms", "mail"}
Mails == {"mail", "closed"}
Waiting == {"pending", "sending"}

(* The user is locked by the drain that is sending, and so are the row it  *)
(* sends and, for a push, the device.                                      *)
Sending(d) == drain[d].at \in {"sending", "answered"}
DriverLocked_Never == FALSE                      \* mutant: SELECT without FOR UPDATE
DriverLocked == \E d \in Drains : Sending(d)
RowLocked(i) == \E d \in Drains : Sending(d) /\ drain[d].id = i
DeviceLocked == \E d \in Drains : Sending(d) /\ outbox[drain[d].id].kind = "push"

Message(kind, expires) ==
  [kind |-> kind, version |-> driver'.version, contact |-> driver.contact, state |-> "pending",
   holder |-> Nobody, lease |-> Unset, first |-> Unset, tries |-> 0, next |-> tick,
   expires |-> expires]
Queue(rows, kinds, expires) ==
  rows \o [i \in 1..IF kinds = {} THEN 0 ELSE 1 |-> Message(CHOOSE k \in kinds : TRUE, expires)]

(* cancelCredentialMail and cancelCredentialSms                            *)
Cancelled(kinds) ==
  [i \in Rows |->
    IF outbox[i].kind \in kinds /\ outbox[i].state \in Waiting
    THEN [outbox[i] EXCEPT !.state = "cancelled", !.holder = Nobody, !.lease = Unset]
    ELSE outbox[i]]

TickPasses ==                    \* a send takes seconds
  /\ tick < LastTick /\ ~DriverLocked /\ tick' = tick + 1
  /\ UNCHANGED <<driver, outbox, drain, copies, remembered>>

-----------------------------------------------------------------------------
(* What Ops and the driver do                                              *)

Known == ~driver.deleted /\ ~driver.archived

OfficeResetsPin(channel) ==
  /\ Known /\ ~DriverLocked /\ driver.version < MaxVersion
  /\ channel # {} => Len(outbox) < MaxMessages
  /\ driver' = [driver EXCEPT !.version = @ + 1, !.temporary = TRUE, !.until = tick + PinLife,
                              !.signedIn = FALSE]
  /\ outbox' = Queue(Cancelled(Credentials), channel, tick + PinLife)
  /\ UNCHANGED <<tick, drain, copies, remembered>>

SignIn ==
  /\ Known /\ ~DriverLocked /\ driver.active
  /\ driver.temporary => tick < driver.until
  /\ driver' = [driver EXCEPT !.signedIn = TRUE]
  /\ UNCHANGED <<tick, outbox, drain, copies, remembered>>

DriverChangesPin ==
  /\ Known /\ ~DriverLocked /\ driver.signedIn /\ driver.version < MaxVersion
  /\ driver' = [driver EXCEPT !.version = @ + 1, !.temporary = FALSE, !.until = Unset,
                              !.signedIn = FALSE]
  /\ outbox' = Cancelled(Credentials)
  /\ UNCHANGED <<tick, drain, copies, remembered>>

(* changeCredentialState: mail may still go out, SMS may not.              *)
SuspendDriver ==
  /\ Known /\ ~DriverLocked /\ driver.active
  /\ driver' = [driver EXCEPT !.active = FALSE, !.signedIn = FALSE]
  /\ outbox' = Cancelled({"sms"})
  /\ UNCHANGED <<tick, drain, copies, remembered>>
Reinstate ==
  /\ Known /\ ~driver.active /\ driver' = [driver EXCEPT !.active = TRUE]
  /\ UNCHANGED <<tick, outbox, drain, copies, remembered>>

(* updateDriver: a new phone and address, or the end of the employment     *)
Move ==
  /\ Known /\ ~DriverLocked /\ driver.contact = 1
  /\ driver' = [driver EXCEPT !.contact = 2]
  /\ outbox' = Cancelled(Credentials)
  /\ UNCHANGED <<tick, drain, copies, remembered>>
Archive ==
  /\ Known /\ ~DriverLocked
  /\ driver' = [driver EXCEPT !.archived = TRUE, !.signedIn = FALSE]
  /\ outbox' = Cancelled(Credentials)
  /\ UNCHANGED <<tick, drain, copies, remembered>>

(* eraseInTransaction, with erasureRequested where mail is configured: its *)
(* mail lives for a week.                                                  *)
CloseAccount(mail) ==
  /\ ~driver.deleted /\ ~DriverLocked
  /\ mail # {} => Len(outbox) < MaxMessages
  /\ driver' = [driver EXCEPT !.deleted = TRUE, !.signedIn = FALSE,
                              !.device = IF @ = "mine" THEN "revoked" ELSE @]
  /\ outbox' = Queue(Cancelled(IF mail = {} THEN {"sms"} ELSE Credentials), mail, LastTick + 1)
  /\ UNCHANGED <<tick, drain, copies, remembered>>

(* The handset changes hands: register by another account locks that one.  *)
RegisterDevice(owner) ==
  /\ ~DeviceLocked /\ driver.device # owner
  /\ owner = "mine" => Known /\ driver.signedIn /\ ~DriverLocked
  /\ driver' = [driver EXCEPT !.device = owner]
  /\ UNCHANGED <<tick, outbox, drain, copies, remembered>>

(* drain of push.ts: an assignment of the last day is fanned out.          *)
FanOut ==
  /\ Known /\ driver.device = "mine" /\ Len(outbox) < MaxMessages
  /\ driver' = driver
  /\ outbox' = Queue(outbox, {"push"}, tick + 1)
  /\ UNCHANGED <<tick, drain, copies, remembered>>

-----------------------------------------------------------------------------
(* A drain                                                                 *)

At(d, place) == drain[d].at = place
Mine(d) == outbox[drain[d].id]
Put(d, row) == outbox' = [outbox EXCEPT ![drain[d].id] = row]

(* The claim is committed before anything is sent.  That of a mail is a    *)
(* lease, that of an SMS is for good; a push is only read.                 *)
Claimed(d, i) ==
  CASE outbox[i].kind = "sms" -> [outbox[i] EXCEPT !.state = "sending", !.lease = tick]
    [] outbox[i].kind = "push" -> outbox[i]
    [] OTHER -> [outbox[i] EXCEPT !.holder = d, !.lease = tick,
                                  !.first = IF @ = Unset THEN tick ELSE @]
Due(i) ==
  /\ outbox[i].state = "pending"
  /\ outbox[i].kind # "sms" => outbox[i].next <= tick
  /\ outbox[i].kind \in Mails => ~RowLocked(i) /\ outbox[i].lease < tick
ClaimMessage(d, i) ==
  /\ At(d, "rest") /\ Due(i)
  /\ outbox[i].kind = "sms" => ~RowLocked(i)
  /\ outbox' = [outbox EXCEPT ![i] = Claimed(d, i)]
  /\ drain' = [drain EXCEPT ![d] = [at |-> "claimed", id |-> i, answer |-> "none"]]
  /\ UNCHANGED <<tick, driver, copies, remembered>>

(* The transaction locks the user and reads the row again: it may have     *)
(* been settled, cancelled or claimed anew since.                          *)
StillMine(d) ==
  CASE Mine(d).kind = "sms" -> Mine(d).state = "sending"
    [] Mine(d).kind = "push" -> Mine(d).state = "pending" /\ Mine(d).next <= tick
    [] OTHER -> Mine(d).state = "pending" /\ Mine(d).holder = d
LeaveIt(d) ==
  /\ At(d, "claimed")
  /\ IF DriverLocked THEN Mine(d).kind = "push" ELSE ~StillMine(d)   \* SKIP LOCKED
  /\ drain' = [drain EXCEPT ![d] = Rest]
  /\ UNCHANGED <<tick, driver, outbox, copies, remembered>>

RightPin(m) ==
  /\ Known /\ driver.version = m.version /\ driver.temporary /\ tick < driver.until
  /\ driver.contact = m.contact
StillEligible(m) ==
  CASE m.kind = "sms" -> RightPin(m) /\ driver.active /\ tick < m.expires
    [] m.kind = "mail" -> RightPin(m) /\ tick < m.expires
    [] m.kind = "closed" -> tick < m.expires
    [] OTHER -> Known /\ driver.signedIn /\ tick < m.expires /\ driver.device = "mine"
PastCeiling(m) == m.kind \in Mails /\ tick - m.first >= Ceiling

(* What became false is cancelled; what was tried for too long is unknown. *)
GiveUp(d) ==
  /\ At(d, "claimed") /\ ~DriverLocked /\ StillMine(d)
  /\ PastCeiling(Mine(d)) \/ ~StillEligible(Mine(d))
  /\ Put(d, [Mine(d) EXCEPT !.state = IF PastCeiling(Mine(d)) THEN "unknown" ELSE "cancelled",
                            !.holder = Nobody, !.lease = Unset])
  /\ drain' = [drain EXCEPT ![d] = Rest]
  /\ UNCHANGED <<tick, driver, copies, remembered>>
Begin(d) ==
  /\ At(d, "claimed") /\ ~DriverLocked /\ StillMine(d)
  /\ ~PastCeiling(Mine(d)) /\ StillEligible(Mine(d))
  /\ drain' = [drain EXCEPT ![d].at = "sending"]
  /\ UNCHANGED <<tick, driver, outbox, copies, remembered>>

(* The provider takes the message or not, and the answer tells or not.  A  *)
(* mail whose key it remembers is taken and not sent again.                *)
Sent(m, i) ==
  IF m.kind \in Mails /\ remembered[i] # Unset /\ tick - remembered[i] < Window
  THEN UNCHANGED <<copies, remembered>>
  ELSE /\ copies' = [copies EXCEPT ![i] = IF m.kind = "push" THEN 1 ELSE @ + 1]
       /\ remembered' = [remembered EXCEPT ![i] = IF m.kind \in Mails THEN tick ELSE @]
Send(d, answer) ==
  /\ At(d, "sending")
  /\ \/ answer \in {"taken", "lost"} /\ Sent(Mine(d), drain[d].id)
     \/ answer \in {"refused", "lost"} /\ UNCHANGED <<copies, remembered>>
  /\ drain' = [drain EXCEPT ![d].at = "answered", ![d].answer = answer]
  /\ UNCHANGED <<tick, driver, outbox>>

(* What is retried when no answer came: a mail and a push, not an SMS.     *)
Outcome(m, answer) ==
  IF answer = "taken" THEN "accepted"
  ELSE IF answer = "refused" THEN "failed"
  ELSE IF m.kind = "sms" THEN "unknown"
  ELSE IF m.tries + 1 < MaxTries THEN "pending"
  ELSE IF m.kind = "push" THEN "failed"
  ELSE "unknown"
RecordAnswer(d) ==
  /\ At(d, "answered")
  /\ Put(d, [Mine(d) EXCEPT !.state = Outcome(Mine(d), drain[d].answer), !.holder = Nobody,
                            !.lease = Unset, !.tries = @ + 1, !.next = tick + 1])
  /\ \/ driver' = driver
     \/ /\ Mine(d).kind = "push" /\ drain[d].answer = "refused"       \* an invalid token
        /\ driver' = [driver EXCEPT !.device = "revoked"]
  /\ drain' = [drain EXCEPT ![d] = Rest]
  /\ UNCHANGED <<tick, copies, remembered>>

(* The process dies: the claim stays, the transaction is rolled back.      *)
Die(d) ==
  /\ ~At(d, "rest")
  /\ drain' = [drain EXCEPT ![d] = Rest]
  /\ UNCHANGED <<tick, driver, outbox, copies, remembered>>

(* drain of driver-sms.ts: what was claimed a minute ago is not resent.    *)
Reap(i) ==
  /\ outbox[i].kind = "sms" /\ outbox[i].state = "sending" /\ outbox[i].lease < tick
  /\ ~RowLocked(i)
  /\ outbox' = [outbox EXCEPT ![i].state = "unknown"]
  /\ UNCHANGED <<tick, driver, drain, copies, remembered>>

DeliveryNext ==
  \/ TickPasses \/ SignIn \/ DriverChangesPin \/ SuspendDriver \/ Reinstate \/ Move \/ Archive
  \/ FanOut
  \/ \E mail \in {{}, {"closed"}} : CloseAccount(mail)
  \/ \E channel \in {{}, {"sms"}, {"mail"}} : OfficeResetsPin(channel)
  \/ \E owner \in {"mine", "theirs"} : RegisterDevice(owner)
  \/ \E i \in Rows : Reap(i)
  \/ \E d \in Drains :
       \/ LeaveIt(d) \/ GiveUp(d) \/ Begin(d) \/ RecordAnswer(d) \/ Die(d)
       \/ \E i \in Rows : ClaimMessage(d, i)
       \/ \E answer \in {"taken", "refused", "lost"} : Send(d, answer)

DeliverySpec == DeliveryInit /\ [][DeliveryNext]_deliveryVars

-----------------------------------------------------------------------------
DeliveryTypeOK ==
  /\ tick \in 0..LastTick
  /\ Len(outbox) <= MaxMessages
  /\ \A i \in Rows : outbox[i].state \in Waiting \cup {"accepted", "cancelled", "failed", "unknown"}
  /\ drain \in [Drains -> [at : {"rest", "claimed", "sending", "answered"}, id : 0..MaxMessages,
                           answer : {"none", "taken", "refused", "lost"}]]

(* A PIN is texted at most once and mailed at most once, and so is the     *)
(* acknowledgement, whoever dies in between and however many drains run:   *)
(* the claim of an SMS is never handed back, the tries of a mail end       *)
(* before the provider forgets its key.  (A push may come twice.)          *)
SentOnce == \A i \in Rows : outbox[i].kind # "push" => copies[i] <= 1

(* What is recorded as accepted went out.                                  *)
AcceptedWentOut == \A i \in Rows : outbox[i].state = "accepted" => copies[i] > 0

(* A message goes out only while it is true: the PIN in it is the current  *)
(* one of a driver who still has an account and that contact, and a push   *)
(* reaches a handset that is still the driver's, whatever was reset,       *)
(* moved, closed or registered since the message was claimed.              *)
TrueWhenSent ==
  [][\A d \in Drains : At(d, "sending") /\ drain'[d].at = "answered" =>
       \/ Mine(d).kind \in Credentials /\ RightPin(Mine(d))
       \/ Mine(d).kind = "push" /\ Known /\ driver.device = "mine"
       \/ Mine(d).kind = "closed" /\ driver.deleted]_deliveryVars

(* The promises of the outboxes (driver-sms.ts, email.ts and push.ts)      *)
DeliverySafe == [](DeliveryTypeOK /\ SentOnce /\ AcceptedWentOut) /\ TrueWhenSent
=============================================================================
