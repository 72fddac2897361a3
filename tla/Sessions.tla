------------------------------ MODULE Sessions ------------------------------
(***************************************************************************)
(* The sessions of one driver account: the server's rows with their        *)
(* rotating refresh credentials (auth/service.ts), the PIN behind them     *)
(* (auth/driver-service.ts), and the phones that hold one credential each, *)
(* in ScopedTokenStore behind DriverSessionClient and AuthInterceptor.     *)
(*                                                                         *)
(* Each server call is one transaction under the lock of the user row, so  *)
(* one action.  A phone sends, the server handles and the phone reads the  *)
(* answer in three, and either way may be lost.                            *)
(***************************************************************************)
EXTENDS Integers, Sequences

CONSTANTS
  Phones,
  LastHour,               \* bound: the clock
  MaxSessions,            \* bound: sign-ins that open a session
  MaxRotations,           \* bound: credentials of a session
  MaxOrders,              \* bound: orders about the account, its PIN and sessions
  DeviceTtl, ShiftTtl,    \* refreshTtlDays and shiftTtlHours
  TemporaryTtl,           \* TEMPORARY_PIN_HOURS
  LockTime,               \* 15 minutes
  MaxFailures             \* wrong PINs before the lock (5)

ASSUME SessionsAssumption ==
  /\ {LastHour, MaxSessions, MaxOrders, DeviceTtl, ShiftTtl, TemporaryTtl,
      LockTime, MaxFailures} \subseteq Nat
  /\ MaxRotations \in Nat \ {0}

VARIABLES
  hour,
  opened,   \* auth_sessions in the order of sign-in
  pin,      \* driver_credentials
  orders,   \* such orders so far
  store,    \* the credential a phone has stored
  login,    \* its sign-in under way
  call,     \* its refresh under way
  logouts,  \* credentials of logouts under way
  wants     \* whether the user of the phone last asked to be signed in

server == <<opened, pin, orders>>
phone == <<store, login, call, logouts, wants>>
sessionVars == <<hour, server, phone>>

Ids == 1 .. MaxSessions
Tokens == [session : Ids, number : 1 .. MaxRotations]
NoToken == [session |-> 0, number |-> 0]
Idle == [step |-> "idle", token |-> NoToken]
NoLogin == [step |-> "idle", pin |-> 0, own |-> FALSE, fresh |-> FALSE, token |-> NoToken]

(* expires of the row, and of each credential in the order of rotation     *)
Session == [live : BOOLEAN, rolling : BOOLEAN, version : Nat, expires : Nat,
            credentials : Seq(Nat)]
Live(s) == opened[s].live /\ hour < opened[s].expires
Consumed(t) == t.number < Len(opened[t.session].credentials)
Unexpired(t) ==
  hour < opened[t.session].expires /\ hour < opened[t.session].credentials[t.number]
Usable(t) == Unexpired(t) /\ ~Consumed(t) /\ opened[t.session].live /\ pin.status = "active"

EndAll == [s \in DOMAIN opened |-> [opened[s] EXCEPT !.live = FALSE]]
End(s) == [opened EXCEPT ![s].live = FALSE]

(* What happens to the identity of the phone outdates its sign-in.         *)
Outdated(l) == [l EXCEPT !.fresh = FALSE]

SessionsInit ==
  /\ hour = 0 /\ opened = <<>> /\ orders = 0
  /\ pin = [version |-> 1, temporary |-> FALSE, until |-> 0, failed |-> 0,
            locked |-> 0, status |-> "active"]
  /\ store = [p \in Phones |-> NoToken]
  /\ login = [p \in Phones |-> NoLogin]
  /\ call = [p \in Phones |-> Idle]
  /\ logouts = {}
  /\ wants = [p \in Phones |-> FALSE]

HourPasses ==
  /\ hour < LastHour /\ hour' = hour + 1
  /\ UNCHANGED <<server, phone>>

-----------------------------------------------------------------------------
(* Signing in                                                              *)

(* The driver types a PIN, perhaps one that Ops has replaced.              *)
StartSignIn(p, typed, own) ==
  /\ login[p].step = "idle"
  /\ login' = [login EXCEPT ![p] =
       [step |-> "sent", pin |-> typed, own |-> own, fresh |-> TRUE, token |-> NoToken]]
  /\ wants' = [wants EXCEPT ![p] = TRUE]
  /\ UNCHANGED <<hour, server, store, call, logouts>>

Locked == hour < pin.locked
WrongPin ==
  pin' = [pin EXCEPT !.failed = @ + 1,
                     !.locked = IF pin.failed + 1 >= MaxFailures THEN hour + LockTime ELSE @]

Answer(p, token) ==
  login' = [login EXCEPT ![p] = [NoLogin EXCEPT !.step = "answered", !.token = token,
                                                !.fresh = login[p].fresh]]

(* AuthService.driver: a refusal is answered after the commit, so that the *)
(* failures it counted stay.                                               *)
OpenSession(p) ==
  LET l == login[p]
      expires == hour + (IF l.own THEN DeviceTtl ELSE ShiftTtl)
  IN
  /\ l.step = "sent" /\ l.pin = pin.version /\ pin.status = "active" /\ ~Locked
  /\ IF pin.temporary /\ pin.until <= hour
     THEN Answer(p, NoToken) /\ UNCHANGED opened
     ELSE /\ Len(opened) < MaxSessions
          /\ opened' = Append(opened, [live |-> TRUE, rolling |-> l.own, version |-> pin.version,
                                       expires |-> expires, credentials |-> <<expires>>])
          /\ Answer(p, [session |-> Len(opened) + 1, number |-> 1])
  /\ pin' = [pin EXCEPT !.failed = 0, !.locked = 0]
  /\ UNCHANGED <<hour, orders, store, call, logouts, wants>>

RefuseSignIn(p) ==
  /\ login[p].step = "sent" /\ Answer(p, NoToken)
  /\ \/ (pin.status # "active" \/ Locked) /\ UNCHANGED pin
     \/ pin.status = "active" /\ ~Locked /\ login[p].pin # pin.version /\ WrongPin
  /\ UNCHANGED <<hour, opened, orders, store, call, logouts, wants>>

(* saveTokensIfGenerationMatches *)
FinishSignIn(p) ==
  /\ login[p].step = "answered"
  /\ login' = [login EXCEPT ![p] = NoLogin]
  /\ store' = IF login[p].fresh /\ login[p].token # NoToken
              THEN [store EXCEPT ![p] = login[p].token] ELSE store
  /\ UNCHANGED <<hour, server, call, logouts, wants>>

(* The request or the answer is lost.                                      *)
LoseSignIn(p) ==
  /\ login[p].step # "idle"
  /\ login' = [login EXCEPT ![p] = NoLogin]
  /\ UNCHANGED <<hour, server, store, call, logouts, wants>>

-----------------------------------------------------------------------------
(* Rotating the credential                                                 *)

(* _refreshFuture: one at a time                                           *)
StartRefresh(p) ==
  /\ store[p] # NoToken /\ call[p].step = "idle"
  /\ call' = [call EXCEPT ![p] = [step |-> "sent", token |-> store[p]]]
  /\ UNCHANGED <<hour, server, store, login, logouts, wants>>

(* AuthService.refresh: a credential that was consumed already ends every  *)
(* session of the account, and that commits.                               *)
Reused(t) == EndAll
Rotated(t) ==
  LET s == t.session
      expires == IF opened[s].rolling THEN hour + DeviceTtl ELSE opened[s].expires
  IN [opened EXCEPT ![s].expires = expires, ![s].credentials = Append(@, expires)]

Refresh(p) ==
  LET t == call[p].token IN
  /\ call[p].step = "sent"
  /\ IF Usable(t)
     THEN /\ t.number < MaxRotations
          /\ opened' = Rotated(t)
          /\ call' = [call EXCEPT ![p].step = "rotated"]
     ELSE /\ opened' = IF Unexpired(t) /\ Consumed(t) THEN Reused(t) ELSE opened
          /\ call' = [call EXCEPT ![p].step = "denied"]
  /\ UNCHANGED <<hour, pin, orders, store, login, logouts, wants>>

Clears_Any(p) == call[p].step = "denied"       \* mutant: whatever is stored by now
(* clearTokensIfRefreshMatches *)
Clears(p) == call[p].step = "denied" /\ store[p] = call[p].token

FinishRefresh(p) ==
  /\ call[p].step \in {"rotated", "denied"}
  /\ store' = IF Clears(p) THEN [store EXCEPT ![p] = NoToken]
              ELSE IF call[p].step = "rotated" /\ store[p] = call[p].token
                   THEN [store EXCEPT ![p].number = @ + 1] ELSE store
  /\ login' = IF Clears(p) THEN [login EXCEPT ![p] = Outdated(@)] ELSE login
  /\ call' = [call EXCEPT ![p] = Idle]
  /\ UNCHANGED <<hour, server, logouts, wants>>

(* The phone keeps what it has stored.                                     *)
LoseRefresh(p) ==
  /\ call[p].step # "idle"
  /\ call' = [call EXCEPT ![p] = Idle]
  /\ UNCHANGED <<hour, server, store, login, logouts, wants>>

-----------------------------------------------------------------------------
(* Signing out                                                             *)

(* takeSession clears the phone before the server is told.                 *)
SignOut(p) ==
  /\ wants[p] /\ wants' = [wants EXCEPT ![p] = FALSE]
  /\ logouts' = IF store[p] = NoToken THEN logouts ELSE logouts \cup {store[p]}
  /\ store' = [store EXCEPT ![p] = NoToken]
  /\ login' = [login EXCEPT ![p] = Outdated(@)]
  /\ UNCHANGED <<hour, server, call>>

(* AuthService.logout: a credential that was rotated meanwhile ends        *)
(* nothing.  One that is never handled was lost.                           *)
Logout(t) ==
  /\ t \in logouts /\ logouts' = logouts \ {t}
  /\ opened' = IF Consumed(t) THEN opened ELSE End(t.session)
  /\ UNCHANGED <<hour, pin, orders, store, login, call, wants>>

(* authorizeActor: the phone may act under the session it has stored       *)
MayAct(p) == store[p] # NoToken /\ Live(store[p].session) /\ pin.status = "active"

(* Orders are bounded.                                                     *)
Order == orders < MaxOrders /\ orders' = orders + 1

(* revokeSession, from any session of the account; a session of a          *)
(* temporary PIN may only set up a PIN                                     *)
RevokeSession(p, s) ==
  /\ Order /\ MayAct(p) /\ ~pin.temporary /\ opened[s].live
  /\ opened' = End(s)
  /\ UNCHANGED <<hour, pin, phone>>

-----------------------------------------------------------------------------
(* The PIN and the account                                                 *)

NewPin(temporary) ==
  /\ pin' = [pin EXCEPT !.version = @ + 1, !.temporary = temporary, !.failed = 0, !.locked = 0,
                        !.until = IF temporary THEN hour + TemporaryTtl ELSE 0]
  /\ opened' = EndAll

(* resetDriverPin *)
ResetPin ==
  /\ Order /\ NewPin(TRUE)
  /\ UNCHANGED <<hour, phone>>

(* changeDriverPin, with the current PIN typed right or wrong              *)
ChangePin(p, typed) ==
  /\ Order /\ MayAct(p) /\ ~Locked
  /\ pin.temporary => hour < pin.until
  /\ IF typed = pin.version
     THEN NewPin(FALSE)
     ELSE WrongPin /\ UNCHANGED opened
  /\ UNCHANGED <<hour, phone>>

(* changeCredentialState *)
Suspend ==
  /\ Order /\ pin' = [pin EXCEPT !.status = "suspended"] /\ opened' = EndAll
  /\ UNCHANGED <<hour, phone>>
Activate ==
  /\ Order /\ pin' = [pin EXCEPT !.status = "active"]
  /\ UNCHANGED <<hour, opened, phone>>
Unlock ==
  /\ Order /\ pin' = [pin EXCEPT !.failed = 0, !.locked = 0]
  /\ UNCHANGED <<hour, opened, phone>>

-----------------------------------------------------------------------------

Phone(p) ==
  \/ \E typed \in 1 .. pin.version, own \in BOOLEAN : StartSignIn(p, typed, own)
  \/ OpenSession(p) \/ RefuseSignIn(p) \/ FinishSignIn(p) \/ LoseSignIn(p)
  \/ StartRefresh(p) \/ Refresh(p) \/ FinishRefresh(p) \/ LoseRefresh(p) \/ SignOut(p)
  \/ \E s \in DOMAIN opened : RevokeSession(p, s)
  \/ \E typed \in 1 .. pin.version : ChangePin(p, typed)
Office == ResetPin \/ Suspend \/ Activate \/ Unlock

SessionsNext ==
  HourPasses \/ Office \/ (\E p \in Phones : Phone(p)) \/ \E t \in logouts : Logout(t)
SessionsSpec == SessionsInit /\ [][SessionsNext]_sessionVars

-----------------------------------------------------------------------------

SessionsTypeOK ==
  /\ hour \in 0 .. LastHour /\ orders \in 0 .. MaxOrders
  /\ opened \in Seq(Session) /\ Len(opened) <= MaxSessions
  /\ pin \in [version : Nat, temporary : BOOLEAN, until : Nat, failed : Nat,
              locked : Nat, status : {"active", "suspended"}]
  /\ store \in [Phones -> Tokens \cup {NoToken}]
  /\ wants \in [Phones -> BOOLEAN]

(* No session outlives what opened it: a session that is not ended was     *)
(* opened by the PIN that is valid now and belongs to an account that is   *)
(* not suspended, whatever sign-ins, refreshes, resets and suspensions     *)
(* cross.                                                                  *)
LiveIsCurrent == \A s \in DOMAIN opened :
  opened[s].live => opened[s].version = pin.version /\ pin.status = "active"

(* A phone whose driver signed out stays signed out, whichever answers     *)
(* arrive late.                                                            *)
SignedOutStaysOut == \A p \in Phones : store[p] # NoToken => wants[p]

(* A phone loses the credential it has stored only by signing out, or when *)
(* the server would refuse it: an old refusal never clears a newer login.  *)
OnlyRefusedIsCleared == [][\A p \in Phones :
  store[p] # NoToken /\ store'[p] = NoToken => ~wants'[p] \/ ~Usable(store[p])]_sessionVars

(* The promises to whoever signs in and out                                *)
SessionsSafe == [](SessionsTypeOK /\ LiveIsCurrent /\ SignedOutStaysOut) /\ OnlyRefusedIsCleared
=============================================================================
