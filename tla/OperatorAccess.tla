--------------------------- MODULE OperatorAccess ---------------------------
(***************************************************************************)
(* Who may operate: invitations, superadmins and the passkey behind every  *)
(* session of an operator (auth/ops-team.ts, the passkey operations and    *)
(* the Google sign-in of auth/service.ts, erasure of operators in          *)
(* account/service.ts and the trigger of migration 043).                   *)
(*                                                                         *)
(* Team commands, passkey ceremonies, claims and erasures all take the     *)
(* team lock first, so each is one action.  A person is one Google account *)
(* and its address.                                                        *)
(***************************************************************************)
EXTENDS Integers, Sequences

CONSTANTS
  People,
  Founder,          \* made superadmin by the installer (auth/ops-bootstrap.ts)
  MaxOperators,     \* bound: accounts of operators
  MaxInvitations,   \* bound: invitations
  MaxMailings,      \* bound: versions of an invitation
  MaxSignIns        \* bound: sessions

ASSUME OperatorsAssumption ==
  /\ Founder \in People
  /\ {MaxOperators, MaxInvitations, MaxSignIns} \subseteq Nat /\ MaxMailings \in Nat \ {0}

VARIABLES
  operators,    \* users with the role admin, and whether they have a passkey
  riders,       \* people whose Google account signs in to a rider's account
  invitations,  \* ops_invitations
  shifts,       \* auth_sessions of operators, with the rights when each was opened
  ceremonies    \* admin_passkey_challenges that are not consumed or expired

operatorVars == <<operators, riders, invitations, shifts, ceremonies>>

Ended == [operator |-> 0, super |-> FALSE, level |-> "ended"]

(* After bootstrapSuperadmin, when the session it asked for has ended       *)
OperatorsInit ==
  /\ operators = <<[person |-> Founder, state |-> "active", super |-> TRUE, key |-> TRUE]>>
  /\ riders = {} /\ invitations = <<>> /\ shifts = <<>> /\ ceremonies = {}

Member(a) == operators[a].state \in {"pending", "active"}
AccountsOf(p) == {a \in DOMAIN operators : operators[a].person = p /\ Member(a)}
Superadmins == {a \in DOMAIN operators : operators[a].super}

Unanswered(i) == invitations[i].state \in {"pending", "claimed"}
(* the one that was claimed for the account, and is not past its 48 hours  *)
Claimed(a) ==
  {i \in DOMAIN invitations : invitations[i].state = "claimed" /\ invitations[i].for = a}
Welcome(a) == operators[a].state = "pending" => \E i \in Claimed(a) : invitations[i].fresh

(* authorizeSession with allowUnelevated, and without                      *)
SignedIn(s) == shifts[s] # Ended /\ Welcome(shifts[s].operator)
Elevated(s) ==
  /\ SignedIn(s) /\ operators[shifts[s].operator].state = "active"
  /\ shifts[s].level \in {"elevated", "recent"}
(* requireSuperadmin and requireRecentPasskey                              *)
Commands(s) ==
  /\ Elevated(s) /\ operators[shifts[s].operator].super /\ shifts[s].level = "recent"

Closed(a) ==
  [s \in DOMAIN shifts |-> IF shifts[s].operator = a THEN Ended ELSE shifts[s]]
Opened(all, a, super) ==
  Append(all, [operator |-> a, super |-> super, level |-> "plain"])
Forgotten(a) == {c \in ceremonies : shifts[c.session].operator # a}

-----------------------------------------------------------------------------
(* Sessions                                                                *)

(* signInOpsGoogle without a link                                          *)
SignInOperator(a) ==
  /\ Member(a) /\ Len(shifts) < MaxSignIns
  /\ shifts' = Opened(shifts, a, operators[a].super)
  /\ UNCHANGED <<operators, riders, invitations, ceremonies>>

(* Five minutes, then eight hours since the passkey check.                 *)
AgeCheck(s) ==
  /\ shifts[s].level \in {"recent", "elevated"}
  /\ shifts' = [shifts EXCEPT ![s].level = IF @ = "recent" THEN "elevated" ELSE "plain"]
  /\ UNCHANGED <<operators, riders, invitations, ceremonies>>

EndShift(s) ==
  /\ shifts[s] # Ended /\ shifts' = [shifts EXCEPT ![s] = Ended]
  /\ UNCHANGED <<operators, riders, invitations, ceremonies>>

-----------------------------------------------------------------------------
(* Passkeys                                                                *)

HasKey(s) == operators[shifts[s].operator].key
(* another passkey is added under the one there is                         *)
MayRegister(s) == SignedIn(s) /\ (HasKey(s) => Elevated(s))

StartCeremony(s, purpose) ==
  /\ \/ purpose = "registration" /\ MayRegister(s)
     \/ purpose = "authentication" /\ SignedIn(s) /\ HasKey(s)
  /\ ceremonies' = ceremonies \cup {[session |-> s, purpose |-> purpose]}
  /\ UNCHANGED <<operators, riders, invitations, shifts>>

ExpireCeremony(c) ==
  /\ ceremonies' = ceremonies \ {c}
  /\ UNCHANGED <<operators, riders, invitations, shifts>>

(* finishPasskeyRegistration and finishPasskeyAuthentication, with         *)
(* finishInvitation and elevate                                            *)
FinishCeremony(s, purpose) ==
  LET a == shifts[s].operator IN
  /\ [session |-> s, purpose |-> purpose] \in ceremonies
  /\ \/ purpose = "registration" /\ MayRegister(s)
     \/ purpose = "authentication" /\ SignedIn(s) /\ HasKey(s)
  /\ operators' = [operators EXCEPT ![a].key = TRUE, ![a].state = "active"]
  /\ invitations' = [i \in DOMAIN invitations |->
       IF i \in Claimed(a) THEN [invitations[i] EXCEPT !.state = "accepted"] ELSE invitations[i]]
  /\ shifts' = [shifts EXCEPT ![s].level = "recent"]
  /\ ceremonies' = ceremonies \ {[session |-> s, purpose |-> purpose]}
  /\ UNCHANGED riders

(* resetOperatorPasskeys *)
ResetKeys(s, a) ==
  /\ Commands(s) /\ Member(a) /\ a # shifts[s].operator
  /\ operators' = [operators EXCEPT ![a].key = FALSE]
  /\ ceremonies' = Forgotten(a) /\ shifts' = Closed(a)
  /\ UNCHANGED <<riders, invitations>>

-----------------------------------------------------------------------------
(* Invitations                                                             *)

Invite(s, p) ==
  /\ Commands(s) /\ Len(invitations) < MaxInvitations
  /\ p \notin riders /\ AccountsOf(p) = {}
  /\ \A i \in DOMAIN invitations : invitations[i].person = p => ~Unanswered(i)
  /\ invitations' = Append(invitations,
       [person |-> p, state |-> "pending", version |-> 1, fresh |-> TRUE, for |-> 0])
  /\ UNCHANGED <<operators, riders, shifts, ceremonies>>

Resend(s, i) ==
  /\ Commands(s) /\ invitations[i].state = "pending" /\ invitations[i].version < MaxMailings
  /\ invitations' = [invitations EXCEPT ![i].version = @ + 1, ![i].fresh = TRUE]
  /\ UNCHANGED <<operators, riders, shifts, ceremonies>>

ExpireInvitation(i) ==
  /\ invitations[i].fresh /\ invitations' = [invitations EXCEPT ![i].fresh = FALSE]
  /\ UNCHANGED <<operators, riders, shifts, ceremonies>>

(* claimInvitation, by whoever has one of the links: a new account, or the *)
(* one that was made for it; then its first session                        *)
Claim(p, i, version) ==
  LET own == AccountsOf(p)
      a == IF own = {} THEN Len(operators) + 1 ELSE CHOOSE b \in own : TRUE
      row == [person |-> p, state |-> "pending", super |-> FALSE, key |-> FALSE]
  IN
  /\ Unanswered(i) /\ invitations[i].fresh /\ version = invitations[i].version
  /\ invitations[i].person = p /\ p \notin riders
  /\ invitations[i].for \in {0, a} /\ (own # {} => operators[a].state = "pending")
  /\ a <= MaxOperators /\ Len(shifts) < MaxSignIns
  /\ operators' = IF own = {} THEN Append(operators, row) ELSE operators
  /\ invitations' = [invitations EXCEPT ![i].state = "claimed", ![i].for = a]
  /\ shifts' = Opened(Closed(a), a, FALSE)
  /\ UNCHANGED <<riders, ceremonies>>

-----------------------------------------------------------------------------
(* Leaving                                                                 *)

OnlyOne(a) == Superadmins = {a}

(* eraseInTransaction, with the invitations the trigger cancels            *)
Erased(a) ==
  /\ operators' = [operators EXCEPT ![a] =
       [person |-> operators[a].person, state |-> "erased", super |-> FALSE, key |-> FALSE]]
  /\ invitations' = [i \in DOMAIN invitations |->
       IF invitations[i].for = a \/ (Unanswered(i) /\ invitations[i].person = operators[a].person)
       THEN [invitations[i] EXCEPT !.state = "cancelled"] ELSE invitations[i]]
  /\ shifts' = Closed(a) /\ ceremonies' = Forgotten(a)

(* cancelOperatorInvitation: a claimed one takes its account along         *)
CancelInvitation(s, i) ==
  /\ Commands(s) /\ Unanswered(i)
  /\ IF invitations[i].for = 0
     THEN /\ invitations' = [invitations EXCEPT ![i].state = "cancelled"]
          /\ UNCHANGED <<operators, shifts, ceremonies>>
     ELSE Erased(invitations[i].for)
  /\ UNCHANGED riders

(* updateOperatorAccess: delete                                            *)
DeleteOperator(s, a) ==
  /\ Commands(s) /\ Member(a) /\ a # shifts[s].operator /\ ~OnlyOne(a)
  /\ Erased(a) /\ UNCHANGED riders

(* eraseAccount by the operator                                            *)
EraseOwn(s) ==
  /\ Elevated(s) /\ ~OnlyOne(shifts[s].operator)
  /\ Erased(shifts[s].operator) /\ UNCHANGED riders

Dismissed_Kept(a) == shifts                  \* mutant: its sessions go on
Dismissed(a) == Closed(a)

(* make_superadmin and make_admin                                          *)
ChangeAccess(s, a, super) ==
  /\ Commands(s) /\ a # shifts[s].operator /\ operators[a].state = "active"
  /\ super \/ ~OnlyOne(a)
  /\ operators' = [operators EXCEPT ![a].super = super]
  /\ shifts' = Dismissed(a)
  /\ UNCHANGED <<riders, invitations, ceremonies>>

-----------------------------------------------------------------------------
(* Riders                                                                  *)

(* signInGoogle of the rider's app, for an account nobody signs in to      *)
BecomeRider(p) ==
  /\ p \notin riders /\ AccountsOf(p) = {} /\ riders' = riders \cup {p}
  /\ UNCHANGED <<operators, invitations, shifts, ceremonies>>

RiderLeaves(p) ==
  /\ p \in riders /\ riders' = riders \ {p}
  /\ invitations' = [i \in DOMAIN invitations |->
       IF Unanswered(i) /\ invitations[i].person = p
       THEN [invitations[i] EXCEPT !.state = "cancelled"] ELSE invitations[i]]
  /\ UNCHANGED <<operators, shifts, ceremonies>>

-----------------------------------------------------------------------------

Command(s) ==
  \/ \E p \in People : Invite(s, p)
  \/ \E i \in 1 .. MaxInvitations :
       i \in DOMAIN invitations /\ (Resend(s, i) \/ CancelInvitation(s, i))
  \/ \E a \in 1 .. MaxOperators : a \in DOMAIN operators /\
       (ResetKeys(s, a) \/ DeleteOperator(s, a) \/ \E super \in BOOLEAN : ChangeAccess(s, a, super))

OperatorsNext ==
  \/ \E a \in 1 .. MaxOperators : a \in DOMAIN operators /\ SignInOperator(a)
  \/ \E s \in 1 .. MaxSignIns : s \in DOMAIN shifts /\
       \/ AgeCheck(s) \/ EndShift(s) \/ EraseOwn(s) \/ Command(s)
       \/ \E purpose \in {"registration", "authentication"} :
            StartCeremony(s, purpose) \/ FinishCeremony(s, purpose)
  \/ \E c \in ceremonies : ExpireCeremony(c)
  \/ \E i \in 1 .. MaxInvitations : i \in DOMAIN invitations /\
       (ExpireInvitation(i)
          \/ \E p \in People, version \in 1 .. MaxMailings : Claim(p, i, version))
  \/ \E p \in People : BecomeRider(p) \/ RiderLeaves(p)

OperatorsSpec == OperatorsInit /\ [][OperatorsNext]_operatorVars

-----------------------------------------------------------------------------

OperatorsTypeOK ==
  /\ operators \in Seq([person : People, state : {"pending", "active", "erased"},
                        super : BOOLEAN, key : BOOLEAN])
  /\ riders \subseteq People
  /\ invitations \in Seq([person : People, version : 1 .. MaxMailings, fresh : BOOLEAN,
                          state : {"pending", "claimed", "accepted", "cancelled"},
                          for : 0 .. MaxOperators])
  /\ shifts \in Seq([operator : 0 .. MaxOperators, super : BOOLEAN,
                     level : {"ended", "plain", "elevated", "recent"}])
  /\ ceremonies \subseteq [session : 1 .. MaxSignIns,
                           purpose : {"registration", "authentication"}]

(* Somebody can always manage the team, whoever demotes, deletes and       *)
(* leaves in which order.                                                  *)
SomeoneManages == Superadmins # {}

(* A session that passed the passkey check belongs to an active operator   *)
(* who still has a passkey, and it was opened with the rights the operator *)
(* has now: a reset, a change of access or an erasure leaves none behind.  *)
NoStaleShift == \A s \in DOMAIN shifts : shifts[s] # Ended =>
  LET a == operators[shifts[s].operator] IN
  /\ a.state # "erased" /\ a.super = shifts[s].super
  /\ shifts[s].level # "plain" => a.state = "active" /\ a.key

(* Every operator but the founder came by one invitation, sent to their    *)
(* address, which tells how far they are: to cancel it is to erase them.   *)
Stage == [pending |-> "claimed", active |-> "accepted", erased |-> "cancelled"]
EveryoneWasInvited == \A a \in DOMAIN operators : a # 1 =>
  \E i \in DOMAIN invitations :
    /\ invitations[i].for = a /\ invitations[i].person = operators[a].person
    /\ invitations[i].state = Stage[operators[a].state]
    /\ \A j \in DOMAIN invitations : invitations[j].for = a => j = i

(* A Google account leads to one account: an operator's or a rider's.      *)
OneAccountEach == \A a, b \in DOMAIN operators : Member(a) =>
  /\ operators[a].person \notin riders
  /\ Member(b) /\ operators[a].person = operators[b].person => a = b

(* The promises to the team                                                *)
OperatorsSafe ==
  OperatorsTypeOK /\ SomeoneManages /\ NoStaleShift /\ EveryoneWasInvited /\ OneAccountEach
=============================================================================
