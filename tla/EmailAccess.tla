---------------------------- MODULE EmailAccess ----------------------------
(***************************************************************************)
(* Email addresses and passwords of riders: the class EmailAuth of         *)
(* auth/email-auth.ts with the purge of what was never finished, phone     *)
(* registration and password sign-in of auth/service.ts, and the trigger   *)
(* of migration 047 that an erasure fires.                                 *)
(*                                                                         *)
(* A password is checked or hashed outside every lock.  So completing a    *)
(* link, signing in and changing the password each read a snapshot first,  *)
(* and a transaction that locks the rider decides on what it finds then.   *)
(* Requests are one transaction each.                                      *)
(***************************************************************************)
EXTENDS Integers, Sequences

CONSTANTS
  Owners,        \* rows of users there are or may be
  PhoneOwners,   \* those who sign up with a phone number
  Addresses,     \* normalized
  Browsers,      \* calls under way at once
  MaxVersion,    \* bound: versions of a credential
  MaxOpened      \* bound: sessions

NoAddress == "no address"

ASSUME EmailAssumption ==
  /\ PhoneOwners \subseteq Owners /\ {MaxVersion, MaxOpened} \subseteq Nat
  /\ NoAddress \notin Addresses /\ "nobody" \notin Owners

VARIABLES
  rider,         \* users: unborn, registering by phone, live, erased
  identified,    \* those with an auth_identity of Google or Apple
  contact,       \* users.email
  credential,    \* email_credentials; a password is the version it was set for
  links,         \* email_auth_challenges that are neither consumed nor expired,
                 \* with the address mailed to
  entered,       \* auth_sessions in order, with the password each was opened under
  reading        \* the snapshot of each call

emailVars == <<rider, identified, contact, credential, links, entered, reading>>

NoCredential == [email |-> NoAddress, password |-> 0, verified |-> FALSE,
                 pending |-> FALSE, version |-> 0]
NoLink == [user |-> "nobody", email |-> NoAddress, version |-> 0, purpose |-> "none", session |-> 0]
AtRest == [kind |-> "none", version |-> 0, link |-> NoLink, session |-> 0, of |-> "nobody"]
NoEntry == [user |-> "nobody", password |-> 0, recent |-> FALSE]

EmailInit ==
  /\ rider = [u \in Owners |-> IF u \in PhoneOwners THEN "registering" ELSE "unborn"]
  /\ identified = {} /\ contact = [u \in Owners |-> NoAddress]
  /\ credential = [u \in Owners |-> NoCredential]
  /\ links = {} /\ entered = <<>>
  /\ reading = [b \in Browsers |-> AtRest]

Gone(u) == rider[u] \in {"unborn", "erased"}
Holds(u) == credential[u].password > 0
HasVerified(u, e) == credential[u].verified /\ credential[u].email = e
ContactOf(u, e) == ~Gone(u) /\ contact[u] = e
(* email_unavailable: the address belongs to another account               *)
Elsewhere(u, e) == \E v \in Owners \ {u} : ContactOf(v, e) \/ HasVerified(v, e)

(* owner(): an open session of a rider who finished registration           *)
Authorized(s) == entered[s] # NoEntry /\ rider[entered[s].user] = "live"

-----------------------------------------------------------------------------
(* What several operations do                                              *)

OtherLinks(u) == {l \in links : l.user # u}
SignedOut(u) ==
  [s \in DOMAIN entered |-> IF entered[s].user = u THEN NoEntry ELSE entered[s]]

(* challenge(): none within a minute of the last, nor a sixth in an hour   *)
Mailed(ls, u, version, purpose, s) ==
  links' \in {ls, ls \cup {[user |-> u, email |-> credential'[u].email, version |-> version,
                            purpose |-> purpose, session |-> s]}}

Versioned(u) == credential[u].version < MaxVersion

Enter(u, password) ==
  /\ Len(entered) < MaxOpened
  /\ entered' = Append(entered, [user |-> u, password |-> password, recent |-> TRUE])

(* Fifteen minutes pass; a session ends; thirty minutes pass.              *)
AgeEntry(s) ==
  /\ entered[s].recent /\ entered' = [entered EXCEPT ![s].recent = FALSE]
  /\ UNCHANGED <<rider, identified, contact, credential, links, reading>>
EndEntry(s) ==
  /\ entered[s] # NoEntry /\ entered' = [entered EXCEPT ![s] = NoEntry]
  /\ UNCHANGED <<rider, identified, contact, credential, links, reading>>
ExpireLink(l) ==
  /\ links' = links \ {l}
  /\ UNCHANGED <<rider, identified, contact, credential, entered, reading>>

-----------------------------------------------------------------------------
(* Requests                                                                *)

(* requestEmailSignup.  The answer is the same when nothing was done.      *)
RequestSignup(u, e) ==
  /\ \A v \in Owners : ~HasVerified(v, e)
  /\ \/ /\ credential[u].pending /\ credential[u].email = e
        /\ UNCHANGED <<rider, credential>>
        /\ Mailed(links, u, credential[u].version, "signup", 0)
     \/ /\ rider[u] = "unborn"
        /\ \A v \in Owners :
             ~ContactOf(v, e) /\ ~(credential[v].pending /\ credential[v].email = e)
        /\ rider' = [rider EXCEPT ![u] = "live"]
        /\ credential' = [credential EXCEPT ![u] =
             [NoCredential EXCEPT !.email = e, !.pending = TRUE, !.version = 1]]
        /\ Mailed(links, u, 1, "signup", 0)
  /\ UNCHANGED <<identified, contact, entered, reading>>

RequestReset(u, e) ==
  /\ HasVerified(u, e)
  /\ UNCHANGED <<rider, identified, contact, credential, entered, reading>>
  /\ Mailed(links, u, credential[u].version, "reset", 0)

(* Another address outdates every link to the former one.                  *)
Readdressed(u, e) ==
  [credential EXCEPT ![u].email = e,
                     ![u].version = IF @ = 0 \/ credential[u].email # e THEN @ + 1 ELSE @]

(* startEmailLink *)
StartLink(s, e) ==
  LET u == entered[s].user IN
  /\ Authorized(s) /\ entered[s].recent /\ Versioned(u)
  /\ ~Holds(u) /\ \A v \in Owners \ {u} : ~ContactOf(v, e)
  /\ credential' = Readdressed(u, e)
  /\ Mailed(IF credential[u].email = e THEN links ELSE OtherLinks(u),
            u, credential'[u].version, "link", s)
  /\ UNCHANGED <<rider, identified, contact, entered, reading>>

(* resendContactEmail *)
ResendContact(s) ==
  LET u == entered[s].user IN
  /\ Authorized(s) /\ Holds(u) /\ ~credential[u].verified
  /\ UNCHANGED <<rider, identified, contact, credential, entered, reading>>
  /\ Mailed(links, u, credential[u].version, "contact", 0)

(* completePhoneRegistration, for one of its sessions, all of which end    *)
RegisterPhone(u, e) ==
  LET c == credential[u] IN
  /\ rider[u] = "registering" /\ ~Holds(u) /\ ~Elsewhere(u, e)
  /\ rider' = [rider EXCEPT ![u] = "live"]
  /\ credential' = [credential EXCEPT ![u] =
       [email |-> e, password |-> c.version + 1, verified |-> FALSE, pending |-> FALSE,
        version |-> c.version + 1]]
  /\ Mailed(OtherLinks(u), u, c.version + 1, "contact", 0)
  /\ entered' = SignedOut(u)
  /\ UNCHANGED <<identified, contact, reading>>

(* social: a new account, or one that had no address so far takes the one  *)
(* of its identity                                                         *)
SignInSocial(u, e) ==
  /\ \/ rider[u] = "live" /\ u \in identified
     \/ rider[u] = "unborn" /\ \A v \in Owners : e # NoAddress => ~HasVerified(v, e)
  /\ identified' = identified \cup {u}
  /\ rider' = [rider EXCEPT ![u] = "live"]
  /\ contact' = [contact EXCEPT ![u] = IF @ = NoAddress THEN e ELSE @]
  /\ Enter(u, credential[u].password)
  /\ UNCHANGED <<credential, links, reading>>

-----------------------------------------------------------------------------
(* Snapshots                                                               *)

Take(b, snapshot) ==
  /\ reading[b] = AtRest /\ reading' = [reading EXCEPT ![b] = snapshot]
  /\ UNCHANGED <<rider, identified, contact, credential, links, entered>>

Current(l) == l \in links /\ l.version = credential[l.user].version

(* complete and confirmContact; a link that was asked for in a session is  *)
(* completed in that session                                               *)
ReadLink(b, l) ==
  /\ Current(l)
  /\ Take(b, [AtRest EXCEPT !.kind = "link", !.link = l, !.of = l.user, !.version = l.version])

(* The password is right: signInEmail for a verified address, or           *)
(* signInPhonePassword.                                                    *)
ReadCredential(b, u) ==
  /\ rider[u] = "live" /\ Holds(u) /\ (credential[u].verified \/ u \in PhoneOwners)
  /\ Take(b, [AtRest EXCEPT !.kind = "signin", !.of = u, !.version = credential[u].version])

(* changePassword, up to the check of the current one                      *)
ReadOwn(b, s) ==
  LET u == entered[s].user IN
  /\ Authorized(s) /\ entered[s].recent /\ Holds(u)
  /\ Take(b, [AtRest EXCEPT !.kind = "change", !.of = u, !.session = s,
                            !.version = credential[u].version])

GiveUp(b) ==
  /\ reading[b] # AtRest /\ reading' = [reading EXCEPT ![b] = AtRest]
  /\ UNCHANGED <<rider, identified, contact, credential, links, entered>>

-----------------------------------------------------------------------------
(* Their transactions                                                      *)

StillCurrent_Live(b) == TRUE              \* mutant: the snapshot is trusted
(* the version, and with it the password, are those of the snapshot        *)
StillCurrent(b) == credential[reading[b].of].version = reading[b].version

SignInPassword(b) ==
  LET u == reading[b].of IN
  /\ reading[b].kind = "signin" /\ rider[u] = "live" /\ StillCurrent(b)
  /\ Enter(u, reading[b].version)
  /\ reading' = [reading EXCEPT ![b] = AtRest]
  /\ UNCHANGED <<rider, identified, contact, credential, links>>

NewPassword(u) ==
  [credential[u] EXCEPT !.password = credential[u].version + 1, !.version = @ + 1]

(* complete *)
CompleteLink(b) ==
  LET u == reading[b].of
      l == reading[b].link
  IN
  /\ reading[b].kind = "link" /\ l.purpose # "contact"
  /\ rider[u] = "live" /\ Current(l) /\ Versioned(u)
  /\ l.purpose = "signup" => credential[u].pending
  /\ l.purpose = "link" => Authorized(l.session)
  /\ l.purpose # "reset" => ~Elsewhere(u, credential[u].email)
  /\ credential' = [credential EXCEPT ![u] =
       [NewPassword(u) EXCEPT !.verified = TRUE, !.pending = FALSE]]
  /\ contact' = [contact EXCEPT ![u] = credential[u].email]
  /\ entered' = SignedOut(u) /\ links' = OtherLinks(u)
  /\ reading' = [reading EXCEPT ![b] = AtRest]
  /\ UNCHANGED <<rider, identified>>

(* confirmContact *)
ConfirmContact(b) ==
  LET u == reading[b].of
      l == reading[b].link
  IN
  /\ reading[b].kind = "link" /\ l.purpose = "contact"
  /\ rider[u] = "live" /\ Current(l) /\ Versioned(u)
  /\ Holds(u) /\ ~credential[u].verified /\ ~Elsewhere(u, credential[u].email)
  /\ credential' = [credential EXCEPT ![u].verified = TRUE, ![u].version = @ + 1]
  /\ contact' = [contact EXCEPT ![u] = credential[u].email]
  /\ links' = OtherLinks(u)
  /\ reading' = [reading EXCEPT ![b] = AtRest]
  /\ UNCHANGED <<rider, identified, entered>>

(* changePassword *)
ChangePassword(b) ==
  LET u == reading[b].of IN
  /\ reading[b].kind = "change" /\ Authorized(reading[b].session)
  /\ entered[reading[b].session].recent /\ StillCurrent(b) /\ Versioned(u)
  /\ credential' = [credential EXCEPT ![u] = NewPassword(u)]
  /\ entered' = SignedOut(u) /\ links' = OtherLinks(u)
  /\ reading' = [reading EXCEPT ![b] = AtRest]
  /\ UNCHANGED <<rider, identified, contact>>

-----------------------------------------------------------------------------
(* Cleaning up                                                             *)

(* purgeExpiredEmailAccess, a day after the last link (challenge() sets    *)
(* created_at anew): a sign-up that was never finished takes its account   *)
(* along.                                                                  *)
Purge(u) ==
  LET c == credential[u] IN
  /\ ~Gone(u) /\ c.email # NoAddress /\ ~Holds(u)
  /\ \A l \in links : l.user = u => ~Current(l)
  /\ links' = OtherLinks(u)
  /\ credential' = [credential EXCEPT ![u] = [NoCredential EXCEPT !.version = c.version + IF c.pending THEN 2 ELSE 1]]
  /\ rider' = IF c.pending THEN [rider EXCEPT ![u] = "erased"] ELSE rider
  /\ UNCHANGED <<identified, contact, entered, reading>>

(* eraseAccount with erase_email_credentials                               *)
EraseOwner(u) ==
  /\ ~Gone(u) /\ rider' = [rider EXCEPT ![u] = "erased"]
  /\ contact' = [contact EXCEPT ![u] = NoAddress]
  /\ credential' = [credential EXCEPT ![u] =
       [NoCredential EXCEPT !.version = credential[u].version + 1]]
  /\ links' = OtherLinks(u) /\ entered' = SignedOut(u)
  /\ identified' = identified \ {u} /\ UNCHANGED reading

-----------------------------------------------------------------------------

EmailNext ==
  \/ \E u \in Owners, e \in Addresses :
       RequestSignup(u, e) \/ RequestReset(u, e) \/ RegisterPhone(u, e)
  \/ \E u \in Owners, e \in Addresses \cup {NoAddress} : SignInSocial(u, e)
  \/ \E s \in 1 .. MaxOpened : s \in DOMAIN entered /\
       (AgeEntry(s) \/ EndEntry(s) \/ ResendContact(s) \/ \E e \in Addresses : StartLink(s, e))
  \/ \E l \in links : ExpireLink(l)
  \/ \E b \in Browsers :
       \/ \E l \in links : ReadLink(b, l)
       \/ \E s \in 1 .. MaxOpened : s \in DOMAIN entered /\ ReadOwn(b, s)
       \/ \E u \in Owners : ReadCredential(b, u)
       \/ GiveUp(b)
       \/ SignInPassword(b) \/ CompleteLink(b) \/ ConfirmContact(b) \/ ChangePassword(b)
  \/ \E u \in Owners : Purge(u) \/ EraseOwner(u)

EmailSpec == EmailInit /\ [][EmailNext]_emailVars

-----------------------------------------------------------------------------

Nowhere == Addresses \cup {NoAddress}
Nobodies == Owners \cup {"nobody"}
Links == [user : Nobodies, email : Nowhere, version : Nat, session : 0 .. MaxOpened,
          purpose : {"none", "signup", "link", "reset", "contact"}]
EmailTypeOK ==
  /\ rider \in [Owners -> {"unborn", "registering", "live", "erased"}]
  /\ identified \subseteq Owners /\ contact \in [Owners -> Nowhere]
  /\ credential \in [Owners -> [email : Nowhere, password : Nat, verified : BOOLEAN,
                                pending : BOOLEAN, version : Nat]]
  /\ links \subseteq Links
  /\ entered \in Seq([user : Nobodies, password : Nat, recent : BOOLEAN])
  /\ reading \in [Browsers -> [kind : {"none", "link", "signin", "change"}, version : Nat,
                               link : Links, session : 0 .. MaxOpened, of : Nobodies]]

(* Two accounts never verify one address, however their sign-ups, links    *)
(* and contact proofs run side by side.                                    *)
OneOwner == \A u, v \in Owners, e \in Addresses : HasVerified(u, e) /\ HasVerified(v, e) => u = v

(* Whoever completes a link proves the address that the account then has:  *)
(* no link still works after the account changed its address, finished     *)
(* another way, was purged or erased.                                      *)
NoStaleLink == \A l \in links :
  Current(l) => ~Gone(l.user) /\ credential[l.user].email = l.email

(* A session that is open was opened under the password now in force: a    *)
(* sign-in that was checked against the former one opens none.             *)
NoStaleSession == \A s \in DOMAIN entered : entered[s] # NoEntry =>
  ~Gone(entered[s].user) /\ entered[s].password >= credential[entered[s].user].password

(* A rider loses a verified address and the password with it by erasing    *)
(* the account only.                                                       *)
VerifiedStays == \A u \in Owners, e \in Addresses :
  HasVerified(u, e) =>
    rider'[u] = "erased" \/ (credential'[u].verified /\ credential'[u].email = e)

(* The promises to riders about addresses and passwords                    *)
EmailSafe == [](EmailTypeOK /\ OneOwner /\ NoStaleLink /\ NoStaleSession)
             /\ [][VerifiedStays]_emailVars
=============================================================================
