----------------------------- MODULE PhoneCodes -----------------------------
(***************************************************************************)
(* Phone numbers of riders: codes by SMS to sign in and to verify a number *)
(* for an account, the password that replaces them once an account is      *)
(* registered, and the erasure of accounts (auth/phone-otp.ts, the phone   *)
(* operations of auth/service.ts, the phone part of account/service.ts and *)
(* migrations 030, 034, 037 and 048).                                      *)
(*                                                                         *)
(* Every transaction locks the number and then the account, so each is one *)
(* action.  Between the commit of a request and the note of what the SMS   *)
(* gateway answered anything may happen, and the note may never come.      *)
(* A code keeps here whose number it was when it was asked for, which only *)
(* the properties read.                                                    *)
(***************************************************************************)
EXTENDS Integers, Sequences

CONSTANTS
  Numbers,     \* phone numbers
  Accounts,    \* rows of users there are or may be
  Joined,      \* those that first signed in with Google or Apple
  MaxTries,    \* guesses at a code (5)
  MaxCodes     \* bound: codes, which the hourly and daily budgets limit

NoAccount == "no account"
NoNumber == "no number"

ASSUME PhonesAssumption ==
  /\ Joined \subseteq Accounts /\ NoAccount \notin Accounts /\ NoNumber \notin Numbers
  /\ MaxTries \in Nat \ {0} /\ MaxCodes \in Nat

VARIABLES
  codes,       \* phone_otp_challenges in the order of their requests
  holder,      \* auth_identities: the account a number signs in to
  verified,    \* commuter_phone_verifications: the number of an account
  review,      \* phone_verification_reviews that are open
  account,     \* users: unborn, pending registration, plain, registered, erased
  signedIn     \* auth_sessions of the account: none, recent or older

phoneVars == <<codes, holder, verified, review, account, signedIn>>

LiveAccount(u) == account[u] \in {"pending", "plain", "registered"}
LiveStates == {"sending", "sent"}
CodeOver(state) == state \in {"failed", "consumed"}

PhonesInit ==
  /\ codes = <<>>
  /\ holder = [n \in Numbers |-> NoAccount]
  /\ verified = [u \in Accounts |-> NoNumber]
  /\ review = [u \in Accounts |-> NoNumber]
  /\ account = [u \in Accounts |-> IF u \in Joined THEN "plain" ELSE "unborn"]
  /\ signedIn = [u \in Accounts |-> IF u \in Joined THEN "older" ELSE "none"]

(* authorizeSession: an unregistered account reaches nothing else          *)
MayAct(u) == signedIn[u] # "none" /\ account[u] \in {"plain", "registered"}

-----------------------------------------------------------------------------
(* Requests (PhoneOtp.request)                                             *)

Superseded(n) ==
  [i \in DOMAIN codes |->
    IF codes[i].number = n /\ codes[i].state \in LiveStates
    THEN [codes[i] EXCEPT !.state = "failed"] ELSE codes[i]]

RequestCode(n, owner) ==
  /\ Len(codes) < MaxCodes
  /\ owner # NoAccount => MayAct(owner)
  /\ codes' = Append(Superseded(n), [number |-> n, owner |-> owner, held |-> holder[n],
                                     state |-> "sending", tries |-> 0, fresh |-> TRUE])
  /\ UNCHANGED <<holder, verified, review, account, signedIn>>

(* WHERE id=$1 AND state='sending'; a request that lost its code meanwhile *)
(* ends in the same catch as a refused SMS.                                *)
NoteSms(i, accepted) ==
  /\ codes[i].state = "sending"
  /\ codes' = [codes EXCEPT ![i].state = IF accepted THEN "sent" ELSE "failed"]
  /\ UNCHANGED <<holder, verified, review, account, signedIn>>

(* Five minutes pass.                                                      *)
ExpireCode(i) ==
  /\ codes[i].fresh /\ codes' = [codes EXCEPT ![i].fresh = FALSE]
  /\ UNCHANGED <<holder, verified, review, account, signedIn>>

-----------------------------------------------------------------------------
(* Guesses                                                                 *)

Usable(i) == codes[i].state = "sent" /\ codes[i].tries < MaxTries /\ codes[i].fresh

Tried(i, state) ==
  codes' = [codes EXCEPT ![i].state = state, ![i].tries = @ + 1]

(* Committed although it is refused: the last wrong guess ends the code.   *)
GuessWrong(i) ==
  /\ Usable(i)
  /\ codes[i].owner # NoAccount => MayAct(codes[i].owner)
  /\ Tried(i, IF codes[i].tries = MaxTries - 1 THEN "failed" ELSE "sent")
  /\ UNCHANGED <<holder, verified, review, account, signedIn>>

(* verifiedOwner: a number that another account verified opens no account  *)
TakenBy(n, u) == \E v \in Accounts \ {u} : verified[v] = n

(* verify and verifyPhoneSignIn.  A number nobody signs in with makes a    *)
(* new account.  Once the account is registered the code is used up, and   *)
(* it is the password that opens a session.                                *)
SignInByCode(i, u) ==
  LET n == codes[i].number
      known == holder[n] # NoAccount
  IN
  /\ Usable(i) /\ codes[i].owner = NoAccount
  /\ IF known THEN u = holder[n] ELSE account[u] = "unborn"
  /\ Tried(i, "consumed")
  /\ IF TakenBy(n, IF known THEN u ELSE NoAccount)
     THEN UNCHANGED <<holder, verified, account, signedIn>>
     ELSE /\ holder' = [holder EXCEPT ![n] = u]
          /\ account' = IF known THEN account ELSE [account EXCEPT ![u] = "pending"]
          /\ verified' = [verified EXCEPT ![u] = n]
          /\ signedIn' = IF account[u] = "registered" THEN signedIn
                         ELSE [signedIn EXCEPT ![u] = "recent"]
  /\ UNCHANGED review

(* confirmForAccount: 'review' when the number is another account's, or    *)
(* the account signs in with another number                                *)
Contested(n, u) ==
  \/ holder[n] \notin {NoAccount, u} \/ TakenBy(n, u)
  \/ \E m \in Numbers \ {n} : holder[m] = u
(* A change of number needs a recent sign-in; refusing it rolls back.      *)
MayReplace(n, u) == verified[u] \in {NoNumber, n} \/ signedIn[u] = "recent"

ConfirmCode(i) ==
  LET n == codes[i].number
      u == codes[i].owner
  IN
  /\ Usable(i) /\ u # NoAccount
  /\ MayAct(u) /\ (Contested(n, u) \/ MayReplace(n, u))
  /\ Tried(i, "consumed")
  /\ IF Contested(n, u)
     THEN review' = [review EXCEPT ![u] = n] /\ UNCHANGED verified
     ELSE /\ review' = [review EXCEPT ![u] = NoNumber]
          /\ verified' = [verified EXCEPT ![u] = n]
  /\ UNCHANGED <<holder, account, signedIn>>

-----------------------------------------------------------------------------
(* Accounts                                                                *)

(* completePhoneRegistration: the rider signs in again with the password   *)
Register(u) ==
  /\ account[u] = "pending" /\ signedIn[u] # "none"
  /\ \E n \in Numbers : holder[n] = u /\ verified[u] = n
  /\ account' = [account EXCEPT ![u] = "registered"]
  /\ signedIn' = [signedIn EXCEPT ![u] = "none"]
  /\ UNCHANGED <<codes, holder, verified, review>>

(* signInPhonePassword, and Google or Apple for an account without one     *)
SignInOtherwise(u) ==
  /\ \/ account[u] = "plain"
     \/ account[u] = "registered" /\ \E n \in Numbers : holder[n] = u /\ verified[u] = n
  /\ signedIn' = [signedIn EXCEPT ![u] = "recent"]
  /\ UNCHANGED <<codes, holder, verified, review, account>>

(* Ten minutes pass, or a session is revoked.                              *)
AgeSession(u) ==
  /\ signedIn[u] # "none"
  /\ signedIn' = [signedIn EXCEPT ![u] = IF @ = "recent" THEN "older" ELSE "none"]
  /\ UNCHANGED <<codes, holder, verified, review, account>>

(* eraseInTransaction: the codes that the account asked for, and by the    *)
(* trigger of migration 034 those for the number it signs in with.         *)
Withdrawn_Owned(u, code) == code.owner = u      \* mutant: the trigger is missing
Withdrawn(u, code) == code.owner = u \/ holder[code.number] = u
Scrubbed(u) ==
  [i \in DOMAIN codes |->
    IF Withdrawn(u, codes[i]) /\ codes[i].state \in LiveStates
    THEN [codes[i] EXCEPT !.state = "failed"] ELSE codes[i]]

EraseRider(u) ==
  /\ LiveAccount(u)
  /\ codes' = Scrubbed(u)
  /\ holder' = [n \in Numbers |-> IF holder[n] = u THEN NoAccount ELSE holder[n]]
  /\ verified' = [verified EXCEPT ![u] = NoNumber]
  /\ review' = [review EXCEPT ![u] = NoNumber]
  /\ account' = [account EXCEPT ![u] = "erased"]
  /\ signedIn' = [signedIn EXCEPT ![u] = "none"]

-----------------------------------------------------------------------------

PhonesNext ==
  \/ \E n \in Numbers, owner \in Accounts \cup {NoAccount} : RequestCode(n, owner)
  \/ \E i \in DOMAIN codes :
       \/ \E accepted \in BOOLEAN : NoteSms(i, accepted)
       \/ ExpireCode(i) \/ GuessWrong(i) \/ ConfirmCode(i)
       \/ \E u \in Accounts : SignInByCode(i, u)
  \/ \E u \in Accounts : Register(u) \/ SignInOtherwise(u) \/ AgeSession(u) \/ EraseRider(u)

PhonesSpec == PhonesInit /\ [][PhonesNext]_phoneVars

-----------------------------------------------------------------------------

PhonesTypeOK ==
  /\ codes \in Seq([number : Numbers, owner : Accounts \cup {NoAccount},
                    held : Accounts \cup {NoAccount},
                    state : LiveStates \cup {"failed", "consumed"},
                    tries : 0 .. MaxTries, fresh : BOOLEAN])
  /\ holder \in [Numbers -> Accounts \cup {NoAccount}]
  /\ verified \in [Accounts -> Numbers \cup {NoNumber}]
  /\ review \in [Accounts -> Numbers \cup {NoNumber}]
  /\ account \in [Accounts -> {"unborn", "pending", "plain", "registered", "erased"}]
  /\ signedIn \in [Accounts -> {"none", "recent", "older"}]

(* A number is one rider's: those who sign in with it and those who        *)
(* verified it are the same account, and it is a live one.                 *)
OneRiderPerNumber == \A n \in Numbers, u, v \in Accounts :
  /\ holder[n] = u /\ verified[v] = n => u = v
  /\ verified[u] = n /\ verified[v] = n => u = v
  /\ (holder[n] = u \/ verified[u] = n \/ review[u] = n) => LiveAccount(u)

(* An account signs in with one number and verified no other one.          *)
OneNumberPerRider == \A m, n \in Numbers, u \in Accounts :
  holder[m] = u => verified[u] = m /\ (holder[n] = u => m = n)

OneLiveCode == \A i, j \in DOMAIN codes :
  codes[i].number = codes[j].number /\ codes[i].state \in LiveStates
    /\ codes[j].state \in LiveStates => i = j

(* A code that is over stays over, whatever answer of the gateway, guess,  *)
(* newer request or erasure comes late; nobody gets more than the tries.   *)
CodesEnd == \A i \in DOMAIN codes :
  /\ CodeOver(codes[i].state) => codes'[i].state = codes[i].state
  /\ codes'[i].state = "consumed" => codes'[i].tries <= MaxTries

(* A number leaves an account by its erasure, or because the rider, who    *)
(* signed in lately, verified another one; and a code asked for while the  *)
(* number was an account's never opens or makes another one, whatever      *)
(* happened to that account since.                                         *)
NumbersMove == \A n \in Numbers, u \in Accounts :
  /\ verified[u] = n /\ verified'[u] # n => account'[u] = "erased" \/ signedIn[u] = "recent"
  /\ holder[n] = u /\ holder'[n] # u => account'[u] = "erased"
  /\ \A i \in DOMAIN codes :
       /\ codes[i].state # "consumed" /\ codes'[i].state = "consumed" /\ codes[i].number = n
       /\ codes[i].owner = NoAccount /\ codes[i].held = u
       => holder'[n] = u

(* The promises to riders about their numbers                              *)
PhonesSafe == []PhonesTypeOK /\ [](OneRiderPerNumber /\ OneNumberPerRider /\ OneLiveCode)
              /\ [][CodesEnd /\ NumbersMove]_phoneVars
=============================================================================
