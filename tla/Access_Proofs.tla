---------------------------- MODULE Access_Proofs ----------------------------
(***************************************************************************)
(* Theorems about who may sign in and operate: phone numbers and codes,    *)
(* email addresses and passwords, the Ops team, for any people, codes,     *)
(* links, sessions and bounds.                                             *)
(***************************************************************************)
EXTENDS FiniteSets, FiniteSetTheorems, PhoneCodes, EmailAccess, OperatorAccess, SequenceTheorems,
        TLAPS

-----------------------------------------------------------------------------
(* Lists *)

(* A list with one more entry *)
LEMMA Appended ==
  ASSUME NEW S, NEW list \in Seq(S), NEW e \in S
  PROVE  LET n == Len(list) + 1
             longer == Append(list, e)
         IN /\ longer \in Seq(S) /\ Len(longer) = n /\ n \in Nat /\ n \notin DOMAIN list
            /\ DOMAIN longer = DOMAIN list \cup {n} /\ longer[n] = e
            /\ \A i \in DOMAIN list : longer[i] = list[i]
<1> DEFINE longer == Append(list, e)
<1>1. Len(list) \in Nat /\ DOMAIN list = 1 .. Len(list)
  BY LenProperties
<1>2. /\ longer \in Seq(S) /\ Len(longer) = Len(list) + 1
      /\ \A i \in 1 .. Len(list) : longer[i] = list[i]
      /\ longer[Len(list) + 1] = e
  BY AppendProperties
<1>3. DOMAIN longer = 1 .. Len(list) + 1
  BY <1>2, LenProperties
<1> HIDE DEF longer
<1> QED
  BY <1>1, <1>2, <1>3 DEF longer

(* A list with other entries *)
LEMMA Rewritten ==
  ASSUME NEW S, NEW list \in Seq(S), NEW new, new \in [DOMAIN list -> S]
  PROVE  new \in Seq(S) /\ DOMAIN new = DOMAIN list
<1>1. Len(list) \in Nat /\ DOMAIN list = 1 .. Len(list)
  BY LenProperties
<1> QED
  BY <1>1, SeqDef

-----------------------------------------------------------------------------
(* Phone numbers *)

CodeRows == [number : Numbers, owner : Accounts \cup {NoAccount},
             held : Accounts \cup {NoAccount},
             state : LiveStates \cup {"failed", "consumed"},
             tries : 0 .. MaxTries, fresh : BOOLEAN]

(* A code for signing in that still works, asked for while the number was  *)
(* an account's, would open that account today.                            *)
HeldStands == \A i \in DOMAIN codes :
  codes[i].state \in LiveStates /\ codes[i].owner = NoAccount /\ codes[i].held # NoAccount
  => holder[codes[i].number] = codes[i].held

PhonesInv == PhonesTypeOK /\ OneRiderPerNumber /\ OneNumberPerRider /\ OneLiveCode /\ HeldStands

(* What every step but a request does to the codes: none changes hands, and *)
(* none comes back to life.                                                *)
CodesGoOn ==
  /\ codes' \in Seq(CodeRows) /\ DOMAIN codes' = DOMAIN codes
  /\ \A i \in DOMAIN codes :
       /\ codes'[i].number = codes[i].number /\ codes'[i].owner = codes[i].owner
       /\ codes'[i].held = codes[i].held
       /\ codes[i].state \notin LiveStates => codes'[i].state = codes[i].state

(* The rows in a sequence of codes. *)
LEMMA CodeTypes ==
  ASSUME PhonesTypeOK
  PROVE  /\ codes \in Seq(CodeRows) /\ DOMAIN codes = 1 .. Len(codes) /\ Len(codes) \in Nat
         /\ \A i \in DOMAIN codes : codes[i] \in CodeRows
<1>1. codes \in Seq(CodeRows)
  BY DEF PhonesTypeOK, CodeRows
<1> QED
  BY <1>1

(* A row for each code there is. *)
LEMMA RowsAreSeq ==
  ASSUME PhonesTypeOK, NEW f, DOMAIN f = DOMAIN codes, f = [i \in DOMAIN codes |-> f[i]],
         \A i \in DOMAIN codes : f[i] \in CodeRows
  PROVE  f \in Seq(CodeRows)
<1>1. DOMAIN codes = 1 .. Len(codes) /\ Len(codes) \in Nat
  BY CodeTypes
<1>2. f \in [1 .. Len(codes) -> CodeRows]
  BY <1>1
<1> QED
  BY <1>1, <1>2, IsASeq

(* A change of one code, as every transaction but a request and an erasure *)
(* makes it.                                                               *)
LEMMA OneCodeChanges ==
  ASSUME PhonesTypeOK, NEW i \in DOMAIN codes, NEW row \in CodeRows,
         codes' = [codes EXCEPT ![i] = row],
         row.number = codes[i].number, row.owner = codes[i].owner, row.held = codes[i].held,
         codes[i].state \notin LiveStates => row.state = codes[i].state
  PROVE  CodesGoOn
<1>1. \A j \in DOMAIN codes : codes[j] \in CodeRows
  BY CodeTypes
<1>2. /\ DOMAIN codes' = DOMAIN codes /\ codes' = [j \in DOMAIN codes |-> codes'[j]]
      /\ \A j \in DOMAIN codes : codes'[j] = IF j = i THEN row ELSE codes[j]
  OBVIOUS
<1>3. \A j \in DOMAIN codes : codes'[j] \in CodeRows
  BY <1>1, <1>2
<1>4. codes' \in Seq(CodeRows)
  BY <1>2, <1>3, RowsAreSeq
<1> QED
  BY <1>2, <1>4 DEF CodesGoOn

(* A guess at a code writes its state and its tries. *)
LEMMA TriedRow ==
  ASSUME PhonesTypeOK, NEW i \in DOMAIN codes, NEW state \in LiveStates \cup {"failed", "consumed"},
         Usable(i), Tried(i, state)
  PROVE  \E row \in CodeRows :
           /\ codes' = [codes EXCEPT ![i] = row]
           /\ row.number = codes[i].number /\ row.owner = codes[i].owner
           /\ row.held = codes[i].held /\ row.state = state
<1> DEFINE row == [codes[i] EXCEPT !.state = state, !.tries = codes[i].tries + 1]
<1>1. codes[i] \in CodeRows /\ codes \in Seq(CodeRows)
  BY CodeTypes
<1>2. codes[i].tries + 1 \in 0 .. MaxTries
  BY <1>1, PhonesAssumption DEF Usable, CodeRows
<1>3. /\ row \in CodeRows
      /\ row.number = codes[i].number /\ row.owner = codes[i].owner
      /\ row.held = codes[i].held /\ row.state = state
  BY <1>1, <1>2 DEF CodeRows
<1>4. codes' = [codes EXCEPT ![i] = row]
  <2>1. codes' = [codes EXCEPT ![i].state = state, ![i].tries = codes[i].tries + 1]
    BY DEF Tried
  <2> QED
    BY <1>1, <2>1
<1> QED
  BY <1>3, <1>4

(* The codes of a step that only ends some of them. *)
LEMMA ManyCodesEnd ==
  ASSUME PhonesTypeOK, NEW S,
         codes' = [i \in DOMAIN codes |-> IF i \in S /\ codes[i].state \in LiveStates
                                          THEN [codes[i] EXCEPT !.state = "failed"] ELSE codes[i]]
  PROVE  CodesGoOn /\ \A i \in S : i \in DOMAIN codes => codes'[i].state \notin LiveStates
<1>1. \A j \in DOMAIN codes : codes[j] \in CodeRows
  BY CodeTypes
<1>2. \A j \in DOMAIN codes :
        /\ [codes[j] EXCEPT !.state = "failed"] \in CodeRows
        /\ [codes[j] EXCEPT !.state = "failed"].state = "failed"
        /\ [codes[j] EXCEPT !.state = "failed"].number = codes[j].number
        /\ [codes[j] EXCEPT !.state = "failed"].owner = codes[j].owner
        /\ [codes[j] EXCEPT !.state = "failed"].held = codes[j].held
  BY <1>1 DEF CodeRows
<1>3. /\ DOMAIN codes' = DOMAIN codes /\ codes' = [j \in DOMAIN codes |-> codes'[j]]
      /\ \A j \in DOMAIN codes : codes'[j] =
           IF j \in S /\ codes[j].state \in LiveStates
           THEN [codes[j] EXCEPT !.state = "failed"] ELSE codes[j]
  OBVIOUS
<1>4. codes' \in Seq(CodeRows)
  <2>1. \A j \in DOMAIN codes : codes'[j] \in CodeRows
    BY <1>1, <1>2, <1>3
  <2> QED
    BY <1>3, <2>1, RowsAreSeq
<1>5. "failed" \notin LiveStates
  BY DEF LiveStates
<1>6. \A j \in DOMAIN codes :
        /\ codes'[j].number = codes[j].number /\ codes'[j].owner = codes[j].owner
        /\ codes'[j].held = codes[j].held
        /\ codes[j].state \notin LiveStates => codes'[j].state = codes[j].state
  BY <1>2, <1>3
<1>7. \A i \in S : i \in DOMAIN codes => codes'[i].state \notin LiveStates
  BY <1>2, <1>3, <1>5
<1> QED
  BY <1>3, <1>4, <1>6, <1>7 DEF CodesGoOn

(* What follows for the codes themselves. *)
LEMMA CodesStay ==
  ASSUME PhonesInv, CodesGoOn
  PROVE  OneLiveCode' /\ CodesEnd
<1>1. \A i \in DOMAIN codes' : codes'[i] \in CodeRows
  BY DEF CodesGoOn
<1>2. \A i \in DOMAIN codes : codes'[i].tries <= MaxTries
  BY <1>1 DEF CodesGoOn, CodeRows
<1>3. \A i \in DOMAIN codes : CodeOver(codes[i].state) => codes[i].state \notin LiveStates
  BY DEF CodeOver, LiveStates
<1>4. CodesEnd
  BY <1>2, <1>3 DEF CodesEnd, CodesGoOn
<1>5. OneLiveCode'
  BY DEF PhonesInv, OneLiveCode, CodesGoOn
<1> QED
  BY <1>4, <1>5

(* As long as no number changes its holder, the codes go on meaning what   *)
(* they meant.                                                             *)
LEMMA HeldGoesOn ==
  ASSUME PhonesInv, CodesGoOn,
         \A i \in DOMAIN codes :
           codes'[i].state \in LiveStates /\ holder[codes[i].number] # NoAccount
           => holder'[codes[i].number] = holder[codes[i].number]
  PROVE  HeldStands'
<1>1. SUFFICES ASSUME NEW i \in DOMAIN codes, codes'[i].state \in LiveStates,
                      codes'[i].owner = NoAccount, codes'[i].held # NoAccount
               PROVE  holder'[codes'[i].number] = codes'[i].held
  BY DEF HeldStands, CodesGoOn
<1>2. /\ codes'[i].number = codes[i].number /\ codes[i].owner = NoAccount
      /\ codes[i].held = codes'[i].held /\ codes[i].state \in LiveStates
  BY <1>1 DEF CodesGoOn
<1>3. holder[codes[i].number] = codes[i].held
  BY <1>1, <1>2 DEF PhonesInv, HeldStands
<1> QED
  BY <1>1, <1>2, <1>3

-----------------------------------------------------------------------------

(* A request ends the live code of its number and adds one that means what *)
(* the number means now.                                                   *)
LEMMA RequestKeeps ==
  ASSUME PhonesInv, NEW n \in Numbers, NEW owner \in Accounts \cup {NoAccount}, RequestCode(n, owner)
  PROVE  PhonesInv' /\ CodesEnd /\ NumbersMove
<1> DEFINE row == [number |-> n, owner |-> owner, held |-> holder[n],
                   state |-> "sending", tries |-> 0, fresh |-> TRUE]
           kept == Superseded(n)
<1>1. /\ PhonesTypeOK /\ codes \in Seq(CodeRows) /\ DOMAIN codes = 1 .. Len(codes)
      /\ Len(codes) \in Nat /\ \A i \in DOMAIN codes : codes[i] \in CodeRows
  BY CodeTypes DEF PhonesInv
<1>2. row \in CodeRows
  <2>1. holder[n] \in Accounts \cup {NoAccount}
    BY <1>1 DEF PhonesTypeOK
  <2>2. 0 \in 0 .. MaxTries /\ "sending" \in LiveStates
    BY PhonesAssumption DEF LiveStates
  <2> QED
    BY <2>1, <2>2 DEF CodeRows
<1>3. \A i \in DOMAIN codes :
        /\ [codes[i] EXCEPT !.state = "failed"] \in CodeRows
        /\ [codes[i] EXCEPT !.state = "failed"].state = "failed"
        /\ [codes[i] EXCEPT !.state = "failed"].number = codes[i].number
        /\ [codes[i] EXCEPT !.state = "failed"].owner = codes[i].owner
        /\ [codes[i] EXCEPT !.state = "failed"].held = codes[i].held
  BY <1>1 DEF CodeRows
<1>4. /\ DOMAIN kept = DOMAIN codes /\ kept = [i \in DOMAIN codes |-> kept[i]]
      /\ \A i \in DOMAIN codes : kept[i] =
           IF codes[i].number = n /\ codes[i].state \in LiveStates
           THEN [codes[i] EXCEPT !.state = "failed"] ELSE codes[i]
  BY DEF Superseded
<1>5. kept \in Seq(CodeRows) /\ Len(kept) = Len(codes)
  <2>1. \A i \in DOMAIN codes : kept[i] \in CodeRows
    BY <1>1, <1>3, <1>4
  <2>2. kept \in Seq(CodeRows)
    <3> HIDE DEF kept
    <3> QED
      BY <1>1, <1>4, <2>1, RowsAreSeq
  <2> QED
    BY <1>1, <1>4, <2>2
<1>6. \A i \in DOMAIN codes :
        /\ kept[i].number = codes[i].number /\ kept[i].owner = codes[i].owner
        /\ kept[i].held = codes[i].held
        /\ codes[i].state \notin LiveStates => kept[i].state = codes[i].state
        /\ kept[i].state \in LiveStates => kept[i].number # n
  <2>1. "failed" \notin LiveStates
    BY DEF LiveStates
  <2> QED
    BY <1>3, <1>4, <2>1
<1>7. /\ codes' = Append(kept, row)
      /\ UNCHANGED <<holder, verified, review, account, signedIn>>
  BY DEF RequestCode
<1> HIDE DEF row, kept
<1>8. /\ codes' \in Seq(CodeRows) /\ DOMAIN codes' = 1 .. Len(codes) + 1
      /\ codes'[Len(codes) + 1] = row /\ \A i \in DOMAIN codes : codes'[i] = kept[i]
  BY <1>1, <1>2, <1>5, <1>7
<1>9. row.number = n /\ row.held = holder[n] /\ row.state = "sending"
  BY DEF row
<1>10. PhonesTypeOK' /\ OneRiderPerNumber' /\ OneNumberPerRider'
  <2>1. PhonesTypeOK'
    BY <1>1, <1>7, <1>8 DEF PhonesTypeOK, CodeRows
  <2> QED
    BY <1>7, <2>1 DEF PhonesInv, OneRiderPerNumber, OneNumberPerRider, LiveAccount
<1>11. OneLiveCode'
  <2> SUFFICES ASSUME NEW i \in DOMAIN codes', NEW j \in DOMAIN codes',
                      codes'[i].number = codes'[j].number,
                      codes'[i].state \in LiveStates, codes'[j].state \in LiveStates
               PROVE  i = j
    BY DEF OneLiveCode
  <2>1. i \in DOMAIN codes \/ i = Len(codes) + 1
    BY <1>1, <1>8
  <2>2. j \in DOMAIN codes \/ j = Len(codes) + 1
    BY <1>1, <1>8
  <2>3. CASE i \in DOMAIN codes /\ j \in DOMAIN codes
    <3>1. /\ codes[i].number = codes[j].number
          /\ codes[i].state \in LiveStates /\ codes[j].state \in LiveStates
      BY <1>6, <1>8, <2>3
    <3> QED
      BY <2>3, <3>1 DEF PhonesInv, OneLiveCode
  <2>4. CASE i \in DOMAIN codes /\ j = Len(codes) + 1
    BY <1>6, <1>8, <1>9, <2>4
  <2>5. CASE i = Len(codes) + 1 /\ j \in DOMAIN codes
    BY <1>6, <1>8, <1>9, <2>5
  <2> QED
    BY <2>1, <2>2, <2>3, <2>4, <2>5
<1>12. HeldStands'
  <2> SUFFICES ASSUME NEW i \in DOMAIN codes', codes'[i].state \in LiveStates,
                      codes'[i].owner = NoAccount, codes'[i].held # NoAccount
               PROVE  holder'[codes'[i].number] = codes'[i].held
    BY DEF HeldStands
  <2>1. CASE i \in DOMAIN codes
    <3>1. /\ codes[i].state \in LiveStates /\ codes[i].owner = NoAccount
          /\ codes[i].held # NoAccount /\ codes'[i].number = codes[i].number
          /\ codes'[i].held = codes[i].held
      BY <1>6, <1>8, <2>1
    <3> QED
      BY <1>7, <2>1, <3>1 DEF PhonesInv, HeldStands
  <2>2. CASE i = Len(codes) + 1
    BY <1>7, <1>8, <1>9, <2>2
  <2> QED
    BY <1>1, <1>8, <2>1, <2>2
<1>13. CodesEnd
  <2>1. \A i \in DOMAIN codes : codes'[i] \in CodeRows
    BY <1>1, <1>8
  <2>2. \A i \in DOMAIN codes : codes'[i].tries <= MaxTries
    BY <2>1 DEF CodeRows
  <2>3. \A i \in DOMAIN codes : CodeOver(codes[i].state) => codes[i].state \notin LiveStates
    BY DEF CodeOver, LiveStates
  <2> QED
    BY <1>6, <1>8, <2>2, <2>3 DEF CodesEnd
<1>14. NumbersMove
  <2>1. \A i \in DOMAIN codes : codes[i].state # "consumed" => codes'[i].state # "consumed"
    BY <1>3, <1>4, <1>8
  <2> QED
    BY <1>7, <2>1 DEF NumbersMove
<1> QED
  BY <1>10, <1>11, <1>12, <1>13, <1>14 DEF PhonesInv

(* Steps that change one code and no number: the note of the gateway, a    *)
(* wrong guess, the passing of time.                                       *)
LEMMA NoteKeeps ==
  ASSUME PhonesInv, NEW i \in DOMAIN codes,
         (\E accepted \in BOOLEAN : NoteSms(i, accepted)) \/ ExpireCode(i) \/ GuessWrong(i)
  PROVE  PhonesInv' /\ CodesEnd /\ NumbersMove
<1>1. PhonesTypeOK /\ codes[i] \in CodeRows /\ UNCHANGED <<holder, verified, review, account, signedIn>>
  BY CodeTypes DEF PhonesInv, NoteSms, ExpireCode, GuessWrong
<1>2. PICK row \in CodeRows :
        /\ codes' = [codes EXCEPT ![i] = row]
        /\ row.number = codes[i].number /\ row.owner = codes[i].owner
        /\ row.held = codes[i].held
        /\ row.state # "consumed" \/ row.state = codes[i].state
        /\ codes[i].state \notin LiveStates => row.state = codes[i].state
  <2>1. ASSUME NEW accepted \in BOOLEAN, NoteSms(i, accepted)
        PROVE  LET row == [codes[i] EXCEPT !.state = IF accepted THEN "sent" ELSE "failed"] IN
               /\ row \in CodeRows /\ codes' = [codes EXCEPT ![i] = row]
               /\ row.number = codes[i].number /\ row.owner = codes[i].owner
               /\ row.held = codes[i].held /\ row.state # "consumed"
               /\ codes[i].state \in LiveStates
    BY <1>1, <2>1 DEF NoteSms, CodeRows, LiveStates
  <2>2. ASSUME ExpireCode(i)
        PROVE  LET row == [codes[i] EXCEPT !.fresh = FALSE] IN
               /\ row \in CodeRows /\ codes' = [codes EXCEPT ![i] = row]
               /\ row.number = codes[i].number /\ row.owner = codes[i].owner
               /\ row.held = codes[i].held /\ row.state = codes[i].state
    BY <1>1, <2>2 DEF ExpireCode, CodeRows
  <2>3. ASSUME GuessWrong(i)
        PROVE  \E row \in CodeRows :
               /\ codes' = [codes EXCEPT ![i] = row]
               /\ row.number = codes[i].number /\ row.owner = codes[i].owner
               /\ row.held = codes[i].held /\ row.state # "consumed"
               /\ codes[i].state \in LiveStates
    <3>1. PICK state \in LiveStates \cup {"failed"} : Usable(i) /\ Tried(i, state)
      BY <2>3 DEF GuessWrong, LiveStates
    <3>2. "consumed" \notin LiveStates \cup {"failed"} /\ codes[i].state \in LiveStates
      BY <3>1 DEF LiveStates, Usable
    <3> QED
      BY <1>1, <3>1, <3>2, TriedRow
  <2> QED
    BY <2>1, <2>2, <2>3
<1>3. CodesGoOn
  BY <1>1, <1>2, OneCodeChanges
<1>4. OneLiveCode' /\ CodesEnd /\ HeldStands'
  BY <1>1, <1>3, CodesStay, HeldGoesOn
<1>5. PhonesTypeOK'
  BY <1>1, <1>3 DEF PhonesTypeOK, CodesGoOn, CodeRows
<1>6. \A j \in DOMAIN codes : codes'[j].state # "consumed" \/ codes'[j].state = codes[j].state
  BY <1>2
<1>7. NumbersMove
  BY <1>1, <1>6 DEF NumbersMove
<1> QED
  BY <1>1, <1>4, <1>5, <1>7
  DEF PhonesInv, OneRiderPerNumber, OneNumberPerRider, LiveAccount

(* A right code uses itself up. *)
LEMMA ConsumedRow ==
  ASSUME PhonesInv, NEW i \in DOMAIN codes, Usable(i), Tried(i, "consumed")
  PROVE  /\ CodesGoOn /\ codes[i].state \in LiveStates /\ codes'[i].state \notin LiveStates
         /\ \A j \in DOMAIN codes \ {i} : codes'[j] = codes[j]
<1>1. PhonesTypeOK /\ codes[i] \in CodeRows
  BY CodeTypes DEF PhonesInv
<1>2. PICK row \in CodeRows :
        /\ codes' = [codes EXCEPT ![i] = row]
        /\ row.number = codes[i].number /\ row.owner = codes[i].owner
        /\ row.held = codes[i].held /\ row.state = "consumed"
  BY <1>1, TriedRow
<1>3. row.state \notin LiveStates /\ codes[i].state \in LiveStates
  BY <1>2 DEF LiveStates, Usable
<1>4. CodesGoOn
  BY <1>1, <1>2, <1>3, OneCodeChanges
<1>5. codes'[i] = row /\ \A j \in DOMAIN codes \ {i} : codes'[j] = codes[j]
  BY <1>2
<1> QED
  BY <1>3, <1>4, <1>5

(* Signing in with a code gives a free number to a new account, or opens   *)
(* the account the number has: it was the same when the code was asked for.*)
LEMMA SignInKeepsNumbers ==
  ASSUME PhonesInv, NEW i \in DOMAIN codes, NEW u \in Accounts, SignInByCode(i, u)
  PROVE  PhonesInv' /\ CodesEnd /\ NumbersMove
<1> DEFINE n == codes[i].number
<1>1. PhonesTypeOK /\ codes[i] \in CodeRows /\ n \in Numbers /\ holder[n] \in Accounts \cup {NoAccount}
  BY CodeTypes DEF PhonesInv, CodeRows, PhonesTypeOK
<1>2. /\ CodesGoOn /\ codes[i].state \in LiveStates /\ codes'[i].state \notin LiveStates
      /\ \A j \in DOMAIN codes \ {i} : codes'[j] = codes[j]
  BY ConsumedRow DEF SignInByCode
<1>3. /\ IF holder[n] # NoAccount THEN u = holder[n] ELSE account[u] = "unborn"
      /\ codes[i].owner = NoAccount /\ review' = review
  BY DEF SignInByCode
<1>4. OneLiveCode' /\ CodesEnd
  BY <1>2, CodesStay
<1>5. CASE UNCHANGED <<holder, verified, account, signedIn>>
  <2>1. HeldStands'
    BY <1>2, <1>5, HeldGoesOn
  <2>2. PhonesTypeOK'
    BY <1>1, <1>2, <1>3, <1>5 DEF PhonesTypeOK, CodesGoOn, CodeRows
  <2>3. codes[i].held # NoAccount => holder[n] = codes[i].held
    BY <1>2, <1>3 DEF PhonesInv, HeldStands
  <2>4. NumbersMove
    BY <1>2, <1>5, <2>3, PhonesAssumption DEF NumbersMove
  <2> QED
    BY <1>3, <1>4, <1>5, <2>1, <2>2, <2>4
    DEF PhonesInv, OneRiderPerNumber, OneNumberPerRider, LiveAccount
<1>6. ASSUME ~TakenBy(n, IF holder[n] # NoAccount THEN u ELSE NoAccount)
      PROVE  PhonesInv' /\ CodesEnd /\ NumbersMove
  <2>1. /\ holder' = [holder EXCEPT ![n] = u] /\ verified' = [verified EXCEPT ![u] = n]
        /\ account' = IF holder[n] # NoAccount THEN account ELSE [account EXCEPT ![u] = "pending"]
        /\ signedIn' = IF account[u] = "registered" THEN signedIn
                       ELSE [signedIn EXCEPT ![u] = "recent"]
    BY <1>6 DEF SignInByCode
  <2>2. PhonesTypeOK'
    BY <1>1, <1>2, <1>3, <2>1 DEF PhonesTypeOK, CodesGoOn, CodeRows
  <2>3. CASE holder[n] # NoAccount
    <3>1. u = holder[n] /\ verified[u] = n
      BY <1>1, <1>3, <2>3 DEF PhonesInv, OneNumberPerRider
    <3>2. holder' = holder /\ verified' = verified /\ account' = account
      BY <1>1, <2>1, <2>3, <3>1 DEF PhonesTypeOK
    <3>3. HeldStands'
      BY <1>2, <3>2, HeldGoesOn
    <3>4. codes[i].held # NoAccount => holder[n] = codes[i].held
      BY <1>2, <1>3 DEF PhonesInv, HeldStands
    <3>5. NumbersMove
      BY <1>2, <3>2, <3>4, PhonesAssumption DEF NumbersMove
    <3> QED
      BY <1>3, <1>4, <2>2, <3>2, <3>3, <3>5
      DEF PhonesInv, OneRiderPerNumber, OneNumberPerRider, LiveAccount
  <2>4. CASE holder[n] = NoAccount
    <3>1. /\ account[u] = "unborn" /\ ~LiveAccount(u)
          /\ account' = [account EXCEPT ![u] = "pending"]
      BY <1>3, <2>1, <2>4 DEF LiveAccount
    <3>2. \A v \in Accounts : verified[v] # n
      BY <1>6, <2>4, PhonesAssumption DEF TakenBy
    <3>3. \A m \in Numbers : holder[m] # u /\ verified[u] # m /\ review[u] # m
      BY <3>1 DEF PhonesInv, OneRiderPerNumber
    <3>4. /\ \A v \in Accounts : LiveAccount(v) => LiveAccount(v)'
          /\ LiveAccount(u)'
      BY <1>1, <3>1 DEF LiveAccount, PhonesTypeOK
    <3>5. /\ \A m \in Numbers : holder'[m] = IF m = n THEN u ELSE holder[m]
          /\ \A v \in Accounts : verified'[v] = IF v = u THEN n ELSE verified[v]
      BY <1>1, <2>1 DEF PhonesTypeOK
    <3>6. HeldStands'
      <4>1. \A j \in DOMAIN codes :
              codes'[j].state \in LiveStates /\ holder[codes[j].number] # NoAccount
              => holder'[codes[j].number] = holder[codes[j].number]
        <5>1. \A j \in DOMAIN codes : codes[j].number \in Numbers
          BY CodeTypes DEF PhonesInv, CodeRows
        <5> QED
          BY <2>4, <3>5, <5>1
      <4> QED
        BY <1>2, <4>1, HeldGoesOn
    <3>7. OneRiderPerNumber' /\ OneNumberPerRider'
      BY <1>3, <3>2, <3>3, <3>4, <3>5, <2>4, PhonesAssumption DEF PhonesInv, OneRiderPerNumber, OneNumberPerRider
    <3>8. codes[i].held = NoAccount
      BY <1>2, <1>3, <2>4 DEF PhonesInv, HeldStands
    <3>9. NumbersMove
      <4> SUFFICES ASSUME NEW m \in Numbers, NEW v \in Accounts
                   PROVE  /\ verified[v] = m /\ verified'[v] # m => account'[v] = "erased" \/ signedIn[v] = "recent"
                          /\ holder[m] = v /\ holder'[m] # v => account'[v] = "erased"
                          /\ \A j \in DOMAIN codes :
                               /\ codes[j].state # "consumed" /\ codes'[j].state = "consumed"
                               /\ codes[j].number = m
                               /\ codes[j].owner = NoAccount /\ codes[j].held = v
                               => holder'[m] = v
        BY DEF NumbersMove
      <4>1. verified[v] = m => verified'[v] = m
        BY <3>3, <3>5
      <4>2. holder[m] = v => holder'[m] = v
        BY <2>4, <3>5, PhonesAssumption
      <4>3. \A j \in DOMAIN codes :
              codes[j].state # "consumed" /\ codes'[j].state = "consumed" => codes[j].held # v
        BY <1>2, <3>8, PhonesAssumption
      <4> QED
        BY <4>1, <4>2, <4>3
    <3> QED
      BY <1>4, <2>2, <3>6, <3>7, <3>9 DEF PhonesInv
  <2> QED
    BY <2>3, <2>4
<1> QED
  BY <1>5, <1>6 DEF SignInByCode

(* Proving a number for an account changes nobody else's. *)
LEMMA ConfirmKeeps ==
  ASSUME PhonesInv, NEW i \in DOMAIN codes, ConfirmCode(i)
  PROVE  PhonesInv' /\ CodesEnd /\ NumbersMove
<1> DEFINE n == codes[i].number
           u == codes[i].owner
<1>1. /\ PhonesTypeOK /\ codes[i] \in CodeRows /\ n \in Numbers /\ u \in Accounts
      /\ LiveAccount(u) /\ (Contested(n, u) \/ MayReplace(n, u))
      /\ UNCHANGED <<holder, account, signedIn>>
  BY CodeTypes DEF PhonesInv, CodeRows, ConfirmCode, MayAct, LiveAccount
<1>2. /\ CodesGoOn /\ codes[i].state \in LiveStates /\ codes'[i].state \notin LiveStates
      /\ \A j \in DOMAIN codes \ {i} : codes'[j] = codes[j]
  BY ConsumedRow DEF ConfirmCode
<1>3. OneLiveCode' /\ CodesEnd /\ HeldStands'
  BY <1>1, <1>2, CodesStay, HeldGoesOn
<1>4. \A j \in DOMAIN codes : codes'[j].state # codes[j].state => codes[j].owner # NoAccount
  BY <1>1, <1>2, PhonesAssumption
<1>5. CASE Contested(n, u)
  <2>1. review' = [review EXCEPT ![u] = n] /\ verified' = verified
    BY <1>5 DEF ConfirmCode
  <2>2. PhonesTypeOK'
    BY <1>1, <1>2, <2>1 DEF PhonesTypeOK, CodesGoOn, CodeRows
  <2>3. OneRiderPerNumber' /\ OneNumberPerRider'
    BY <1>1, <2>1 DEF PhonesInv, OneRiderPerNumber, OneNumberPerRider, LiveAccount, PhonesTypeOK
  <2>4. NumbersMove
    BY <1>1, <1>4, <2>1 DEF NumbersMove
  <2> QED
    BY <1>3, <2>2, <2>3, <2>4 DEF PhonesInv
<1>6. CASE ~Contested(n, u)
  <2>1. review' = [review EXCEPT ![u] = NoNumber] /\ verified' = [verified EXCEPT ![u] = n]
    BY <1>6 DEF ConfirmCode
  <2>2. /\ holder[n] \in {NoAccount, u} /\ \A v \in Accounts \ {u} : verified[v] # n
        /\ \A m \in Numbers \ {n} : holder[m] # u
    BY <1>6 DEF Contested, TakenBy
  <2>3. PhonesTypeOK'
    BY <1>1, <1>2, <2>1 DEF PhonesTypeOK, CodesGoOn, CodeRows
  <2>4. /\ \A v \in Accounts : verified'[v] = IF v = u THEN n ELSE verified[v]
        /\ \A v \in Accounts : review'[v] = IF v = u THEN NoNumber ELSE review[v]
    BY <1>1, <2>1 DEF PhonesTypeOK
  <2>5. OneRiderPerNumber' /\ OneNumberPerRider'
    <3>1. \A m \in Numbers, v, w \in Accounts : holder[m] = v /\ verified'[w] = m => v = w
      BY <2>2, <2>4, PhonesAssumption DEF PhonesInv, OneRiderPerNumber
    <3>2. \A m \in Numbers, v, w \in Accounts : verified'[v] = m /\ verified'[w] = m => v = w
      BY <2>2, <2>4 DEF PhonesInv, OneRiderPerNumber
    <3>3. \A m \in Numbers, v \in Accounts :
            (holder[m] = v \/ verified'[v] = m \/ review'[v] = m) => LiveAccount(v)
      BY <1>1, <2>4, PhonesAssumption DEF PhonesInv, OneRiderPerNumber
    <3>4. \A k, m \in Numbers, v \in Accounts :
            holder[m] = v => verified'[v] = m /\ (holder[k] = v => m = k)
      BY <2>2, <2>4 DEF PhonesInv, OneNumberPerRider
    <3> QED
      BY <1>1, <3>1, <3>2, <3>3, <3>4 DEF OneRiderPerNumber, OneNumberPerRider, LiveAccount
  <2>6. NumbersMove
    <3>1. verified[u] \in {NoNumber, n} \/ signedIn[u] = "recent"
      BY <1>1, <1>6 DEF MayReplace
    <3> QED
      BY <1>1, <1>4, <2>4, <3>1, PhonesAssumption DEF NumbersMove
  <2> QED
    BY <1>3, <2>3, <2>5, <2>6 DEF PhonesInv
<1> QED
  BY <1>5, <1>6

(* Steps of an account that leave its numbers alone. *)
LEMMA AccountStepKeeps ==
  ASSUME PhonesInv, NEW u \in Accounts, Register(u) \/ SignInOtherwise(u) \/ AgeSession(u)
  PROVE  PhonesInv' /\ CodesEnd /\ NumbersMove
<1>1. /\ PhonesTypeOK /\ UNCHANGED <<codes, holder, verified, review>>
      /\ account' = account \/ (LiveAccount(u) /\ account' = [account EXCEPT ![u] = "registered"])
      /\ signedIn' \in [Accounts -> {"none", "recent", "older"}]
  BY DEF PhonesInv, PhonesTypeOK, Register, SignInOtherwise, AgeSession, LiveAccount
<1>2. /\ PhonesTypeOK' /\ \A v \in Accounts : LiveAccount(v) => LiveAccount(v)'
  BY <1>1 DEF PhonesTypeOK, LiveAccount
<1>3. \A i \in DOMAIN codes : codes[i] \in CodeRows
  BY <1>1, CodeTypes
<1>4. CodesEnd
  <2>1. \A i \in DOMAIN codes : codes[i].tries <= MaxTries
    BY <1>3 DEF CodeRows
  <2> QED
    BY <1>1, <2>1 DEF CodesEnd
<1>5. NumbersMove
  BY <1>1 DEF NumbersMove
<1> QED
  BY <1>1, <1>2, <1>4, <1>5
  DEF PhonesInv, OneRiderPerNumber, OneNumberPerRider, OneLiveCode, HeldStands

(* An erasure gives the numbers back and takes the codes for them along. *)
LEMMA EraseRiderKeeps ==
  ASSUME PhonesInv, NEW u \in Accounts, EraseRider(u)
  PROVE  PhonesInv' /\ CodesEnd /\ NumbersMove
<1> DEFINE S == {i \in DOMAIN codes : Withdrawn(u, codes[i])}
<1>1. PhonesTypeOK /\ \A i \in DOMAIN codes : codes[i].number \in Numbers
  BY CodeTypes DEF PhonesInv, CodeRows
<1>2. CodesGoOn /\ \A i \in S : i \in DOMAIN codes => codes'[i].state \notin LiveStates
  <2>1. codes' = [i \in DOMAIN codes |-> IF i \in S /\ codes[i].state \in LiveStates
                                         THEN [codes[i] EXCEPT !.state = "failed"] ELSE codes[i]]
    BY DEF EraseRider, Scrubbed
  <2> HIDE DEF S
  <2> QED
    BY <1>1, <2>1, ManyCodesEnd
<1>3. /\ \A n \in Numbers : holder'[n] = IF holder[n] = u THEN NoAccount ELSE holder[n]
      /\ \A v \in Accounts : verified'[v] = IF v = u THEN NoNumber ELSE verified[v]
      /\ \A v \in Accounts : review'[v] = IF v = u THEN NoNumber ELSE review[v]
      /\ \A v \in Accounts : account'[v] = IF v = u THEN "erased" ELSE account[v]
  BY <1>1 DEF EraseRider, PhonesTypeOK
<1>4. PhonesTypeOK'
  BY <1>1, <1>2 DEF EraseRider, PhonesTypeOK, CodesGoOn, CodeRows
<1>5. OneLiveCode' /\ CodesEnd
  BY <1>2, CodesStay
<1>6. HeldStands'
  <2>1. \A i \in DOMAIN codes :
          codes'[i].state \in LiveStates /\ holder[codes[i].number] # NoAccount
          => holder'[codes[i].number] = holder[codes[i].number]
    BY <1>1, <1>2, <1>3 DEF Withdrawn
  <2> QED
    BY <1>2, <2>1, HeldGoesOn
<1>7. OneRiderPerNumber' /\ OneNumberPerRider'
  <2>1. \A v \in Accounts : v # u => (LiveAccount(v) <=> LiveAccount(v)')
    BY <1>3 DEF LiveAccount
  <2> QED
    BY <1>3, <2>1, PhonesAssumption DEF PhonesInv, OneRiderPerNumber, OneNumberPerRider
<1>8. NumbersMove
  <2>1. \A i \in DOMAIN codes : codes[i].state # "consumed" => codes'[i].state # "consumed"
    <3>1. \A i \in DOMAIN codes : codes[i] \in CodeRows
      BY <1>1, CodeTypes
    <3>2. \A i \in DOMAIN codes :
            codes'[i] = codes[i] \/ codes'[i] = [codes[i] EXCEPT !.state = "failed"]
      BY DEF EraseRider, Scrubbed
    <3> QED
      BY <3>1, <3>2 DEF CodeRows
  <2> QED
    BY <1>3, <2>1 DEF NumbersMove
<1> QED
  BY <1>4, <1>5, <1>6, <1>7, <1>8 DEF PhonesInv

(* Nobody has a number at the beginning. *)
LEMMA PhonesStart == PhonesInit => PhonesInv
<1> SUFFICES ASSUME PhonesInit PROVE PhonesInv
  OBVIOUS
<1>1. codes \in Seq(CodeRows) /\ DOMAIN codes = {}
  BY EmptySeq DEF PhonesInit
<1>2. PhonesTypeOK
  BY <1>1, PhonesAssumption DEF PhonesInit, PhonesTypeOK, CodeRows
<1>3. OneRiderPerNumber /\ OneNumberPerRider
  BY PhonesAssumption DEF PhonesInit, OneRiderPerNumber, OneNumberPerRider
<1> QED
  BY <1>1, <1>2, <1>3 DEF PhonesInv, OneLiveCode, HeldStands

(* Every step keeps the invariant and does to codes and numbers what it may. *)
LEMMA PhonesStep ==
  ASSUME PhonesInv, PhonesNext
  PROVE  PhonesInv' /\ CodesEnd /\ NumbersMove
<1>1. CASE \E n \in Numbers, owner \in Accounts \cup {NoAccount} : RequestCode(n, owner)
  BY <1>1, RequestKeeps
<1>2. CASE \E i \in DOMAIN codes :
             \/ \E accepted \in BOOLEAN : NoteSms(i, accepted)
             \/ ExpireCode(i) \/ GuessWrong(i)
  BY <1>2, NoteKeeps
<1>3. CASE \E i \in DOMAIN codes : ConfirmCode(i)
  BY <1>3, ConfirmKeeps
<1>4. CASE \E i \in DOMAIN codes, u \in Accounts : SignInByCode(i, u)
  BY <1>4, SignInKeepsNumbers
<1>5. CASE \E u \in Accounts : Register(u) \/ SignInOtherwise(u) \/ AgeSession(u)
  BY <1>5, AccountStepKeeps
<1>6. CASE \E u \in Accounts : EraseRider(u)
  BY <1>6, EraseRiderKeeps
<1> QED
  BY <1>1, <1>2, <1>3, <1>4, <1>5, <1>6 DEF PhonesNext

(* For any numbers, accounts and limits: a number is one rider's, a code   *)
(* that is over stays over, and no code asked for while the number was an  *)
(* account's opens another one (PhoneOtp, phone-otp.ts).                   *)
THEOREM NumbersAreSafe == PhonesSpec => PhonesSafe
<1>1. PhonesInv /\ [PhonesNext]_phoneVars => PhonesInv' /\ [CodesEnd /\ NumbersMove]_phoneVars
  <2>1. CASE PhonesInv /\ PhonesNext
    BY <2>1, PhonesStep
  <2>2. PhonesInv /\ UNCHANGED phoneVars => PhonesInv'
    BY DEF phoneVars, PhonesInv, PhonesTypeOK, OneRiderPerNumber, OneNumberPerRider, OneLiveCode,
       HeldStands, LiveAccount
  <2> QED
    BY <2>1, <2>2
<1>2. PhonesInv => PhonesTypeOK /\ OneRiderPerNumber /\ OneNumberPerRider /\ OneLiveCode
  BY DEF PhonesInv
<1> QED
  BY PhonesStart, <1>1, <1>2, PTL DEF PhonesSpec, PhonesSafe

-----------------------------------------------------------------------------
(* Email addresses *)

CredentialRows == [email : Nowhere, password : Nat, verified : BOOLEAN,
                   pending : BOOLEAN, version : Nat]
EntryRows == [user : Nobodies, password : Nat, recent : BOOLEAN]
ReadingRows == [kind : {"none", "link", "signin", "change"}, version : Nat,
                link : Links, session : 0 .. MaxOpened, of : Nobodies]

(* Where a credential stands: a password has the version it was set for or *)
(* an older one; a verified address has a password, a sign-up under way    *)
(* none, and neither is of an account that is gone.                        *)
Standing(u) ==
  /\ credential[u].password <= credential[u].version
  /\ credential[u].verified => Holds(u) /\ ~Gone(u)
  /\ credential[u].pending => ~Gone(u) /\ ~Holds(u) /\ u \notin identified
  /\ rider[u] = "unborn" => credential[u] = NoCredential /\ u \notin identified

(* A link is for the credential as it is, or for an earlier version.       *)
LinkFits(l) ==
  /\ l.user \in Owners /\ l.version <= credential[l.user].version
  /\ l.version = credential[l.user].version =>
       /\ ~Gone(l.user) /\ credential[l.user].email = l.email
       /\ l.purpose = "reset" => credential[l.user].verified

(* So is what a call remembers.                                            *)
ReadingFits(b) == LET r == reading[b] IN
  r.kind # "none" =>
    /\ r.of \in Owners /\ r.version <= credential[r.of].version
    /\ r.kind # "link" /\ r.version = credential[r.of].version => Holds(r.of)
    /\ r.kind = "link" => r.of = r.link.user

(* Nobody is signed in before an address was proved or an identity shown.  *)
EntryFits(s) == entered[s] # NoEntry =>
  LET u == entered[s].user IN
  u \in Owners /\ ~Gone(u) /\ entered[s].password >= credential[u].password /\ ~credential[u].pending

EmailInv ==
  /\ EmailTypeOK /\ OneOwner
  /\ \A u \in Owners : Standing(u)
  /\ \A l \in links : LinkFits(l)
  /\ \A b \in Browsers : ReadingFits(b)
  /\ \A s \in DOMAIN entered : EntryFits(s)

(* A credential only moves to newer versions, unless it keeps what links   *)
(* and calls rely on.                                                      *)
Onward(u) ==
  /\ credential[u].version <= credential'[u].version
  /\ credential[u].version = credential'[u].version =>
       /\ credential'[u].email = credential[u].email /\ (~Gone(u) => ~Gone(u)')
       /\ credential[u].verified => credential'[u].verified
       /\ Holds(u) => Holds(u)'
OnlyOf(u) == \A v \in Owners \ {u} :
  /\ credential'[v] = credential[v] /\ rider'[v] = rider[v]
  /\ v \in identified' <=> v \in identified

(* What a session that goes on needs of its rider                          *)
EntryStands(u) ==
  /\ ~Gone(u) => ~Gone(u)'
  /\ credential'[u].password <= credential[u].password
  /\ credential'[u].pending => credential[u].pending

(* What is there after a step was there before, or fits.                   *)
LinksKept == \A l \in links' : l \in links \/ LinkFits(l)'
ReadingsKept == \A b \in Browsers :
  reading'[b] = reading[b] \/ reading'[b] = AtRest \/ ReadingFits(b)'
EntriesKept == \A s \in DOMAIN entered' :
  \/ entered'[s] = NoEntry \/ EntryFits(s)'
  \/ /\ s \in DOMAIN entered /\ entered[s] # NoEntry
     /\ entered'[s].user = entered[s].user /\ entered'[s].password = entered[s].password
     /\ EntryStands(entered[s].user)

(* The types, by name *)
LEMMA EmailFields ==
  ASSUME EmailTypeOK
  PROVE  /\ \A u \in Owners : credential[u] \in CredentialRows
         /\ \A u \in Owners : credential[u].version \in Nat /\ credential[u].password \in Nat
         /\ \A l \in links : l \in Links /\ l.version \in Nat
         /\ entered \in Seq(EntryRows) /\ \A s \in DOMAIN entered : entered[s] \in EntryRows
         /\ \A b \in Browsers : reading[b] \in ReadingRows
<1>1. \A u \in Owners : credential[u] \in CredentialRows
  BY DEF EmailTypeOK, CredentialRows
<1>2. \A l \in links : l \in Links /\ l.version \in Nat
  BY DEF EmailTypeOK, Links
<1>3. entered \in Seq(EntryRows)
  BY DEF EmailTypeOK, EntryRows
<1>4. \A b \in Browsers : reading[b] \in ReadingRows
  BY DEF EmailTypeOK, ReadingRows
<1>5. \A u \in Owners : credential[u].version \in Nat /\ credential[u].password \in Nat
  BY <1>1 DEF CredentialRows
<1> QED
  BY <1>1, <1>2, <1>3, <1>4, <1>5

(* Nobody is none of the owners, so an empty entry is nobody's.            *)
LEMMA EmptyRows ==
  /\ NoEntry \in EntryRows /\ NoEntry.user \notin Owners /\ ~NoEntry.recent
  /\ AtRest \in ReadingRows /\ AtRest.kind = "none"
  /\ NoCredential \in CredentialRows /\ NoCredential.version = 0 /\ NoCredential.password = 0
  /\ ~NoCredential.verified /\ ~NoCredential.pending /\ NoLink \in Links
<1>1. 0 \in 0 .. MaxOpened
  BY EmailAssumption
<1>2. NoLink \in Links
  BY <1>1 DEF NoLink, Links, Nobodies, Nowhere
<1> QED
  BY <1>1, <1>2, EmailAssumption
  DEF NoEntry, EntryRows, AtRest, ReadingRows, NoCredential, CredentialRows, Nobodies, Nowhere

(* A step about one account that keeps what is said of links, calls,       *)
(* sessions and of this account keeps the invariant.                       *)
LEMMA OneAccount ==
  ASSUME EmailInv, EmailTypeOK', NEW u \in Owners, OnlyOf(u), Onward(u), Standing(u)',
         LinksKept, ReadingsKept, EntriesKept,
         \/ ~credential'[u].verified
         \/ credential[u].verified /\ credential'[u].email = credential[u].email
         \/ \A v \in Owners \ {u} : ~HasVerified(v, credential'[u].email),
         credential[u].verified =>
           rider'[u] = "erased" \/ (credential'[u].verified
                                    /\ credential'[u].email = credential[u].email)
  PROVE  EmailInv' /\ VerifiedStays
<1>1. EmailTypeOK /\ OneOwner
  BY DEF EmailInv
<1>n. \A v \in Owners : credential'[v].version \in Nat /\ credential'[v].password \in Nat
  BY DEF EmailTypeOK
<1>2. \A v \in Owners : Onward(v)
  <2>1. ASSUME NEW v \in Owners \ {u} PROVE Onward(v)
    <3>1. /\ credential'[v] = credential[v] /\ rider'[v] = rider[v]
          /\ credential[v].version \in Nat
      BY <1>1, EmailFields DEF OnlyOf
    <3> QED
      BY <3>1 DEF Onward, Gone, Holds
  <2> QED
    BY <2>1
<1>3. OneOwner'
  <2> SUFFICES ASSUME NEW v \in Owners, NEW w \in Owners, NEW e \in Addresses,
                      HasVerified(v, e)', HasVerified(w, e)'
               PROVE  v = w
    BY DEF OneOwner
  <2>1. \A x \in Owners \ {u} : HasVerified(x, e)' <=> HasVerified(x, e)
    BY DEF OnlyOf, HasVerified
  <2>2. CASE v # u /\ w # u
    BY <1>1, <2>1, <2>2 DEF OneOwner
  <2>3. CASE v = u /\ w # u
    <3>1. /\ credential'[u].verified /\ credential'[u].email = e /\ HasVerified(w, e)
      BY <2>1, <2>3 DEF HasVerified
    <3>2. HasVerified(u, e)
      BY <2>3, <3>1 DEF HasVerified
    <3> QED
      BY <1>1, <2>3, <3>1, <3>2 DEF OneOwner
  <2>4. CASE v # u /\ w = u
    <3>1. /\ credential'[u].verified /\ credential'[u].email = e /\ HasVerified(v, e)
      BY <2>1, <2>4 DEF HasVerified
    <3>2. HasVerified(u, e)
      BY <2>4, <3>1 DEF HasVerified
    <3> QED
      BY <1>1, <2>4, <3>1, <3>2 DEF OneOwner
  <2> QED
    BY <2>2, <2>3, <2>4
<1>4. ASSUME NEW v \in Owners PROVE Standing(v)'
  <2>1. CASE v # u
    <3>1. /\ credential'[v] = credential[v] /\ rider'[v] = rider[v]
          /\ v \in identified' <=> v \in identified
      BY <2>1 DEF OnlyOf
    <3> QED
      BY <3>1 DEF EmailInv, Standing, Holds, Gone
  <2> QED
    BY <2>1
<1>5. ASSUME NEW l \in links' PROVE LinkFits(l)'
  <2>1. CASE l \in links
    <3>1. LinkFits(l) /\ l.user \in Owners /\ l.version \in Nat
      BY <1>1, <2>1, EmailFields DEF EmailInv, LinkFits
    <3>2. Onward(l.user) /\ credential[l.user].version \in Nat /\ credential'[l.user].version \in Nat
      BY <1>1, <1>2, <1>n, <3>1, EmailFields
    <3> QED
      BY <3>1, <3>2 DEF LinkFits, Onward, Gone
  <2> QED
    BY <2>1 DEF LinksKept
<1>6. ASSUME NEW b \in Browsers PROVE ReadingFits(b)'
  <2>1. CASE reading'[b] = reading[b] /\ reading[b].kind # "none"
    <3>1. /\ ReadingFits(b) /\ reading[b].of \in Owners /\ reading[b].version \in Nat
      BY <1>1, <2>1, EmailFields DEF EmailInv, ReadingFits, ReadingRows
    <3>2. /\ Onward(reading[b].of) /\ credential[reading[b].of].version \in Nat
          /\ credential'[reading[b].of].version \in Nat
      BY <1>1, <1>2, <1>n, <3>1, EmailFields
    <3> QED
      BY <2>1, <3>1, <3>2 DEF ReadingFits, Onward, Holds
  <2>2. CASE reading'[b].kind = "none"
    BY <2>2 DEF ReadingFits
  <2> QED
    BY <2>1, <2>2, EmptyRows DEF ReadingsKept
<1>7. ASSUME NEW s \in DOMAIN entered' PROVE EntryFits(s)'
  <2>1. CASE entered'[s] = NoEntry
    BY <2>1 DEF EntryFits
  <2>2. CASE /\ s \in DOMAIN entered /\ entered[s] # NoEntry
             /\ entered'[s].user = entered[s].user /\ entered'[s].password = entered[s].password
             /\ EntryStands(entered[s].user)
    <3>1. EntryFits(s) /\ entered[s].user \in Owners /\ entered[s].password \in Nat
      BY <1>1, <2>2, EmailFields DEF EmailInv, EntryFits, EntryRows
    <3>2. /\ credential[entered[s].user].password \in Nat
          /\ credential'[entered[s].user].password \in Nat
      BY <1>1, <1>n, <3>1, EmailFields
    <3> QED
      BY <2>2, <3>1, <3>2 DEF EntryFits, EntryStands, Gone
  <2> QED
    BY <2>1, <2>2 DEF EntriesKept
<1>8. VerifiedStays
  <2> SUFFICES ASSUME NEW v \in Owners, NEW e \in Addresses, HasVerified(v, e)
               PROVE  rider'[v] = "erased" \/ (credential'[v].verified /\ credential'[v].email = e)
    BY DEF VerifiedStays
  <2> QED
    BY DEF HasVerified, OnlyOf
<1> QED
  BY <1>3, <1>4, <1>5, <1>6, <1>7, <1>8 DEF EmailInv

(* So does a step that leaves the accounts alone.                          *)
LEMMA NoAccountChanges ==
  ASSUME EmailInv, EmailTypeOK', UNCHANGED <<rider, identified, credential>>,
         LinksKept, ReadingsKept, EntriesKept
  PROVE  EmailInv' /\ VerifiedStays
<1>1. CASE Owners = {}
  <2>1. EmailTypeOK
    BY DEF EmailInv
  <2>2. \A l \in links : l.user \in Owners
    BY DEF EmailInv, LinkFits
  <2>3. \A l \in links' : LinkFits(l)'
    BY <1>1, <2>2 DEF LinksKept
  <2>4. \A b \in Browsers : ReadingFits(b)'
    <3> SUFFICES ASSUME NEW b \in Browsers, reading'[b].kind # "none" PROVE ReadingFits(b)'
      BY DEF ReadingFits
    <3>1. CASE reading'[b] = reading[b]
      BY <1>1, <3>1 DEF EmailInv, ReadingFits
    <3> QED
      BY <3>1, EmptyRows DEF ReadingsKept
  <2>5. \A s \in DOMAIN entered' : EntryFits(s)'
    <3> SUFFICES ASSUME NEW s \in DOMAIN entered', entered'[s] # NoEntry PROVE EntryFits(s)'
      BY DEF EntryFits
    <3> QED
      BY <1>1 DEF EmailInv, EntryFits, EntriesKept
  <2> QED
    BY <1>1, <2>3, <2>4, <2>5 DEF EmailInv, OneOwner, VerifiedStays
<1>2. CASE Owners # {}
  <2>1. PICK u \in Owners : TRUE
    BY <1>2
  <2>2. EmailTypeOK /\ credential[u].version \in Nat /\ Standing(u)
    BY EmailFields DEF EmailInv
  <2>3. OnlyOf(u) /\ Onward(u) /\ Standing(u)'
    BY <2>2 DEF OnlyOf, Onward, Standing, Gone, Holds
  <2>4. \/ ~credential'[u].verified
        \/ credential[u].verified /\ credential'[u].email = credential[u].email
    OBVIOUS
  <2> QED
    BY <2>3, <2>4, OneAccount
<1> QED
  BY <1>1, <1>2

(* Everybody else stays signed in.                                         *)
LEMMA SignedOutFits ==
  ASSUME EmailInv, NEW u \in Owners, OnlyOf(u), entered' = SignedOut(u)
  PROVE  EntriesKept /\ entered' \in Seq(EntryRows)
<1>1. EmailTypeOK /\ entered \in Seq(EntryRows) /\ \A s \in DOMAIN entered : entered[s] \in EntryRows
  BY EmailFields DEF EmailInv
<1>2. /\ DOMAIN entered' = DOMAIN entered /\ entered' = [s \in DOMAIN entered |-> entered'[s]]
      /\ \A s \in DOMAIN entered :
           entered'[s] = IF entered[s].user = u THEN NoEntry ELSE entered[s]
  BY DEF SignedOut
<1>3. entered' \in Seq(EntryRows)
  <2>1. entered' \in [DOMAIN entered -> EntryRows]
    BY <1>1, <1>2, EmptyRows
  <2> QED
    BY <1>1, <2>1, Rewritten
<1>4. ASSUME NEW v \in Owners \ {u} PROVE EntryStands(v)
  <2>1. /\ credential'[v] = credential[v] /\ rider'[v] = rider[v]
        /\ credential[v].password \in Nat
    BY <1>1, EmailFields DEF OnlyOf
  <2> QED
    BY <2>1 DEF EntryStands, Gone
<1>6. \A s \in DOMAIN entered : entered[s] # NoEntry => entered[s].user \in Owners
  BY DEF EmailInv, EntryFits
<1>5. EntriesKept
  BY <1>2, <1>4, <1>6 DEF EntriesKept
<1> QED
  BY <1>3, <1>5

(* Sessions that nothing happens to *)
LEMMA EntriesRest ==
  ASSUME EmailInv, NEW u \in Owners, OnlyOf(u), EntryStands(u), entered' = entered
  PROVE  EntriesKept
<1>1. EmailTypeOK
  BY DEF EmailInv
<1>2. ASSUME NEW v \in Owners PROVE EntryStands(v)
  <2>1. CASE v # u
    <3>1. /\ credential'[v] = credential[v] /\ rider'[v] = rider[v]
          /\ credential[v].password \in Nat
      BY <1>1, <2>1, EmailFields DEF OnlyOf
    <3> QED
      BY <3>1 DEF EntryStands, Gone
  <2> QED
    BY <2>1
<1>3. \A s \in DOMAIN entered : entered[s] # NoEntry => entered[s].user \in Owners
  BY DEF EmailInv, EntryFits
<1> QED
  BY <1>2, <1>3 DEF EntriesKept

(* A link that is mailed for the credential as it is now *)
LEMMA MailedFits ==
  ASSUME EmailInv, NEW u \in Owners, NEW ls, ls \subseteq links, NEW version,
         NEW purpose \in {"signup", "link", "reset", "contact"}, NEW s \in 0 .. MaxOpened,
         Mailed(ls, u, version, purpose, s),
         version = credential'[u].version, credential'[u] \in CredentialRows,
         ~Gone(u)', purpose = "reset" => credential'[u].verified
  PROVE  LinksKept /\ links' \subseteq Links
<1>1. links \subseteq Links
  BY DEF EmailInv, EmailTypeOK
<1>2. credential'[u].version \in Nat /\ credential'[u].email \in Nowhere
  BY DEF CredentialRows
<1>3. PICK new \in Links :
        /\ links' = ls \/ links' = ls \cup {new}
        /\ new.user = u /\ new.version = credential'[u].version
        /\ new.email = credential'[u].email /\ new.purpose = purpose
  <2> DEFINE fresh == [user |-> u, email |-> credential'[u].email, version |-> version,
                       purpose |-> purpose, session |-> s]
  <2>1. links' = ls \/ links' = ls \cup {fresh}
    BY DEF Mailed
  <2>2. fresh \in Links
    BY <1>2 DEF Links, Nobodies
  <2> QED
    BY <2>1, <2>2
<1>4. LinkFits(new)'
  BY <1>2, <1>3 DEF LinkFits
<1>5. \A l \in links' : l \in links \/ l = new
  BY <1>3
<1>6. links' \subseteq Links
  BY <1>1, <1>3, <1>5
<1> QED
  BY <1>4, <1>5, <1>6 DEF LinksKept

-----------------------------------------------------------------------------

(* A sign-up, again or for an account that begins with it *)
LEMMA SignupKept ==
  ASSUME EmailInv, NEW u \in Owners, NEW e \in Addresses, RequestSignup(u, e)
  PROVE  EmailInv' /\ VerifiedStays
<1>0. /\ EmailTypeOK /\ credential[u] \in CredentialRows /\ Standing(u) /\ 0 \in 0 .. MaxOpened
      /\ credential[u].version \in Nat
  BY EmailFields, EmailAssumption DEF EmailInv
<1>1. /\ UNCHANGED <<identified, contact, entered, reading>> /\ ReadingsKept
      /\ \A v \in Owners : ~HasVerified(v, e)
  BY DEF RequestSignup, ReadingsKept
<1>2. CASE /\ credential[u].pending /\ credential[u].email = e /\ UNCHANGED <<rider, credential>>
           /\ Mailed(links, u, credential[u].version, "signup", 0)
  <2>1. ~Gone(u)' /\ credential'[u] = credential[u]
    BY <1>0, <1>2 DEF Standing, Gone
  <2>2. LinksKept /\ links' \subseteq Links
    <3>1. Mailed(links, u, credential[u].version, "signup", 0)
      BY <1>2
    <3> QED
      BY <1>0, <2>1, <3>1, MailedFits
  <2>3. EmailTypeOK'
    BY <1>0, <1>1, <1>2, <2>2 DEF EmailTypeOK
  <2>4. EntriesKept
    <3>1. OnlyOf(u) /\ EntryStands(u)
      BY <1>0, <1>1, <1>2, EmailFields DEF OnlyOf, EntryStands, Gone
    <3> QED
      BY <1>1, <3>1, EntriesRest
  <2> QED
    BY <1>1, <1>2, <2>2, <2>3, <2>4, NoAccountChanges
<1>3. CASE /\ rider[u] = "unborn" /\ rider' = [rider EXCEPT ![u] = "live"]
           /\ credential' = [credential EXCEPT ![u] =
                [NoCredential EXCEPT !.email = e, !.pending = TRUE, !.version = 1]]
           /\ Mailed(links, u, 1, "signup", 0)
  <2> DEFINE d == [NoCredential EXCEPT !.email = e, !.pending = TRUE, !.version = 1]
  <2>1. /\ d \in CredentialRows /\ d.version = 1 /\ d.password = 0 /\ ~d.verified /\ d.email = e
    BY DEF NoCredential, CredentialRows, Nowhere
  <2>2. credential[u] = NoCredential /\ u \notin identified
    BY <1>0, <1>3 DEF Standing
  <2>3. /\ credential'[u] = d /\ rider'[u] = "live" /\ OnlyOf(u)
        /\ credential' \in [Owners -> CredentialRows]
    <3>1. credential \in [Owners -> CredentialRows] /\ rider \in [Owners -> {"unborn", "registering", "live", "erased"}]
      BY <1>0 DEF EmailTypeOK, CredentialRows
    <3> HIDE DEF d
    <3>2. credential' = [credential EXCEPT ![u] = d]
      BY <1>3 DEF d
    <3> QED
      BY <1>1, <1>3, <2>1, <3>1, <3>2 DEF OnlyOf
  <2> HIDE DEF d
  <2>4. LinksKept /\ links' \subseteq Links
    <3>1. Mailed(links, u, 1, "signup", 0)
      BY <1>3
    <3>2. ~Gone(u)'
      BY <2>3 DEF Gone
    <3> QED
      BY <1>0, <2>1, <2>3, <3>1, <3>2, MailedFits
  <2>5. EmailTypeOK'
    BY <1>0, <1>1, <1>3, <2>3, <2>4 DEF EmailTypeOK, CredentialRows
  <2>6. Onward(u) /\ Standing(u)'
    BY <1>1, <2>1, <2>2, <2>3, EmptyRows DEF Onward, Standing, Gone, Holds
  <2>7. EntriesKept
    <3>1. \A s \in DOMAIN entered : entered[s] # NoEntry => entered[s].user \in Owners \ {u}
      BY <1>3 DEF EmailInv, EntryFits, Gone
    <3>2. ASSUME NEW v \in Owners \ {u} PROVE EntryStands(v)
      <4>1. /\ credential'[v] = credential[v] /\ rider'[v] = rider[v]
            /\ credential[v].password \in Nat
        BY <1>0, <2>3, EmailFields DEF OnlyOf
      <4> QED
        BY <4>1 DEF EntryStands, Gone
    <3> QED
      BY <1>1, <3>1, <3>2 DEF EntriesKept
  <2>8. ~credential[u].verified
    BY <2>2, EmptyRows
  <2> QED
    BY <1>1, <2>1, <2>3, <2>4, <2>5, <2>6, <2>7, <2>8, OneAccount
<1> QED
  BY <1>2, <1>3 DEF RequestSignup

(* Links to a verified address, or to the one a registered rider gave *)
LEMMA RemindKept ==
  ASSUME EmailInv,
         \/ \E u \in Owners, e \in Addresses : RequestReset(u, e)
         \/ \E s \in 1 .. MaxOpened : s \in DOMAIN entered /\ ResendContact(s)
  PROVE  EmailInv' /\ VerifiedStays
<1>0. EmailTypeOK /\ 0 \in 0 .. MaxOpened
  BY EmailAssumption DEF EmailInv
<1>1. UNCHANGED <<rider, identified, contact, credential, entered, reading>>
  BY DEF RequestReset, ResendContact
<1>2. PICK u \in Owners, purpose \in {"reset", "contact"} :
        /\ Mailed(links, u, credential[u].version, purpose, 0) /\ ~Gone(u)
        /\ purpose = "reset" => credential[u].verified
  <2>1. ASSUME NEW u \in Owners, NEW e \in Addresses, RequestReset(u, e)
        PROVE  /\ Mailed(links, u, credential[u].version, "reset", 0) /\ ~Gone(u)
               /\ credential[u].verified
    <3>1. Standing(u)
      BY DEF EmailInv
    <3> QED
      BY <2>1, <3>1 DEF RequestReset, HasVerified, Standing
  <2>2. ASSUME NEW s \in DOMAIN entered, ResendContact(s)
        PROVE  \E u \in Owners : /\ Mailed(links, u, credential[u].version, "contact", 0) /\ ~Gone(u)
    <3>1. entered[s].user \in Owners /\ ~Gone(entered[s].user)
      BY <2>2 DEF EmailInv, EntryFits, ResendContact, Authorized
    <3>2. Mailed(links, entered[s].user, credential[entered[s].user].version, "contact", 0)
      BY <2>2 DEF ResendContact
    <3> QED
      BY <3>1, <3>2
  <2> QED
    BY <2>1, <2>2
<1>3. credential[u] \in CredentialRows /\ credential'[u] = credential[u] /\ ~Gone(u)'
  BY <1>0, <1>1, <1>2, EmailFields DEF Gone
<1>4. LinksKept /\ links' \subseteq Links
  BY <1>0, <1>2, <1>3, MailedFits
<1>5. EmailTypeOK'
  BY <1>0, <1>1, <1>4 DEF EmailTypeOK
<1>6. EntriesKept
  <2>1. OnlyOf(u) /\ EntryStands(u)
    BY <1>0, <1>1, <1>2, EmailFields DEF OnlyOf, EntryStands, Gone
  <2> QED
    BY <1>1, <2>1, EntriesRest
<1>7. ReadingsKept
  BY <1>1 DEF ReadingsKept
<1> QED
  BY <1>1, <1>4, <1>5, <1>6, <1>7, NoAccountChanges

(* A step that writes the credential of one account *)
LEMMA OneRow ==
  ASSUME EmailTypeOK, NEW u \in Owners, NEW d \in CredentialRows,
         credential' = [credential EXCEPT ![u] = d],
         rider' = rider \/ \E state : rider' = [rider EXCEPT ![u] = state],
         identified' \ {u} = identified \ {u}
  PROVE  /\ credential'[u] = d /\ OnlyOf(u)
         /\ credential' \in [Owners -> [email : Nowhere, password : Nat, verified : BOOLEAN,
                                        pending : BOOLEAN, version : Nat]]
<1>1. credential \in [Owners -> CredentialRows] /\ DOMAIN rider = Owners
  BY DEF EmailTypeOK, CredentialRows
<1>2. credential'[u] = d /\ credential' \in [Owners -> CredentialRows]
  BY <1>1
<1>3. \A v \in Owners \ {u} : credential'[v] = credential[v] /\ rider'[v] = rider[v]
  BY <1>1
<1>4. \A v \in Owners \ {u} : v \in identified' <=> v \in identified
  OBVIOUS
<1> QED
  BY <1>2, <1>3, <1>4 DEF OnlyOf, CredentialRows

(* An address a rider asks to link, in a session that goes on *)
LEMMA StartLinkKept ==
  ASSUME EmailInv, NEW s \in 1 .. MaxOpened, s \in DOMAIN entered, NEW e \in Addresses,
         StartLink(s, e)
  PROVE  EmailInv' /\ VerifiedStays
<1>1. PICK u \in Owners : /\ u = entered[s].user /\ ~Gone(u) /\ ~credential[u].pending
  BY DEF EmailInv, EntryFits, StartLink, Authorized
<1>2. /\ EmailTypeOK /\ credential[u] \in CredentialRows /\ Standing(u)
      /\ credential[u].version \in Nat /\ credential[u].password \in Nat /\ s \in 0 .. MaxOpened
  BY EmailFields, EmailAssumption DEF EmailInv
<1>3. /\ ~Holds(u) /\ credential' = Readdressed(u, e)
      /\ Mailed(IF credential[u].email = e THEN links ELSE OtherLinks(u),
                u, credential'[u].version, "link", s)
      /\ UNCHANGED <<rider, identified, contact, entered, reading>>
  BY <1>1 DEF StartLink
<1> DEFINE next == IF credential[u].version = 0 \/ credential[u].email # e
                   THEN credential[u].version + 1 ELSE credential[u].version
           d == [credential[u] EXCEPT !.email = e, !.version = next]
<1>4. credential' = [credential EXCEPT ![u] = d]
  <2>1. credential \in [Owners -> CredentialRows]
    BY <1>2 DEF EmailTypeOK, CredentialRows
  <2> QED
    BY <1>2, <1>3, <2>1 DEF Readdressed, CredentialRows
<1>5. /\ d \in CredentialRows /\ d.email = e /\ d.password = credential[u].password
      /\ d.verified = credential[u].verified /\ d.pending = credential[u].pending
      /\ d.version = IF credential[u].version = 0 \/ credential[u].email # e
                     THEN credential[u].version + 1 ELSE credential[u].version
  <2>1. next \in Nat
    BY <1>2
  <2> HIDE DEF next
  <2>2. /\ d \in CredentialRows /\ d.email = e /\ d.password = credential[u].password
        /\ d.verified = credential[u].verified /\ d.pending = credential[u].pending
        /\ d.version = next
    BY <1>2, <2>1 DEF CredentialRows, Nowhere
  <2> QED
    BY <2>2 DEF next
<1> HIDE DEF d, next
<1>6. /\ credential'[u] = d /\ OnlyOf(u)
      /\ credential' \in [Owners -> [email : Nowhere, password : Nat, verified : BOOLEAN,
                                     pending : BOOLEAN, version : Nat]]
  BY <1>2, <1>3, <1>4, <1>5, OneRow
<1>7. ~credential[u].verified
  BY <1>2, <1>3 DEF Standing
<1>8. ~Gone(u)'
  BY <1>1, <1>3 DEF Gone
<1>9. Onward(u) /\ Standing(u)' /\ EntryStands(u)
  <2>1. credential[u].version <= d.version /\ credential[u].password <= d.version
    BY <1>2, <1>5 DEF Standing
  <2>2. Onward(u)
    BY <1>2, <1>5, <1>6, <1>7, <1>8, <2>1 DEF Onward, Holds
  <2>3. Standing(u)'
    BY <1>1, <1>2, <1>3, <1>5, <1>6, <1>7, <1>8, <2>1 DEF Standing, Holds, Gone
  <2>4. EntryStands(u)
    BY <1>2, <1>5, <1>6, <1>8 DEF EntryStands
  <2> QED
    BY <2>2, <2>3, <2>4
<1>10. LinksKept /\ links' \subseteq Links
  <2>1. PICK ls \in SUBSET links : Mailed(ls, u, credential'[u].version, "link", s)
    BY <1>3 DEF OtherLinks
  <2> QED
    BY <1>2, <1>5, <1>6, <1>8, <2>1, MailedFits
<1>11. EmailTypeOK'
  BY <1>2, <1>3, <1>6, <1>10 DEF EmailTypeOK
<1>12. EntriesKept /\ ReadingsKept
  <2>1. EntriesKept
    BY <1>3, <1>6, <1>9, EntriesRest
  <2> QED
    BY <1>3, <2>1 DEF ReadingsKept
<1> QED
  BY <1>5, <1>6, <1>7, <1>9, <1>10, <1>11, <1>12, OneAccount

(* A rider who registers with a phone is signed out and gets a password. *)
LEMMA RegisterPhoneKept ==
  ASSUME EmailInv, NEW u \in Owners, NEW e \in Addresses, RegisterPhone(u, e)
  PROVE  EmailInv' /\ VerifiedStays
<1>1. /\ EmailTypeOK /\ credential[u] \in CredentialRows /\ Standing(u)
      /\ credential[u].version \in Nat /\ 0 \in 0 .. MaxOpened
  BY EmailFields, EmailAssumption DEF EmailInv
<1> DEFINE d == [email |-> e, password |-> credential[u].version + 1, verified |-> FALSE,
                 pending |-> FALSE, version |-> credential[u].version + 1]
<1>2. /\ d \in CredentialRows /\ d.version = credential[u].version + 1 /\ ~d.verified
      /\ ~d.pending /\ d.password = credential[u].version + 1
  BY <1>1 DEF CredentialRows, Nowhere
<1>3. /\ ~Holds(u) /\ credential' = [credential EXCEPT ![u] = d]
      /\ Mailed(OtherLinks(u), u, credential[u].version + 1, "contact", 0)
      /\ rider' = [rider EXCEPT ![u] = "live"] /\ entered' = SignedOut(u)
      /\ UNCHANGED <<identified, contact, reading>>
  BY DEF RegisterPhone
<1> HIDE DEF d
<1>4. /\ credential'[u] = d /\ OnlyOf(u)
      /\ credential' \in [Owners -> [email : Nowhere, password : Nat, verified : BOOLEAN,
                                     pending : BOOLEAN, version : Nat]]
  BY <1>1, <1>2, <1>3, OneRow
<1>5. rider'[u] = "live" /\ ~Gone(u)' /\ rider' \in [Owners -> {"unborn", "registering", "live", "erased"}]
  BY <1>1, <1>3 DEF EmailTypeOK, Gone
<1>6. ~credential[u].verified
  BY <1>1, <1>3 DEF Standing
<1>7. Onward(u) /\ Standing(u)'
  BY <1>1, <1>2, <1>4, <1>5 DEF Onward, Standing, Holds, Gone
<1>8. LinksKept /\ links' \subseteq Links
  <2>1. OtherLinks(u) \subseteq links
    BY DEF OtherLinks
  <2> QED
    BY <1>1, <1>2, <1>3, <1>4, <1>5, <2>1, MailedFits
<1>9. EntriesKept /\ entered' \in Seq(EntryRows)
  BY <1>3, <1>4, SignedOutFits
<1>10. EmailTypeOK'
  BY <1>1, <1>3, <1>4, <1>5, <1>8, <1>9 DEF EmailTypeOK, EntryRows
<1>11. ReadingsKept
  BY <1>3 DEF ReadingsKept
<1> QED
  BY <1>2, <1>4, <1>6, <1>7, <1>8, <1>9, <1>10, <1>11, OneAccount

(* A session that is opened is one more entry. *)
LEMMA EnterFits ==
  ASSUME EmailInv, NEW u \in Owners, OnlyOf(u), EntryStands(u), NEW password \in Nat,
         Enter(u, password), ~Gone(u)', ~credential'[u].pending,
         password >= credential'[u].password
  PROVE  EntriesKept /\ entered' \in Seq(EntryRows)
<1>1. EmailTypeOK /\ entered \in Seq(EntryRows)
  BY EmailFields DEF EmailInv
<1>2. PICK new \in EntryRows :
        /\ new.user = u /\ new.password = password /\ entered' = Append(entered, new)
  <2> DEFINE fresh == [user |-> u, password |-> password, recent |-> TRUE]
  <2>1. fresh \in EntryRows /\ fresh.user = u /\ fresh.password = password
    BY DEF EntryRows, Nobodies
  <2>2. entered' = Append(entered, fresh)
    BY DEF Enter
  <2> QED
    BY <2>1, <2>2
<1>3. PICK n \in Nat :
        /\ entered' \in Seq(EntryRows) /\ DOMAIN entered' = DOMAIN entered \cup {n}
        /\ entered'[n] = new /\ \A s \in DOMAIN entered : entered'[s] = entered[s]
  BY <1>1, <1>2, Appended
<1>4. EntryFits(n)'
  BY <1>2, <1>3 DEF EntryFits
<1>5. ASSUME NEW v \in Owners PROVE EntryStands(v)
  <2>1. CASE v # u
    <3>1. /\ credential'[v] = credential[v] /\ rider'[v] = rider[v]
          /\ credential[v].password \in Nat
      BY <1>1, <2>1, EmailFields DEF OnlyOf
    <3> QED
      BY <3>1 DEF EntryStands, Gone
  <2> QED
    BY <2>1
<1>6. \A s \in DOMAIN entered : entered[s] # NoEntry => entered[s].user \in Owners
  BY DEF EmailInv, EntryFits
<1>7. EntriesKept
  BY <1>3, <1>4, <1>5, <1>6 DEF EntriesKept
<1> QED
  BY <1>3, <1>7

(* A sign-in with Google or Apple, of a rider who did before or a new one *)
LEMMA SocialKept ==
  ASSUME EmailInv, NEW u \in Owners, NEW e \in Addresses \cup {NoAddress}, SignInSocial(u, e)
  PROVE  EmailInv' /\ VerifiedStays
<1>1. /\ EmailTypeOK /\ credential[u] \in CredentialRows /\ Standing(u)
      /\ credential[u].password \in Nat /\ credential[u].version \in Nat
  BY EmailFields DEF EmailInv
<1>2. /\ Enter(u, credential[u].password) /\ rider' = [rider EXCEPT ![u] = "live"]
      /\ identified' = identified \cup {u} /\ UNCHANGED <<credential, links, reading>>
      /\ contact' = [contact EXCEPT ![u] = IF contact[u] = NoAddress THEN e ELSE contact[u]]
      /\ rider[u] = "unborn" \/ (rider[u] = "live" /\ u \in identified)
  BY DEF SignInSocial
<1>3. ~credential[u].pending
  BY <1>1, <1>2, EmptyRows DEF Standing
<1>4. /\ rider'[u] = "live" /\ ~Gone(u)'
      /\ rider' \in [Owners -> {"unborn", "registering", "live", "erased"}]
      /\ contact' \in [Owners -> Nowhere]
  BY <1>1, <1>2 DEF EmailTypeOK, Gone, Nowhere
<1>5. OnlyOf(u) /\ EntryStands(u) /\ Onward(u)
  <2>1. OnlyOf(u)
    BY <1>1, <1>2 DEF OnlyOf, EmailTypeOK
  <2> QED
    BY <1>1, <1>2, <1>4, <2>1 DEF EntryStands, Onward, Holds
<1>6. Standing(u)'
  BY <1>1, <1>2, <1>3, <1>4 DEF Standing, Holds
<1>7. EntriesKept /\ entered' \in Seq(EntryRows)
  <2>1. ~credential'[u].pending /\ credential[u].password >= credential'[u].password
    BY <1>1, <1>2, <1>3
  <2> QED
    BY <1>1, <1>2, <1>4, <1>5, <2>1, EnterFits
<1>8. EmailTypeOK'
  BY <1>1, <1>2, <1>4, <1>7 DEF EmailTypeOK, EntryRows
<1>9. LinksKept /\ ReadingsKept
  BY <1>2 DEF LinksKept, ReadingsKept
<1>10. \/ ~credential'[u].verified
       \/ credential[u].verified /\ credential'[u].email = credential[u].email
  BY <1>2
<1> QED
  BY <1>2, <1>5, <1>6, <1>7, <1>8, <1>9, <1>10, OneAccount

(* Time passes for a session or a link, or a session ends. *)
LEMMA TimeKept ==
  ASSUME EmailInv,
         \/ \E s \in 1 .. MaxOpened : s \in DOMAIN entered /\ (AgeEntry(s) \/ EndEntry(s))
         \/ \E l \in links : ExpireLink(l)
  PROVE  EmailInv' /\ VerifiedStays
<1>1. /\ EmailTypeOK /\ entered \in Seq(EntryRows) /\ \A s \in DOMAIN entered : entered[s] \in EntryRows
  BY EmailFields DEF EmailInv
<1>2. /\ UNCHANGED <<rider, identified, contact, credential, reading>> /\ links' \subseteq links
  BY DEF AgeEntry, EndEntry, ExpireLink
<1>3. \A v \in Owners : EntryStands(v)
  BY <1>1, <1>2, EmailFields DEF EntryStands, Gone
<1>4. \A s \in DOMAIN entered : entered[s] # NoEntry => entered[s].user \in Owners
  BY DEF EmailInv, EntryFits
<1>5. EntriesKept /\ entered' \in Seq(EntryRows)
  <2>1. CASE entered' = entered
    BY <1>1, <1>3, <1>4, <2>1 DEF EntriesKept
  <2>2. ASSUME NEW s \in DOMAIN entered, NEW row \in EntryRows, entered' = [entered EXCEPT ![s] = row],
               \/ row = NoEntry
               \/ /\ entered[s] # NoEntry /\ row.user = entered[s].user
                  /\ row.password = entered[s].password
        PROVE  EntriesKept /\ entered' \in Seq(EntryRows)
    <3>1. /\ DOMAIN entered' = DOMAIN entered
          /\ \A t \in DOMAIN entered : entered'[t] = IF t = s THEN row ELSE entered[t]
      BY <2>2
    <3>2. entered' \in [DOMAIN entered -> EntryRows]
      BY <1>1, <2>2, <3>1
    <3>3. entered' \in Seq(EntryRows)
      BY <1>1, <3>2, Rewritten
    <3>4. EntriesKept
      BY <1>3, <1>4, <2>2, <3>1 DEF EntriesKept
    <3> QED
      BY <3>3, <3>4
  <2>3. ASSUME NEW s \in DOMAIN entered, AgeEntry(s)
        PROVE  EntriesKept /\ entered' \in Seq(EntryRows)
    <3> DEFINE row == [entered[s] EXCEPT !.recent = FALSE]
    <3>1. entered[s] # NoEntry /\ entered[s] \in EntryRows /\ entered' = [entered EXCEPT ![s] = row]
      BY <1>1, <2>3, EmptyRows DEF AgeEntry
    <3>2. row \in EntryRows /\ row.user = entered[s].user /\ row.password = entered[s].password
      BY <3>1 DEF EntryRows
    <3> HIDE DEF row
    <3> QED
      BY <2>2, <3>1, <3>2
  <2>4. ASSUME NEW s \in DOMAIN entered, EndEntry(s)
        PROVE  EntriesKept /\ entered' \in Seq(EntryRows)
    <3>1. entered' = [entered EXCEPT ![s] = NoEntry] /\ NoEntry \in EntryRows
      BY <2>4, EmptyRows DEF EndEntry
    <3> QED
      BY <2>2, <3>1
  <2>5. ASSUME NEW l \in links, ExpireLink(l) PROVE entered' = entered
    BY <2>5 DEF ExpireLink
  <2> QED
    BY <2>1, <2>3, <2>4, <2>5
<1>6. EmailTypeOK'
  BY <1>1, <1>2, <1>5 DEF EmailTypeOK, EntryRows
<1>7. LinksKept /\ ReadingsKept
  BY <1>2 DEF LinksKept, ReadingsKept
<1> QED
  BY <1>2, <1>5, <1>6, <1>7, NoAccountChanges

(* A snapshot is of the credential as it is. *)
LEMMA SnapshotKept ==
  ASSUME EmailInv, NEW b \in Browsers,
         \/ \E l \in links : ReadLink(b, l)
         \/ \E s \in 1 .. MaxOpened : s \in DOMAIN entered /\ ReadOwn(b, s)
         \/ \E u \in Owners : ReadCredential(b, u)
         \/ GiveUp(b)
  PROVE  EmailInv' /\ VerifiedStays
<1>1. /\ EmailTypeOK /\ UNCHANGED <<rider, identified, contact, credential, links, entered>>
  BY DEF EmailInv, ReadLink, ReadOwn, ReadCredential, GiveUp, Take
<1>2. \A u \in Owners : credential[u].version \in Nat
  BY <1>1, EmailFields
<1> DEFINE Snapshot(row) ==
             /\ row \in ReadingRows /\ reading' = [reading EXCEPT ![b] = row]
             /\ row.kind # "none" =>
                  /\ row.of \in Owners /\ row.version <= credential[row.of].version
                  /\ row.kind # "link" /\ row.version = credential[row.of].version => Holds(row.of)
                  /\ row.kind = "link" => row.of = row.link.user
<1>3. \E row : Snapshot(row)
  <2>1. ASSUME NEW l \in links, ReadLink(b, l) PROVE \E row : Snapshot(row)
    <3> DEFINE row == [AtRest EXCEPT !.kind = "link", !.link = l, !.of = l.user, !.version = l.version]
    <3>1. l \in Links /\ l.version \in Nat /\ LinkFits(l) /\ l.user \in Nobodies
      BY <1>1, EmailFields DEF EmailInv, Links
    <3>2. /\ row \in ReadingRows /\ reading' = [reading EXCEPT ![b] = row]
          /\ row.kind = "link" /\ row.of = l.user /\ row.link = l /\ row.version = l.version
      BY <2>1, <3>1, EmptyRows DEF ReadLink, Take, AtRest, ReadingRows
    <3> HIDE DEF row
    <3>3. Snapshot(row)
      BY <3>1, <3>2 DEF LinkFits
    <3> QED
      BY <3>3
  <2>2. ASSUME NEW u \in Owners, ReadCredential(b, u) PROVE \E row : Snapshot(row)
    <3> DEFINE row == [AtRest EXCEPT !.kind = "signin", !.of = u, !.version = credential[u].version]
    <3>1. /\ row \in ReadingRows /\ reading' = [reading EXCEPT ![b] = row]
          /\ row.kind = "signin" /\ row.of = u /\ row.version = credential[u].version /\ Holds(u)
      BY <1>2, <2>2, EmptyRows DEF ReadCredential, Take, AtRest, ReadingRows, Nobodies
    <3> HIDE DEF row
    <3>2. Snapshot(row)
      BY <1>2, <3>1
    <3> QED
      BY <3>2
  <2>3. ASSUME NEW s \in 1 .. MaxOpened, s \in DOMAIN entered, ReadOwn(b, s)
        PROVE  \E row : Snapshot(row)
    <3> DEFINE row == [AtRest EXCEPT !.kind = "change", !.of = entered[s].user, !.session = s,
                                     !.version = credential[entered[s].user].version]
    <3>1. entered[s].user \in Owners
      BY <2>3 DEF EmailInv, EntryFits, ReadOwn, Authorized
    <3>2. s \in 0 .. MaxOpened
      BY EmailAssumption
    <3>3. /\ row \in ReadingRows /\ reading' = [reading EXCEPT ![b] = row]
          /\ row.kind = "change" /\ row.of = entered[s].user
          /\ row.version = credential[entered[s].user].version /\ Holds(entered[s].user)
      BY <1>2, <2>3, <3>1, <3>2, EmptyRows DEF ReadOwn, Take, AtRest, ReadingRows, Nobodies
    <3> HIDE DEF row
    <3>4. Snapshot(row)
      BY <1>2, <3>1, <3>3
    <3> QED
      BY <3>4
  <2>4. ASSUME GiveUp(b) PROVE \E row : Snapshot(row)
    <3>1. Snapshot(AtRest)
      BY <2>4, EmptyRows DEF GiveUp
    <3> QED
      BY <3>1
  <2> HIDE DEF Snapshot
  <2> QED
    BY <2>1, <2>2, <2>3, <2>4
<1>4. PICK row : Snapshot(row)
  BY <1>3
<1>5. /\ reading'[b] = row /\ reading' \in [Browsers -> ReadingRows]
      /\ \A c \in Browsers \ {b} : reading'[c] = reading[c]
  BY <1>1, <1>4 DEF EmailTypeOK, ReadingRows
<1>6. ReadingFits(b)'
  BY <1>1, <1>4, <1>5 DEF ReadingFits, Holds
<1>7. ReadingsKept /\ LinksKept
  BY <1>1, <1>5, <1>6 DEF ReadingsKept, LinksKept
<1>8. EmailTypeOK'
  BY <1>1, <1>5 DEF EmailTypeOK, ReadingRows
<1>9. EntriesKept
  <2>1. \A v \in Owners : EntryStands(v)
    BY <1>1, EmailFields DEF EntryStands, Gone
  <2>2. \A s \in DOMAIN entered : entered[s] # NoEntry => entered[s].user \in Owners
    BY DEF EmailInv, EntryFits
  <2> QED
    BY <1>1, <2>1, <2>2 DEF EntriesKept
<1> QED
  BY <1>1, <1>7, <1>8, <1>9, NoAccountChanges

(* Whatever a call remembered is forgotten when it is done. *)
LEMMA CallDone ==
  ASSUME EmailTypeOK, NEW b \in Browsers, reading' = [reading EXCEPT ![b] = AtRest]
  PROVE  ReadingsKept /\ reading' \in [Browsers -> ReadingRows]
<1>1. reading \in [Browsers -> ReadingRows]
  BY DEF EmailTypeOK, ReadingRows
<1> QED
  BY <1>1, EmptyRows DEF ReadingsKept

(* The password that was checked is the one in force. *)
LEMMA SignInPasswordKept ==
  ASSUME EmailInv, NEW b \in Browsers, SignInPassword(b)
  PROVE  EmailInv' /\ VerifiedStays
<1>1. PICK u \in Owners :
        /\ u = reading[b].of /\ Holds(u) /\ credential[u].version = reading[b].version
  <2>1. ReadingFits(b) /\ reading[b].kind = "signin" /\ StillCurrent(b)
    BY DEF EmailInv, SignInPassword
  <2> QED
    BY <2>1 DEF ReadingFits, StillCurrent
<1>2. /\ EmailTypeOK /\ Standing(u) /\ credential[u].version \in Nat /\ credential[u].password \in Nat
      /\ rider[u] = "live" /\ Enter(u, credential[u].version)
      /\ reading' = [reading EXCEPT ![b] = AtRest]
      /\ UNCHANGED <<rider, identified, contact, credential, links>>
  BY <1>1, EmailFields DEF EmailInv, SignInPassword
<1>3. ~credential[u].pending /\ ~Gone(u)
  BY <1>1, <1>2 DEF Standing, Gone
<1>4. OnlyOf(u) /\ EntryStands(u) /\ ~Gone(u)'
  BY <1>2, <1>3 DEF OnlyOf, EntryStands, Gone
<1>5. EntriesKept /\ entered' \in Seq(EntryRows)
  <2>1. ~credential'[u].pending /\ credential[u].version >= credential'[u].password
    BY <1>2, <1>3 DEF Standing
  <2> QED
    BY <1>2, <1>4, <2>1, EnterFits
<1>6. ReadingsKept /\ reading' \in [Browsers -> ReadingRows]
  BY <1>2, CallDone
<1>7. EmailTypeOK'
  BY <1>2, <1>5, <1>6 DEF EmailTypeOK, EntryRows, ReadingRows
<1>8. LinksKept
  BY <1>2 DEF LinksKept
<1> QED
  BY <1>2, <1>5, <1>6, <1>7, <1>8, NoAccountChanges

(* A newer version of one credential, with which its links are over *)
LEMMA NewVersion ==
  ASSUME EmailInv, NEW u \in Owners, NEW d \in CredentialRows,
         credential' = [credential EXCEPT ![u] = d], credential[u].version < d.version,
         rider' = rider \/ \E state : rider' = [rider EXCEPT ![u] = state],
         identified' \ {u} = identified \ {u}, links' = OtherLinks(u)
  PROVE  /\ credential'[u] = d /\ OnlyOf(u) /\ Onward(u) /\ LinksKept /\ links' \subseteq Links
         /\ credential' \in [Owners -> [email : Nowhere, password : Nat, verified : BOOLEAN,
                                        pending : BOOLEAN, version : Nat]]
<1>1. EmailTypeOK /\ credential[u].version \in Nat
  BY EmailFields DEF EmailInv
<1>2. /\ credential'[u] = d /\ OnlyOf(u)
      /\ credential' \in [Owners -> [email : Nowhere, password : Nat, verified : BOOLEAN,
                                     pending : BOOLEAN, version : Nat]]
  BY <1>1, OneRow
<1>3. d.version \in Nat
  BY DEF CredentialRows
<1>4. Onward(u)
  BY <1>1, <1>2, <1>3 DEF Onward
<1>5. links' \subseteq links /\ links \subseteq Links
  BY <1>1 DEF OtherLinks, EmailTypeOK
<1> QED
  BY <1>2, <1>4, <1>5 DEF LinksKept

(* A new password, for the address that is there *)
LEMMA PasswordRow ==
  ASSUME EmailTypeOK, NEW u \in Owners
  PROVE  LET d == NewPassword(u) IN
         /\ d \in CredentialRows /\ d.password = credential[u].version + 1
         /\ d.version = credential[u].version + 1 /\ d.email = credential[u].email
         /\ d.verified = credential[u].verified /\ d.pending = credential[u].pending
<1>1. credential[u] \in CredentialRows /\ credential[u].version + 1 \in Nat
  BY EmailFields
<1> QED
  BY <1>1 DEF NewPassword, CredentialRows

(* A password that is changed in a session that goes on *)
LEMMA ChangeKept ==
  ASSUME EmailInv, NEW b \in Browsers, ChangePassword(b)
  PROVE  EmailInv' /\ VerifiedStays
<1>1. PICK u \in Owners :
        /\ u = reading[b].of /\ Holds(u) /\ credential[u].version = reading[b].version
  <2>1. ReadingFits(b) /\ reading[b].kind = "change" /\ StillCurrent(b)
    BY DEF EmailInv, ChangePassword
  <2> QED
    BY <2>1 DEF ReadingFits, StillCurrent
<1>2. /\ EmailTypeOK /\ Standing(u) /\ credential[u].version \in Nat
      /\ credential' = [credential EXCEPT ![u] = NewPassword(u)]
      /\ entered' = SignedOut(u) /\ links' = OtherLinks(u)
      /\ reading' = [reading EXCEPT ![b] = AtRest] /\ UNCHANGED <<rider, identified, contact>>
  BY <1>1, EmailFields DEF EmailInv, ChangePassword
<1>3. PICK d \in CredentialRows :
        /\ d = NewPassword(u) /\ d.password = credential[u].version + 1
        /\ d.version = credential[u].version + 1 /\ d.email = credential[u].email
        /\ d.verified = credential[u].verified /\ d.pending = credential[u].pending
  BY <1>2, PasswordRow
<1>4. credential[u].version < d.version /\ d.password <= d.version /\ d.password > 0
  BY <1>2, <1>3
<1>5. /\ credential'[u] = d /\ OnlyOf(u) /\ Onward(u) /\ LinksKept /\ links' \subseteq Links
      /\ credential' \in [Owners -> [email : Nowhere, password : Nat, verified : BOOLEAN,
                                     pending : BOOLEAN, version : Nat]]
  BY <1>2, <1>3, <1>4, NewVersion
<1>6. Standing(u)'
  <2>1. ~credential[u].pending
    BY <1>1, <1>2 DEF Standing
  <2>2. rider[u] # "unborn"
    BY <1>1, <1>2, EmptyRows DEF Standing, Holds
  <2> QED
    BY <1>2, <1>3, <1>4, <1>5, <2>1, <2>2 DEF Standing, Holds, Gone
<1>7. EntriesKept /\ entered' \in Seq(EntryRows)
  BY <1>2, <1>5, SignedOutFits
<1>8. ReadingsKept /\ reading' \in [Browsers -> ReadingRows]
  BY <1>2, CallDone
<1>9. EmailTypeOK'
  BY <1>2, <1>5, <1>7, <1>8 DEF EmailTypeOK, EntryRows, ReadingRows
<1> QED
  BY <1>3, <1>5, <1>6, <1>7, <1>8, <1>9, OneAccount

(* A link that still works proves the address of the credential as it is.  *)
LEMMA LinkProves ==
  ASSUME EmailInv, NEW b \in Browsers, reading[b].kind = "link", Current(reading[b].link),
         rider[reading[b].of] = "live"
  PROVE  LET u == reading[b].of IN
         /\ u \in Owners /\ reading[b].link \in links /\ reading[b].link.user = u
         /\ reading[b].link.purpose = "reset" => credential[u].verified
<1>1. ReadingFits(b) /\ LinkFits(reading[b].link)
  BY DEF EmailInv, Current
<1> QED
  BY <1>1 DEF ReadingFits, LinkFits, Current

(* Completing a link *)
LEMMA CompleteKept ==
  ASSUME EmailInv, NEW b \in Browsers, CompleteLink(b)
  PROVE  EmailInv' /\ VerifiedStays
<1>1. PICK u \in Owners :
        /\ u = reading[b].of /\ reading[b].link \in links
        /\ reading[b].link.purpose = "reset" => credential[u].verified
  BY LinkProves DEF CompleteLink
<1>2. /\ EmailTypeOK /\ Standing(u) /\ credential[u].version \in Nat /\ rider[u] = "live"
      /\ credential' = [credential EXCEPT ![u] =
           [NewPassword(u) EXCEPT !.verified = TRUE, !.pending = FALSE]]
      /\ contact' = [contact EXCEPT ![u] = credential[u].email]
      /\ entered' = SignedOut(u) /\ links' = OtherLinks(u)
      /\ reading' = [reading EXCEPT ![b] = AtRest] /\ UNCHANGED <<rider, identified>>
      /\ reading[b].link.purpose # "reset" => ~Elsewhere(u, credential[u].email)
  BY <1>1, EmailFields DEF EmailInv, CompleteLink
<1>3. PICK d \in CredentialRows :
        /\ d = [NewPassword(u) EXCEPT !.verified = TRUE, !.pending = FALSE]
        /\ d.password = credential[u].version + 1 /\ d.version = credential[u].version + 1
        /\ d.email = credential[u].email /\ d.verified /\ ~d.pending
  <2>1. PICK n \in CredentialRows :
          /\ n = NewPassword(u) /\ n.password = credential[u].version + 1
          /\ n.version = credential[u].version + 1 /\ n.email = credential[u].email
    BY <1>2, PasswordRow
  <2> DEFINE d == [n EXCEPT !.verified = TRUE, !.pending = FALSE]
  <2>2. /\ d \in CredentialRows /\ d.password = n.password /\ d.version = n.version
        /\ d.email = n.email /\ d.verified /\ ~d.pending
    BY DEF CredentialRows
  <2> QED
    BY <2>1, <2>2
<1>4. credential[u].version < d.version /\ d.password <= d.version /\ d.password > 0
  BY <1>2, <1>3
<1>5. /\ credential'[u] = d /\ OnlyOf(u) /\ Onward(u) /\ LinksKept /\ links' \subseteq Links
      /\ credential' \in [Owners -> [email : Nowhere, password : Nat, verified : BOOLEAN,
                                     pending : BOOLEAN, version : Nat]]
  BY <1>2, <1>3, <1>4, NewVersion
<1>6. Standing(u)'
  BY <1>2, <1>3, <1>4, <1>5 DEF Standing, Holds, Gone
<1>7. EntriesKept /\ entered' \in Seq(EntryRows)
  BY <1>2, <1>5, SignedOutFits
<1>8. ReadingsKept /\ reading' \in [Browsers -> ReadingRows]
  BY <1>2, CallDone
<1>9. contact' \in [Owners -> Nowhere]
  <2>1. credential[u].email \in Nowhere
    BY <1>2, EmailFields DEF CredentialRows
  <2> QED
    BY <1>2, <2>1 DEF EmailTypeOK
<1>10. EmailTypeOK'
  BY <1>2, <1>5, <1>7, <1>8, <1>9 DEF EmailTypeOK, EntryRows, ReadingRows
<1>11. \/ credential[u].verified /\ credential'[u].email = credential[u].email
       \/ \A v \in Owners \ {u} : ~HasVerified(v, credential'[u].email)
  BY <1>1, <1>2, <1>3, <1>5 DEF Elsewhere
<1>12. credential'[u].verified /\ credential'[u].email = credential[u].email
  BY <1>3, <1>5
<1> QED
  BY <1>5, <1>6, <1>7, <1>8, <1>10, <1>11, <1>12, OneAccount

(* Confirming the contact address of a registration by phone *)
LEMMA ContactKept ==
  ASSUME EmailInv, NEW b \in Browsers, ConfirmContact(b)
  PROVE  EmailInv' /\ VerifiedStays
<1>1. PICK u \in Owners : u = reading[b].of
  BY LinkProves DEF ConfirmContact
<1>2. /\ EmailTypeOK /\ Standing(u) /\ credential[u].version \in Nat /\ rider[u] = "live"
      /\ credential[u].password \in Nat /\ credential[u] \in CredentialRows
      /\ credential' = [credential EXCEPT ![u].verified = TRUE, ![u].version = @ + 1]
      /\ contact' = [contact EXCEPT ![u] = credential[u].email]
      /\ entered' = entered /\ links' = OtherLinks(u) /\ Holds(u)
      /\ reading' = [reading EXCEPT ![b] = AtRest] /\ UNCHANGED <<rider, identified>>
      /\ ~Elsewhere(u, credential[u].email)
  BY <1>1, EmailFields DEF EmailInv, ConfirmContact
<1> DEFINE row == [credential[u] EXCEPT !.verified = TRUE, !.version = credential[u].version + 1]
<1>3. PICK d \in CredentialRows :
        /\ d = row /\ d.version = credential[u].version + 1 /\ d.password = credential[u].password
        /\ d.email = credential[u].email /\ d.verified /\ d.pending = credential[u].pending
  <2>1. credential[u].version + 1 \in Nat
    BY <1>2
  <2>2. /\ row \in CredentialRows /\ row.version = credential[u].version + 1
        /\ row.password = credential[u].password
        /\ row.email = credential[u].email /\ row.verified /\ row.pending = credential[u].pending
    BY <1>2, <2>1 DEF CredentialRows
  <2> QED
    BY <2>2
<1>4. credential' = [credential EXCEPT ![u] = d]
  <2>1. credential \in [Owners -> CredentialRows]
    BY <1>2 DEF EmailTypeOK, CredentialRows
  <2> QED
    BY <1>2, <1>3, <2>1 DEF CredentialRows
<1>5. /\ credential'[u] = d /\ OnlyOf(u) /\ Onward(u) /\ LinksKept /\ links' \subseteq Links
      /\ credential' \in [Owners -> [email : Nowhere, password : Nat, verified : BOOLEAN,
                                     pending : BOOLEAN, version : Nat]]
  <2>1. credential[u].version < d.version
    BY <1>2, <1>3
  <2> QED
    BY <1>2, <1>3, <1>4, <2>1, NewVersion
<1>6. Standing(u)'
  BY <1>2, <1>3, <1>5 DEF Standing, Holds, Gone
<1>7. EntriesKept
  <2>1. EntryStands(u)
    BY <1>2, <1>3, <1>5 DEF EntryStands, Gone
  <2> QED
    BY <1>2, <1>5, <2>1, EntriesRest
<1>8. ReadingsKept /\ reading' \in [Browsers -> ReadingRows]
  BY <1>2, CallDone
<1>9. contact' \in [Owners -> Nowhere]
  <2>1. credential[u].email \in Nowhere
    BY <1>2 DEF CredentialRows
  <2> QED
    BY <1>2, <2>1 DEF EmailTypeOK
<1>10. EmailTypeOK'
  BY <1>2, <1>5, <1>8, <1>9 DEF EmailTypeOK, ReadingRows
<1>11. \A v \in Owners \ {u} : ~HasVerified(v, credential'[u].email)
  BY <1>2, <1>3, <1>5 DEF Elsewhere
<1>12. credential'[u].verified /\ credential'[u].email = credential[u].email
  BY <1>3, <1>5
<1> QED
  BY <1>5, <1>6, <1>7, <1>8, <1>10, <1>11, <1>12, OneAccount

(* What was never finished is cleaned up, with an account that began so.   *)
LEMMA PurgeKept ==
  ASSUME EmailInv, NEW u \in Owners, Purge(u)
  PROVE  EmailInv' /\ VerifiedStays
<1>1. /\ EmailTypeOK /\ Standing(u) /\ credential[u].version \in Nat
      /\ credential[u].password \in Nat /\ credential[u] \in CredentialRows
  BY EmailFields DEF EmailInv
<1> DEFINE next == credential[u].version + IF credential[u].pending THEN 2 ELSE 1
           row == [NoCredential EXCEPT !.version = next]
<1>2. /\ ~Gone(u) /\ ~Holds(u) /\ links' = OtherLinks(u)
      /\ credential' = [credential EXCEPT ![u] = row]
      /\ rider' = IF credential[u].pending THEN [rider EXCEPT ![u] = "erased"] ELSE rider
      /\ UNCHANGED <<identified, contact, entered, reading>>
  BY DEF Purge
<1>3. next \in Nat /\ credential[u].version < next
  BY <1>1
<1> HIDE DEF next
<1>4. PICK d \in CredentialRows :
        /\ d = row /\ d.version = next /\ d.password = 0 /\ ~d.verified /\ ~d.pending
  <2>1. /\ row \in CredentialRows /\ row.version = next /\ row.password = 0 /\ ~row.verified
        /\ ~row.pending
    BY <1>3 DEF NoCredential, CredentialRows, Nowhere
  <2> QED
    BY <2>1
<1> HIDE DEF row
<1>5. /\ credential'[u] = d /\ OnlyOf(u) /\ Onward(u) /\ LinksKept /\ links' \subseteq Links
      /\ credential' \in [Owners -> [email : Nowhere, password : Nat, verified : BOOLEAN,
                                     pending : BOOLEAN, version : Nat]]
  <2>1. rider' = rider \/ \E state : rider' = [rider EXCEPT ![u] = state]
    BY <1>2
  <2> QED
    BY <1>2, <1>3, <1>4, <2>1, NewVersion
<1>6. /\ rider' \in [Owners -> {"unborn", "registering", "live", "erased"}]
      /\ rider'[u] = IF credential[u].pending THEN "erased" ELSE rider[u]
  BY <1>1, <1>2 DEF EmailTypeOK
<1>7. Standing(u)'
  BY <1>2, <1>4, <1>5, <1>6 DEF Standing, Holds, Gone
<1>8. EntriesKept
  <2>1. CASE ~credential[u].pending
    <3>1. EntryStands(u)
      BY <1>1, <1>4, <1>5, <1>6, <2>1 DEF EntryStands, Gone
    <3> QED
      BY <1>2, <1>5, <3>1, EntriesRest
  <2>2. CASE credential[u].pending
    <3>1. \A s \in DOMAIN entered : entered[s] # NoEntry => entered[s].user \in Owners \ {u}
      BY <2>2 DEF EmailInv, EntryFits
    <3>2. ASSUME NEW v \in Owners \ {u} PROVE EntryStands(v)
      <4>1. /\ credential'[v] = credential[v] /\ rider'[v] = rider[v]
            /\ credential[v].password \in Nat
        BY <1>1, <1>5, EmailFields DEF OnlyOf
      <4> QED
        BY <4>1 DEF EntryStands, Gone
    <3> QED
      BY <1>2, <3>1, <3>2 DEF EntriesKept
  <2> QED
    BY <2>1, <2>2
<1>9. EmailTypeOK'
  BY <1>1, <1>2, <1>5, <1>6 DEF EmailTypeOK
<1>10. ReadingsKept /\ ~credential[u].verified
  BY <1>1, <1>2 DEF ReadingsKept, Standing
<1> QED
  BY <1>4, <1>5, <1>7, <1>8, <1>9, <1>10, OneAccount

(* An erasure ends everything of the account. *)
LEMMA EraseOwnerKept ==
  ASSUME EmailInv, NEW u \in Owners, EraseOwner(u)
  PROVE  EmailInv' /\ VerifiedStays
<1>1. /\ EmailTypeOK /\ Standing(u) /\ credential[u].version \in Nat
  BY EmailFields DEF EmailInv
<1> DEFINE row == [NoCredential EXCEPT !.version = credential[u].version + 1]
<1>2. /\ links' = OtherLinks(u) /\ entered' = SignedOut(u)
      /\ credential' = [credential EXCEPT ![u] = row]
      /\ rider' = [rider EXCEPT ![u] = "erased"] /\ contact' = [contact EXCEPT ![u] = NoAddress]
      /\ identified' = identified \ {u} /\ reading' = reading
  BY DEF EraseOwner
<1>3. credential[u].version + 1 \in Nat /\ credential[u].version < credential[u].version + 1
  BY <1>1
<1>4. PICK d \in CredentialRows :
        /\ d = row /\ d.version = credential[u].version + 1 /\ d.password = 0 /\ ~d.verified
        /\ ~d.pending
  <2>1. /\ row \in CredentialRows /\ row.version = credential[u].version + 1 /\ row.password = 0
        /\ ~row.verified /\ ~row.pending
    BY <1>3 DEF NoCredential, CredentialRows, Nowhere
  <2> QED
    BY <2>1
<1> HIDE DEF row
<1>5. /\ credential'[u] = d /\ OnlyOf(u) /\ Onward(u) /\ LinksKept /\ links' \subseteq Links
      /\ credential' \in [Owners -> [email : Nowhere, password : Nat, verified : BOOLEAN,
                                     pending : BOOLEAN, version : Nat]]
  <2>1. rider' = rider \/ \E state : rider' = [rider EXCEPT ![u] = state]
    BY <1>2
  <2>2. identified' \ {u} = identified \ {u} /\ credential[u].version < d.version
    BY <1>2, <1>3, <1>4
  <2> QED
    BY <1>2, <1>4, <2>1, <2>2, NewVersion
<1>6. /\ rider' \in [Owners -> {"unborn", "registering", "live", "erased"}]
      /\ rider'[u] = "erased" /\ contact' \in [Owners -> Nowhere] /\ identified' \subseteq Owners
  BY <1>1, <1>2 DEF EmailTypeOK, Nowhere
<1>7. Standing(u)'
  BY <1>3, <1>4, <1>5, <1>6 DEF Standing
<1>8. EntriesKept /\ entered' \in Seq(EntryRows)
  BY <1>2, <1>5, SignedOutFits
<1>9. EmailTypeOK'
  BY <1>1, <1>2, <1>5, <1>6, <1>8 DEF EmailTypeOK, EntryRows
<1>10. ReadingsKept
  BY <1>2 DEF ReadingsKept
<1> QED
  BY <1>4, <1>5, <1>6, <1>7, <1>8, <1>9, <1>10, OneAccount

(* Nobody has an address at the beginning. *)
LEMMA EmailStart == EmailInit => EmailInv
<1> SUFFICES ASSUME EmailInit PROVE EmailInv
  OBVIOUS
<1>1. entered \in Seq(EntryRows) /\ DOMAIN entered = {}
  BY EmptySeq DEF EmailInit
<1>2. \A u \in Owners : credential[u] = NoCredential /\ u \notin identified
  BY DEF EmailInit
<1>3. EmailTypeOK
  <2>1. credential \in [Owners -> CredentialRows] /\ reading \in [Browsers -> ReadingRows]
    BY EmptyRows DEF EmailInit
  <2>2. /\ rider \in [Owners -> {"unborn", "registering", "live", "erased"}]
        /\ contact \in [Owners -> Nowhere] /\ identified \subseteq Owners /\ links \subseteq Links
    BY DEF EmailInit, Nowhere
  <2> QED
    BY <1>1, <2>1, <2>2 DEF EmailTypeOK, CredentialRows, ReadingRows, EntryRows
<1>4. OneOwner /\ \A u \in Owners : Standing(u)
  BY <1>2, EmptyRows DEF OneOwner, HasVerified, Standing
<1>5. (\A l \in links : LinkFits(l)) /\ \A b \in Browsers : ReadingFits(b)
  BY EmptyRows DEF EmailInit, ReadingFits
<1> QED
  BY <1>1, <1>3, <1>4, <1>5 DEF EmailInv

(* Every step keeps the invariant and what was verified. *)
LEMMA EmailStep ==
  ASSUME EmailInv, EmailNext PROVE EmailInv' /\ VerifiedStays
<1>1. CASE \E u \in Owners, e \in Addresses : RequestSignup(u, e)
  BY <1>1, SignupKept
<1>2. CASE \/ \E u \in Owners, e \in Addresses : RequestReset(u, e)
           \/ \E s \in 1 .. MaxOpened : s \in DOMAIN entered /\ ResendContact(s)
  BY <1>2, RemindKept
<1>3. CASE \E u \in Owners, e \in Addresses : RegisterPhone(u, e)
  BY <1>3, RegisterPhoneKept
<1>4. CASE \E u \in Owners, e \in Addresses \cup {NoAddress} : SignInSocial(u, e)
  BY <1>4, SocialKept
<1>5. CASE \/ \E s \in 1 .. MaxOpened : s \in DOMAIN entered /\ (AgeEntry(s) \/ EndEntry(s))
           \/ \E l \in links : ExpireLink(l)
  BY <1>5, TimeKept
<1>6. CASE \E s \in 1 .. MaxOpened : s \in DOMAIN entered /\ \E e \in Addresses : StartLink(s, e)
  BY <1>6, StartLinkKept
<1>7. CASE \E b \in Browsers :
             \/ \E l \in links : ReadLink(b, l)
             \/ \E s \in 1 .. MaxOpened : s \in DOMAIN entered /\ ReadOwn(b, s)
             \/ \E u \in Owners : ReadCredential(b, u)
             \/ GiveUp(b)
  BY <1>7, SnapshotKept
<1>8. CASE \E b \in Browsers :
             SignInPassword(b) \/ CompleteLink(b) \/ ConfirmContact(b) \/ ChangePassword(b)
  BY <1>8, SignInPasswordKept, CompleteKept, ContactKept, ChangeKept
<1>9. CASE \E u \in Owners : Purge(u) \/ EraseOwner(u)
  BY <1>9, PurgeKept, EraseOwnerKept
<1> QED
  BY <1>1, <1>2, <1>3, <1>4, <1>5, <1>6, <1>7, <1>8, <1>9 DEF EmailNext

(* For any accounts, addresses, links and calls at once: two accounts never *)
(* verify one address, no link works for another address than the one it   *)
(* was mailed to, no session is open under a former password, and a        *)
(* verified address stays until its account is erased (EmailAuth and the   *)
(* trigger of migration 047).                                              *)
THEOREM AddressesAreSafe == EmailSpec => EmailSafe
<1>1. EmailInv /\ [EmailNext]_emailVars => EmailInv' /\ [VerifiedStays]_emailVars
  <2>1. EmailInv /\ EmailNext => EmailInv' /\ VerifiedStays
    BY EmailStep
  <2>2. EmailInv /\ UNCHANGED emailVars => EmailInv'
    BY DEF emailVars, EmailInv, EmailTypeOK, OneOwner, HasVerified, Standing, Holds, Gone, LinkFits,
       ReadingFits, EntryFits
  <2> QED
    BY <2>1, <2>2
<1>2. EmailInv => EmailTypeOK /\ OneOwner /\ NoStaleLink /\ NoStaleSession
  <2>1. EmailInv => NoStaleLink
    BY DEF EmailInv, NoStaleLink, LinkFits, Current
  <2>2. EmailInv => NoStaleSession
    BY DEF EmailInv, NoStaleSession, EntryFits
  <2> QED
    BY <2>1, <2>2 DEF EmailInv
<1> QED
  BY EmailStart, <1>1, <1>2, PTL DEF EmailSpec, EmailSafe

-----------------------------------------------------------------------------
(* Operators *)

Operator == [person : People, state : {"pending", "active", "erased"}, super : BOOLEAN,
             key : BOOLEAN]
Invitation == [person : People, version : 1 .. MaxMailings, fresh : BOOLEAN,
               state : {"pending", "claimed", "accepted", "cancelled"}, for : 0 .. MaxOperators]
Shift == [operator : 0 .. MaxOperators, super : BOOLEAN,
          level : {"ended", "plain", "elevated", "recent"}]

(* A session that goes on is one of somebody. *)
Fits(s) == shifts[s] # Ended =>
  LET a == shifts[s].operator IN
  /\ a \in DOMAIN operators /\ operators[a].state # "erased"
  /\ operators[a].super = shifts[s].super
  /\ shifts[s].level # "plain" => operators[a].state = "active" /\ operators[a].key
ShiftsFit == \A s \in DOMAIN shifts : Fits(s)

(* An invitation that was answered is the one of an account that is not the founder's; at most
   one of a person waits for an answer. *)
Answers(i) ==
  /\ invitations[i].for # 0 => invitations[i].for \in DOMAIN operators \ {1}
  /\ invitations[i].state \in {"claimed", "accepted"} => invitations[i].for # 0
OneOpen == \A i, j \in DOMAIN invitations :
  Unanswered(i) /\ Unanswered(j) /\ invitations[i].person = invitations[j].person => i = j
Invitations == EveryoneWasInvited /\ OneOpen /\ \A i \in DOMAIN invitations : Answers(i)

(* Nobody manages the team before they finished their own registration, and the founder never
   had to. *)
Rights == SomeoneManages /\ \A a \in DOMAIN operators :
                              operators[a].state = "pending" => a # 1 /\ ~operators[a].super

OperatorsInv == OperatorsTypeOK /\ Rights /\ ShiftsFit /\ Invitations /\ OneAccountEach

(* The types, by name *)
LEMMA OperatorFields ==
  ASSUME OperatorsTypeOK
  PROVE  /\ operators \in Seq(Operator) /\ \A a \in DOMAIN operators : operators[a] \in Operator
         /\ operators \in [DOMAIN operators -> Operator]
         /\ invitations \in Seq(Invitation)
         /\ \A i \in DOMAIN invitations : invitations[i] \in Invitation
         /\ invitations \in [DOMAIN invitations -> Invitation]
         /\ shifts \in Seq(Shift) /\ \A s \in DOMAIN shifts : shifts[s] \in Shift
         /\ shifts \in [DOMAIN shifts -> Shift]
<1>1. operators \in Seq(Operator) /\ invitations \in Seq(Invitation) /\ shifts \in Seq(Shift)
  BY DEF OperatorsTypeOK, Operator, Invitation, Shift
<1> QED
  BY <1>1, LenProperties, ElementOfSeq

(* Ending the sessions of one operator *)
LEMMA ShiftsClose ==
  ASSUME OperatorsTypeOK, NEW a
  PROVE  /\ Closed(a) \in Seq(Shift) /\ DOMAIN Closed(a) = DOMAIN shifts
         /\ \A s \in DOMAIN shifts :
              Closed(a)[s] = IF shifts[s].operator = a THEN Ended ELSE shifts[s]
<1>1. Ended \in Shift
  <2>1. 0 \in 0 .. MaxOperators
    BY OperatorsAssumption
  <2> QED
    BY <2>1 DEF Ended, Shift
<1>2. Closed(a) \in [DOMAIN shifts -> Shift]
  BY <1>1, OperatorFields DEF Closed
<1>3. Closed(a) \in Seq(Shift) /\ DOMAIN Closed(a) = DOMAIN shifts
  BY <1>2, OperatorFields, Rewritten
<1> QED
  BY <1>3 DEF Closed

(* The ceremonies of others *)
LEMMA CeremoniesForget ==
  ASSUME OperatorsTypeOK, NEW a
  PROVE  Forgotten(a) \subseteq [session : 1 .. MaxSignIns,
                                 purpose : {"registration", "authentication"}]
BY DEF Forgotten, OperatorsTypeOK

(* What changes shifts at most: every session is one that went on, or one that fits. *)
LEMMA TeamStays ==
  ASSUME OperatorsInv, OperatorsTypeOK', UNCHANGED <<operators, riders, invitations>>,
         \A s \in DOMAIN shifts' : Fits(s)' \/ (s \in DOMAIN shifts /\ shifts'[s] = shifts[s])
  PROVE  OperatorsInv'
<1>1. ShiftsFit'
  BY DEF OperatorsInv, ShiftsFit, Fits
<1>2. Rights'
  BY DEF OperatorsInv, Rights, SomeoneManages, Superadmins
<1>3. Invitations'
  BY DEF OperatorsInv, Invitations, EveryoneWasInvited, OneOpen, Answers, Unanswered
<1>4. OneAccountEach'
  BY DEF OperatorsInv, OneAccountEach, Member
<1> QED
  BY <1>1, <1>2, <1>3, <1>4 DEF OperatorsInv

(* Sessions begin with the rights of the operator, age and end. *)
LEMMA SessionsKept ==
  ASSUME OperatorsInv,
         \/ \E a \in 1 .. MaxOperators : a \in DOMAIN operators /\ SignInOperator(a)
         \/ \E s \in DOMAIN shifts : AgeCheck(s) \/ EndShift(s)
  PROVE  OperatorsInv'
<1>0. OperatorsTypeOK /\ ShiftsFit
  BY DEF OperatorsInv
<1>1. ASSUME NEW a \in 1 .. MaxOperators, a \in DOMAIN operators, SignInOperator(a)
      PROVE  OperatorsInv'
  <2> DEFINE new == [operator |-> a, super |-> operators[a].super, level |-> "plain"]
  <2>1. operators[a] \in Operator /\ a \in 0 .. MaxOperators
    BY <1>0, <1>1, OperatorFields, OperatorsAssumption
  <2>2. new \in Shift /\ new.operator = a /\ new.super = operators[a].super /\ new.level = "plain"
    BY <2>1 DEF Shift, Operator
  <2>3. shifts' = Append(shifts, new) /\ UNCHANGED <<operators, riders, invitations, ceremonies>>
    BY <1>1 DEF SignInOperator, Opened
  <2> HIDE DEF new
  <2>4. PICK n \in Nat : /\ shifts' \in Seq(Shift) /\ DOMAIN shifts' = DOMAIN shifts \cup {n}
                         /\ shifts'[n] = new /\ \A s \in DOMAIN shifts : shifts'[s] = shifts[s]
    <3>1. shifts \in Seq(Shift)
      BY <1>0, OperatorFields
    <3> QED
      BY <2>2, <2>3, <3>1, Appended
  <2>5. OperatorsTypeOK'
    BY <1>0, <2>3, <2>4 DEF OperatorsTypeOK, Shift
  <2>6. Fits(n)'
    BY <1>1, <2>2, <2>3, <2>4 DEF Fits, SignInOperator, Member
  <2> QED
    BY <2>3, <2>4, <2>5, <2>6, TeamStays
<1>2. ASSUME NEW s \in DOMAIN shifts, AgeCheck(s) \/ EndShift(s) PROVE OperatorsInv'
  <2>1. shifts[s] \in Shift /\ Ended \in Shift /\ Fits(s)
    <3>1. 0 \in 0 .. MaxOperators
      BY OperatorsAssumption
    <3> QED
      BY <1>0, <3>1, OperatorFields DEF Ended, Shift, ShiftsFit
  <2>2. UNCHANGED <<operators, riders, invitations, ceremonies>>
    BY <1>2 DEF AgeCheck, EndShift
  <2>3. PICK new \in Shift : shifts' = [shifts EXCEPT ![s] = new] /\
          (new = Ended \/ (/\ new.operator = shifts[s].operator /\ new.super = shifts[s].super
                           /\ shifts[s].level \in {"recent", "elevated"}))
    <3>1. CASE EndShift(s)
      BY <2>1, <3>1 DEF EndShift
    <3>2. CASE AgeCheck(s)
      <4> DEFINE new == [shifts[s] EXCEPT !.level = IF @ = "recent" THEN "elevated" ELSE "plain"]
      <4>1. new \in Shift /\ new.operator = shifts[s].operator /\ new.super = shifts[s].super
        BY <2>1 DEF Shift
      <4>2. shifts' = [shifts EXCEPT ![s] = new] /\ shifts[s].level \in {"recent", "elevated"}
        BY <3>2 DEF AgeCheck
      <4> QED
        BY <4>1, <4>2
    <3> QED
      BY <1>2, <3>1, <3>2
  <2>4. /\ shifts' \in Seq(Shift) /\ DOMAIN shifts' = DOMAIN shifts
        /\ \A t \in DOMAIN shifts : shifts'[t] = IF t = s THEN new ELSE shifts[t]
    BY <1>0, <2>3, OperatorFields, ExceptSeq
  <2>5. OperatorsTypeOK'
    BY <1>0, <2>2, <2>4 DEF OperatorsTypeOK, Shift
  <2>6. Fits(s)'
    BY <2>1, <2>2, <2>3, <2>4 DEF Fits, Ended
  <2> QED
    BY <2>2, <2>4, <2>5, <2>6, TeamStays
<1> QED
  BY <1>1, <1>2

(* Ceremonies that begin or lapse *)
LEMMA CeremoniesKept ==
  ASSUME OperatorsInv,
         \/ \E s \in 1 .. MaxSignIns, purpose \in {"registration", "authentication"} :
              StartCeremony(s, purpose)
         \/ \E c \in ceremonies : ExpireCeremony(c)
  PROVE  OperatorsInv'
<1>1. UNCHANGED <<operators, riders, invitations, shifts>>
  BY DEF StartCeremony, ExpireCeremony
<1>2. ceremonies' \subseteq [session : 1 .. MaxSignIns, purpose : {"registration", "authentication"}]
  BY DEF OperatorsInv, OperatorsTypeOK, StartCeremony, ExpireCeremony
<1>3. OperatorsTypeOK'
  BY <1>1, <1>2 DEF OperatorsInv, OperatorsTypeOK
<1> QED
  BY <1>1, <1>3, TeamStays

(* Invitations that are sent, resent, lapse or are cancelled before they were claimed; the
   operators keep their people, their states and their rights. *)
LEMMA InvitationsStay ==
  ASSUME OperatorsInv, DOMAIN operators' = DOMAIN operators,
         \A a \in DOMAIN operators : /\ operators'[a].person = operators[a].person
                                     /\ operators'[a].state = operators[a].state,
         DOMAIN invitations \subseteq DOMAIN invitations',
         \A i \in DOMAIN invitations :
           /\ invitations'[i].person = invitations[i].person
           /\ invitations'[i].for = invitations[i].for
           /\ \/ invitations'[i].state = invitations[i].state
              \/ invitations[i].for = 0 /\ invitations'[i].state = "cancelled",
         \A i \in DOMAIN invitations' : i \notin DOMAIN invitations =>
           /\ invitations'[i].for = 0 /\ invitations'[i].state = "pending"
           /\ \A j \in DOMAIN invitations :
                invitations[j].person = invitations'[i].person => ~Unanswered(j),
         \A i, j \in DOMAIN invitations' : i \notin DOMAIN invitations /\ j \notin DOMAIN invitations
                                           => i = j
  PROVE  Invitations'
<1> USE DEF OperatorsInv, Invitations
<1>1. \A i \in DOMAIN invitations : Answers(i)
  OBVIOUS
<1>2. \A i \in DOMAIN invitations' : Answers(i)'
  BY <1>1 DEF Answers
<1>3. OneOpen'
  BY DEF OneOpen, Unanswered
<1>4. EveryoneWasInvited'
  <2> SUFFICES ASSUME NEW a \in DOMAIN operators, a # 1
               PROVE  \E i \in DOMAIN invitations' :
                        /\ invitations'[i].for = a /\ invitations'[i].person = operators'[a].person
                        /\ invitations'[i].state = Stage[operators'[a].state]
                        /\ \A j \in DOMAIN invitations' : invitations'[j].for = a => j = i
    BY DEF EveryoneWasInvited
  <2>1. PICK i \in DOMAIN invitations :
          /\ invitations[i].for = a /\ invitations[i].person = operators[a].person
          /\ invitations[i].state = Stage[operators[a].state]
          /\ \A j \in DOMAIN invitations : invitations[j].for = a => j = i
    BY DEF EveryoneWasInvited
  <2>2. a # 0
    BY LenProperties, OperatorFields
  <2> QED
    BY <2>1, <2>2
<1> QED
  BY <1>2, <1>3, <1>4

(* The rest of the invariant, when operators and shifts do not change *)
LEMMA InvitersKept ==
  ASSUME OperatorsInv, UNCHANGED <<operators, riders, shifts, ceremonies>>,
         invitations' \in Seq(Invitation), Invitations'
  PROVE  OperatorsInv'
<1>1. OperatorsTypeOK'
  BY DEF OperatorsInv, OperatorsTypeOK, Invitation
<1>2. Rights'
  BY DEF OperatorsInv, Rights, SomeoneManages, Superadmins
<1>3. ShiftsFit'
  BY DEF OperatorsInv, ShiftsFit, Fits
<1>4. OneAccountEach'
  BY DEF OperatorsInv, OneAccountEach, Member
<1> QED
  BY <1>1, <1>2, <1>3, <1>4 DEF OperatorsInv

(* Sending an invitation to a person who has no account and no other one that is open *)
LEMMA InviteKept ==
  ASSUME OperatorsInv, NEW s, NEW p \in People, Invite(s, p) PROVE OperatorsInv'
<1>0. OperatorsTypeOK
  BY DEF OperatorsInv
<1> DEFINE new == [person |-> p, state |-> "pending", version |-> 1, fresh |-> TRUE, for |-> 0]
<1>1. new \in Invitation /\ new.person = p /\ new.for = 0 /\ new.state = "pending"
  <2>1. 1 \in 1 .. MaxMailings /\ 0 \in 0 .. MaxOperators
    BY OperatorsAssumption
  <2> QED
    BY <2>1 DEF Invitation
<1>2. /\ invitations' = Append(invitations, new) /\ UNCHANGED <<operators, riders, shifts, ceremonies>>
      /\ \A i \in DOMAIN invitations : invitations[i].person = p => ~Unanswered(i)
  BY DEF Invite
<1> HIDE DEF new
<1>3. PICK n \in Nat :
        /\ invitations' \in Seq(Invitation) /\ DOMAIN invitations' = DOMAIN invitations \cup {n}
        /\ n \notin DOMAIN invitations /\ invitations'[n] = new
        /\ \A i \in DOMAIN invitations : invitations'[i] = invitations[i]
  BY <1>0, <1>1, <1>2, OperatorFields, Appended
<1>4. Invitations'
  BY <1>1, <1>2, <1>3, InvitationsStay
<1> QED
  BY <1>2, <1>3, <1>4, InvitersKept

(* Mailing one again, and the passing of its 48 hours *)
LEMMA MailingKept ==
  ASSUME OperatorsInv, NEW i \in DOMAIN invitations,
         (\E s \in DOMAIN shifts : Resend(s, i)) \/ ExpireInvitation(i)
  PROVE  OperatorsInv'
<1>0. OperatorsTypeOK /\ invitations[i] \in Invitation
  BY OperatorFields DEF OperatorsInv
<1>1. UNCHANGED <<operators, riders, shifts, ceremonies>>
  BY DEF Resend, ExpireInvitation
<1>2. PICK new \in Invitation :
        /\ invitations' = [invitations EXCEPT ![i] = new] /\ new.person = invitations[i].person
        /\ new.for = invitations[i].for /\ new.state = invitations[i].state
  <2>1. ASSUME NEW s \in DOMAIN shifts, Resend(s, i)
        PROVE  LET new == [invitations[i] EXCEPT !.version = @ + 1, !.fresh = TRUE] IN
               /\ new \in Invitation
               /\ invitations' = [invitations EXCEPT ![i] = new] /\ new.person = invitations[i].person
               /\ new.for = invitations[i].for /\ new.state = invitations[i].state
    <3>1. invitations[i].version \in 1 .. MaxMailings /\ invitations[i].version < MaxMailings
      BY <1>0, <2>1 DEF Resend, Invitation
    <3>2. invitations[i].version + 1 \in 1 .. MaxMailings
      BY <3>1, OperatorsAssumption
    <3> QED
      BY <1>0, <2>1, <3>2 DEF Resend, Invitation
  <2>2. ASSUME ExpireInvitation(i)
        PROVE  LET new == [invitations[i] EXCEPT !.fresh = FALSE] IN
               /\ new \in Invitation
               /\ invitations' = [invitations EXCEPT ![i] = new] /\ new.person = invitations[i].person
               /\ new.for = invitations[i].for /\ new.state = invitations[i].state
    BY <1>0, <2>2 DEF ExpireInvitation, Invitation
  <2> QED
    BY <2>1, <2>2
<1>3. /\ invitations' \in Seq(Invitation) /\ DOMAIN invitations' = DOMAIN invitations
      /\ \A j \in DOMAIN invitations : invitations'[j] = IF j = i THEN new ELSE invitations[j]
  BY <1>0, <1>2, OperatorFields, ExceptSeq
<1>4. Invitations'
  BY <1>1, <1>2, <1>3, InvitationsStay
<1> QED
  BY <1>1, <1>3, <1>4, InvitersKept

(* Invitations that are cancelled *)
LEMMA CancelledTyped ==
  ASSUME OperatorsTypeOK, NEW cancelled,
         invitations' = [i \in DOMAIN invitations |->
           IF i \in cancelled THEN [invitations[i] EXCEPT !.state = "cancelled"] ELSE invitations[i]]
  PROVE  /\ invitations' \in Seq(Invitation) /\ DOMAIN invitations' = DOMAIN invitations
         /\ \A i \in DOMAIN invitations :
              /\ invitations'[i].person = invitations[i].person
              /\ invitations'[i].for = invitations[i].for
              /\ invitations'[i].state = IF i \in cancelled THEN "cancelled" ELSE invitations[i].state
<1>1. ASSUME NEW i \in DOMAIN invitations
      PROVE  /\ invitations'[i] \in Invitation
             /\ invitations'[i].person = invitations[i].person
             /\ invitations'[i].for = invitations[i].for
             /\ invitations'[i].state = IF i \in cancelled THEN "cancelled" ELSE invitations[i].state
  <2>1. invitations[i] \in Invitation
    BY OperatorFields
  <2>2. [invitations[i] EXCEPT !.state = "cancelled"] \in Invitation
    BY <2>1 DEF Invitation
  <2> QED
    BY <2>1, <2>2 DEF Invitation
<1>2. invitations' \in [DOMAIN invitations -> Invitation]
  BY <1>1
<1>3. invitations' \in Seq(Invitation) /\ DOMAIN invitations' = DOMAIN invitations
  BY <1>2, OperatorFields, Rewritten
<1> QED
  BY <1>1, <1>3

(* The invitations of a rider who leaves: none of them was claimed, for an account that is not
   registered yet keeps its person from being a rider. *)
LEMMA RidersKept ==
  ASSUME OperatorsInv, NEW p \in People, BecomeRider(p) \/ RiderLeaves(p) PROVE OperatorsInv'
<1>0. OperatorsTypeOK /\ OneAccountEach /\ Invitations
  BY DEF OperatorsInv
<1>1. CASE BecomeRider(p)
  <2>1. UNCHANGED <<operators, invitations, shifts, ceremonies>> /\ riders' = riders \cup {p}
        /\ AccountsOf(p) = {}
    BY <1>1 DEF BecomeRider
  <2>2. OneAccountEach'
    BY <1>0, <2>1 DEF OneAccountEach, AccountsOf, Member
  <2>3. OperatorsTypeOK'
    BY <1>0, <2>1 DEF OperatorsTypeOK
  <2>4. Rights' /\ ShiftsFit'
    BY <2>1 DEF OperatorsInv, Rights, SomeoneManages, Superadmins, ShiftsFit, Fits
  <2>5. Invitations'
    BY <1>0, <2>1 DEF Invitations, EveryoneWasInvited, OneOpen, Answers, Unanswered
  <2> QED
    BY <2>2, <2>3, <2>4, <2>5 DEF OperatorsInv
<1>2. CASE RiderLeaves(p)
  <2> DEFINE cancelled == {i \in DOMAIN invitations : Unanswered(i) /\ invitations[i].person = p}
  <2>1. /\ p \in riders /\ riders' = riders \ {p} /\ UNCHANGED <<operators, shifts, ceremonies>>
        /\ invitations' = [i \in DOMAIN invitations |->
             IF i \in cancelled THEN [invitations[i] EXCEPT !.state = "cancelled"]
             ELSE invitations[i]]
    BY <1>2 DEF RiderLeaves
  <2>2. ASSUME NEW i \in cancelled, invitations[i].for # 0 PROVE FALSE
    <3> DEFINE a == invitations[i].for
    <3>1. a \in DOMAIN operators /\ a # 1
      BY <1>0, <2>2 DEF Invitations, Answers
    <3>2. PICK j \in DOMAIN invitations :
            /\ invitations[j].for = a /\ invitations[j].person = operators[a].person
            /\ invitations[j].state = Stage[operators[a].state]
            /\ \A k \in DOMAIN invitations : invitations[k].for = a => k = j
      BY <1>0, <3>1 DEF Invitations, EveryoneWasInvited
    <3>3. j = i
      BY <2>2, <3>2
    <3>4. operators[a] \in Operator
      BY <1>0, <3>1, OperatorFields
    <3>5. operators[a].person = p /\ Stage[operators[a].state] \in {"pending", "claimed"}
      BY <2>2, <3>2, <3>3 DEF Unanswered
    <3>6. operators[a].state = "pending"
      BY <3>4, <3>5 DEF Operator, Stage
    <3> QED
      BY <1>0, <2>1, <3>1, <3>5, <3>6 DEF OneAccountEach, Member
  <2> HIDE DEF cancelled
  <2>3. /\ invitations' \in Seq(Invitation) /\ DOMAIN invitations' = DOMAIN invitations
        /\ \A i \in DOMAIN invitations :
             /\ invitations'[i].person = invitations[i].person
             /\ invitations'[i].for = invitations[i].for
             /\ invitations'[i].state = IF i \in cancelled THEN "cancelled" ELSE invitations[i].state
    BY <1>0, <2>1, CancelledTyped
  <2>4. Invitations'
    BY <2>1, <2>2, <2>3, InvitationsStay
  <2>5. OneAccountEach'
    BY <1>0, <2>1 DEF OneAccountEach, Member
  <2>6. OperatorsTypeOK'
    BY <1>0, <2>1, <2>3 DEF OperatorsTypeOK, Invitation
  <2>7. Rights' /\ ShiftsFit'
    BY <2>1 DEF OperatorsInv, Rights, SomeoneManages, Superadmins, ShiftsFit, Fits
  <2> QED
    BY <2>4, <2>5, <2>6, <2>7 DEF OperatorsInv
<1> QED
  BY <1>1, <1>2

(* The account of an invitation that was answered *)
LEMMA AnsweredBy ==
  ASSUME OperatorsInv, NEW i \in DOMAIN invitations, invitations[i].for # 0
  PROVE  LET a == invitations[i].for IN
         /\ a \in DOMAIN operators \ {1} /\ invitations[i].person = operators[a].person
         /\ invitations[i].state = Stage[operators[a].state]
         /\ \A j \in DOMAIN invitations : invitations[j].for = a => j = i
<1> DEFINE a == invitations[i].for
<1>1. a \in DOMAIN operators \ {1}
  BY DEF OperatorsInv, Invitations, Answers
<1>2. PICK j \in DOMAIN invitations :
        /\ invitations[j].for = a /\ invitations[j].person = operators[a].person
        /\ invitations[j].state = Stage[operators[a].state]
        /\ \A k \in DOMAIN invitations : invitations[k].for = a => k = j
  BY <1>1 DEF OperatorsInv, Invitations, EveryoneWasInvited
<1>3. i = j
  BY <1>2
<1> QED
  BY <1>1, <1>2, <1>3

(* Erasing a member who is not the only superadmin takes along exactly its own invitation, the
   open ones of its person, its sessions and its ceremonies. *)
LEMMA ErasedKept ==
  ASSUME OperatorsInv, NEW a \in DOMAIN operators, Member(a), ~OnlyOne(a), Erased(a),
         UNCHANGED riders
  PROVE  OperatorsInv'
<1>0. /\ OperatorsTypeOK /\ Rights /\ ShiftsFit /\ Invitations /\ OneAccountEach
      /\ operators[a] \in Operator
  BY OperatorFields DEF OperatorsInv
<1> DEFINE left == [person |-> operators[a].person, state |-> "erased", super |-> FALSE, key |-> FALSE]
           cancelled == {i \in DOMAIN invitations :
             invitations[i].for = a \/ (Unanswered(i) /\ invitations[i].person = operators[a].person)}
<1>1. /\ operators' = [operators EXCEPT ![a] = left]
      /\ invitations' = [i \in DOMAIN invitations |->
           IF i \in cancelled THEN [invitations[i] EXCEPT !.state = "cancelled"] ELSE invitations[i]]
      /\ shifts' = Closed(a) /\ ceremonies' = Forgotten(a)
  BY DEF Erased
<1>2. /\ left \in Operator /\ left.person = operators[a].person /\ left.state = "erased"
      /\ ~left.super
  BY <1>0 DEF Operator
<1>3. \A i \in DOMAIN invitations :
        i \in cancelled <=> invitations[i].for = a
                            \/ (Unanswered(i) /\ invitations[i].person = operators[a].person)
  OBVIOUS
<1> HIDE DEF left, cancelled
<1>4. /\ operators' \in Seq(Operator) /\ DOMAIN operators' = DOMAIN operators
      /\ \A b \in DOMAIN operators : operators'[b] = IF b = a THEN left ELSE operators[b]
  BY <1>0, <1>1, <1>2, OperatorFields, ExceptSeq
<1>5. /\ invitations' \in Seq(Invitation) /\ DOMAIN invitations' = DOMAIN invitations
      /\ \A i \in DOMAIN invitations :
           /\ invitations'[i].person = invitations[i].person
           /\ invitations'[i].for = invitations[i].for
           /\ invitations'[i].state = IF i \in cancelled THEN "cancelled" ELSE invitations[i].state
  BY <1>0, <1>1, CancelledTyped
<1>6. /\ shifts' \in Seq(Shift) /\ DOMAIN shifts' = DOMAIN shifts
      /\ \A s \in DOMAIN shifts : shifts'[s] = IF shifts[s].operator = a THEN Ended ELSE shifts[s]
  BY <1>0, <1>1, ShiftsClose
<1>7. OperatorsTypeOK'
  BY <1>0, <1>1, <1>4, <1>5, <1>6, CeremoniesForget
  DEF OperatorsTypeOK, Operator, Invitation, Shift
<1>8. Rights'
  <2>1. PICK b \in DOMAIN operators : b # a /\ operators[b].super
    <3>1. Superadmins # {} /\ Superadmins # {a}
      BY <1>0 DEF Rights, SomeoneManages, OnlyOne
    <3>2. \E b \in Superadmins : b # a
      BY <3>1
    <3> QED
      BY <3>2 DEF Superadmins
  <2>2. operators'[b].super /\ b \in DOMAIN operators'
    BY <1>4, <2>1
  <2> QED
    BY <1>0, <1>2, <1>4, <2>2 DEF Rights, SomeoneManages, Superadmins
<1>9. ShiftsFit'
  BY <1>0, <1>4, <1>6 DEF ShiftsFit, Fits
<1>10. OneAccountEach'
  BY <1>0, <1>2, <1>4 DEF OneAccountEach, Member
<1>11. OneOpen' /\ \A i \in DOMAIN invitations' : Answers(i)'
  BY <1>0, <1>4, <1>5 DEF Invitations, OneOpen, Answers, Unanswered
<1>12. EveryoneWasInvited'
  <2> SUFFICES ASSUME NEW b \in DOMAIN operators, b # 1
               PROVE  \E i \in DOMAIN invitations' :
                        /\ invitations'[i].for = b /\ invitations'[i].person = operators'[b].person
                        /\ invitations'[i].state = Stage[operators'[b].state]
                        /\ \A j \in DOMAIN invitations' : invitations'[j].for = b => j = i
    BY <1>4 DEF EveryoneWasInvited
  <2>1. PICK i \in DOMAIN invitations :
          /\ invitations[i].for = b /\ invitations[i].person = operators[b].person
          /\ invitations[i].state = Stage[operators[b].state]
          /\ \A j \in DOMAIN invitations : invitations[j].for = b => j = i
    BY <1>0 DEF Invitations, EveryoneWasInvited
  <2>2. CASE b = a
    <3>1. Stage["erased"] = "cancelled"
      BY DEF Stage
    <3>2. i \in cancelled /\ operators'[b] = left
      BY <1>3, <1>4, <2>1, <2>2
    <3>3. invitations'[i].state = "cancelled" /\ invitations'[i].for = b
          /\ invitations'[i].person = operators[b].person
      BY <1>5, <2>1, <3>2
    <3>4. \A j \in DOMAIN invitations' : invitations'[j].for = b => j = i
      BY <1>5, <2>1
    <3> QED
      BY <1>2, <1>5, <2>2, <3>1, <3>2, <3>3, <3>4
  <2>3. CASE b # a
    <3>1. ASSUME i \in cancelled PROVE invitations[i].state = "cancelled"
      <4>1. Unanswered(i) /\ operators[b].person = operators[a].person
        BY <1>3, <2>1, <2>3, <3>1
      <4>2. operators[b] \in Operator
        BY <1>0, OperatorFields
      <4>3. operators[b].state = "pending"
        BY <2>1, <4>1, <4>2 DEF Unanswered, Stage, Operator
      <4> QED
        BY <1>0, <2>3, <4>1, <4>3 DEF OneAccountEach, Member
    <3> QED
      BY <1>4, <1>5, <2>1, <2>3, <3>1
  <2> QED
    BY <2>2, <2>3
<1> QED
  BY <1>7, <1>8, <1>9, <1>10, <1>11, <1>12 DEF OperatorsInv, Invitations

(* Every way to leave the team *)
LEMMA LeavingKept ==
  ASSUME OperatorsInv, NEW s \in DOMAIN shifts,
         \/ \E i \in DOMAIN invitations : CancelInvitation(s, i)
         \/ \E a \in DOMAIN operators : DeleteOperator(s, a)
         \/ EraseOwn(s)
  PROVE  OperatorsInv'
<1>0. OperatorsTypeOK /\ Rights /\ ShiftsFit
  BY DEF OperatorsInv
<1>1. ASSUME NEW i \in DOMAIN invitations, CancelInvitation(s, i) PROVE OperatorsInv'
  <2>1. CASE invitations[i].for = 0
    <3> DEFINE new == [invitations[i] EXCEPT !.state = "cancelled"]
    <3>1. /\ invitations' = [invitations EXCEPT ![i] = new]
          /\ UNCHANGED <<operators, riders, shifts, ceremonies>>
      BY <1>1, <2>1 DEF CancelInvitation
    <3>2. /\ new \in Invitation /\ new.person = invitations[i].person /\ new.for = invitations[i].for
          /\ new.state = "cancelled"
      BY <1>0, OperatorFields DEF Invitation
    <3> HIDE DEF new
    <3>3. /\ invitations' \in Seq(Invitation) /\ DOMAIN invitations' = DOMAIN invitations
          /\ \A j \in DOMAIN invitations : invitations'[j] = IF j = i THEN new ELSE invitations[j]
      BY <1>0, <3>1, <3>2, OperatorFields, ExceptSeq
    <3>4. Invitations'
      BY <2>1, <3>1, <3>2, <3>3, InvitationsStay
    <3> QED
      BY <3>1, <3>3, <3>4, InvitersKept
  <2>2. CASE invitations[i].for # 0
    <3> DEFINE a == invitations[i].for
    <3>1. Unanswered(i) /\ Erased(a) /\ UNCHANGED riders
      BY <1>1, <2>2 DEF CancelInvitation
    <3>2. a \in DOMAIN operators /\ invitations[i].state = Stage[operators[a].state]
      BY <2>2, AnsweredBy
    <3>3. operators[a] \in Operator
      BY <1>0, <3>2, OperatorFields
    <3>4. operators[a].state = "pending"
      BY <3>1, <3>2, <3>3 DEF Unanswered, Stage, Operator
    <3>5. Member(a) /\ ~OnlyOne(a)
      BY <1>0, <3>2, <3>4 DEF Member, OnlyOne, Rights, Superadmins
    <3> HIDE DEF a
    <3> QED
      BY <3>1, <3>2, <3>5, ErasedKept
  <2> QED
    BY <2>1, <2>2
<1>2. ASSUME NEW a \in DOMAIN operators, DeleteOperator(s, a) PROVE OperatorsInv'
  BY <1>2, ErasedKept DEF DeleteOperator
<1>3. CASE EraseOwn(s)
  <2> DEFINE a == shifts[s].operator
  <2>1. Elevated(s) /\ ~OnlyOne(a) /\ Erased(a) /\ UNCHANGED riders
    BY <1>3 DEF EraseOwn
  <2>2. a \in DOMAIN operators /\ Member(a)
    BY <1>0, <2>1 DEF Elevated, SignedIn, ShiftsFit, Fits, Member
  <2> HIDE DEF a
  <2> QED
    BY <2>1, <2>2, ErasedKept
<1> QED
  BY <1>1, <1>2, <1>3

(* Taking an operator's passkeys away, and changing what an active one may do, end its sessions. *)
LEMMA AccessKept ==
  ASSUME OperatorsInv, NEW s \in DOMAIN shifts, NEW a \in DOMAIN operators,
         ResetKeys(s, a) \/ \E super \in BOOLEAN : ChangeAccess(s, a, super)
  PROVE  OperatorsInv'
<1>0. /\ OperatorsTypeOK /\ Rights /\ ShiftsFit /\ Invitations /\ OneAccountEach
      /\ operators[a] \in Operator
  BY OperatorFields DEF OperatorsInv
<1>1. UNCHANGED <<riders, invitations>> /\ shifts' = Closed(a)
  BY DEF ResetKeys, ChangeAccess, Dismissed
<1>2. ceremonies' \subseteq [session : 1 .. MaxSignIns, purpose : {"registration", "authentication"}]
  BY <1>0, CeremoniesForget DEF ResetKeys, ChangeAccess, OperatorsTypeOK
<1>3. PICK new \in Operator :
        /\ operators' = [operators EXCEPT ![a] = new] /\ new.person = operators[a].person
        /\ new.state = operators[a].state
        /\ \/ new.super = operators[a].super
           \/ new.state = "active" /\ (new.super \/ ~OnlyOne(a))
  <2>1. CASE ResetKeys(s, a)
    <3> DEFINE new == [operators[a] EXCEPT !.key = FALSE]
    <3>1. operators' = [operators EXCEPT ![a] = new]
      BY <2>1 DEF ResetKeys
    <3>2. /\ new \in Operator /\ new.person = operators[a].person
          /\ new.state = operators[a].state /\ new.super = operators[a].super
      BY <1>0 DEF Operator
    <3> QED
      BY <3>1, <3>2
  <2>2. ASSUME NEW super \in BOOLEAN, ChangeAccess(s, a, super)
        PROVE  LET new == [operators[a] EXCEPT !.super = super] IN
               /\ operators' = [operators EXCEPT ![a] = new] /\ new \in Operator
               /\ new.person = operators[a].person /\ new.state = operators[a].state
               /\ new.state = "active" /\ (new.super \/ ~OnlyOne(a))
    <3> DEFINE new == [operators[a] EXCEPT !.super = super]
    <3>1. operators' = [operators EXCEPT ![a] = new] /\ operators[a].state = "active"
      BY <2>2 DEF ChangeAccess
    <3>2. super \/ ~OnlyOne(a)
      BY <2>2 DEF ChangeAccess
    <3>3. /\ new \in Operator /\ new.person = operators[a].person
          /\ new.state = operators[a].state /\ new.super = super
      BY <1>0 DEF Operator
    <3> QED
      BY <3>1, <3>2, <3>3
  <2> QED
    BY <2>1, <2>2
<1>4. /\ operators' \in Seq(Operator) /\ DOMAIN operators' = DOMAIN operators
      /\ \A b \in DOMAIN operators : operators'[b] = IF b = a THEN new ELSE operators[b]
  BY <1>0, <1>3, OperatorFields, ExceptSeq
<1>5. /\ shifts' \in Seq(Shift) /\ DOMAIN shifts' = DOMAIN shifts
      /\ \A t \in DOMAIN shifts : shifts'[t] = IF shifts[t].operator = a THEN Ended ELSE shifts[t]
  BY <1>0, <1>1, ShiftsClose
<1>6. OperatorsTypeOK'
  BY <1>0, <1>1, <1>2, <1>4, <1>5 DEF OperatorsTypeOK, Operator, Shift
<1>7. Rights'
  <2>1. SomeoneManages'
    <3>1. CASE new.super
      BY <1>4, <3>1 DEF SomeoneManages, Superadmins
    <3>2. CASE ~new.super
      <4>1. \E b \in Superadmins : b # a
        BY <1>0, <1>3, <3>2 DEF Rights, SomeoneManages, OnlyOne, Superadmins
      <4> QED
        BY <1>4, <4>1 DEF SomeoneManages, Superadmins
    <3> QED
      BY <3>1, <3>2
  <2> QED
    BY <1>0, <1>3, <1>4, <2>1 DEF Rights
<1>8. ShiftsFit'
  BY <1>0, <1>4, <1>5 DEF ShiftsFit, Fits
<1>9. Invitations'
  BY <1>1, <1>3, <1>4, InvitationsStay
<1>10. OneAccountEach'
  BY <1>0, <1>1, <1>3, <1>4 DEF OneAccountEach, Member
<1> QED
  BY <1>6, <1>7, <1>8, <1>9, <1>10 DEF OperatorsInv

(* A ceremony that is finished activates the account, accepts its invitation and elevates one
   session. *)
LEMMA FinishKept ==
  ASSUME OperatorsInv, NEW s \in DOMAIN shifts, NEW purpose, FinishCeremony(s, purpose)
  PROVE  OperatorsInv'
<1>0. OperatorsTypeOK /\ Rights /\ ShiftsFit /\ Invitations /\ OneAccountEach
  BY DEF OperatorsInv
<1> DEFINE a == shifts[s].operator
           active == [operators[a] EXCEPT !.key = TRUE, !.state = "active"]
           recent == [shifts[s] EXCEPT !.level = "recent"]
<1>1. shifts[s] # Ended /\ UNCHANGED riders
  BY DEF FinishCeremony, MayRegister, SignedIn
<1>2. /\ a \in DOMAIN operators /\ operators[a] \in Operator /\ shifts[s] \in Shift
      /\ operators[a].state \in {"pending", "active"} /\ operators[a].super = shifts[s].super
  BY <1>0, <1>1, OperatorFields DEF ShiftsFit, Fits, Operator
<1>3. /\ operators' = [operators EXCEPT ![a] = active] /\ shifts' = [shifts EXCEPT ![s] = recent]
      /\ invitations' = [i \in DOMAIN invitations |->
           IF i \in Claimed(a) THEN [invitations[i] EXCEPT !.state = "accepted"] ELSE invitations[i]]
      /\ ceremonies' \subseteq ceremonies
  BY <1>2 DEF FinishCeremony
<1>4. /\ active \in Operator /\ active.person = operators[a].person /\ active.state = "active"
      /\ active.super = operators[a].super /\ active.key
  BY <1>2 DEF Operator
<1>5. /\ recent \in Shift /\ recent.operator = a /\ recent.super = shifts[s].super
      /\ recent.level = "recent"
  BY <1>2 DEF Shift
<1> HIDE DEF active, recent
<1>6. /\ operators' \in Seq(Operator) /\ DOMAIN operators' = DOMAIN operators
      /\ \A b \in DOMAIN operators : operators'[b] = IF b = a THEN active ELSE operators[b]
  BY <1>0, <1>2, <1>3, <1>4, OperatorFields, ExceptSeq
<1>7. /\ shifts' \in Seq(Shift) /\ DOMAIN shifts' = DOMAIN shifts
      /\ \A t \in DOMAIN shifts : shifts'[t] = IF t = s THEN recent ELSE shifts[t]
  BY <1>0, <1>3, <1>5, OperatorFields, ExceptSeq
<1>8. ASSUME NEW i \in DOMAIN invitations
      PROVE  /\ invitations'[i] \in Invitation /\ invitations'[i].person = invitations[i].person
             /\ invitations'[i].for = invitations[i].for
             /\ invitations'[i].state =
                  IF invitations[i].for = a /\ invitations[i].state = "claimed" THEN "accepted"
                  ELSE invitations[i].state
  <2>1. invitations[i] \in Invitation
    BY <1>0, OperatorFields
  <2>2. [invitations[i] EXCEPT !.state = "accepted"] \in Invitation
    BY <2>1 DEF Invitation
  <2>3. i \in Claimed(a) <=> invitations[i].for = a /\ invitations[i].state = "claimed"
    BY DEF Claimed
  <2> HIDE DEF a
  <2> QED
    BY <1>3, <2>1, <2>2, <2>3 DEF Invitation
<1> HIDE DEF a
<1>9. invitations' \in Seq(Invitation) /\ DOMAIN invitations' = DOMAIN invitations
  <2>1. invitations' \in [DOMAIN invitations -> Invitation]
    BY <1>3, <1>8
  <2> QED
    BY <1>0, <2>1, OperatorFields, Rewritten
<1>10. OperatorsTypeOK'
  BY <1>0, <1>1, <1>3, <1>6, <1>7, <1>9 DEF OperatorsTypeOK, Operator, Invitation, Shift
<1>11. Rights'
  BY <1>0, <1>4, <1>6 DEF Rights, SomeoneManages, Superadmins
<1>12. ShiftsFit'
  BY <1>0, <1>2, <1>4, <1>5, <1>6, <1>7 DEF ShiftsFit, Fits
<1>13. OneAccountEach'
  BY <1>0, <1>1, <1>2, <1>4, <1>6 DEF OneAccountEach, Member
<1>14. OneOpen' /\ \A i \in DOMAIN invitations' : Answers(i)'
  BY <1>0, <1>6, <1>8, <1>9 DEF Invitations, OneOpen, Answers, Unanswered
<1>15. EveryoneWasInvited'
  <2> SUFFICES ASSUME NEW b \in DOMAIN operators, b # 1
               PROVE  \E i \in DOMAIN invitations' :
                        /\ invitations'[i].for = b /\ invitations'[i].person = operators'[b].person
                        /\ invitations'[i].state = Stage[operators'[b].state]
                        /\ \A j \in DOMAIN invitations' : invitations'[j].for = b => j = i
    BY <1>6 DEF EveryoneWasInvited
  <2>1. PICK i \in DOMAIN invitations :
          /\ invitations[i].for = b /\ invitations[i].person = operators[b].person
          /\ invitations[i].state = Stage[operators[b].state]
          /\ \A j \in DOMAIN invitations : invitations[j].for = b => j = i
    BY <1>0 DEF Invitations, EveryoneWasInvited
  <2>2. invitations'[i].state = Stage[operators'[b].state]
    <3>1. CASE b = a
      <4>1. Stage["pending"] = "claimed" /\ Stage["active"] = "accepted"
        BY DEF Stage
      <4>2. invitations[i].state \in {"claimed", "accepted"}
        BY <1>2, <2>1, <3>1, <4>1
      <4> QED
        BY <1>4, <1>6, <1>8, <2>1, <3>1, <4>1, <4>2
    <3>2. CASE b # a
      BY <1>6, <1>8, <2>1, <3>2
    <3> QED
      BY <3>1, <3>2
  <2>3. operators'[b].person = operators[b].person
    BY <1>4, <1>6
  <2>4. \A j \in DOMAIN invitations' : invitations'[j].for = b => j = i
    BY <1>8, <1>9, <2>1
  <2> QED
    BY <1>8, <1>9, <2>1, <2>2, <2>3, <2>4
<1> QED
  BY <1>10, <1>11, <1>12, <1>13, <1>14, <1>15 DEF OperatorsInv, Invitations

(* Whoever claims an invitation gets an account of it, once: who has a pending account already
   is the one it was made for. *)
LEMMA ClaimKept ==
  ASSUME OperatorsInv, NEW p \in People, NEW i \in DOMAIN invitations, NEW version,
         Claim(p, i, version)
  PROVE  OperatorsInv'
<1>0. OperatorsTypeOK /\ Rights /\ ShiftsFit /\ Invitations /\ OneAccountEach
  BY DEF OperatorsInv
<1> DEFINE own == AccountsOf(p)
           a == IF own = {} THEN Len(operators) + 1 ELSE CHOOSE b \in own : TRUE
           row == [person |-> p, state |-> "pending", super |-> FALSE, key |-> FALSE]
           claimed == [invitations[i] EXCEPT !.state = "claimed", !.for = a]
           new == [operator |-> a, super |-> FALSE, level |-> "plain"]
<1>1. /\ Unanswered(i) /\ invitations[i].person = p /\ p \notin riders
      /\ invitations[i].for \in {0, a} /\ (own # {} => operators[a].state = "pending")
      /\ a <= MaxOperators
      /\ operators' = IF own = {} THEN Append(operators, row) ELSE operators
      /\ invitations' = [invitations EXCEPT ![i].state = "claimed", ![i].for = a]
      /\ shifts' = Opened(Closed(a), a, FALSE) /\ UNCHANGED <<riders, ceremonies>>
  BY DEF Claim
<1>2. Len(operators) \in Nat /\ DOMAIN operators = 1 .. Len(operators)
  BY <1>0, OperatorFields, LenProperties
<1>3. own # {} => a \in own
  OBVIOUS
<1>4. a \in Nat /\ a # 0 /\ (own = {} => a = Len(operators) + 1)
      /\ (own # {} => a \in DOMAIN operators /\ Member(a) /\ operators[a].person = p)
  BY <1>2, <1>3 DEF AccountsOf
<1>5. a \in 0 .. MaxOperators
  <2>1. a \in Nat /\ a <= MaxOperators /\ MaxOperators \in Nat
    BY <1>1, <1>4, OperatorsAssumption
  <2> QED
    BY <2>1
<1>6. row \in Operator /\ row.person = p /\ row.state = "pending" /\ ~row.super
  BY DEF Operator
<1> HIDE DEF a, row
<1>7. /\ claimed \in Invitation /\ claimed.person = p /\ claimed.state = "claimed"
      /\ claimed.for = a
  <2>1. invitations[i] \in Invitation
    BY <1>0, OperatorFields
  <2> QED
    BY <1>1, <1>5, <2>1 DEF Invitation
<1>8. invitations' = [invitations EXCEPT ![i] = claimed]
  <2>1. invitations[i] \in Invitation
    BY <1>0, OperatorFields
  <2> QED
    BY <1>1, <2>1 DEF Invitation
<1>9. new \in Shift /\ new.operator = a /\ ~new.super /\ new.level = "plain" /\ new.super = FALSE
  BY <1>5 DEF Shift
<1>10. shifts' = Append(Closed(a), new)
  BY <1>1 DEF Opened
<1> HIDE DEF claimed, new, own
<1>11. /\ invitations' \in Seq(Invitation) /\ DOMAIN invitations' = DOMAIN invitations
       /\ \A j \in DOMAIN invitations : invitations'[j] = IF j = i THEN claimed ELSE invitations[j]
  BY <1>0, <1>7, <1>8, OperatorFields, ExceptSeq
<1>12. PICK n \in Nat :
         /\ shifts' \in Seq(Shift) /\ DOMAIN shifts' = DOMAIN shifts \cup {n}
         /\ n \notin DOMAIN shifts /\ shifts'[n] = new
         /\ \A s \in DOMAIN shifts :
              shifts'[s] = IF shifts[s].operator = a THEN Ended ELSE shifts[s]
  <2> DEFINE closed == Closed(a)
  <2>1. /\ closed \in Seq(Shift) /\ DOMAIN closed = DOMAIN shifts
        /\ \A s \in DOMAIN shifts :
             closed[s] = IF shifts[s].operator = a THEN Ended ELSE shifts[s]
    BY <1>0, ShiftsClose
  <2>2. shifts' = Append(closed, new)
    BY <1>10
  <2> HIDE DEF closed
  <2> QED
    BY <1>9, <2>1, <2>2, Appended
<1>13. /\ operators' \in Seq(Operator) /\ DOMAIN operators' = DOMAIN operators \cup {a}
       /\ \A b \in DOMAIN operators : operators'[b] = operators[b]
       /\ operators'[a].person = p /\ operators'[a].state = "pending" /\ ~operators'[a].super
       /\ operators'[a].super = FALSE
  <2>1. CASE own = {}
    <3>1. operators' = Append(operators, row)
      BY <1>1, <2>1
    <3>2. a = Len(operators) + 1
      BY <1>4, <2>1
    <3>3. /\ operators' \in Seq(Operator) /\ DOMAIN operators' = DOMAIN operators \cup {a}
          /\ operators'[a] = row /\ \A b \in DOMAIN operators : operators'[b] = operators[b]
      BY <1>0, <1>6, <3>1, <3>2, OperatorFields, Appended
    <3> QED
      BY <1>6, <3>3 DEF row
  <2>2. CASE own # {}
    <3>1. operators' = operators /\ a \in DOMAIN operators /\ operators[a].state = "pending"
      BY <1>1, <1>4, <2>2
    <3>2. ~operators[a].super /\ operators[a] \in Operator
      BY <1>0, <3>1, OperatorFields DEF Rights
    <3>3. operators[a].super = FALSE
      BY <3>2 DEF Operator
    <3> QED
      BY <1>0, <1>4, <2>2, <3>1, <3>2, <3>3, OperatorFields
  <2> QED
    BY <2>1, <2>2
<1>14. OperatorsTypeOK'
  BY <1>0, <1>1, <1>11, <1>12, <1>13 DEF OperatorsTypeOK, Operator, Invitation, Shift
<1>15. a # 1
  <2>1. CASE own = {}
    <3>1. DOMAIN operators # {}
      BY <1>0 DEF Rights, SomeoneManages, Superadmins
    <3> QED
      BY <1>2, <1>4, <2>1, <3>1
  <2>2. CASE own # {}
    BY <1>0, <1>1, <1>4, <2>2 DEF Rights
  <2> QED
    BY <2>1, <2>2
<1>16. Rights'
  <2>1. Superadmins # {} /\ Superadmins \subseteq Superadmins'
    BY <1>0, <1>13 DEF Rights, SomeoneManages, Superadmins
  <2> QED
    BY <1>0, <1>13, <1>15, <2>1 DEF Rights, SomeoneManages
<1>17. ShiftsFit'
  <2>1. Fits(n)'
    BY <1>9, <1>12, <1>13 DEF Fits
  <2>2. ASSUME NEW s \in DOMAIN shifts PROVE Fits(s)'
    <3>1. CASE shifts[s].operator = a
      BY <1>12, <3>1 DEF Fits, Ended
    <3>2. CASE shifts[s].operator # a
      <4>1. Fits(s) /\ shifts'[s] = shifts[s]
        BY <1>0, <1>12, <3>2 DEF ShiftsFit
      <4> QED
        BY <1>13, <4>1 DEF Fits, Ended
    <3> QED
      BY <3>1, <3>2
  <2> QED
    BY <1>12, <2>1, <2>2 DEF ShiftsFit
<1>18. OneAccountEach'
  <2>1. \A b \in DOMAIN operators : Member(b) /\ operators[b].person = p => b = a
    <3>1. CASE own = {}
      BY <3>1 DEF own, AccountsOf
    <3>2. CASE own # {}
      BY <1>0, <1>4, <3>2 DEF OneAccountEach
    <3> QED
      BY <3>1, <3>2
  <2>2. \A b \in DOMAIN operators' : b = a \/ (b \in DOMAIN operators /\ operators'[b] = operators[b])
    BY <1>13
  <2> QED
    BY <1>0, <1>1, <1>13, <2>1, <2>2 DEF OneAccountEach, Member
<1>19. \A j \in DOMAIN invitations : j # i => invitations[j].for # a
  <2>1. SUFFICES ASSUME NEW j \in DOMAIN invitations, invitations[j].for = a PROVE j = i
    OBVIOUS
  <2>2. a \in DOMAIN operators \ {1} /\ own # {}
    BY <1>0, <1>2, <1>4, <2>1 DEF Invitations, Answers
  <2>3. PICK k \in DOMAIN invitations :
          /\ invitations[k].for = a /\ invitations[k].person = operators[a].person
          /\ invitations[k].state = Stage[operators[a].state]
          /\ \A l \in DOMAIN invitations : invitations[l].for = a => l = k
    BY <1>0, <2>2 DEF Invitations, EveryoneWasInvited
  <2>4. invitations[k].person = p /\ invitations[k].state = "claimed"
    BY <1>1, <1>4, <2>2, <2>3 DEF Stage
  <2>5. k = i
    BY <1>0, <1>1, <2>4 DEF Invitations, OneOpen, Unanswered
  <2> QED
    BY <2>1, <2>3, <2>5
<1>20. EveryoneWasInvited'
  <2>1. SUFFICES ASSUME NEW b \in DOMAIN operators', b # 1
                 PROVE  \E j \in DOMAIN invitations' :
                   /\ invitations'[j].for = b /\ invitations'[j].person = operators'[b].person
                   /\ invitations'[j].state = Stage[operators'[b].state]
                   /\ \A k \in DOMAIN invitations' : invitations'[k].for = b => k = j
    BY DEF EveryoneWasInvited, Stage
  <2>2. CASE b = a
    BY <1>7, <1>11, <1>13, <1>19, <2>2 DEF Stage
  <2>3. CASE b # a
    <3>1. b \in DOMAIN operators /\ operators'[b] = operators[b]
      BY <1>13, <2>1, <2>3
    <3>2. PICK j \in DOMAIN invitations :
            /\ invitations[j].for = b /\ invitations[j].person = operators[b].person
            /\ invitations[j].state = Stage[operators[b].state]
            /\ \A k \in DOMAIN invitations : invitations[k].for = b => k = j
      BY <1>0, <2>1, <3>1 DEF Invitations, EveryoneWasInvited
    <3>3. b # 0
      BY <1>2, <3>1
    <3>4. j # i
      BY <1>1, <2>3, <3>2, <3>3
    <3> QED
      BY <1>7, <1>11, <2>3, <3>1, <3>2, <3>4
  <2> QED
    BY <2>2, <2>3
<1>21. Invitations'
  <2>1. OneOpen'
    BY <1>0, <1>1, <1>7, <1>11 DEF Invitations, OneOpen, Unanswered
  <2>2. ASSUME NEW j \in DOMAIN invitations PROVE Answers(j)'
    <3>1. CASE j = i
      BY <1>4, <1>7, <1>11, <1>13, <1>15, <3>1 DEF Answers
    <3>2. CASE j # i
      BY <1>0, <1>11, <1>13, <3>2 DEF Invitations, Answers
    <3> QED
      BY <3>1, <3>2
  <2> QED
    BY <1>11, <1>20, <2>1, <2>2 DEF Invitations
<1> QED
  BY <1>14, <1>16, <1>17, <1>18, <1>21 DEF OperatorsInv

LEMMA OperatorsStart == OperatorsInit => OperatorsInv
<1> SUFFICES ASSUME OperatorsInit PROVE OperatorsInv
  OBVIOUS
<1> DEFINE row == [person |-> Founder, state |-> "active", super |-> TRUE, key |-> TRUE]
<1>1. row \in Operator /\ row.super /\ row.state = "active"
  BY OperatorsAssumption DEF Operator
<1>2. /\ operators = <<row>> /\ riders = {} /\ invitations = <<>> /\ shifts = <<>>
      /\ ceremonies = {}
  BY DEF OperatorsInit
<1> HIDE DEF row
<1>3. operators \in Seq(Operator) /\ DOMAIN operators = {1} /\ operators[1] = row
  BY <1>1, <1>2
<1>4. DOMAIN invitations = {} /\ DOMAIN shifts = {}
  BY <1>2
<1>5. invitations \in Seq(Invitation) /\ shifts \in Seq(Shift)
  BY <1>2
<1>6. OperatorsTypeOK
  BY <1>2, <1>3, <1>5 DEF OperatorsTypeOK, Operator, Invitation, Shift
<1>7. Rights
  BY <1>1, <1>3 DEF Rights, SomeoneManages, Superadmins
<1>8. OneAccountEach
  BY <1>2, <1>3 DEF OneAccountEach
<1>9. ShiftsFit /\ Invitations
  BY <1>3, <1>4 DEF ShiftsFit, Invitations, EveryoneWasInvited, OneOpen
<1> QED
  BY <1>6, <1>7, <1>8, <1>9 DEF OperatorsInv

(* Every command, passkey ceremony and erasure *)
LEMMA OperatorsInvStep == OperatorsInv /\ [OperatorsNext]_operatorVars => OperatorsInv'
<1> SUFFICES ASSUME OperatorsInv, [OperatorsNext]_operatorVars PROVE OperatorsInv'
  OBVIOUS
<1>1. CASE UNCHANGED operatorVars
  <2>1. OperatorsTypeOK'
    BY <1>1 DEF OperatorsInv, OperatorsTypeOK, operatorVars
  <2> QED
    BY <1>1, <2>1, TeamStays DEF operatorVars
<1>2. ASSUME NEW a \in 1 .. MaxOperators, a \in DOMAIN operators, SignInOperator(a)
      PROVE  OperatorsInv'
  BY <1>2, SessionsKept
<1>3. ASSUME NEW s \in 1 .. MaxSignIns, s \in DOMAIN shifts,
             AgeCheck(s) \/ EndShift(s) \/ EraseOwn(s)
      PROVE  OperatorsInv'
  BY <1>3, SessionsKept, LeavingKept
<1>4. ASSUME NEW s \in 1 .. MaxSignIns, s \in DOMAIN shifts, Command(s) PROVE OperatorsInv'
  <2>1. ASSUME NEW p \in People, Invite(s, p) PROVE OperatorsInv'
    BY <2>1, InviteKept
  <2>2. ASSUME NEW i \in DOMAIN invitations, Resend(s, i) PROVE OperatorsInv'
    BY <1>4, <2>2, MailingKept
  <2>3. ASSUME NEW i \in DOMAIN invitations, CancelInvitation(s, i) PROVE OperatorsInv'
    BY <1>4, <2>3, LeavingKept
  <2>4. ASSUME NEW a \in DOMAIN operators, DeleteOperator(s, a) PROVE OperatorsInv'
    BY <1>4, <2>4, LeavingKept
  <2>5. ASSUME NEW a \in DOMAIN operators,
               ResetKeys(s, a) \/ \E super \in BOOLEAN : ChangeAccess(s, a, super)
        PROVE  OperatorsInv'
    BY <1>4, <2>5, AccessKept
  <2> QED
    BY <1>4, <2>1, <2>2, <2>3, <2>4, <2>5 DEF Command
<1>5. ASSUME NEW s \in 1 .. MaxSignIns, s \in DOMAIN shifts,
             NEW purpose \in {"registration", "authentication"},
             StartCeremony(s, purpose) \/ FinishCeremony(s, purpose)
      PROVE  OperatorsInv'
  BY <1>5, CeremoniesKept, FinishKept
<1>6. ASSUME NEW c \in ceremonies, ExpireCeremony(c) PROVE OperatorsInv'
  BY <1>6, CeremoniesKept
<1>7. ASSUME NEW i \in DOMAIN invitations, ExpireInvitation(i) PROVE OperatorsInv'
  BY <1>7, MailingKept
<1>8. ASSUME NEW i \in DOMAIN invitations, NEW p \in People, NEW version \in 1 .. MaxMailings,
             Claim(p, i, version)
      PROVE  OperatorsInv'
  BY <1>8, ClaimKept
<1>9. ASSUME NEW p \in People, BecomeRider(p) \/ RiderLeaves(p) PROVE OperatorsInv'
  BY <1>9, RidersKept
<1> QED
  BY <1>1, <1>2, <1>3, <1>4, <1>5, <1>6, <1>7, <1>8, <1>9 DEF OperatorsNext

(* Whoever is demoted, deleted, reset, invited or leaves, in whatever order: somebody can manage
   the team, no session goes on with rights or a passkey its operator no longer has, everybody
   came by one invitation that tells how far they are, and a Google account leads to one account
   (ops-team.ts, auth/service.ts and the guards of account/service.ts under the team lock). *)
THEOREM TeamIsSafe == OperatorsSpec => []OperatorsSafe
<1>1. OperatorsInv => OperatorsSafe
  <2>1. OperatorsInv => NoStaleShift
    BY DEF OperatorsInv, ShiftsFit, Fits, NoStaleShift
  <2> QED
    BY <2>1 DEF OperatorsInv, Rights, Invitations, OperatorsSafe
<1> QED
  BY <1>1, OperatorsStart, OperatorsInvStep, PTL DEF OperatorsSpec
==============================================================================
