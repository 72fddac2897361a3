-------------------- MODULE PaymentLedger_Evidence_Proofs --------------------
(***************************************************************************)
(* Theorems about refunds, disputes and Ride Credit, and about the inbox   *)
(* that delivers the evidence for them, for every rider and every set of   *)
(* provider evidence in any order.  What the first ones say are sums over  *)
(* the rider's rows, so the first lemmas read the sums of the model as     *)
(* those of FiniteSums.                                                    *)
(***************************************************************************)
EXTENDS PaymentLedger_Proofs, PaymentInbox

-----------------------------------------------------------------------------
(* Reading the sums. *)

(* Sums of amounts. *)
LEMMA AmountsAdd ==
  ASSUME NEW rows, NEW T, IsFiniteSet(T), NEW f, \A x \in T : f[x] = rows[x].amount
  PROVE  MapThenSumSet(LAMBDA x : rows[x].amount, T) = SumOver(f, T)
<1> DEFINE Body(g) == g = [s \in SUBSET T |->
             IF s = {} THEN 0 ELSE rows[First(s)].amount + g[s \ {First(s)}]]
           k == CHOOSE g : Body(g)
<1>1. MapThenSumSet(LAMBDA x : rows[x].amount, T) = k[T]
  BY DEF MapThenSumSet, MapThenFoldSet, First
<1>2. \A s \in SUBSET T : s # {} => f[First(s)] = rows[First(s)].amount
  BY FirstIn
<1>3. ASSUME NEW g PROVE Body(g) <=> SumsTo(f, T, g)
  BY <1>2 DEF SumsTo
<1>4. PICK g : SumsTo(f, T, g)
  BY SumsExist
<1>5. Body(k)
  BY <1>3, <1>4
<1>6. SumsTo(f, T, k)
  BY <1>3, <1>5
<1> HIDE DEF k
<1> QED
  BY <1>1, <1>6, SumReads

(* The credit that closed periods earn. *)
LEMMA ConversionsAdd ==
  ASSUME NEW T, IsFiniteSet(T), NEW f, \A p \in T : f[p] = Conversion(p)
  PROVE  Earned(T) = SumOver(f, T)
<1> DEFINE Body(g) == g = [s \in SUBSET T |->
             IF s = {} THEN 0 ELSE Conversion(First(s)) + g[s \ {First(s)}]]
           k == CHOOSE g : Body(g)
<1>1. Earned(T) = k[T]
  BY DEF Earned, MapThenSumSet, MapThenFoldSet, First
<1>2. \A s \in SUBSET T : s # {} => f[First(s)] = Conversion(First(s))
  BY FirstIn
<1>3. ASSUME NEW g PROVE Body(g) <=> SumsTo(f, T, g)
  BY <1>2 DEF SumsTo
<1>4. PICK g : SumsTo(f, T, g)
  BY SumsExist
<1>5. Body(k)
  BY <1>3, <1>4
<1>6. SumsTo(f, T, k)
  BY <1>3, <1>5
<1> HIDE DEF k
<1> QED
  BY <1>1, <1>6, SumReads

(* What one purchase added to the balance, and took from it. *)
Share(p) ==
  closure[p].credit - (IF hold[p] = "captured" THEN applied[p] ELSE 0)
    + (IF reversal[p].made THEN applied[p] - reversal[p].recovered ELSE 0)
Shares == [p \in Purchases |-> Share(p)]

(* The balance that CreditAddsUp asks for is the sum of the shares. *)
LEMMA SharesAdd == CreditAddsUp <=> credit = SumOver(Shares, Purchases)
<1> DEFINE Body(g) == g = [s \in SUBSET Purchases |->
             IF s = {} THEN 0 ELSE Share(First(s)) + g[s \ {First(s)}]]
           k == CHOOSE g : Body(g)
<1>1. CreditAddsUp <=> credit = k[Purchases]
  BY DEF CreditAddsUp, MapThenSumSet, MapThenFoldSet, First, Share
<1>2. \A s \in SUBSET Purchases : s # {} => Shares[First(s)] = Share(First(s))
  BY FirstIn DEF Shares
<1>3. ASSUME NEW g PROVE Body(g) <=> SumsTo(Shares, Purchases, g)
  BY <1>2 DEF SumsTo
<1>4. IsFiniteSet(Purchases)
  BY RowsAssumption
<1>5. PICK g : SumsTo(Shares, Purchases, g)
  BY <1>4, SumsExist
<1>6. SumsTo(Shares, Purchases, k)
  BY <1>3, <1>5
<1> HIDE DEF k
<1> QED
  BY <1>1, <1>4, <1>6, SumReads

-----------------------------------------------------------------------------
(* What has been refunded, and what has been conceded. *)

RefundWeight(rows, p) ==
  [r \in Refunds |->
     IF rows[r].ref = p /\ rows[r].state = "processed" THEN rows[r].amount ELSE 0]
ConcededWeight(rows, p) ==
  [d \in Disputes |-> IF d \in Accepted(rows, p) THEN rows[d].amount ELSE 0]

(* A refund counts when it is processed, for its purchase (refundedAmount). *)
LEMMA RefundedIs ==
  ASSUME NEW rows \in [Refunds -> RefundRows], NEW p
  PROVE  /\ Refunded(rows, p) = SumOver(RefundWeight(rows, p), Refunds)
         /\ Refunded(rows, p) \in Int
         /\ \A r \in Refunds : RefundWeight(rows, p)[r] \in Int
<1> DEFINE T == {r \in Refunds : rows[r].ref = p /\ rows[r].state = "processed"}
           f == [r \in Refunds |-> rows[r].amount]
<1>1. IsFiniteSet(Refunds) /\ T \in SUBSET Refunds /\ IsFiniteSet(T)
  BY RowsAssumption, FS_Subset
<1>2. \A r \in Refunds : f[r] = rows[r].amount /\ f[r] \in Int
  BY DEF RefundRows
<1>3. \A r \in Refunds : /\ RefundWeight(rows, p)[r] = IF r \in T THEN f[r] ELSE 0
                         /\ RefundWeight(rows, p)[r] \in Int
  BY <1>2 DEF RefundWeight
<1>4. Refunded(rows, p) = MapThenSumSet(LAMBDA r : rows[r].amount, T)
  BY DEF Refunded
<1> HIDE DEF T, f
<1>5. MapThenSumSet(LAMBDA r : rows[r].amount, T) = SumOver(f, T)
  BY <1>1, <1>2, AmountsAdd
<1>6. SumOver(f, T) = SumOver(RefundWeight(rows, p), Refunds)
  BY <1>1, <1>2, <1>3, SumWhere
<1>7. SumOver(RefundWeight(rows, p), Refunds) \in Int
  BY <1>1, <1>3, SumTyped
<1> QED
  BY <1>3, <1>4, <1>5, <1>6, <1>7

(* A dispute counts when the merchant accepted it (releaseAccepted). *)
LEMMA ConcededIs ==
  ASSUME NEW rows \in [Disputes -> DisputeRows], NEW p
  PROVE  /\ Conceded(rows, p) = SumOver(ConcededWeight(rows, p), Disputes)
         /\ \A d \in Disputes : ConcededWeight(rows, p)[d] \in Int
<1> DEFINE T == Accepted(rows, p)
           f == [d \in Disputes |-> rows[d].amount]
<1>1. IsFiniteSet(Disputes) /\ T \in SUBSET Disputes /\ IsFiniteSet(T)
  BY RowsAssumption, FS_Subset DEF Accepted
<1>2. \A d \in Disputes : f[d] = rows[d].amount /\ f[d] \in Int
  BY DEF DisputeRows
<1>3. \A d \in Disputes : /\ ConcededWeight(rows, p)[d] = IF d \in T THEN f[d] ELSE 0
                          /\ ConcededWeight(rows, p)[d] \in Int
  BY <1>2 DEF ConcededWeight
<1>4. Conceded(rows, p) = MapThenSumSet(LAMBDA d : rows[d].amount, T)
  BY DEF Conceded
<1> HIDE DEF T, f
<1>5. MapThenSumSet(LAMBDA d : rows[d].amount, T) = SumOver(f, T)
  BY <1>1, <1>2, AmountsAdd
<1>6. SumOver(f, T) = SumOver(ConcededWeight(rows, p), Disputes)
  BY <1>1, <1>2, <1>3, SumWhere
<1> QED
  BY <1>3, <1>4, <1>5, <1>6

(* Rows that count the same refund the same, rows that count more refund more. *)
LEMMA RefundedCompares ==
  ASSUME NEW old \in [Refunds -> RefundRows], NEW new \in [Refunds -> RefundRows], NEW p
  PROVE  /\ (\A r \in Refunds : RefundWeight(new, p)[r] = RefundWeight(old, p)[r])
              => Refunded(new, p) = Refunded(old, p)
         /\ (\A r \in Refunds : RefundWeight(old, p)[r] <= RefundWeight(new, p)[r])
              => Refunded(old, p) <= Refunded(new, p)
         /\ (\A r \in Refunds : RefundWeight(old, p)[r] = 0) => Refunded(old, p) = 0
<1>0. IsFiniteSet(Refunds)
  BY RowsAssumption
<1>1. \A rows \in {old, new} :
        /\ Refunded(rows, p) = SumOver(RefundWeight(rows, p), Refunds)
        /\ \A r \in Refunds : RefundWeight(rows, p)[r] \in Int
  BY RefundedIs
<1>2. ASSUME \A r \in Refunds : RefundWeight(new, p)[r] = RefundWeight(old, p)[r]
      PROVE  Refunded(new, p) = Refunded(old, p)
  BY <1>0, <1>1, <1>2, SumSame
<1>3. ASSUME \A r \in Refunds : RefundWeight(old, p)[r] <= RefundWeight(new, p)[r]
      PROVE  Refunded(old, p) <= Refunded(new, p)
  BY <1>0, <1>1, <1>3, SumMonotone
<1>4. ASSUME \A r \in Refunds : RefundWeight(old, p)[r] = 0
      PROVE  Refunded(old, p) = 0
  BY <1>0, <1>1, <1>4, SumZero
<1> QED
  BY <1>2, <1>3, <1>4

(* Every accepted dispute is part of what was conceded. *)
LEMMA ConcededBounds ==
  ASSUME NEW rows \in [Disputes -> DisputeRows], NEW p,
         \A d \in Disputes : rows[d].state # "none" => 0 < rows[d].amount
  PROVE  Conceded(rows, p) \in Int /\ \A d \in Accepted(rows, p) : rows[d].amount <= Conceded(rows, p)
<1>0. IsFiniteSet(Disputes)
  BY RowsAssumption
<1>1. \A d \in Disputes : ConcededWeight(rows, p)[d] \in Nat
  BY DEF ConcededWeight, Accepted, DisputeRows
<1>2. \A d \in Accepted(rows, p) : d \in Disputes /\ ConcededWeight(rows, p)[d] = rows[d].amount
  BY DEF ConcededWeight, Accepted
<1>3. /\ SumOver(ConcededWeight(rows, p), Disputes) \in Nat
      /\ \A d \in Disputes :
           ConcededWeight(rows, p)[d] <= SumOver(ConcededWeight(rows, p), Disputes)
  BY <1>0, <1>1, SumNatural
<1> QED
  BY <1>2, <1>3, ConcededIs

(* Rows that accept the same concede the same. *)
LEMMA ConcededSame ==
  ASSUME NEW old \in [Disputes -> DisputeRows], NEW new \in [Disputes -> DisputeRows], NEW p,
         Accepted(new, p) = Accepted(old, p),
         \A d \in Accepted(old, p) : new[d].amount = old[d].amount
  PROVE  Conceded(new, p) = Conceded(old, p)
<1>0. IsFiniteSet(Disputes)
  BY RowsAssumption
<1>1. /\ Conceded(old, p) = SumOver(ConcededWeight(old, p), Disputes)
      /\ Conceded(new, p) = SumOver(ConcededWeight(new, p), Disputes)
      /\ \A d \in Disputes : ConcededWeight(old, p)[d] \in Int
  BY ConcededIs
<1>2. \A d \in Disputes : ConcededWeight(new, p)[d] = ConcededWeight(old, p)[d]
  BY DEF ConcededWeight
<1> QED
  BY <1>0, <1>1, <1>2, SumSame

-----------------------------------------------------------------------------
(* The evidence invariant. *)

(* Refunds and disputes are of purchases whose money was collected, and of money. *)
RefundsInv ==
  \A r \in Refunds :
    IF refund[r].state = "none" THEN refund[r] = NoRefund
    ELSE refund[r].ref \in Purchases /\ Collected(refund[r].ref) /\ 0 < refund[r].amount
DisputesInv ==
  \A d \in Disputes :
    IF dispute[d].state = "none" THEN dispute[d] = NoDispute /\ block[d] = "none"
    ELSE /\ dispute[d].ref \in Purchases /\ Collected(dispute[d].ref) /\ 0 < dispute[d].amount
         /\ block[d] # "none" <=> period[dispute[d].ref] # "none"

(* The three properties are not inductive without these rows: a purchase that is fulfilled
   while its refunds are already known would be covered and paid back at once. *)
EvidenceInv ==
  RefundsInv /\ DisputesInv /\ RefundEndsCoverage /\ DisputeHoldsCoverage /\ PaidBackIsReleased

(* No evidence yet. *)
LEMMA EvidenceInit == Init => EvidenceInv
<1> SUFFICES ASSUME Init PROVE EvidenceInv
  OBVIOUS
<1>1. /\ \A r \in Refunds : refund[r] = NoRefund
      /\ \A d \in Disputes : dispute[d] = NoDispute /\ block[d] = "none"
      /\ \A p \in Purchases : purchase[p] # "fulfilled"
  BY DEF Init
<1>2. RefundsInv /\ DisputesInv
  BY <1>1 DEF RefundsInv, DisputesInv, NoRefund, NoDispute
<1>3. RefundEndsCoverage /\ DisputeHoldsCoverage /\ PaidBackIsReleased
  BY <1>1 DEF RefundEndsCoverage, DisputeHoldsCoverage, PaidBackIsReleased, NoDispute,
     SettledDisputes, Accepted
<1> QED
  BY <1>2, <1>3 DEF EvidenceInv

(* What was collected stays collected. *)
LEMMA CollectedStays ==
  ASSUME LedgerInv, [Next]_vars, NEW p \in Purchases, Collected(p)
  PROVE  Collected(p)'
BY SaleOneWayStep DEF SaleOneWay, Collected

(* Sums of rows that stay, stay. *)
LEMMA RefundedStays ==
  ASSUME LedgerInv, LedgerInv', UNCHANGED refund, NEW p
  PROVE  Refunded(refund, p)' = Refunded(refund, p)
<1>1. refund \in [Refunds -> RefundRows] /\ refund' \in [Refunds -> RefundRows]
  BY DEF LedgerInv, TypeOK, EvidenceType
<1>2. \A r \in Refunds : RefundWeight(refund', p)[r] = RefundWeight(refund, p)[r]
  BY DEF RefundWeight
<1>3. Refunded(refund', p) = Refunded(refund, p)
  BY <1>1, <1>2, RefundedCompares
<1> QED
  BY <1>3

(* The same for what was conceded. *)
LEMMA ConcededStays ==
  ASSUME LedgerInv, LedgerInv', UNCHANGED dispute, NEW p
  PROVE  Conceded(dispute, p)' = Conceded(dispute, p)
<1>1. dispute \in [Disputes -> DisputeRows] /\ dispute' \in [Disputes -> DisputeRows]
  BY DEF LedgerInv, TypeOK, EvidenceType
<1>2. Accepted(dispute', p) = Accepted(dispute, p)
  BY DEF Accepted
<1>3. Conceded(dispute', p) = Conceded(dispute, p)
  BY <1>1, <1>2, ConcededSame
<1> QED
  BY <1>3

(* So do the disputes that are settled. *)
LEMMA SettledStays ==
  ASSUME LedgerInv, LedgerInv', UNCHANGED <<refund, dispute>>, NEW p
  PROVE  SettledDisputes(refund, dispute, p)' = SettledDisputes(refund, dispute, p)
<1>1. Accepted(dispute, p)' = Accepted(dispute, p)
  BY DEF Accepted
<1> QED
  BY <1>1, RefundedStays, ConcededStays DEF SettledDisputes

(* The transactions that are not about refunds, disputes or the start of coverage. *)
LEMMA EvidenceInvFrame ==
  ASSUME LedgerInv, LedgerInv', EvidenceInv, [Next]_vars, UNCHANGED <<refund, dispute, block>>,
         \A p \in Purchases :
           /\ purchase'[p] = "fulfilled" => purchase[p] = "fulfilled" /\ applied'[p] = applied[p]
           /\ period'[p] = "reversed" <=> period[p] = "reversed"
  PROVE  EvidenceInv'
<1>1. \A p \in Purchases : (period'[p] # "none" <=> period[p] # "none")
  <2>1. \A p \in Purchases : purchase[p] = "fulfilled" => purchase'[p] = "fulfilled"
    BY SaleOneWayStep DEF SaleOneWay
  <2> QED
    BY <2>1 DEF LedgerInv, PaidInv, CoverageIsPaid
<1>2. RefundsInv'
  BY CollectedStays DEF EvidenceInv, RefundsInv
<1>3. DisputesInv'
  BY <1>1, CollectedStays DEF EvidenceInv, DisputesInv
<1>4. RefundEndsCoverage'
  <2>1. \A p \in Purchases : Refunded(refund, p)' = Refunded(refund, p)
    BY RefundedStays
  <2> QED
    BY <2>1 DEF EvidenceInv, RefundEndsCoverage, Cash
<1>5. DisputeHoldsCoverage'
  <2>1. \A p : Refunded(refund, p)' = Refunded(refund, p)
    BY RefundedStays
  <2>2. \A d \in Disputes : dispute[d].state # "none" => dispute[d].ref \in Purchases
    BY DEF EvidenceInv, DisputesInv
  <2> QED
    BY <1>1, <2>1, <2>2 DEF EvidenceInv, DisputeHoldsCoverage
<1>6. PaidBackIsReleased'
  BY SettledStays DEF EvidenceInv, PaidBackIsReleased
<1> QED
  BY <1>2, <1>3, <1>4, <1>5, <1>6 DEF EvidenceInv

(* Coverage starts before any refund or dispute of its purchase is known. *)
LEMMA FulfilEvidence ==
  ASSUME LedgerInv, LedgerInv', EvidenceInv, [Next]_vars, NEW e \in Events, FulfilPurchase(e)
  PROVE  EvidenceInv'
<1> DEFINE p == e.ref
<1>1. /\ p \in Purchases /\ ~deleted /\ Waiting(p)
      /\ UNCHANGED <<refund, dispute, block, applied>>
      /\ period' = [period EXCEPT ![p] = "open"]
      /\ purchase' = [purchase EXCEPT ![p] = "fulfilled"]
  BY EventFields DEF FulfilPurchase
<1> HIDE DEF p
<1>2. ~Collected(p)
  BY <1>1 DEF Waiting, Collected, LedgerInv, SaleInv
<1>3. /\ \A r \in Refunds : refund[r].ref # p
      /\ \A d \in Disputes : dispute[d].ref # p
  <2>1. p # NoPurchase
    BY <1>1, TermsAssumption
  <2> QED
    BY <1>2, <2>1 DEF EvidenceInv, RefundsInv, DisputesInv, NoRefund, NoDispute
<1>4. \A q \in Purchases : q # p => period'[q] = period[q] /\ purchase'[q] = purchase[q]
  BY <1>1 DEF LedgerInv, TypeOK, SaleType, CoverType
<1>5. \A q : Refunded(refund, q)' = Refunded(refund, q)
  BY <1>1, RefundedStays
<1>6. RefundsInv'
  BY <1>1, CollectedStays DEF EvidenceInv, RefundsInv
<1>7. DisputesInv'
  BY <1>1, <1>3, <1>4, CollectedStays DEF EvidenceInv, DisputesInv
<1>8. RefundEndsCoverage'
  <2>1. Refunded(refund, p) = 0
    <3>1. \A r \in Refunds : RefundWeight(refund, p)[r] = 0
      BY <1>3 DEF RefundWeight
    <3> QED
      BY <3>1, RefundedCompares DEF LedgerInv, TypeOK, EvidenceType
  <2>2. Cash(p) # 0 /\ period'[p] = "open"
    BY <1>1, CashTyped, MoneyAssumption DEF LedgerInv, SaleInv, TypeOK, CoverType
  <2>3. \A q \in Purchases : Cash(q)' = Cash(q)
    BY <1>1 DEF Cash
  <2> QED
    BY <1>1, <1>4, <1>5, <2>1, <2>2, <2>3 DEF EvidenceInv, RefundEndsCoverage
<1>9. DisputeHoldsCoverage'
  BY <1>1, <1>3, <1>4, <1>5 DEF EvidenceInv, DisputeHoldsCoverage, DisputesInv
<1>10. PaidBackIsReleased'
  BY <1>1, SettledStays DEF EvidenceInv, PaidBackIsReleased
<1> QED
  BY <1>6, <1>7, <1>8, <1>9, <1>10 DEF EvidenceInv

(* Every amount that fits is money: the cash of a purchase is at least two. *)
LEMMA AmountPositive ==
  ASSUME LedgerInv, NEW e \in Events
  PROVE  Amount(e) \in Int /\ 0 < Amount(e)
<1>1. e.ref \in Purchases /\ e.portion \in Portions
  BY EventFields
<1>2. Cash(e.ref) \in Int /\ Cash(e.ref) >= 2
  BY <1>1, CashTyped, MoneyAssumption DEF LedgerInv, SaleInv, TypeOK
<1> QED
  BY <1>1, <1>2 DEF Amount, Portions

(* What a refund fact does to its row, and to the sums (PaymentRecovery.refund). *)
LEMMA RefundRow ==
  ASSUME LedgerInv, LedgerInv', EvidenceInv, NEW e \in Events, RefundProgress(e)
  PROVE  /\ \A r \in Refunds : r # e.id => refund'[r] = refund[r]
         /\ refund'[e.id].ref = e.ref /\ refund'[e.id].amount = Amount(e)
         /\ refund'[e.id].state \in RefundStates
         /\ \A q \in Purchases :
              /\ q # e.ref => Refunded(refund', q) = Refunded(refund, q)
              /\ Refunded(refund, q) <= Refunded(refund', q)
              /\ refund'[e.id].state # "processed" => Refunded(refund', q) = Refunded(refund, q)
<1> DEFINE p == e.ref
           i == e.id
<1>0. p \in Purchases /\ i \in Refunds /\ e.state \in RefundStates /\ p # NoPurchase
  BY EventFields, TermsAssumption DEF RefundProgress
<1>1. refund \in [Refunds -> RefundRows] /\ refund' \in [Refunds -> RefundRows]
  BY DEF LedgerInv, TypeOK, EvidenceType
<1>2. /\ \A r \in Refunds : r # i => refund'[r] = refund[r]
      /\ refund[i].state # "none" => refund[i].ref = p /\ refund[i].amount = Amount(e)
      /\ refund'[i] = IF refund[i].state = "none"
                      THEN [state |-> e.state, ref |-> p, amount |-> Amount(e)]
                      ELSE [refund[i] EXCEPT !.state =
                              IF Newer(RefundRank, e.state, @) THEN e.state ELSE @]
  BY <1>0, <1>1 DEF RefundProgress
<1>3. /\ refund'[i].ref = p /\ refund'[i].amount = Amount(e)
      /\ refund'[i].state \in RefundStates
      /\ refund[i].state = "processed" => refund'[i].state = "processed"
  <2>1. refund[i].state \in RefundStates \cup {"none"} /\ refund[i] \in RefundRows
    BY <1>0, <1>1 DEF RefundRows
  <2>2. CASE refund[i].state = "none"
    BY <1>0, <1>2, <2>2
  <2>3. CASE refund[i].state # "none"
    <3>1. /\ refund'[i].ref = refund[i].ref /\ refund'[i].amount = refund[i].amount
          /\ refund'[i].state = IF Newer(RefundRank, e.state, refund[i].state)
                                THEN e.state ELSE refund[i].state
      BY <1>2, <2>1, <2>3 DEF RefundRows
    <3>2. ~Newer(RefundRank, e.state, "processed")
      BY <1>0 DEF Newer, RefundRank, RefundStates
    <3> QED
      BY <1>0, <1>2, <2>1, <2>3, <3>1, <3>2
  <2> QED
    BY <2>2, <2>3
<1> HIDE DEF p, i
<1>4. refund[i].state # "none" \/ refund[i].ref = NoPurchase
  BY <1>0 DEF EvidenceInv, RefundsInv, NoRefund
<1>5. ASSUME NEW q \in Purchases, q # p PROVE Refunded(refund', q) = Refunded(refund, q)
  <2>1. q # NoPurchase
    BY TermsAssumption
  <2>2. refund[i].ref # q /\ refund'[i].ref # q
    BY <1>2, <1>3, <1>4, <1>5, <2>1
  <2>3. \A r \in Refunds : RefundWeight(refund', q)[r] = RefundWeight(refund, q)[r]
    BY <1>2, <2>2 DEF RefundWeight
  <2> QED
    BY <1>1, <2>3, RefundedCompares
<1>6. ASSUME refund'[i].state # "processed" PROVE Refunded(refund', p) = Refunded(refund, p)
  <2>1. \A r \in Refunds : RefundWeight(refund', p)[r] = RefundWeight(refund, p)[r]
    BY <1>2, <1>3, <1>6 DEF RefundWeight
  <2> QED
    BY <1>1, <2>1, RefundedCompares
<1>7. Refunded(refund, p) <= Refunded(refund', p)
  <2>1. Amount(e) \in Int /\ 0 < Amount(e)
    BY AmountPositive
  <2>2. ASSUME NEW r \in Refunds PROVE RefundWeight(refund, p)[r] <= RefundWeight(refund', p)[r]
    <3>1. CASE r # i
      <4>1. RefundWeight(refund', p)[r] = RefundWeight(refund, p)[r]
        BY <1>2, <3>1 DEF RefundWeight
      <4> QED
        BY <1>1, <4>1, RefundedIs
    <3>2. CASE r = i
      <4>1. /\ RefundWeight(refund, p)[i] = IF refund[i].state = "processed" THEN Amount(e) ELSE 0
            /\ RefundWeight(refund', p)[i] = IF refund'[i].state = "processed" THEN Amount(e) ELSE 0
        BY <1>0, <1>2, <1>3 DEF RefundWeight
      <4> QED
        BY <1>3, <2>1, <3>2, <4>1
    <3> QED
      BY <3>1, <3>2
  <2> QED
    BY <1>1, <2>2, RefundedCompares
<1>8. \A q \in Purchases : Refunded(refund, q) \in Int
  BY <1>1, RefundedIs
<1> QED
  BY <1>2, <1>3, <1>5, <1>6, <1>7, <1>8 DEF p, i

(* A refund ends coverage exactly when it was the last of the cash. *)
LEMMA RefundEnds ==
  ASSUME LedgerInv, LedgerInv', EvidenceInv, NEW e \in Events, RefundProgress(e)
  PROVE  RefundEndsCoverage'
<1> DEFINE p == e.ref
<1>0. p \in Purchases
  BY EventFields
<1>1. /\ Refunded(refund', p) <= Cash(p) /\ UNCHANGED <<purchase, applied>>
      /\ IF EndsCoverage(refund', e.id, p) /\ ~reversal[p].made /\ purchase[p] = "fulfilled"
         THEN Reverse(p) ELSE UNCHANGED period
  BY DEF RefundProgress, saleVars
<1>2. refund \in [Refunds -> RefundRows] /\ refund' \in [Refunds -> RefundRows]
  BY DEF LedgerInv, TypeOK, EvidenceType
<1>3. \A q \in Purchases : /\ Refunded(refund, q) \in Int /\ Refunded(refund', q) \in Int
                           /\ Cash(q) \in Int
  BY <1>2, RefundedIs, CashTyped DEF LedgerInv, TypeOK
<1>4. \A q \in Purchases : Cash(q)' = Cash(q)
  BY <1>1 DEF Cash
<1>5. /\ \A q \in Purchases : q # p => period'[q] = period[q]
      /\ period'[p] = period[p] \/ period'[p] = "reversed"
  BY <1>0, <1>1 DEF Reverse, LedgerInv, TypeOK, CoverType
<1>6. purchase[p] = "fulfilled" => (Refunded(refund', p) = Cash(p) <=> period'[p] = "reversed")
  <2> SUFFICES ASSUME purchase[p] = "fulfilled"
               PROVE  Refunded(refund', p) = Cash(p) <=> period'[p] = "reversed"
    OBVIOUS
  <2>1. Refunded(refund, p) = Cash(p) <=> period[p] = "reversed"
    BY <1>0 DEF EvidenceInv, RefundEndsCoverage
  <2>2. CASE EndsCoverage(refund', e.id, p) /\ ~reversal[p].made
    <3>1. Refunded(refund', p) = Cash(p)
      BY <2>2 DEF EndsCoverage
    <3>2. period'[p] = "reversed"
      BY <1>0, <1>1, <2>2 DEF Reverse, LedgerInv, TypeOK, CoverType
    <3> QED
      BY <3>1, <3>2
  <2>3. CASE reversal[p].made
    <3>1. period[p] = "reversed" /\ period'[p] = "reversed"
      BY <1>0, <1>5, <2>3 DEF LedgerInv, PeriodInv
    <3>2. Refunded(refund, p) <= Refunded(refund', p)
      BY <1>0, RefundRow
    <3> QED
      BY <1>0, <1>1, <1>3, <2>1, <3>1, <3>2
  <2>4. CASE ~EndsCoverage(refund', e.id, p) /\ ~reversal[p].made
    <3>1. period'[p] = period[p] /\ period[p] # "reversed"
      BY <1>0, <1>1, <2>4 DEF LedgerInv, PeriodInv
    <3>2. Refunded(refund', p) # Cash(p)
      BY <1>0, <2>1, <2>4, <3>1, RefundRow DEF EndsCoverage
    <3> QED
      BY <3>1, <3>2
  <2> QED
    BY <2>2, <2>3, <2>4
<1> HIDE DEF p
<1>7. \A q \in Purchases : q # p => Refunded(refund', q) = Refunded(refund, q)
  BY RefundRow DEF p
<1> QED
  BY <1>1, <1>4, <1>5, <1>6, <1>7 DEF RefundEndsCoverage, EvidenceInv

(* A refund releases the disputes it pays for, and no other. *)
LEMMA RefundEvidence ==
  ASSUME LedgerInv, LedgerInv', EvidenceInv, [Next]_vars, NEW e \in Events, RefundProgress(e)
  PROVE  EvidenceInv'
<1> DEFINE p == e.ref
           settled == SettledDisputes(refund', dispute, p)
<1>0. /\ p \in Purchases /\ e.id \in Refunds
      /\ UNCHANGED <<dispute, saleVars, collection>> /\ Collected(p)
      /\ block' = Release(block, settled)
  BY EventFields DEF RefundProgress
<1>1. /\ dispute \in [Disputes -> DisputeRows] /\ block \in [Disputes -> {"none", "active", "released"}]
      /\ refund' \in [Refunds -> RefundRows] /\ refund \in [Refunds -> RefundRows]
  BY DEF LedgerInv, TypeOK, EvidenceType
<1>2. \A d \in Disputes : dispute[d].state # "none" => 0 < dispute[d].amount
  BY DEF EvidenceInv, DisputesInv
<1>3. \A q \in Purchases : (period'[q] # "none" <=> period[q] # "none")
  BY <1>0 DEF LedgerInv, PaidInv, CoverageIsPaid, saleVars
<1>4. /\ settled \subseteq Accepted(dispute, p)
      /\ \A d \in settled : Refunded(refund', p) >= dispute[d].amount
  <2>1. Refunded(refund', p) \in Int
    BY <1>1, RefundedIs
  <2>2. /\ Conceded(dispute, p) \in Int
        /\ \A d \in Accepted(dispute, p) : dispute[d].amount <= Conceded(dispute, p)
    BY <1>1, <1>2, ConcededBounds
  <2>3. \A d \in Disputes : dispute[d].amount \in Int
    BY <1>1 DEF DisputeRows
  <2> QED
    BY <2>1, <2>2, <2>3 DEF SettledDisputes, Accepted
<1> HIDE DEF settled
<1>5. ASSUME NEW d \in Disputes
      PROVE  /\ block'[d] # "none" <=> block[d] # "none"
             /\ block'[d] = IF d \in settled /\ block[d] = "active" THEN "released" ELSE block[d]
  BY <1>0 DEF Release
<1>6. RefundsInv'
  <2>1. \A q \in Purchases : Collected(q) =>
          (attempt'[q] = "successful" \/ collection'[q] # NoTx)
    BY CollectedStays DEF Collected
  <2>2. ASSUME NEW r \in Refunds, r # e.id
        PROVE  IF refund'[r].state = "none" THEN refund'[r] = NoRefund
               ELSE /\ refund'[r].ref \in Purchases /\ 0 < refund'[r].amount
                    /\ \/ attempt'[refund'[r].ref] = "successful"
                       \/ collection'[refund'[r].ref] # NoTx
    <3>1. refund'[r] = refund[r]
      BY <2>2, RefundRow
    <3> QED
      BY <2>1, <3>1 DEF EvidenceInv, RefundsInv
  <2>3. /\ refund'[e.id].state # "none" /\ refund'[e.id].ref = p
        /\ 0 < refund'[e.id].amount
    BY RefundRow, AmountPositive DEF RefundStates
  <2> QED
    BY <1>0, <2>1, <2>2, <2>3 DEF RefundsInv, Collected
<1>7. DisputesInv'
  BY <1>0, <1>3, <1>5, CollectedStays DEF EvidenceInv, DisputesInv
<1>8. DisputeHoldsCoverage'
  <2> SUFFICES ASSUME NEW d \in Disputes
               PROVE  /\ dispute[d].state # "none" /\ period'[dispute[d].ref] # "none" =>
                           block'[d] # "none"
                      /\ block'[d] = "released" =>
                           /\ dispute[d].state = "resolved"
                           /\ \/ dispute[d].resolution = "declined"
                              \/ /\ dispute[d].resolution = "merchant-accepted"
                                 /\ Refunded(refund', dispute[d].ref) >= dispute[d].amount
    BY <1>0 DEF DisputeHoldsCoverage
  <2>1. dispute[d].state # "none" /\ period'[dispute[d].ref] # "none" => block'[d] # "none"
    BY <1>0, <1>7 DEF DisputesInv
  <2>2. CASE d \in settled
    BY <1>4, <2>1, <2>2 DEF Accepted
  <2>3. CASE d \notin settled
    <3>1. block'[d] = block[d]
      BY <1>5, <2>3
    <3>2. SUFFICES ASSUME block[d] = "released"
                   PROVE  /\ dispute[d].state = "resolved"
                          /\ \/ dispute[d].resolution = "declined"
                             \/ /\ dispute[d].resolution = "merchant-accepted"
                                /\ Refunded(refund', dispute[d].ref) >= dispute[d].amount
      BY <2>1, <3>1
    <3>3. /\ dispute[d].state = "resolved"
          /\ \/ dispute[d].resolution = "declined"
             \/ /\ dispute[d].resolution = "merchant-accepted"
                /\ Refunded(refund, dispute[d].ref) >= dispute[d].amount
      BY <3>2 DEF EvidenceInv, DisputeHoldsCoverage
    <3>4. dispute[d].ref \in Purchases /\ dispute[d].amount \in Int
      BY <1>1, <3>3 DEF EvidenceInv, DisputesInv, DisputeRows
    <3>5. /\ Refunded(refund, dispute[d].ref) <= Refunded(refund', dispute[d].ref)
          /\ Refunded(refund, dispute[d].ref) \in Int /\ Refunded(refund', dispute[d].ref) \in Int
      BY <1>1, <3>4, RefundRow, RefundedIs
    <3> QED
      BY <3>3, <3>4, <3>5
  <2> QED
    BY <2>2, <2>3
<1>9. PaidBackIsReleased'
  <2> SUFFICES ASSUME NEW q \in Purchases, NEW d \in SettledDisputes(refund', dispute, q)
               PROVE  block'[d] # "active"
    BY <1>0 DEF PaidBackIsReleased
  <2>1. d \in Disputes
    BY DEF SettledDisputes, Accepted
  <2>2. CASE q = p
    BY <1>5, <2>1, <2>2 DEF settled
  <2>3. CASE q # p
    <3>1. Refunded(refund', q) = Refunded(refund, q)
      BY <2>3, RefundRow
    <3>2. d \in SettledDisputes(refund, dispute, q)
      BY <3>1 DEF SettledDisputes
    <3> QED
      BY <1>5, <2>1, <3>2 DEF EvidenceInv, PaidBackIsReleased
  <2> QED
    BY <2>2, <2>3
<1> QED
  BY <1>6, <1>7, <1>8, <1>9, RefundEnds DEF EvidenceInv

(* What a dispute fact does to its row, and to the blocks (PaymentRecovery.dispute). *)
LEMMA DisputeRow ==
  ASSUME LedgerInv, LedgerInv', EvidenceInv, NEW e \in Events, DisputeProgress(e)
  PROVE  /\ \A d \in Disputes : d # e.id => dispute'[d] = dispute[d]
         /\ dispute'[e.id].ref = e.ref /\ dispute'[e.id].state # "none"
         /\ 0 < dispute'[e.id].amount
         /\ dispute[e.id].state = "resolved" => dispute'[e.id] = dispute[e.id]
         /\ dispute[e.id].ref \in {e.ref, NoPurchase}
<1> DEFINE i == e.id
<1>0. i \in Disputes /\ e.state \in DisputeStates
  BY EventFields DEF DisputeProgress
<1>1. dispute \in [Disputes -> DisputeRows] /\ dispute' \in [Disputes -> DisputeRows]
  BY DEF LedgerInv, TypeOK, EvidenceType
<1>2. /\ \A d \in Disputes : d # i => dispute'[d] = dispute[d]
      /\ dispute[i].state # "none" => dispute[i].ref = e.ref
      /\ dispute'[i] = IF Newer(DisputeRank, e.state, dispute[i].state)
                       THEN [state |-> e.state, ref |-> e.ref, amount |-> Amount(e),
                             resolution |-> e.resolution]
                       ELSE dispute[i]
  BY <1>0, <1>1 DEF DisputeProgress
<1>3. dispute[i].state = "none" => Newer(DisputeRank, e.state, dispute[i].state)
  BY <1>0 DEF Newer, DisputeRank, DisputeStates
<1>4. dispute[i].state = "resolved" => ~Newer(DisputeRank, e.state, dispute[i].state)
  BY <1>0 DEF Newer, DisputeRank, DisputeStates
<1> HIDE DEF i
<1>5. dispute[i].state = "none" => dispute[i].ref = NoPurchase
  BY <1>0 DEF EvidenceInv, DisputesInv, NoDispute
<1>6. dispute[i].state # "none" => 0 < dispute[i].amount
  BY <1>0 DEF EvidenceInv, DisputesInv
<1>7. e.state # "none"
  BY <1>0 DEF DisputeStates
<1>8. /\ dispute'[i].ref = e.ref /\ dispute'[i].state # "none" /\ 0 < dispute'[i].amount
  <2>1. CASE Newer(DisputeRank, e.state, dispute[i].state)
    BY <1>2, <1>7, <2>1, AmountPositive
  <2>2. CASE ~Newer(DisputeRank, e.state, dispute[i].state)
    BY <1>2, <1>3, <1>6, <2>2
  <2> QED
    BY <2>1, <2>2
<1> QED
  BY <1>2, <1>4, <1>5, <1>8 DEF i

(* A dispute fact blocks the coverage it disputes, or lets go of what is settled. *)
LEMMA DisputeEvidence ==
  ASSUME LedgerInv, LedgerInv', EvidenceInv, [Next]_vars, NEW e \in Events, DisputeProgress(e)
  PROVE  EvidenceInv'
<1> DEFINE p == e.ref
           i == e.id
           covered == period[p] # "none"
           settled == SettledDisputes(refund, dispute', p)
           declined == dispute'[i].state = "resolved" /\ dispute'[i].resolution = "declined"
           raw(d) == IF d = i /\ covered /\ block[i] = "none" THEN "active" ELSE block[d]
           freed == IF covered THEN settled \cup (IF declined THEN {i} ELSE {}) ELSE {}
<1>0. /\ p \in Purchases /\ i \in Disputes /\ Collected(p) /\ p # NoPurchase
      /\ UNCHANGED <<refund, purchase, applied, period>>
  BY EventFields, TermsAssumption DEF DisputeProgress, saleVars, coverVars
<1>1. /\ dispute \in [Disputes -> DisputeRows] /\ dispute' \in [Disputes -> DisputeRows]
      /\ block \in [Disputes -> {"none", "active", "released"}]
      /\ refund \in [Refunds -> RefundRows]
  BY DEF LedgerInv, TypeOK, EvidenceType
<1>2. /\ \A d \in Disputes : d # i => dispute'[d] = dispute[d]
      /\ dispute'[i].ref = p /\ dispute'[i].state # "none" /\ 0 < dispute'[i].amount
      /\ dispute[i].state = "resolved" => dispute'[i] = dispute[i]
      /\ dispute[i].ref \in {p, NoPurchase}
  BY DisputeRow
<1>3. ASSUME NEW d \in Disputes
      PROVE  block'[d] = IF d \in freed /\ raw(d) = "active" THEN "released" ELSE raw(d)
  <2>1. block' = Release(
          [block EXCEPT ![i] = IF covered /\ @ = "none" THEN "active" ELSE @],
          IF covered THEN (IF covered THEN settled ELSE {}) \cup (IF declined THEN {i} ELSE {})
          ELSE {})
    <3>1. dispute'[i] = IF Newer(DisputeRank, e.state, dispute[i].state)
                        THEN [state |-> e.state, ref |-> p, amount |-> Amount(e),
                              resolution |-> e.resolution]
                        ELSE dispute[i]
      BY <1>0, <1>1 DEF DisputeProgress
    <3> QED
      BY <3>1 DEF DisputeProgress
  <2>2. [block EXCEPT ![i] = IF covered /\ @ = "none" THEN "active" ELSE @][d] = raw(d)
    BY <1>0, <1>1
  <2> HIDE DEF covered, settled, declined, raw
  <2> QED
    BY <2>1, <2>2 DEF Release
<1>4. /\ settled \subseteq Accepted(dispute', p)
      /\ \A d \in settled : Refunded(refund, p) >= dispute'[d].amount
  <2>0. \A d \in Disputes : dispute'[d].state # "none" => 0 < dispute'[d].amount
    BY <1>2 DEF EvidenceInv, DisputesInv
  <2>1. Refunded(refund, p) \in Int
    BY <1>1, RefundedIs
  <2>2. /\ Conceded(dispute', p) \in Int
        /\ \A d \in Accepted(dispute', p) : dispute'[d].amount <= Conceded(dispute', p)
    BY <1>1, <2>0, ConcededBounds
  <2>3. \A d \in Disputes : dispute'[d].amount \in Int
    BY <1>1 DEF DisputeRows
  <2> QED
    BY <2>1, <2>2, <2>3 DEF SettledDisputes, Accepted
<1> HIDE DEF p, i, settled
<1>5. RefundsInv'
  BY <1>0, CollectedStays DEF EvidenceInv, RefundsInv
<1>6. DisputesInv'
  <2>1. \A q \in Purchases : Collected(q) =>
          (attempt'[q] = "successful" \/ collection'[q] # NoTx)
    BY CollectedStays DEF Collected
  <2>2. ASSUME NEW d \in Disputes, d # i
        PROVE  IF dispute'[d].state = "none" THEN dispute'[d] = NoDispute /\ block'[d] = "none"
               ELSE /\ dispute'[d].ref \in Purchases /\ 0 < dispute'[d].amount
                    /\ \/ attempt'[dispute'[d].ref] = "successful"
                       \/ collection'[dispute'[d].ref] # NoTx
                    /\ block'[d] # "none" <=> period'[dispute'[d].ref] # "none"
    <3>1. dispute'[d] = dispute[d] /\ (block'[d] = "none" <=> block[d] = "none")
      BY <1>2, <1>3, <2>2
    <3> QED
      BY <1>0, <2>1, <3>1 DEF EvidenceInv, DisputesInv
  <2>3. block'[i] # "none" <=> period'[p] # "none"
    <3>0. dispute[i].state # "none" => dispute[i].ref = p
      BY <1>0, <1>2, TermsAssumption DEF EvidenceInv, DisputesInv
    <3>1. ~covered => block[i] = "none"
      BY <1>0, <3>0 DEF EvidenceInv, DisputesInv
    <3> QED
      BY <1>0, <1>3, <3>1
  <2>4. attempt'[p] = "successful" \/ collection'[p] # NoTx
    BY <1>0, <2>1
  <2> QED
    BY <1>0, <1>2, <2>2, <2>3, <2>4 DEF DisputesInv, Collected
<1>7. \A q : Refunded(refund, q)' = Refunded(refund, q)
  BY <1>0, RefundedStays
<1>8. RefundEndsCoverage'
  BY <1>0, <1>7 DEF EvidenceInv, RefundEndsCoverage, Cash
<1>9. DisputeHoldsCoverage'
  <2> SUFFICES ASSUME NEW d \in Disputes
               PROVE  /\ dispute'[d].state # "none" /\ period'[dispute'[d].ref] # "none" =>
                           block'[d] # "none"
                      /\ block'[d] = "released" =>
                           /\ dispute'[d].state = "resolved"
                           /\ \/ dispute'[d].resolution = "declined"
                              \/ /\ dispute'[d].resolution = "merchant-accepted"
                                 /\ Refunded(refund, dispute'[d].ref) >= dispute'[d].amount
    BY <1>0, <1>7 DEF DisputeHoldsCoverage
  <2>1. dispute'[d].state # "none" /\ period'[dispute'[d].ref] # "none" => block'[d] # "none"
    BY <1>6 DEF DisputesInv
  <2>2. CASE d \in settled
    BY <1>4, <2>1, <2>2 DEF Accepted
  <2>3. CASE d \notin settled /\ d = i /\ declined
    BY <2>1, <2>3
  <2>4. CASE d \notin settled /\ ~(d = i /\ declined)
    <3>1. block'[d] = "released" => block[d] = "released"
      BY <1>3, <2>4
    <3>2. ASSUME block[d] = "released"
          PROVE  /\ dispute[d] = dispute'[d] /\ dispute[d].state = "resolved"
                 /\ \/ dispute[d].resolution = "declined"
                    \/ /\ dispute[d].resolution = "merchant-accepted"
                       /\ Refunded(refund, dispute[d].ref) >= dispute[d].amount
      BY <1>2, <3>2 DEF EvidenceInv, DisputeHoldsCoverage
    <3> QED
      BY <2>1, <3>1, <3>2
  <2> QED
    BY <2>2, <2>3, <2>4
<1>10. PaidBackIsReleased'
  <2> SUFFICES ASSUME NEW q \in Purchases, NEW d \in SettledDisputes(refund, dispute', q)
               PROVE  block'[d] # "active"
    BY <1>0 DEF PaidBackIsReleased
  <2>1. d \in Accepted(dispute', q) /\ d \in Disputes
    BY DEF SettledDisputes, Accepted
  <2>2. CASE q = p /\ covered
    BY <1>3, <2>1, <2>2 DEF settled
  <2>3. CASE q = p /\ ~covered
    BY <1>0, <1>6, <2>1, <2>3 DEF DisputesInv, Accepted
  <2>4. CASE q # p
    <3>1. d # i /\ q # NoPurchase
      BY <1>2, <2>1, <2>4, TermsAssumption DEF Accepted
    <3>2. /\ Accepted(dispute', q) = Accepted(dispute, q)
          /\ \A x \in Accepted(dispute, q) : dispute'[x].amount = dispute[x].amount
      BY <1>2, <2>4, <3>1 DEF Accepted
    <3>3. Conceded(dispute', q) = Conceded(dispute, q)
      BY <1>1, <3>2, ConcededSame
    <3>4. d \in SettledDisputes(refund, dispute, q)
      BY <3>2, <3>3 DEF SettledDisputes
    <3>5. block[d] # "active"
      BY <3>4 DEF EvidenceInv, PaidBackIsReleased
    <3> QED
      BY <1>3, <2>1, <3>1, <3>5
  <2> QED
    BY <2>2, <2>3, <2>4
<1> QED
  BY <1>5, <1>6, <1>8, <1>9, <1>10 DEF EvidenceInv

(* Every step keeps the evidence in order. *)
LEMMA EvidenceStep ==
  ASSUME LedgerInv, LedgerInv', EvidenceInv, [Next]_vars
  PROVE  EvidenceInv'
<1>1. ASSUME UNCHANGED <<refund, dispute, block, applied, period>>,
             \A p \in Purchases : purchase'[p] = "fulfilled" => purchase[p] = "fulfilled"
      PROVE  EvidenceInv'
  BY <1>1, EvidenceInvFrame
<1>2. ASSUME NEW p \in Purchases, NEW useCredit \in BOOLEAN, Checkout(p, useCredit)
      PROVE  EvidenceInv'
  <2>1. /\ purchase' = [ExpiredPurchase EXCEPT ![p] = "awaiting_payment"]
        /\ purchase[p] = "absent" /\ UNCHANGED <<refund, dispute, block>>
        /\ Close(Ended)
    BY <1>2 DEF Checkout, CheckoutAllowed, evidenceVars
  <2>2. \A q \in Purchases : q # p => applied'[q] = applied[q]
    BY <1>2 DEF Checkout, LedgerInv, TypeOK, SaleType
  <2>3. \A q \in Purchases :
          /\ purchase'[q] = "fulfilled" => purchase[q] = "fulfilled"
          /\ period'[q] = "reversed" <=> period[q] = "reversed"
    BY <2>1 DEF ExpiredPurchase, Close, Ended, Open, LedgerInv, TypeOK, SaleType
  <2> QED
    BY <2>1, <2>2, <2>3, EvidenceInvFrame
<1>3. CASE ExpireOffers
  BY <1>1, <1>3 DEF ExpireOffers, ExpiredPurchase, coverVars, evidenceVars
<1>4. ASSUME NEW p \in Purchases, ClosePeriod(p) PROVE EvidenceInv'
  BY <1>4, EvidenceInvFrame DEF ClosePeriod, Close, Ended, Open, saleVars, evidenceVars
<1>5. ASSUME NEW p \in Purchases, WithdrawRenewal(p) \/ GiveUpRenewal(p) PROVE EvidenceInv'
  BY <1>1, <1>5
  DEF WithdrawRenewal, GiveUpRenewal, Drop, coverVars, evidenceVars, LedgerInv, TypeOK, SaleType
<1>6. ASSUME NEW e \in Events, Settle(e) PROVE EvidenceInv'
  <2>1. CASE RefuseLate(e) \/ SettleFailure(e)
    <3>1. UNCHANGED <<refund, dispute, block, applied, period>>
      BY <2>1 DEF RefuseLate, SettleFailure, coverVars, evidenceVars
    <3>2. \/ purchase' = [purchase EXCEPT ![e.ref] = "failed"]
          \/ purchase' = [purchase EXCEPT ![e.ref] = IF @ = "awaiting_payment" THEN "failed" ELSE @]
      BY <2>1 DEF RefuseLate, SettleFailure
    <3>3. DOMAIN purchase = Purchases
      BY DEF LedgerInv, TypeOK, SaleType
    <3>4. \A p \in Purchases : purchase'[p] = "fulfilled" => purchase[p] = "fulfilled"
      BY <3>2, <3>3
    <3> QED
      BY <1>1, <3>1, <3>4
  <2>2. CASE LateSuccess(e) \/ AccountUnavailable(e) \/ ProviderConflict(e)
    BY <1>1, <2>2 DEF LateSuccess, AccountUnavailable, ProviderConflict, saleVars, coverVars
  <2> QED
    BY <1>6, <2>1, <2>2, FulfilEvidence, RefundEvidence, DisputeEvidence DEF Settle
<1>7. ASSUME NEW p \in Purchases, Use(p) PROVE EvidenceInv'
  BY <1>1, <1>7
  DEF Use, Reserve, ReleaseSeat, ChargeRide, PlanPause, ResumePause, saleVars, evidenceVars
<1>8. CASE UNCHANGED <<purchase, applied, refund, dispute, block, period>>
  BY <1>1, <1>8
<1> QED
  BY <1>2, <1>3, <1>4, <1>5, <1>6, <1>7, <1>8
  DEF Next, vars, Tick, SettleDuePauses, EraseAccount, Decide, saleVars, coverVars, evidenceVars

(* For every rider and every order of provider facts: coverage ends exactly when all the
   cash went back, a dispute stops the days it is about until a verdict lets go of them,
   and no conceded dispute still blocks once it is paid back (PaymentRecovery.refund,
   PaymentRecovery.dispute, releaseAccepted). *)
THEOREM EvidenceIsSound ==
  Spec => [](RefundEndsCoverage /\ DisputeHoldsCoverage /\ PaidBackIsReleased)
<1>1. LedgerInv /\ LedgerInv' /\ EvidenceInv /\ [Next]_vars => EvidenceInv'
  BY EvidenceStep
<1>2. EvidenceInv => RefundEndsCoverage /\ DisputeHoldsCoverage /\ PaidBackIsReleased
  BY DEF EvidenceInv
<1> QED
  BY <1>1, <1>2, EvidenceInit, LedgerHolds, PTL DEF Spec

(* Refunds end coverage, however many they are and in whatever order they arrive. *)
THEOREM RefundsEndCoverage == Spec => []RefundEndsCoverage
BY EvidenceIsSound, PTL

(* Disputes stop coverage until a verdict. *)
THEOREM DisputesHoldCoverage == Spec => []DisputeHoldsCoverage
BY EvidenceIsSound, PTL

(* A conceded dispute that is paid back no longer blocks. *)
THEOREM PaidBackDisputesRelease == Spec => []PaidBackIsReleased
BY EvidenceIsSound, PTL

-----------------------------------------------------------------------------
(* Ride Credit *)

(* The balance, as a sum that the lemmas of FiniteSums can follow. *)
CreditInv == credit = SumOver(Shares, Purchases)

(* Shares are whole amounts. *)
LEMMA ShareTyped == ASSUME TypeOK, NEW p \in Purchases PROVE Shares[p] = Share(p) /\ Share(p) \in Int
<1>1. /\ closure[p] \in ClosureRows /\ reversal[p] \in ReversalRows /\ applied[p] \in Int
  BY DEF TypeOK, SaleType, CoverType
<1> QED
  BY <1>1 DEF Shares, Share, ClosureRows, ReversalRows

(* No purchase, no balance. *)
LEMMA CreditInit == Init => CreditInv
<1> SUFFICES ASSUME Init PROVE CreditInv
  OBVIOUS
<1>1. \A p \in Purchases : Shares[p] = 0
  BY DEF Init, Shares, Share, NoClosure, NoReversal
<1>2. credit = 0 /\ IsFiniteSet(Purchases)
  BY RowsAssumption DEF Init
<1> QED
  BY <1>1, <1>2, SumZero DEF CreditInv

(* A step that adds its part of the credit to every share in T. *)
LEMMA CreditMoves ==
  ASSUME TypeOK, TypeOK', CreditInv, NEW T \in SUBSET Purchases, NEW e,
         credit' = credit + SumOver(e, T),
         \A p \in Purchases :
           e[p] \in Int /\ Share(p)' = Share(p) + (IF p \in T THEN e[p] ELSE 0)
  PROVE  CreditInv'
<1>1. IsFiniteSet(Purchases)
  BY RowsAssumption
<1>2. \A p \in Purchases :
        /\ Shares[p] = Share(p) /\ Shares[p] \in Int
        /\ Shares'[p] = Share(p)'
  BY ShareTyped DEF Shares
<1>3. SumOver(Shares', Purchases) = SumOver(Shares, Purchases) + SumOver(e, T)
  BY <1>1, <1>2, SumChanges
<1> QED
  BY <1>3 DEF CreditInv

(* A step that changes one share only. *)
LEMMA CreditMovesOnce ==
  ASSUME TypeOK, TypeOK', CreditInv, NEW p \in Purchases,
         credit' = credit + Share(p)' - Share(p),
         \A q \in Purchases \ {p} : Share(q)' = Share(q)
  PROVE  CreditInv'
<1>1. IsFiniteSet(Purchases)
  BY RowsAssumption
<1>2. \A q \in Purchases : Shares[q] = Share(q) /\ Shares[q] \in Int /\ Shares'[q] = Share(q)'
  BY ShareTyped DEF Shares
<1>3. Share(p)' \in Int
  <2>1. closure'[p] \in ClosureRows /\ reversal'[p] \in ReversalRows /\ applied'[p] \in Int
    BY DEF TypeOK, SaleType, CoverType
  <2> QED
    BY <2>1 DEF Share, ClosureRows, ReversalRows
<1>4. SumOver(Shares', Purchases) = SumOver(Shares, Purchases) - Shares[p] + Shares'[p]
  BY <1>1, <1>2, <1>3, SumUpdate
<1>5. credit \in Int
  BY DEF TypeOK
<1> QED
  BY <1>2, <1>3, <1>4, <1>5 DEF CreditInv

(* A step that moves no money. *)
LEMMA CreditStays ==
  ASSUME TypeOK, TypeOK', CreditInv, UNCHANGED credit,
         \A p \in Purchases : Share(p)' = Share(p)
  PROVE  CreditInv'
<1>1. IsFiniteSet(Purchases)
  BY RowsAssumption
<1>2. \A p \in Purchases : Shares'[p] = Shares[p] /\ Shares[p] \in Int
  BY ShareTyped DEF Shares
<1>3. SumOver(Shares', Purchases) = SumOver(Shares, Purchases)
  BY <1>1, <1>2, SumSame
<1> QED
  BY <1>3 DEF CreditInv

(* The rows a share reads: a released or refused hold was never spent. *)
LEMMA ShareSame ==
  ASSUME TypeOK, NEW p \in Purchases,
         closure'[p] = closure[p], reversal'[p] = reversal[p],
         hold'[p] = "captured" <=> hold[p] = "captured",
         hold[p] = "captured" \/ reversal[p].made => applied'[p] = applied[p]
  PROVE  Share(p)' = Share(p)
BY DEF Share

(* Checkout converts the periods that ended, and only holds its contribution. *)
LEMMA CheckoutCredit ==
  ASSUME LedgerInv, LedgerInv', CreditInv, NEW p \in Purchases, NEW useCredit \in BOOLEAN,
         Checkout(p, useCredit)
  PROVE  CreditInv'
<1> DEFINE T == Ended
           e == [q \in Purchases |-> IF q \in T THEN Conversion(q) ELSE 0]
<1>1. /\ TypeOK /\ TypeOK' /\ T \in SUBSET Purchases /\ IsFiniteSet(T)
      /\ \A q \in T : period[q] = "open" /\ closure[q] = NoClosure
  BY RowsAssumption, FS_Subset DEF LedgerInv, PeriodInv, Ended, Open
<1>2. /\ credit' = credit + Earned(T) /\ UNCHANGED reversal
      /\ closure' = [q \in Purchases |->
           IF q \in T THEN [rides |-> RideBalance(q), credit |-> Conversion(q)] ELSE closure[q]]
  BY DEF Checkout, Close
<1>3. \A q \in Purchases : q # p => applied'[q] = applied[q]
  BY <1>1 DEF Checkout, TypeOK, SaleType
<1>4. \A q \in Purchases : hold'[q] = "captured" <=> hold[q] = "captured"
  <2>1. purchase[p] = "absent" /\ hold[p] = "none"
    BY DEF Checkout, CheckoutAllowed, LedgerInv, SaleInv
  <2>2. \A q \in Purchases : ExpiredHold[q] = "captured" <=> hold[q] = "captured"
    BY DEF ExpiredHold
  <2>3. \E v \in {"held", "none"} : hold' = [ExpiredHold EXCEPT ![p] = v]
    BY DEF Checkout
  <2>4. DOMAIN ExpiredHold = Purchases
    BY DEF ExpiredHold
  <2> HIDE DEF ExpiredHold
  <2> QED
    BY <2>1, <2>2, <2>3, <2>4
<1>5. hold[p] # "captured" /\ ~reversal[p].made
  <2>1. purchase[p] = "absent" /\ hold[p] = "none"
    BY DEF Checkout, CheckoutAllowed, LedgerInv, SaleInv
  <2>2. period[p] = "none"
    BY <2>1 DEF LedgerInv, PaidInv, CoverageIsPaid
  <2> QED
    BY <2>1, <2>2 DEF LedgerInv, PeriodInv
<1>6. \A q \in T : Conversion(q) \in Int
  BY DEF Checkout, CheckoutAllowed, Closable
<1> HIDE DEF T
<1>7. ASSUME NEW q \in Purchases
      PROVE  Share(q)' = Share(q) + (IF q \in T THEN e[q] ELSE 0)
  <2>1. /\ reversal[q] \in ReversalRows /\ applied[q] \in Int /\ closure[q] \in ClosureRows
    BY <1>1 DEF TypeOK, SaleType, CoverType
  <2>2. CASE q \in T
    <3>1. closure'[q].credit = Conversion(q) /\ closure[q].credit = 0 /\ e[q] = Conversion(q)
      BY <1>1, <1>2, <2>2 DEF NoClosure
    <3>2. q # p \/ (hold[q] # "captured" /\ ~reversal[q].made)
      BY <1>5
    <3> QED
      BY <1>2, <1>3, <1>4, <1>6, <2>1, <2>2, <3>1, <3>2 DEF Share, ReversalRows
  <2>3. CASE q \notin T
    <3>1. closure'[q] = closure[q]
      BY <1>2, <2>3
    <3>2. Share(q)' = Share(q)
      BY <1>1, <1>2, <1>3, <1>4, <1>5, <3>1, ShareSame
    <3> QED
      BY <1>1, <2>3, <3>2, ShareTyped
  <2> QED
    BY <2>2, <2>3
<1>8. \A q \in T : e[q] = Conversion(q)
  BY <1>1
<1> HIDE DEF e
<1>9. Earned(T) = SumOver(e, T)
  BY <1>1, <1>8, ConversionsAdd
<1>10. \A q \in Purchases : e[q] \in Int
  BY <1>6 DEF e
<1> QED
  BY <1>1, <1>2, <1>7, <1>9, <1>10, CreditMoves

(* Closing a period grants what its rides convert to (closeOne). *)
LEMMA CloseCredit ==
  ASSUME LedgerInv, LedgerInv', CreditInv, NEW p \in Purchases, ClosePeriod(p)
  PROVE  CreditInv'
<1>1. /\ TypeOK /\ TypeOK' /\ UNCHANGED <<reversal, hold, applied>>
      /\ credit' = credit + Conversion(p) /\ closure[p] = NoClosure
      /\ closure' = [q \in Purchases |->
           IF q \in {p} THEN [rides |-> RideBalance(q), credit |-> Conversion(q)] ELSE closure[q]]
  BY DEF ClosePeriod, Close, saleVars, LedgerInv, PeriodInv, Ended, Open
<1>2. Conversion(p) \in Int
  BY DEF ClosePeriod, Closable
<1>3. reversal[p] \in ReversalRows /\ applied[p] \in Int /\ credit \in Int
  BY <1>1 DEF TypeOK, SaleType, CoverType
<1>4. closure'[p].credit = Conversion(p) /\ closure[p].credit = 0
  BY <1>1 DEF NoClosure
<1>5. Share(p)' = Share(p) + Conversion(p) /\ Share(p) \in Int
  BY <1>1, <1>2, <1>3, <1>4, ShareTyped DEF Share, ReversalRows
<1>6. \A q \in Purchases \ {p} : Share(q)' = Share(q)
  BY <1>1 DEF Share
<1>7. credit' = credit + Share(p)' - Share(p)
  BY <1>1, <1>2, <1>3, <1>5
<1> QED
  BY <1>1, <1>6, <1>7, CreditMovesOnce

(* A fulfilled purchase spends what it held (capture of the hold). *)
LEMMA FulfilCredit ==
  ASSUME LedgerInv, LedgerInv', CreditInv, NEW e \in Events, FulfilPurchase(e)
  PROVE  CreditInv'
<1> DEFINE p == e.ref
<1>1. /\ p \in Purchases /\ TypeOK /\ TypeOK' /\ UNCHANGED <<applied, closure, reversal>>
      /\ hold' = [hold EXCEPT ![p] = IF applied[p] > 0 THEN "captured" ELSE @]
      /\ credit' = credit - applied[p] /\ 0 <= applied[p] /\ purchase[p] # "fulfilled"
  BY EventFields DEF FulfilPurchase, Waiting, LedgerInv, MoneyInv
<1>2. /\ reversal[p] \in ReversalRows /\ closure[p] \in ClosureRows
      /\ applied[p] \in Int /\ credit \in Int /\ DOMAIN hold = Purchases
  BY <1>1 DEF TypeOK, SaleType, CoverType
<1>3. hold[p] # "captured"
  BY <1>1 DEF LedgerInv, MoneyInv, HoldFollowsPurchase
<1>4. ~reversal[p].made
  BY <1>1 DEF LedgerInv, PeriodInv, PaidInv, CoverageIsPaid
<1>5. Share(p)' = Share(p) - applied[p]
  <2>1. CASE applied[p] > 0
    BY <1>1, <1>2, <1>3, <1>4, <2>1 DEF Share, ReversalRows, ClosureRows
  <2>2. CASE applied[p] = 0
    BY <1>1, <1>2, <1>3, <1>4, <2>2 DEF Share, ReversalRows, ClosureRows
  <2> QED
    BY <1>1, <1>2, <2>1, <2>2
<1>6. \A q \in Purchases \ {p} : Share(q)' = Share(q)
  BY <1>1, <1>2 DEF Share
<1>7. credit' = credit + Share(p)' - Share(p)
  BY <1>1, <1>2, <1>5, ShareTyped
<1> HIDE DEF p
<1> QED
  BY <1>1, <1>6, <1>7, CreditMovesOnce

(* A reversal gives the contribution back and takes the conversion it can (reverse). *)
LEMMA RefundCredit ==
  ASSUME LedgerInv, LedgerInv', CreditInv, NEW e \in Events, RefundProgress(e)
  PROVE  CreditInv'
<1> DEFINE p == e.ref
<1>1. /\ p \in Purchases /\ TypeOK /\ TypeOK' /\ UNCHANGED <<applied, closure, hold>>
  BY EventFields DEF RefundProgress, saleVars, LedgerInv
<1>2. CASE UNCHANGED <<reversal, credit>>
  <2>1. \A q \in Purchases : Share(q)' = Share(q)
    BY <1>1, <1>2 DEF Share
  <2> QED
    BY <1>1, <1>2, <2>1, CreditStays
<1>3. CASE Reverse(p) /\ ~reversal[p].made
  <2> DEFINE recovered == Recoverable(p)
  <2>1. credit' = credit - recovered + applied[p]
    BY <1>3 DEF Reverse
  <2>2. /\ reversal \in [Purchases -> ReversalRows] /\ closure[p] \in ClosureRows
        /\ applied[p] \in Int /\ credit \in Int /\ reversal'[p] \in ReversalRows
    BY <1>1 DEF TypeOK, SaleType, CoverType
  <2>3. /\ reversal'[p].made /\ reversal'[p].recovered = recovered
        /\ \A q \in Purchases \ {p} : reversal'[q] = reversal[q]
    BY <1>1, <1>3, <2>2 DEF Reverse
  <2>4. recovered \in Int
    BY <2>2, <2>3 DEF ReversalRows
  <2> HIDE DEF recovered
  <2>5. Share(p)' = Share(p) + applied[p] - recovered /\ Share(p) \in Int
    BY <1>1, <1>3, <2>2, <2>3, <2>4, ShareTyped DEF Share, ClosureRows
  <2>6. \A q \in Purchases \ {p} : Share(q)' = Share(q)
    BY <1>1, <2>3 DEF Share
  <2>7. credit' = credit + Share(p)' - Share(p)
    BY <2>1, <2>2, <2>4, <2>5
  <2> HIDE DEF p
  <2> QED
    BY <1>1, <2>6, <2>7, CreditMovesOnce
<1> QED
  BY <1>2, <1>3 DEF RefundProgress

(* Every step keeps the balance the sum of its sources. *)
LEMMA CreditStep ==
  ASSUME LedgerInv, LedgerInv', CreditInv, [Next]_vars
  PROVE  CreditInv'
<1>0. TypeOK /\ TypeOK'
  BY DEF LedgerInv
<1>1. ASSUME UNCHANGED <<credit, closure, reversal, applied>>,
             \A p \in Purchases : hold'[p] = "captured" <=> hold[p] = "captured"
      PROVE  CreditInv'
  <2>1. \A p \in Purchases : Share(p)' = Share(p)
    BY <1>1 DEF Share
  <2> QED
    BY <1>0, <1>1, <2>1, CreditStays
<1>2. ASSUME NEW p \in Purchases, NEW useCredit \in BOOLEAN, Checkout(p, useCredit)
      PROVE  CreditInv'
  BY <1>2, CheckoutCredit
<1>3. CASE ExpireOffers
  BY <1>1, <1>3 DEF ExpireOffers, ExpiredHold, coverVars
<1>4. ASSUME NEW p \in Purchases, ClosePeriod(p) PROVE CreditInv'
  BY <1>4, CloseCredit
<1>5. ASSUME NEW p \in Purchases, WithdrawRenewal(p) \/ GiveUpRenewal(p) PROVE CreditInv'
  <2>1. /\ UNCHANGED <<credit, closure, reversal, applied>>
        /\ hold' = [hold EXCEPT ![p] = IF @ = "held" THEN "released" ELSE @]
    BY <1>5 DEF WithdrawRenewal, GiveUpRenewal, Drop, coverVars
  <2>2. DOMAIN hold = Purchases
    BY <1>0 DEF TypeOK, SaleType
  <2> QED
    BY <1>1, <2>1, <2>2
<1>6. ASSUME NEW e \in Events, Settle(e) PROVE CreditInv'
  <2>1. CASE RefuseLate(e) \/ SettleFailure(e)
    <3>1. /\ UNCHANGED <<credit, closure, reversal, applied>>
          /\ hold' = [hold EXCEPT ![e.ref] = IF @ = "held" THEN "released" ELSE @]
      BY <2>1 DEF RefuseLate, SettleFailure, coverVars
    <3>2. DOMAIN hold = Purchases
      BY <1>0 DEF TypeOK, SaleType
    <3> QED
      BY <1>1, <3>1, <3>2
  <2>2. CASE LateSuccess(e) \/ AccountUnavailable(e) \/ ProviderConflict(e) \/ DisputeProgress(e)
    <3>1. UNCHANGED <<credit, closure, reversal, applied, hold>>
      BY <2>2
      DEF LateSuccess, AccountUnavailable, ProviderConflict, DisputeProgress, saleVars, coverVars
    <3> QED
      BY <1>1, <3>1
  <2> QED
    BY <1>6, <2>1, <2>2, FulfilCredit, RefundCredit DEF Settle
<1>7. ASSUME NEW p \in Purchases, Use(p) PROVE CreditInv'
  BY <1>1, <1>7
  DEF Use, Reserve, ReleaseSeat, ChargeRide, PlanPause, ResumePause, saleVars
<1>8. CASE UNCHANGED <<credit, closure, reversal, applied, hold>>
  BY <1>1, <1>8
<1> QED
  BY <1>2, <1>3, <1>4, <1>5, <1>6, <1>7, <1>8
  DEF Next, vars, Tick, SettleDuePauses, EraseAccount, Decide, saleVars, coverVars

(* For every rider and every history: Ride Credit is what conversions granted, less what
   purchases spent, plus what reversals gave back and less what they took
   (the credit_entries of foundation.ts and recovery.ts). *)
THEOREM CreditIsAccounted == Spec => []CreditAddsUp
<1>1. LedgerInv /\ LedgerInv' /\ CreditInv /\ [Next]_vars => CreditInv'
  BY CreditStep
<1>2. CreditInv => CreditAddsUp
  BY SharesAdd DEF CreditInv
<1> QED
  BY <1>1, <1>2, CreditInit, LedgerHolds, PTL DEF Spec

-----------------------------------------------------------------------------
(* The inbox *)

(* What a worker does to the ledger is a transaction of the ledger, and nothing else
   reaches it: the inbox orders the transactions and loses or repeats evidence. *)
THEOREM InboxUsesLedger == InboxSpec => Spec
<1>1. InboxInit => Init
  BY DEF InboxInit
<1>2. [InboxNext]_allVars => [Next]_vars
  <2> SUFFICES ASSUME [InboxNext]_allVars PROVE [Next]_vars
    OBVIOUS
  <2>1. ASSUME NEW e \in Events, Process(e) PROVE [Next]_vars
    <3>1. Settle(e) \/ UNCHANGED vars
      BY <2>1 DEF Process, Applies, Escalates, Settle
    <3> QED
      BY <3>1 DEF Next
  <2>2. CASE Elsewhere
    BY <2>2 DEF Elsewhere, Next
  <2>3. CASE Crash
    BY <2>3 DEF Crash
  <2>4. ASSUME NEW p \in Purchases, Pay(p) PROVE [Next]_vars
    BY <2>4 DEF Pay
  <2>5. ASSUME NEW e \in Events, AcceptWebhook(e) \/ Verify(e) \/ StoreAnswer(e)
        PROVE  [Next]_vars
    BY <2>5 DEF AcceptWebhook, Verify, StoreAnswer
  <2>6. ASSUME NEW w \in Workers, RecordFailure(w) PROVE [Next]_vars
    BY <2>6 DEF RecordFailure
  <2>7. ASSUME NEW w \in Workers, NEW e \in Events, RollBack(w, e) \/ DatabaseError(w, e)
        PROVE  [Next]_vars
    BY <2>7 DEF RollBack, DatabaseError
  <2>8. CASE UNCHANGED allVars
    BY <2>8 DEF allVars
  <2> QED
    BY <2>1, <2>2, <2>3, <2>4, <2>5, <2>6, <2>7, <2>8 DEF InboxNext
<1> QED
  BY <1>1, <1>2, PTL DEF InboxSpec, Spec

(* InboxSafe needs three facts more: a row that may be tried has a try left; a successful attempt was
   fulfilled or refused by name, so that the success that is acknowledged in silence is
   the one that was fulfilled; and an acknowledged failure is the verdict of an attempt
   that there was. *)
Verdicts ==
  \A p \in Purchases :
    attempt[p] = "successful" =>
      \/ purchase[p] = "fulfilled"
      \/ failure[p] \in {"offer_expired", "offer_coverage_conflict"}
TriesLeft ==
  \A e \in Events : inbox[e] \in {"absent", "ready"} => attempts[e] < MaxAttempts
Applied(e) ==
  CASE e.kind = "success" -> purchase[e.ref] = "fulfilled" /\ attemptTx[e.ref] = e.tx
    [] e.kind = "failure" -> attempt[e.ref] \in {"successful", "failed"}
    [] e.kind = "unresolved" -> TRUE
    [] e.kind = "refund" -> RefundRank[refund[e.id].state] >= RefundRank[e.state]
    [] e.kind = "dispute" -> DisputeRank[dispute[e.id].state] >= DisputeRank[e.state]
InboxInv ==
  /\ InboxTypeOK /\ TriesLeft /\ Verdicts
  /\ \A e \in Events : inbox[e] = "processed" => Applied(e)

(* What an attempt came to is written with its verdict, and what failed a purchase is not
   written again (RefuseLate, SettleFailure). *)
LEMMA VerdictsStep ==
  ASSUME LedgerInv, Verdicts, [Next]_vars
  PROVE  Verdicts'
<1> SUFFICES ASSUME NEW p \in Purchases, attempt'[p] = "successful"
             PROVE  \/ purchase'[p] = "fulfilled"
                    \/ failure'[p] \in {"offer_expired", "offer_coverage_conflict"}
  BY DEF Verdicts
<1>t. /\ purchase \in [Purchases -> {"absent", "awaiting_payment", "fulfilled", "failed", "cancelled"}]
      /\ attempt \in [Purchases -> {"none", "pending", "successful", "failed"}]
      /\ DOMAIN failure = Purchases
  BY DEF LedgerInv, TypeOK, SaleType
<1>1. SaleOneWay(p)
  BY SaleOneWayStep
<1>2. CASE attempt[p] = "successful" /\ failure'[p] = failure[p]
  BY <1>1, <1>2 DEF Verdicts, SaleOneWay
<1>3. CASE UNCHANGED <<attempt, failure>>
  BY <1>2, <1>3
<1>4. attempt[p] = "successful" => p \notin Unresolved
  BY DEF LedgerInv, SaleInv, Unresolved
<1>5. ASSUME failure' = ExpiredFailure, attempt[p] = "successful" PROVE failure'[p] = failure[p]
  BY <1>4, <1>5 DEF ExpiredFailure, Lapsed
<1>6. ASSUME NEW q \in Purchases, NEW useCredit \in BOOLEAN, Checkout(q, useCredit)
      PROVE  attempt[p] = "successful" /\ failure'[p] = failure[p]
  <2>1. attempt' = [attempt EXCEPT ![q] = "pending"] /\ failure' = ExpiredFailure
    BY <1>6 DEF Checkout
  <2> QED
    BY <1>t, <1>5, <2>1
<1>7. CASE ExpireOffers
  BY <1>2, <1>5, <1>7 DEF ExpireOffers
<1>8. ASSUME NEW q \in Purchases, WithdrawRenewal(q) \/ GiveUpRenewal(q)
      PROVE  attempt[p] = "successful" /\ failure'[p] = failure[p]
  <2>1. /\ attempt[q] = "pending" /\ failure' = [failure EXCEPT ![q] = failure'[q]]
        /\ attempt' = [attempt EXCEPT ![q] = "failed"] \/ attempt' = attempt
    BY <1>t, <1>8 DEF WithdrawRenewal, GiveUpRenewal, Drop, Waiting
  <2> QED
    BY <1>t, <2>1
<1>9. ASSUME NEW e \in Events, Settle(e)
      PROVE  \/ purchase'[p] = "fulfilled"
             \/ failure'[p] \in {"offer_expired", "offer_coverage_conflict"}
  <2>0. e.ref \in Purchases
    BY EventFields
  <2>1. CASE FulfilPurchase(e)
    <3>1. /\ purchase' = [purchase EXCEPT ![e.ref] = "fulfilled"] /\ failure' = failure
          /\ attempt' = [attempt EXCEPT ![e.ref] = "successful"]
      BY <2>1 DEF FulfilPurchase
    <3> QED
      BY <1>t, <1>2, <2>0, <3>1
  <2>2. CASE RefuseLate(e)
    <3>1. /\ attempt' = [attempt EXCEPT ![e.ref] = "successful"]
          /\ \/ failure' = [failure EXCEPT ![e.ref] = "offer_coverage_conflict"]
             \/ failure' = [failure EXCEPT ![e.ref] = "offer_expired"]
      BY <2>2 DEF RefuseLate
    <3> QED
      BY <1>t, <1>2, <2>0, <3>1
  <2>3. CASE SettleFailure(e)
    <3>1. /\ attempt' = [attempt EXCEPT ![e.ref] = "failed"]
          /\ \A q \in Purchases : q # e.ref => failure'[q] = failure[q]
      BY <1>t, <2>3 DEF SettleFailure
    <3> QED
      BY <1>t, <1>2, <2>0, <3>1
  <2> QED
    BY <1>3, <1>9, <2>1, <2>2, <2>3
    DEF Settle, LateSuccess, AccountUnavailable, ProviderConflict, RefundProgress,
        DisputeProgress, saleVars
<1>10. ASSUME NEW q \in Purchases, Use(q) PROVE UNCHANGED <<attempt, failure>>
  BY <1>10 DEF Use, Reserve, ReleaseSeat, ChargeRide, PlanPause, ResumePause, saleVars
<1> QED
  BY <1>2, <1>3, <1>6, <1>7, <1>8, <1>9, <1>10
  DEF Next, vars, Tick, ClosePeriod, SettleDuePauses, EraseAccount, Decide, saleVars

(* What is applied stays applied: facts of a higher rank are not written over, and final
   states of sales are final. *)
LEMMA AppliedStays ==
  ASSUME LedgerInv, LedgerInv', [Next]_vars, NEW e \in Events, Applied(e)
  PROVE  Applied(e)'
<1>1. e.ref \in Purchases /\ SaleOneWay(e.ref)
  BY EventFields, SaleOneWayStep
<1>2. Progress
  BY ProgressStep DEF LedgerInv
<1>3. CASE e.kind = "success"
  <2>1. purchase[e.ref] = "fulfilled" /\ attemptTx[e.ref] = e.tx
    BY <1>3 DEF Applied
  <2>2. attempt[e.ref] = "successful"
    BY <1>1, <2>1 DEF LedgerInv, PaidInv, CoverageIsPaid
  <2>3. purchase'[e.ref] = "fulfilled" /\ attemptTx'[e.ref] = e.tx
    BY <1>1, <2>1, <2>2 DEF SaleOneWay
  <2> QED
    BY <1>3, <2>3 DEF Applied
<1>4. CASE e.kind = "failure"
  <2>1. attempt[e.ref] \in {"successful", "failed"}
    BY <1>4 DEF Applied
  <2>2. attempt'[e.ref] \in {"successful", "failed"}
    BY <1>1, <2>1 DEF SaleOneWay
  <2> QED
    BY <1>4, <2>2 DEF Applied
<1>5. CASE e.kind = "unresolved"
  BY <1>5 DEF Applied
<1>6. CASE e.kind = "refund"
  <2>1. /\ e.id \in Refunds /\ e.state \in RefundStates
        /\ refund[e.id].state \in RefundStates \cup {"none"}
        /\ refund'[e.id].state \in RefundStates \cup {"none"}
    BY <1>6, EventFields DEF LedgerInv, TypeOK, EvidenceType, RefundRows
  <2>2. /\ RefundRank[e.state] \in Int /\ RefundRank[refund[e.id].state] \in Int
        /\ RefundRank[refund'[e.id].state] \in Int
    BY <2>1, RefundRanks
  <2>3. RefundRank[refund[e.id].state] >= RefundRank[e.state]
    BY <1>6 DEF Applied
  <2>4. RefundRank[refund'[e.id].state] >= RefundRank[e.state]
    BY <1>2, <2>1, <2>2, <2>3 DEF Progress
  <2> QED
    BY <1>6, <2>4 DEF Applied
<1>7. CASE e.kind = "dispute"
  <2>1. /\ e.id \in Disputes /\ e.state \in DisputeStates
        /\ dispute[e.id].state \in DisputeStates \cup {"none"}
        /\ dispute'[e.id].state \in DisputeStates \cup {"none"}
    BY <1>7, EventFields DEF LedgerInv, TypeOK, EvidenceType, DisputeRows
  <2>2. /\ DisputeRank[e.state] \in Int /\ DisputeRank[dispute[e.id].state] \in Int
        /\ DisputeRank[dispute'[e.id].state] \in Int
    BY <2>1, DisputeRanks
  <2>3. DisputeRank[dispute[e.id].state] >= DisputeRank[e.state]
    BY <1>7 DEF Applied
  <2>4. DisputeRank[dispute'[e.id].state] >= DisputeRank[e.state]
    BY <1>2, <2>1, <2>2, <2>3 DEF Progress
  <2> QED
    BY <1>7, <2>4 DEF Applied
<1>8. e.kind \in {"success", "failure", "unresolved", "refund", "dispute"}
  BY EventsAssumption DEF EventSet
<1> QED
  BY <1>3, <1>4, <1>5, <1>6, <1>7, <1>8


(* An empty inbox *)
LEMMA InboxStarts == InboxInit => InboxInv
<1> SUFFICES ASSUME InboxInit PROVE InboxInv
  OBVIOUS
<1>1. /\ taken = [p \in Purchases |-> Never] /\ inbox = [e \in Events |-> "absent"]
      /\ attempts = [e \in Events |-> 0] /\ answers = {} /\ faults = 0
      /\ failing = [w \in Workers |-> {}]
  BY DEF InboxInit
<1>2. Never \in 0 .. Never /\ 0 \in 0 .. MaxAttempts /\ 0 \in 0 .. MaxFaults
  BY InboxAssumption, ClockAssumption DEF Never
<1>3. failing \in [Workers -> SUBSET Failures] /\ \A w \in Workers : Cardinality(failing[w]) <= 1
  BY <1>1, FS_EmptySet
<1>4. InboxTypeOK
  BY <1>1, <1>2, <1>3 DEF InboxTypeOK
<1>5. Verdicts
  BY DEF InboxInit, Init, Verdicts
<1> QED
  BY <1>1, <1>4, <1>5, InboxAssumption DEF InboxInv, TriesLeft

(* The parts of the inbox, typed *)
LEMMA InboxFields ==
  ASSUME InboxTypeOK
  PROVE  /\ taken \in [Purchases -> 0 .. Never]
         /\ inbox \in [Events -> {"absent", "ready", "processed", "quarantined"}]
         /\ attempts \in [Events -> 0 .. MaxAttempts] /\ answers \subseteq Answers
         /\ failing \in [Workers -> SUBSET Failures]
         /\ \A w \in Workers : Cardinality(failing[w]) <= 1
         /\ faults \in 0 .. MaxFaults
         /\ MaxAttempts \in Nat \ {0} /\ MaxFaults \in Nat /\ Never \in Nat
BY InboxAssumption, ClockAssumption DEF InboxTypeOK, Never

(* Inboxes before and after a step of the ledger: nothing new is acknowledged, ready rows
   have a try left, and final rows stay. *)
FinalRows == \A e \in Events :
  inbox[e] \in {"processed", "quarantined"} => inbox'[e] = inbox[e] /\ attempts'[e] = attempts[e]
InboxStep == InboxInv' /\ FinalRows

(* A step that acknowledges what it applied, and no more, keeps the promise of the rows
   acknowledged before. *)
LEMMA Acknowledges ==
  ASSUME LedgerInv, LedgerInv', [Next]_vars, InboxInv, InboxTypeOK', TriesLeft', FinalRows,
         \A e \in Events : inbox'[e] = "processed" => inbox[e] = "processed" \/ Applied(e)'
  PROVE  InboxStep
<1>1. Verdicts'
  BY VerdictsStep DEF InboxInv
<1>2. ASSUME NEW e \in Events, inbox'[e] = "processed" PROVE Applied(e)'
  <2>1. CASE inbox[e] = "processed"
    BY <2>1, AppliedStays DEF InboxInv
  <2> QED
    BY <1>2, <2>1
<1> QED
  BY <1>1, <1>2 DEF InboxStep, InboxInv

(* A step that touches no row *)
LEMMA RowsRest ==
  ASSUME LedgerInv, LedgerInv', [Next]_vars, InboxInv, InboxTypeOK', UNCHANGED <<inbox, attempts>>
  PROVE  InboxStep
<1>1. TriesLeft' /\ FinalRows
  BY DEF InboxInv, TriesLeft, FinalRows
<1> QED
  BY <1>1, Acknowledges

(* enqueue: a row that is there stays as it is. *)
LEMMA EnqueuedStep ==
  ASSUME LedgerInv, LedgerInv', [Next]_vars, InboxInv, NEW e \in Events, inbox' = Enqueued(e),
         answers' \subseteq Answers, UNCHANGED <<taken, attempts, failing, faults>>
  PROVE  InboxStep
<1>1. InboxTypeOK /\ TriesLeft
  BY DEF InboxInv
<1>2. /\ inbox' \in [Events -> {"absent", "ready", "processed", "quarantined"}]
      /\ \A x \in Events :
           inbox'[x] = IF x = e /\ inbox[e] = "absent" THEN "ready" ELSE inbox[x]
  BY <1>1, InboxFields DEF Enqueued
<1>3. InboxTypeOK'
  BY <1>1, <1>2, InboxFields DEF InboxTypeOK
<1>4. TriesLeft' /\ FinalRows
  BY <1>1, <1>2, InboxFields DEF TriesLeft, FinalRows
<1>5. \A x \in Events : inbox'[x] = "processed" => inbox[x] = "processed"
  BY <1>2
<1> QED
  BY <1>3, <1>4, <1>5, Acknowledges


(* A failure to record: one, of a row there is *)
LEMMA OneFailure ==
  ASSUME InboxTypeOK, NEW w \in Workers, NEW e \in Events, NEW c \in BOOLEAN,
         failing' = [failing EXCEPT ![w] = {[row |-> e, conflict |-> c]}]
  PROVE  /\ failing' \in [Workers -> SUBSET Failures]
         /\ \A x \in Workers : Cardinality(failing'[x]) <= 1
<1> DEFINE f == [row |-> e, conflict |-> c]
<1>1. f \in Failures
  BY DEF Failures
<1>2. Cardinality({f}) = 1
  BY FS_Singleton
<1>3. failing' = [failing EXCEPT ![w] = {f}]
  OBVIOUS
<1> HIDE DEF f
<1>4. {f} \in SUBSET Failures
  BY <1>1
<1>5. /\ failing' \in [Workers -> SUBSET Failures]
      /\ \A x \in Workers : failing'[x] = IF x = w THEN {f} ELSE failing[x]
  BY <1>3, <1>4, InboxFields
<1>6. ASSUME NEW x \in Workers PROVE Cardinality(failing'[x]) <= 1
  <2>1. CASE x = w
    <3>1. failing'[x] = {f}
      BY <1>5, <2>1
    <3> QED
      BY <1>2, <3>1
  <2>2. CASE x # w
    <3>1. failing'[x] = failing[x]
      BY <1>5, <2>2
    <3> QED
      BY <3>1, InboxFields
  <2> QED
    BY <2>1, <2>2
<1> QED
  BY <1>5, <1>6

(* A failure forgotten: recorded, or lost with its process *)
LEMMA NoFailure ==
  ASSUME InboxTypeOK, NEW w \in Workers, failing' = [failing EXCEPT ![w] = {}]
  PROVE  /\ failing' \in [Workers -> SUBSET Failures]
         /\ \A x \in Workers : Cardinality(failing'[x]) <= 1
<1>1. \A x \in Workers : failing'[x] = IF x = w THEN {} ELSE failing[x]
  BY InboxFields
<1>2. Cardinality({}) = 0
  BY FS_EmptySet
<1>3. ASSUME NEW x \in Workers PROVE Cardinality(failing'[x]) <= 1
  BY <1>1, <1>2, InboxFields
<1>4. failing' \in [Workers -> SUBSET Failures]
  BY InboxFields
<1> QED
  BY <1>3, <1>4

(* An acknowledged row was applied, by this transaction or by the one that the evidence
   repeats (PaymentRecovery.process). *)
LEMMA AppliesApplied ==
  ASSUME LedgerInv, LedgerInv', Verdicts, NEW e \in Events, Applies(e)
  PROVE  Applied(e)'
<1>0. e.ref \in Purchases /\ e.kind \in {"success", "failure", "unresolved", "refund", "dispute"}
  BY EventFields, EventsAssumption DEF EventSet
<1>t. /\ purchase \in [Purchases -> {"absent", "awaiting_payment", "fulfilled", "failed", "cancelled"}]
      /\ attempt \in [Purchases -> {"none", "pending", "successful", "failed"}]
      /\ DOMAIN attemptTx = Purchases
  BY DEF LedgerInv, TypeOK, SaleType
<1>1. CASE FulfilPurchase(e)
  <2>1. /\ e.kind = "success" /\ purchase' = [purchase EXCEPT ![e.ref] = "fulfilled"]
        /\ attemptTx' = [attemptTx EXCEPT ![e.ref] = e.tx]
    BY <1>1 DEF FulfilPurchase, Success
  <2>2. purchase'[e.ref] = "fulfilled" /\ attemptTx'[e.ref] = e.tx
    BY <1>0, <1>t, <2>1
  <2> QED
    BY <2>1, <2>2 DEF Applied
<1>2. CASE SettleFailure(e)
  <2>1. e.kind = "failure" /\ attempt' = [attempt EXCEPT ![e.ref] = "failed"]
    BY <1>2 DEF SettleFailure
  <2>2. attempt'[e.ref] = "failed"
    BY <1>0, <1>t, <2>1
  <2> QED
    BY <2>1, <2>2 DEF Applied
<1>3. CASE RefundProgress(e)
  <2>1. e.kind = "refund" /\ e.id \in Refunds /\ e.state \in RefundStates
    BY <1>3, EventFields DEF RefundProgress
  <2>2. /\ refund[e.id] \in RefundRows /\ DOMAIN refund = Refunds
    BY <2>1 DEF LedgerInv, TypeOK, EvidenceType
  <2>3. RefundRank[e.state] \in Int /\ RefundRank[refund[e.id].state] \in Int
    BY <2>1, <2>2, RefundRanks DEF RefundRows
  <2>4. refund'[e.id].state = e.state
        \/ (refund'[e.id].state = refund[e.id].state
            /\ ~Newer(RefundRank, e.state, refund[e.id].state))
    BY <1>3, <2>1, <2>2 DEF RefundProgress, RefundRows
  <2>5. RefundRank[refund'[e.id].state] >= RefundRank[e.state]
    BY <2>3, <2>4 DEF Newer
  <2> QED
    BY <2>1, <2>5 DEF Applied
<1>4. CASE DisputeProgress(e)
  <2>1. e.kind = "dispute" /\ e.id \in Disputes /\ e.state \in DisputeStates
    BY <1>4, EventFields DEF DisputeProgress
  <2>2. /\ dispute[e.id] \in DisputeRows /\ DOMAIN dispute = Disputes
    BY <2>1 DEF LedgerInv, TypeOK, EvidenceType
  <2>3. DisputeRank[e.state] \in Int /\ DisputeRank[dispute[e.id].state] \in Int
    BY <2>1, <2>2, DisputeRanks DEF DisputeRows
  <2>4. dispute'[e.id].state = e.state
        \/ (dispute'[e.id].state = dispute[e.id].state
            /\ ~Newer(DisputeRank, e.state, dispute[e.id].state))
    BY <1>4, <2>1, <2>2 DEF DisputeProgress, DisputeRows
  <2>5. DisputeRank[dispute'[e.id].state] >= DisputeRank[e.state]
    BY <2>3, <2>4 DEF Newer
  <2> QED
    BY <2>1, <2>5 DEF Applied
<1>5. CASE Silent(e) /\ UNCHANGED vars
  <2>1. Applied(e)
    <3>1. CASE Success(e) /\ ~Waiting(e.ref) /\ ~NotPending(e.ref)
      <4>1. /\ e.kind = "success" /\ attempt[e.ref] = "successful"
            /\ failure[e.ref] \notin {"offer_expired", "offer_coverage_conflict"}
            /\ attemptTx[e.ref] = e.tx
        BY <3>1 DEF NotPending, Success, TxConflict
      <4>2. purchase[e.ref] = "fulfilled"
        BY <1>0, <4>1 DEF Verdicts
      <4> QED
        BY <4>1, <4>2 DEF Applied
    <3>2. CASE e.kind = "failure" /\ attempt[e.ref] # "pending" /\ Known(e)
      <4>1. attempt[e.ref] \in {"successful", "failed"}
        BY <1>0, <1>t, <3>2 DEF Known
      <4> QED
        BY <3>2, <4>1 DEF Applied
    <3>3. CASE e.kind = "unresolved"
      BY <3>3 DEF Applied
    <3> QED
      BY <1>5, <3>1, <3>2, <3>3 DEF Silent
  <2>2. Applied(e)' <=> Applied(e)
    BY <1>5 DEF vars, saleVars, evidenceVars, Applied
  <2> QED
    BY <2>1, <2>2
<1> QED
  BY <1>1, <1>2, <1>3, <1>4, <1>5 DEF Applies

(* Every step of the inbox keeps it safe and lets outcomes stand. *)
LEMMA InboxSteps ==
  ASSUME LedgerInv, LedgerInv', [Next]_vars, InboxInv, [InboxNext]_allVars
  PROVE  InboxStep
<1>0. InboxTypeOK /\ TriesLeft /\ Verdicts
  BY DEF InboxInv
<1>1. ASSUME NEW p \in Purchases, Pay(p) PROVE InboxStep
  <2>1. day \in 0 .. Never
    BY ClockAssumption DEF LedgerInv, TypeOK, Day, Never
  <2>2. taken' = [taken EXCEPT ![p] = day] /\ UNCHANGED <<inbox, attempts, answers, failing, faults>>
    BY <1>1 DEF Pay
  <2>3. InboxTypeOK'
    BY <1>0, <2>1, <2>2 DEF InboxTypeOK
  <2> QED
    BY <2>2, <2>3, RowsRest
<1>2. ASSUME NEW e \in Events, AcceptWebhook(e) PROVE InboxStep
  <2>1. /\ inbox' = Enqueued(e) /\ UNCHANGED <<taken, attempts, answers, failing, faults>>
        /\ answers' \subseteq Answers
    BY <1>0, <1>2, InboxFields DEF AcceptWebhook
  <2> QED
    BY <2>1, EnqueuedStep
<1>3. ASSUME NEW e \in Events, Verify(e) PROVE InboxStep
  <2>1. /\ e \in Answers /\ answers' = answers \cup {e}
        /\ UNCHANGED <<taken, inbox, attempts, failing, faults>>
    BY <1>3 DEF Verify
  <2>2. InboxTypeOK'
    BY <1>0, <2>1 DEF InboxTypeOK
  <2> QED
    BY <2>1, <2>2, RowsRest
<1>4. ASSUME NEW e \in Events, StoreAnswer(e) PROVE InboxStep
  <2>1. /\ inbox' = Enqueued(e) /\ UNCHANGED <<taken, attempts, failing, faults>>
        /\ answers' \subseteq Answers
    BY <1>0, <1>4, InboxFields DEF StoreAnswer
  <2> QED
    BY <2>1, EnqueuedStep
<1>5. ASSUME NEW e \in Events, Process(e) PROVE InboxStep
  <2>1. /\ inbox[e] = "ready" /\ UNCHANGED <<taken, attempts, answers, failing, faults>>
        /\ \/ Applies(e) /\ inbox' = [inbox EXCEPT ![e] = "processed"]
           \/ inbox' = [inbox EXCEPT ![e] = "quarantined"]
    BY <1>5 DEF Process
  <2>2. PICK outcome \in {"processed", "quarantined"} :
          inbox' = [inbox EXCEPT ![e] = outcome] /\ (outcome = "processed" => Applies(e))
    BY <2>1
  <2>3. /\ inbox' \in [Events -> {"absent", "ready", "processed", "quarantined"}]
        /\ \A x \in Events : inbox'[x] = IF x = e THEN outcome ELSE inbox[x]
    BY <1>0, <2>2, InboxFields
  <2>4. InboxTypeOK'
    BY <1>0, <2>1, <2>3 DEF InboxTypeOK
  <2>5. TriesLeft' /\ FinalRows
    BY <1>0, <2>1, <2>3 DEF TriesLeft, FinalRows
  <2>6. outcome = "processed" => Applied(e)'
    BY <1>0, <2>2, AppliesApplied
  <2>7. \A x \in Events : inbox'[x] = "processed" => inbox[x] = "processed" \/ Applied(x)'
    BY <2>3, <2>6
  <2> QED
    BY <2>4, <2>5, <2>7, Acknowledges
<1>6. ASSUME NEW w \in Workers, NEW e \in Events, RollBack(w, e) \/ DatabaseError(w, e)
      PROVE  InboxStep
  <2>1. PICK c \in BOOLEAN : failing' = [failing EXCEPT ![w] = {[row |-> e, conflict |-> c]}]
    <3>1. (e.kind = "success" /\ TxConflict(e)) \in BOOLEAN
      OBVIOUS
    <3>2. CASE RollBack(w, e)
      <4>1. PICK c \in BOOLEAN : c = (e.kind = "success" /\ TxConflict(e))
        BY <3>1
      <4> QED
        BY <3>2, <4>1 DEF RollBack
    <3>3. CASE DatabaseError(w, e)
      BY <3>3 DEF DatabaseError
    <3> QED
      BY <1>6, <3>2, <3>3
  <2>2. /\ failing' \in [Workers -> SUBSET Failures]
        /\ \A x \in Workers : Cardinality(failing'[x]) <= 1
    BY <1>0, <2>1, OneFailure
  <2>3. UNCHANGED <<taken, inbox, attempts, answers>>
    BY <1>6 DEF RollBack, DatabaseError
  <2>4. faults' \in 0 .. MaxFaults
    BY <1>0, <1>6, InboxFields DEF RollBack, DatabaseError
  <2>5. InboxTypeOK'
    BY <1>0, <2>2, <2>3, <2>4 DEF InboxTypeOK
  <2> QED
    BY <2>3, <2>5, RowsRest
<1>7. ASSUME NEW w \in Workers, RecordFailure(w) PROVE InboxStep
  <2>1. failing' = [failing EXCEPT ![w] = {}] /\ UNCHANGED <<taken, answers, faults>>
    BY <1>7 DEF RecordFailure
  <2>2. /\ failing' \in [Workers -> SUBSET Failures]
        /\ \A x \in Workers : Cardinality(failing'[x]) <= 1
    BY <1>0, <2>1, NoFailure
  <2>3. PICK f \in failing[w] :
          IF StillReady(f.row)
          THEN /\ attempts' = [attempts EXCEPT ![f.row] = @ + 1]
               /\ inbox' = [inbox EXCEPT ![f.row] =
                    IF f.conflict \/ GivesUp(attempts[f.row]) THEN "quarantined" ELSE "ready"]
          ELSE UNCHANGED <<attempts, inbox>>
    BY <1>7 DEF RecordFailure
  <2>4. CASE UNCHANGED <<attempts, inbox>>
    <3>1. InboxTypeOK'
      BY <1>0, <2>1, <2>2, <2>4 DEF InboxTypeOK
    <3> QED
      BY <2>4, <3>1, RowsRest
  <2>5. CASE StillReady(f.row)
    <3>1. PICK e \in Events : e = f.row
      BY <1>0, InboxFields DEF Failures
    <3>2. inbox[e] = "ready"
      BY <2>5, <3>1 DEF StillReady
    <3>3. attempts[e] \in 0 .. MaxAttempts /\ attempts[e] < MaxAttempts /\ MaxAttempts \in Nat
      BY <1>0, <3>2, InboxFields DEF TriesLeft
    <3>4. PICK outcome \in {"quarantined", "ready"} :
            /\ inbox' = [inbox EXCEPT ![e] = outcome]
            /\ outcome = "ready" => ~GivesUp(attempts[e])
      BY <2>3, <2>5, <3>1
    <3>5. attempts' = [attempts EXCEPT ![e] = attempts[e] + 1]
      BY <2>3, <2>5, <3>1
    <3>6. /\ inbox' \in [Events -> {"absent", "ready", "processed", "quarantined"}]
          /\ \A x \in Events : inbox'[x] = IF x = e THEN outcome ELSE inbox[x]
      BY <1>0, <3>4, InboxFields
    <3>7. /\ attempts' \in [Events -> 0 .. MaxAttempts]
          /\ \A x \in Events : attempts'[x] = IF x = e THEN attempts[e] + 1 ELSE attempts[x]
      BY <1>0, <3>3, <3>5, InboxFields
    <3>8. InboxTypeOK'
      BY <1>0, <2>1, <2>2, <3>6, <3>7 DEF InboxTypeOK
    <3>9. outcome = "ready" => attempts[e] + 1 < MaxAttempts
      BY <3>3, <3>4 DEF GivesUp
    <3>10. TriesLeft'
      BY <1>0, <3>4, <3>6, <3>7, <3>9 DEF TriesLeft
    <3>11. FinalRows
      BY <3>2, <3>6, <3>7 DEF FinalRows
    <3>12. \A x \in Events : inbox'[x] = "processed" => inbox[x] = "processed"
      BY <3>6
    <3> QED
      BY <3>8, <3>10, <3>11, <3>12, Acknowledges
  <2> QED
    BY <2>3, <2>4, <2>5
<1>8. CASE Crash
  <2>1. UNCHANGED <<taken, inbox, attempts>> /\ faults < MaxFaults /\ faults' = faults + 1
    BY <1>8 DEF Crash
  <2>2. faults' \in 0 .. MaxFaults
    BY <1>0, <2>1, InboxFields
  <2>3. /\ answers' \subseteq Answers /\ failing' \in [Workers -> SUBSET Failures]
        /\ \A x \in Workers : Cardinality(failing'[x]) <= 1
    <3>1. CASE \E e \in answers : answers' = answers \ {e} /\ UNCHANGED failing
      BY <1>0, <3>1, InboxFields
    <3>2. CASE \E w \in Workers : failing' = [failing EXCEPT ![w] = {}] /\ UNCHANGED answers
      BY <1>0, <3>2, InboxFields, NoFailure
    <3> QED
      BY <1>8, <3>1, <3>2 DEF Crash
  <2>4. InboxTypeOK'
    BY <1>0, <2>1, <2>2, <2>3 DEF InboxTypeOK
  <2> QED
    BY <2>1, <2>4, RowsRest
<1>9. ASSUME UNCHANGED inboxVars PROVE InboxStep
  <2>1. InboxTypeOK'
    BY <1>0, <1>9 DEF InboxTypeOK, inboxVars
  <2> QED
    BY <1>9, <2>1, RowsRest DEF inboxVars
<1> QED
  BY <1>1, <1>2, <1>3, <1>4, <1>5, <1>6, <1>7, <1>8, <1>9 DEF InboxNext, Elsewhere, allVars

(* What the inbox rests on *)
LEMMA InboxAlways == InboxSpec => [](LedgerInv /\ InboxInv)
<1>1. LedgerInv /\ LedgerInv' /\ [Next]_vars /\ InboxInv /\ [InboxNext]_allVars => InboxInv'
  BY InboxSteps DEF InboxStep
<1> QED
  BY <1>1, InboxStarts, InboxUsesLedger, LedgerHolds, PTL DEF InboxSpec, Spec

(* For any evidence, workers, errors and deaths: whatever is acknowledged was applied, and
   no row is tried more often than the limit allows (PaymentRecovery.process and the
   failure it records). *)
THEOREM AcknowledgedIsApplied == InboxSpec => []InboxSafe
<1>1. InboxInv => InboxSafe
  <2> SUFFICES ASSUME InboxInv, NEW e \in Events, inbox[e] = "processed"
               PROVE  CASE e.kind = "success" -> purchase[e.ref] = "fulfilled" /\ attemptTx[e.ref] = e.tx
                        [] e.kind = "failure" -> attempt[e.ref] # "pending"
                        [] e.kind = "unresolved" -> TRUE
                        [] e.kind = "refund" -> RefundRank[refund[e.id].state] >= RefundRank[e.state]
                        [] e.kind = "dispute" -> DisputeRank[dispute[e.id].state] >= DisputeRank[e.state]
    BY DEF InboxInv, InboxSafe, ProcessedIsApplied
  <2>1. Applied(e)
    BY DEF InboxInv
  <2>2. e.kind \in {"success", "failure", "unresolved", "refund", "dispute"}
    BY EventsAssumption DEF EventSet
  <2> QED
    BY <2>1, <2>2 DEF Applied
<1> QED
  BY <1>1, InboxAlways, PTL

(* A row that is acknowledged or given up is never put back, whichever worker was late to
   record its failure (the guard trigger of payment_events). *)
THEOREM RowOutcomesStand == InboxSpec => OutcomesStand
<1>1. LedgerInv /\ LedgerInv' /\ [Next]_vars /\ InboxInv /\ [InboxNext]_allVars =>
        [\A e \in Events :
           inbox[e] \in {"processed", "quarantined"} =>
             inbox'[e] = inbox[e] /\ attempts'[e] = attempts[e]]_allVars
  BY InboxSteps DEF InboxStep, FinalRows
<1> QED
  BY <1>1, InboxAlways, InboxUsesLedger, PTL DEF InboxSpec, Spec, OutcomesStand
==============================================================================
