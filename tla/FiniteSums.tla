----------------------------- MODULE FiniteSums -----------------------------
(***************************************************************************)
(* Facts about sums over finite sets, for the totals the payment modules   *)
(* read with SUM(...): the empty sum, one element split off, one row       *)
(* updated, a part bounded by the whole.                                   *)
(*                                                                         *)
(* MapThenSumSet is a recursive function on the subsets of its set, so its *)
(* equations are proved by induction.  An induction is a choice here: of   *)
(* the subsets a statement fails for, if any, take one without a smaller   *)
(* one (SmallestSubset), and refute it.                                    *)
(***************************************************************************)
EXTENDS Integers, FiniteSets, FiniteSetsExt, FiniteSetTheorems, WellFoundedInduction, TLAPS

(* The element a recursive sum takes out of a set first. *)
First(s) == CHOOSE x \in s : TRUE

(* g is the table of the sums of f over the subsets of S. *)
SumsTo(f, S, g) ==
  g = [s \in SUBSET S |-> IF s = {} THEN 0 ELSE f[First(s)] + g[s \ {First(s)}]]

SumOver(f, S) == (CHOOSE g : SumsTo(f, S, g))[S]

(* A collection of subsets of a finite set has a member without a smaller member. *)
LEMMA SmallestSubset ==
  ASSUME NEW S, IsFiniteSet(S), NEW Bad, Bad \subseteq SUBSET S, Bad # {}
  PROVE  \E A \in Bad : \A B \in Bad : ~(B \subseteq A /\ B # A)
<1>1. FiniteSubsetsOf(S) = SUBSET S
  BY FS_FiniteSubsetsOfFinite
<1>2. IsWellFoundedOn(StrictSubsetOrdering(S), FiniteSubsetsOf(S))
  BY FS_StrictSubsetOrderingWellFounded
<1>3. PICK A \in Bad : \A B \in Bad : ~(<<B, A>> \in StrictSubsetOrdering(S))
  BY <1>1, <1>2, WFMin
<1> QED
  BY <1>3 DEF StrictSubsetOrdering

(* What a set takes out first is one of its elements. *)
LEMMA FirstIn == ASSUME NEW s, s # {} PROVE First(s) \in s
BY DEF First

(* There is at most one table of sums. *)
LEMMA SumsUnique ==
  ASSUME NEW S, IsFiniteSet(S), NEW f, NEW g, NEW h, SumsTo(f, S, g), SumsTo(f, S, h)
  PROVE  g = h
<1> DEFINE Bad == {s \in SUBSET S : g[s] # h[s]}
<1>1. CASE Bad = {}
  BY <1>1 DEF SumsTo
<1>2. CASE Bad # {}
  <2>0. Bad \subseteq SUBSET S
    OBVIOUS
  <2>1. PICK A \in Bad : \A B \in Bad : ~(B \subseteq A /\ B # A)
    <3> HIDE DEF Bad
    <3> QED
      BY <1>2, <2>0, SmallestSubset
  <2>2. A # {}
    BY <2>1 DEF SumsTo
  <2>3. A \ {First(A)} \notin Bad /\ A \ {First(A)} \in SUBSET S
    BY <2>1, <2>2, FirstIn
  <2> QED
    BY <2>1, <2>2, <2>3 DEF SumsTo
<1> QED
  BY <1>1, <1>2

(* A table of sums contains the sums of every subset. *)
LEMMA SumsRestrict ==
  ASSUME NEW S, NEW f, NEW g, SumsTo(f, S, g), NEW T \in SUBSET S
  PROVE  SumsTo(f, T, [s \in SUBSET T |-> g[s]])
<1> DEFINE h == [s \in SUBSET T |-> g[s]]
<1>1. \A s \in SUBSET T : s # {} => s \ {First(s)} \in SUBSET T
  OBVIOUS
<1>2. \A s \in SUBSET T :
        h[s] = IF s = {} THEN 0 ELSE f[First(s)] + h[s \ {First(s)}]
  BY <1>1 DEF SumsTo
<1> HIDE DEF h
<1>3. h = [s \in SUBSET T |-> h[s]]
  BY DEF h
<1> QED
  BY <1>2, <1>3 DEF SumsTo, h

(* The sum of a set is what any table says of it. *)
LEMMA SumReads ==
  ASSUME NEW S, IsFiniteSet(S), NEW f, NEW g, SumsTo(f, S, g), NEW T \in SUBSET S
  PROVE  SumOver(f, T) = g[T]
<1> DEFINE h == [s \in SUBSET T |-> g[s]]
           k == CHOOSE t : SumsTo(f, T, t)
<1>1. SumsTo(f, T, h)
  BY SumsRestrict
<1>2. SumsTo(f, T, k)
  BY <1>1
<1>3. IsFiniteSet(T)
  BY FS_Subset
<1> HIDE DEF h, k
<1>4. h = k
  BY <1>1, <1>2, <1>3, SumsUnique
<1>5. h[T] = g[T]
  BY DEF h
<1> QED
  BY <1>4, <1>5 DEF SumOver, k

(* Every finite set has a table of sums. *)
LEMMA SumsExist == ASSUME NEW S, IsFiniteSet(S), NEW f PROVE \E g : SumsTo(f, S, g)
<1> DEFINE Bad == {s \in SUBSET S : ~ \E g : SumsTo(f, s, g)}
<1> SUFFICES ASSUME Bad # {} PROVE FALSE
  OBVIOUS
<1>0. Bad \subseteq SUBSET S
  OBVIOUS
<1>1. PICK A \in Bad : \A B \in Bad : ~(B \subseteq A /\ B # A)
  <2> HIDE DEF Bad
  <2> QED
    BY <1>0, SmallestSubset
<1>2. \A B \in SUBSET A : IsFiniteSet(B)
  BY FS_Subset
<1>3. ASSUME NEW B \in SUBSET A, B # A
      PROVE  SumOver(f, B) = IF B = {} THEN 0 ELSE f[First(B)] + SumOver(f, B \ {First(B)})
  <2>1. PICK g : SumsTo(f, B, g)
    BY <1>1, <1>3
  <2>2. SumOver(f, B) = g[B] /\ SumOver(f, B \ {First(B)}) = g[B \ {First(B)}]
    BY <1>2, <2>1, SumReads
  <2> QED
    BY <2>1, <2>2 DEF SumsTo
<1> DEFINE h == [s \in SUBSET A |-> IF s = {} THEN 0
                                     ELSE f[First(s)] + SumOver(f, s \ {First(s)})]
<1>4. ASSUME NEW s \in SUBSET A, s # {}
      PROVE  h[s \ {First(s)}] = SumOver(f, s \ {First(s)})
  <2>1. s \ {First(s)} \in SUBSET A /\ s \ {First(s)} # A
    BY <1>4, FirstIn
  <2> QED
    BY <1>3, <2>1
<1>5. SumsTo(f, A, h)
  <2>1. \A s \in SUBSET A : h[s] = IF s = {} THEN 0 ELSE f[First(s)] + h[s \ {First(s)}]
    BY <1>4
  <2>2. h = [s \in SUBSET A |-> h[s]]
    OBVIOUS
  <2> HIDE DEF h
  <2> QED
    BY <2>1, <2>2 DEF SumsTo
<1> QED
  BY <1>1, <1>5

(* The equations of the sum. *)
LEMMA SumEquations ==
  ASSUME NEW S, IsFiniteSet(S), NEW f
  PROVE  SumOver(f, S) = IF S = {} THEN 0 ELSE f[First(S)] + SumOver(f, S \ {First(S)})
<1>1. PICK g : SumsTo(f, S, g)
  BY SumsExist
<1>2. SumOver(f, S) = g[S] /\ SumOver(f, S \ {First(S)}) = g[S \ {First(S)}]
  BY <1>1, SumReads
<1> QED
  BY <1>1, <1>2 DEF SumsTo

(* A sum of integers is an integer. *)
LEMMA SumTyped ==
  ASSUME NEW S, IsFiniteSet(S), NEW f, \A x \in S : f[x] \in Int
  PROVE  SumOver(f, S) \in Int
<1> DEFINE Bad == {s \in SUBSET S : SumOver(f, s) \notin Int}
<1> SUFFICES ASSUME Bad # {} PROVE FALSE
  OBVIOUS
<1>0. Bad \subseteq SUBSET S
  OBVIOUS
<1>1. PICK A \in Bad : \A B \in Bad : ~(B \subseteq A /\ B # A)
  <2> HIDE DEF Bad
  <2> QED
    BY <1>0, SmallestSubset
<1>2. SumOver(f, A) = IF A = {} THEN 0 ELSE f[First(A)] + SumOver(f, A \ {First(A)})
  BY FS_Subset, SumEquations
<1>3. A # {}
  BY <1>1, <1>2
<1>4. First(A) \in A /\ A \ {First(A)} \notin Bad
  BY <1>1, <1>3, FirstIn
<1> QED
  BY <1>1, <1>2, <1>3, <1>4

(* Any element may be split off a sum. *)
LEMMA SumSplit ==
  ASSUME NEW S, IsFiniteSet(S), NEW f, \A y \in S : f[y] \in Int, NEW x \in S
  PROVE  SumOver(f, S) = f[x] + SumOver(f, S \ {x})
<1> DEFINE Splits(s, y) == SumOver(f, s) = f[y] + SumOver(f, s \ {y})
           Bad == {s \in SUBSET S : \E y \in s : ~Splits(s, y)}
<1> SUFFICES ASSUME Bad # {} PROVE FALSE
  OBVIOUS
<1>0. Bad \subseteq SUBSET S
  OBVIOUS
<1>1. PICK A \in Bad : \A B \in Bad : ~(B \subseteq A /\ B # A)
  <2> HIDE DEF Bad
  <2> QED
    BY <1>0, SmallestSubset
<1>2. PICK y \in A : ~Splits(A, y)
  BY <1>1
<1> DEFINE c == First(A)
<1>3. c \in A /\ c \in S /\ y \in S
  BY <1>1, <1>2, FirstIn
<1>4. Splits(A, c)
  BY <1>1, <1>2, FS_Subset, SumEquations
<1>5. y # c
  BY <1>2, <1>4
<1> HIDE DEF c
<1>6. \A B \in SUBSET A : B # A => \A z \in B : Splits(B, z)
  BY <1>1
<1>7. Splits(A \ {c}, y) /\ Splits(A \ {y}, c)
  <2>1. /\ A \ {c} \in SUBSET A /\ A \ {c} # A /\ y \in A \ {c}
        /\ A \ {y} \in SUBSET A /\ A \ {y} # A /\ c \in A \ {y}
    BY <1>2, <1>3, <1>5
  <2> HIDE DEF Splits
  <2> QED
    BY <1>6, <2>1
<1>8. (A \ {c}) \ {y} = (A \ {y}) \ {c}
  OBVIOUS
<1>9. SumOver(f, (A \ {c}) \ {y}) \in Int
  <2>1. (A \ {c}) \ {y} \in SUBSET S
    BY <1>1
  <2> QED
    BY <2>1, FS_Subset, SumTyped
<1>10. f[c] \in Int /\ f[y] \in Int
  BY <1>3
<1> HIDE DEF Bad
<1>11. SumOver(f, A) = f[y] + SumOver(f, A \ {y})
  <2> DEFINE rest == SumOver(f, (A \ {c}) \ {y})
  <2>1. SumOver(f, A) = f[c] + SumOver(f, A \ {c})
    BY <1>4
  <2>2. SumOver(f, A \ {c}) = f[y] + rest
    BY <1>7
  <2>3. SumOver(f, A \ {y}) = f[c] + rest
    BY <1>7, <1>8
  <2>4. rest \in Int
    BY <1>9
  <2> HIDE DEF rest
  <2> QED
    BY <1>10, <2>1, <2>2, <2>3, <2>4
<1> QED
  BY <1>2, <1>11

(* The sum of nothing. *)
LEMMA SumEmpty == ASSUME NEW f PROVE SumOver(f, {}) = 0
BY FS_EmptySet, SumEquations

(* Only the rows of the set count. *)
LEMMA SumSame ==
  ASSUME NEW S, IsFiniteSet(S), NEW f, NEW h, \A x \in S : f[x] \in Int /\ h[x] = f[x]
  PROVE  SumOver(h, S) = SumOver(f, S)
<1> DEFINE Bad == {s \in SUBSET S : SumOver(h, s) # SumOver(f, s)}
<1> SUFFICES ASSUME Bad # {} PROVE FALSE
  OBVIOUS
<1>0. Bad \subseteq SUBSET S
  OBVIOUS
<1>1. PICK A \in Bad : \A B \in Bad : ~(B \subseteq A /\ B # A)
  <2> HIDE DEF Bad
  <2> QED
    BY <1>0, SmallestSubset
<1>2. IsFiniteSet(A) /\ A # {}
  BY <1>1, FS_Subset, SumEmpty
<1>3. First(A) \in A /\ A \ {First(A)} \notin Bad
  BY <1>1, <1>2, FirstIn
<1> QED
  BY <1>1, <1>2, <1>3, SumEquations

(* A change of some rows changes the sum by the sum of the changes. *)
LEMMA SumChanges ==
  ASSUME NEW S, IsFiniteSet(S), NEW T \in SUBSET S, NEW f, NEW h, NEW e,
         \A x \in S : f[x] \in Int /\ e[x] \in Int
                        /\ h[x] = f[x] + (IF x \in T THEN e[x] ELSE 0)
  PROVE  SumOver(h, S) = SumOver(f, S) + SumOver(e, T)
<1> DEFINE Bad == {s \in SUBSET S : SumOver(h, s) # SumOver(f, s) + SumOver(e, s \cap T)}
<1> SUFFICES ASSUME Bad # {} PROVE FALSE
  <2>1. S \notin Bad /\ S \cap T = T
    OBVIOUS
  <2> QED
    BY <2>1
<1>0. Bad \subseteq SUBSET S
  OBVIOUS
<1>1. PICK A \in Bad : \A B \in Bad : ~(B \subseteq A /\ B # A)
  <2> HIDE DEF Bad
  <2> QED
    BY <1>0, SmallestSubset
<1>2. /\ \A s \in SUBSET S : IsFiniteSet(s)
      /\ \A x \in S : h[x] \in Int
  BY FS_Subset
<1>3. A # {}
  <2>1. {} \cap T = {} /\ 0 = 0 + 0
    OBVIOUS
  <2> QED
    BY <1>1, <2>1, SumEmpty
<1> DEFINE x == First(A)
           B == A \ {x}
<1>4. x \in A /\ x \in S /\ B \in SUBSET S /\ A \in SUBSET S /\ B \notin Bad
  BY <1>1, <1>3, FirstIn
<1>5. SumOver(h, B) = SumOver(f, B) + SumOver(e, B \cap T)
  BY <1>4
<1>6. SumOver(f, B) \in Int /\ SumOver(e, B \cap T) \in Int
  <2>1. B \cap T \in SUBSET S
    OBVIOUS
  <2> HIDE DEF B
  <2> QED
    BY <1>2, <1>4, <2>1, SumTyped
<1> HIDE DEF x
<1>7. /\ SumOver(h, A) = h[x] + SumOver(h, B)
      /\ SumOver(f, A) = f[x] + SumOver(f, B)
  <2>1. IsFiniteSet(A) /\ x \in A /\ \A y \in A : h[y] \in Int /\ f[y] \in Int
    BY <1>2, <1>4
  <2> QED
    BY <2>1, SumSplit
<1>8. SumOver(e, A \cap T) = SumOver(e, B \cap T) + (IF x \in T THEN e[x] ELSE 0)
  <2>1. CASE x \in T
    <3>1. x \in A \cap T /\ (A \cap T) \ {x} = B \cap T /\ A \cap T \in SUBSET S
      BY <1>4, <2>1
    <3>2. SumOver(e, A \cap T) = e[x] + SumOver(e, (A \cap T) \ {x})
      BY <1>2, <3>1, SumSplit
    <3>3. SumOver(e, A \cap T) = e[x] + SumOver(e, B \cap T)
      BY <3>1, <3>2
    <3>4. e[x] \in Int
      BY <1>4, <2>1
    <3> HIDE DEF B
    <3> QED
      BY <1>6, <2>1, <3>3, <3>4
  <2>2. CASE x \notin T
    <3>1. A \cap T = B \cap T
      BY <2>2
    <3>2. SumOver(e, A \cap T) = SumOver(e, B \cap T)
      BY <3>1
    <3> HIDE DEF B, Bad
    <3> QED
      BY <1>6, <2>2, <3>2
  <2> QED
    BY <2>1, <2>2
<1> HIDE DEF B
<1>9. SumOver(h, A) = SumOver(f, A) + SumOver(e, A \cap T)
  BY <1>4, <1>5, <1>6, <1>7, <1>8
<1> QED
  BY <1>1, <1>9

(* One row is rewritten. *)
LEMMA SumUpdate ==
  ASSUME NEW S, IsFiniteSet(S), NEW f, NEW h, NEW x \in S, f[x] \in Int, h[x] \in Int,
         \A y \in S \ {x} : f[y] \in Int /\ h[y] = f[y]
  PROVE  SumOver(h, S) = SumOver(f, S) - f[x] + h[x]
<1>1. IsFiniteSet(S \ {x})
  BY FS_RemoveElement
<1>2. SumOver(h, S \ {x}) = SumOver(f, S \ {x}) /\ SumOver(f, S \ {x}) \in Int
  BY <1>1, SumSame, SumTyped
<1>3. /\ SumOver(f, S) = f[x] + SumOver(f, S \ {x})
      /\ SumOver(h, S) = h[x] + SumOver(h, S \ {x})
  BY SumSplit
<1> QED
  BY <1>2, <1>3

(* Amounts that are not negative never add up to less than one of them. *)
LEMMA SumNatural ==
  ASSUME NEW S, IsFiniteSet(S), NEW f, \A x \in S : f[x] \in Nat
  PROVE  /\ SumOver(f, S) \in Nat
         /\ \A x \in S : f[x] <= SumOver(f, S)
<1>1. ASSUME NEW T \in SUBSET S PROVE SumOver(f, T) \in Nat
  <2> DEFINE Bad == {s \in SUBSET T : SumOver(f, s) \notin Nat}
  <2> SUFFICES ASSUME Bad # {} PROVE FALSE
    OBVIOUS
  <2>4. IsFiniteSet(T)
    BY FS_Subset
  <2>0. Bad \subseteq SUBSET T
    OBVIOUS
  <2>1. PICK A \in Bad : \A B \in Bad : ~(B \subseteq A /\ B # A)
    <3> HIDE DEF Bad
    <3> QED
      BY <2>0, <2>4, SmallestSubset
  <2>2. IsFiniteSet(A) /\ A # {}
    <3>1. SumOver(f, {}) \in Nat
      BY SumEmpty
    <3> QED
      BY <2>1, <2>4, <3>1, FS_Subset
  <2>3. First(A) \in A /\ A \ {First(A)} \notin Bad
    BY <2>1, <2>2, FirstIn
  <2>5. SumOver(f, A) = f[First(A)] + SumOver(f, A \ {First(A)})
    BY <2>2, SumEquations
  <2> QED
    BY <2>1, <2>3, <2>5
<1>2. ASSUME NEW x \in S PROVE f[x] <= SumOver(f, S)
  <2>1. SumOver(f, S) = f[x] + SumOver(f, S \ {x})
    BY SumSplit
  <2>2. SumOver(f, S \ {x}) \in Nat
    BY <1>1
  <2> QED
    BY <2>1, <2>2
<1> QED
  BY <1>1, <1>2

(* Rows that count nothing. *)
LEMMA SumZero ==
  ASSUME NEW S, IsFiniteSet(S), NEW f, \A x \in S : f[x] = 0
  PROVE  SumOver(f, S) = 0
<1>1. SumOver(f, S) = SumOver(f, S) + SumOver(f, S)
  <2>1. S \in SUBSET S /\ \A x \in S : f[x] \in Int /\ f[x] = f[x] + (IF x \in S THEN f[x] ELSE 0)
    OBVIOUS
  <2> QED
    BY <2>1, SumChanges
<1>2. SumOver(f, S) \in Int
  BY SumTyped
<1>3. \A n \in Int : n = n + n => n = 0
  OBVIOUS
<1> QED
  BY <1>1, <1>2, <1>3

(* The rows outside a set, counted as nothing. *)
LEMMA SumWhere ==
  ASSUME NEW S, IsFiniteSet(S), NEW T \in SUBSET S, NEW e, NEW h,
         \A x \in S : e[x] \in Int /\ h[x] = IF x \in T THEN e[x] ELSE 0
  PROVE  SumOver(e, T) = SumOver(h, S)
<1> DEFINE f == [x \in S |-> 0]
<1>1. \A x \in S : f[x] = 0
  OBVIOUS
<1> HIDE DEF f
<1>2. \A x \in S : f[x] \in Int /\ e[x] \in Int /\ h[x] = f[x] + (IF x \in T THEN e[x] ELSE 0)
  BY <1>1
<1>3. SumOver(h, S) = SumOver(f, S) + SumOver(e, T)
  BY <1>2, SumChanges
<1>4. SumOver(f, S) = 0 /\ SumOver(h, S) \in Int /\ SumOver(e, T) \in Int
  <2>1. IsFiniteSet(T) /\ \A x \in T : e[x] \in Int
    BY FS_Subset
  <2> QED
    BY <1>1, <2>1, SumZero, SumTyped
<1> QED
  BY <1>3, <1>4

(* Rows that grow never add up to less. *)
LEMMA SumMonotone ==
  ASSUME NEW S, IsFiniteSet(S), NEW f, NEW h,
         \A x \in S : f[x] \in Int /\ h[x] \in Int /\ f[x] <= h[x]
  PROVE  SumOver(f, S) <= SumOver(h, S)
<1> DEFINE e == [x \in S |-> h[x] - f[x]]
<1>1. \A x \in S : e[x] \in Nat /\ h[x] = f[x] + (IF x \in S THEN e[x] ELSE 0)
  OBVIOUS
<1> HIDE DEF e
<1>2. SumOver(h, S) = SumOver(f, S) + SumOver(e, S)
  BY <1>1, SumChanges
<1>3. SumOver(e, S) \in Nat /\ SumOver(f, S) \in Int
  BY <1>1, SumNatural, SumTyped
<1> QED
  BY <1>2, <1>3
=============================================================================
