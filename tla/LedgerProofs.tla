---------------------------- MODULE LedgerProofs ----------------------------
(***************************************************************************)
(* What posting does to balances, for every ledger.                        *)
(*                                                                         *)
(* get_balance sums over a set.  MapThenSumSet takes the elements in an    *)
(* order that CHOOSE fixes, by a function that is itself chosen to satisfy *)
(* the recursion.  Three facts make such sums usable: the function exists  *)
(* and is unique (SumExists, SumUnique), the order does not matter         *)
(* (TotalRemove), and a new leg adds its signed amount (TotalAdd).  Each   *)
(* is shown by looking at a smallest counterexample, which a finite set    *)
(* of subsets has (SmallestSubset).                                        *)
(***************************************************************************)
EXTENDS Ledger, FiniteSetTheorems, TLAPS

\* The sum of a set of legs.
Total(S) == MapThenSumSet(SignedAmount, S)

\* The element that the sum takes next.
Pick(s) == CHOOSE x \in s : TRUE

\* g gives every subset of S its sum.
SumOver(S, g) ==
    g = [s \in SUBSET S |-> IF s = {} THEN 0 ELSE SignedAmount(Pick(s)) + g[s \ {Pick(s)}]]

\* The sum as the library defines it.
LEMMA TotalDef == ASSUME NEW S PROVE Total(S) = (CHOOSE g : SumOver(S, g))[S]
BY DEF Total, MapThenSumSet, MapThenFoldSet, SumOver, Pick

\* A nonempty set has a next element.
LEMMA PickIn == ASSUME NEW s, s # {} PROVE Pick(s) \in s
BY DEF Pick

\* Induction over finite sets, as the existence of a smallest counterexample.
LEMMA SmallestSubset ==
    ASSUME NEW S, IsFiniteSet(S), NEW B, B \subseteq SUBSET S, B # {}
    PROVE  \E T \in B : \A U \in B : U \subseteq T => U = T
<1>1. FiniteSubsetsOf(S) = SUBSET S
  BY FS_FiniteSubsetsOfFinite
<1>2. IsWellFoundedOn(StrictSubsetOrdering(S), SUBSET S)
  BY <1>1, FS_StrictSubsetOrderingWellFounded
<1>3. PICK T \in B : \A U \in B : ~ (<<U, T>> \in StrictSubsetOrdering(S))
  BY <1>2, WFMin
<1>4. ASSUME NEW U \in B, U \subseteq T, U # T PROVE FALSE
  <2>1. <<U, T>> \in (SUBSET S) \X (SUBSET S)
    OBVIOUS
  <2>2. <<U, T>>[1] = U /\ <<U, T>>[2] = T
    OBVIOUS
  <2>3. <<U, T>> \in StrictSubsetOrdering(S)
    BY <1>4, <2>1, <2>2 DEF StrictSubsetOrdering
  <2> QED BY <1>3, <2>3
<1> QED BY <1>3, <1>4

\* Two functions that sum the subsets of two sets agree on what both sets contain.
LEMMA SumUnique ==
    ASSUME NEW A, NEW B, NEW g, NEW h, SumOver(A, g), SumOver(B, h),
           NEW W, IsFiniteSet(W), W \subseteq A, W \subseteq B
    PROVE  g[W] = h[W]
<1> DEFINE Bad == { s \in SUBSET W : g[s] # h[s] }
<1>1. SUFFICES ASSUME Bad # {} PROVE FALSE
  OBVIOUS
<1>2. PICK T \in Bad : \A U \in Bad : U \subseteq T => U = T
  <2> HIDE DEF Bad
  <2>1. Bad \subseteq SUBSET W
    BY DEF Bad
  <2> QED BY <1>1, <2>1, SmallestSubset
<1>3. T \in SUBSET W /\ g[T] # h[T]
  OBVIOUS
<1>4. g[T] = IF T = {} THEN 0 ELSE SignedAmount(Pick(T)) + g[T \ {Pick(T)}]
  <2>1. T \in SUBSET A
    BY <1>3
  <2> HIDE DEF Bad
  <2> QED BY <2>1 DEF SumOver
<1>5. h[T] = IF T = {} THEN 0 ELSE SignedAmount(Pick(T)) + h[T \ {Pick(T)}]
  <2>1. T \in SUBSET B
    BY <1>3
  <2> HIDE DEF Bad
  <2> QED BY <2>1 DEF SumOver
<1>6. T # {}
  BY <1>3, <1>4, <1>5
<1>7. Pick(T) \in T
  BY <1>6, PickIn
<1>8. T \ {Pick(T)} \in SUBSET W /\ T \ {Pick(T)} \subseteq T /\ T \ {Pick(T)} # T
  BY <1>3, <1>7
<1>9. g[T \ {Pick(T)}] = h[T \ {Pick(T)}]
  BY <1>2, <1>8
<1> QED BY <1>3, <1>4, <1>5, <1>6, <1>9

\* Every finite set has a function that sums its subsets.
LEMMA SumExists ==
    ASSUME NEW S, IsFiniteSet(S)
    PROVE  \E g : SumOver(S, g)
<1> DEFINE Bad == { s \in SUBSET S : ~ \E g : SumOver(s, g) }
<1>1. SUFFICES ASSUME Bad # {} PROVE FALSE
  OBVIOUS
<1>2. PICK T \in Bad : \A U \in Bad : U \subseteq T => U = T
  <2> HIDE DEF Bad
  <2>1. Bad \subseteq SUBSET S
    BY DEF Bad
  <2> QED BY <1>1, <2>1, SmallestSubset
<1>3. T \in SUBSET S /\ ~ \E g : SumOver(T, g)
  OBVIOUS
<1> DEFINE G(U) == CHOOSE g : SumOver(U, g)
<1>4. ASSUME NEW U \in SUBSET T, U # T PROVE SumOver(U, G(U))
  <2>1. U \notin Bad
    BY <1>2, <1>4
  <2>2. U \in SUBSET S
    BY <1>3
  <2>3. \E g : SumOver(U, g)
    BY <2>1, <2>2
  <2> QED BY <2>3
<1> DEFINE h == [s \in SUBSET T |-> IF s = {} THEN 0
                    ELSE SignedAmount(Pick(s)) + G(s \ {Pick(s)})[s \ {Pick(s)}]]
<1> HIDE DEF Bad, G
<1>5. ASSUME NEW V \in SUBSET T, V # T PROVE h[V] = G(V)[V]
  <2>1. SumOver(V, G(V))
    BY <1>4, <1>5
  <2>2. G(V)[V] = IF V = {} THEN 0 ELSE SignedAmount(Pick(V)) + G(V)[V \ {Pick(V)}]
    BY <2>1 DEF SumOver
  <2>3. CASE V = {}
    BY <2>2, <2>3
  <2>4. CASE V # {}
    <3> DEFINE W == V \ {Pick(V)}
    <3>1. W \in SUBSET T /\ W # T /\ W \subseteq V
      BY <1>5
    <3>2. SumOver(W, G(W))
      BY <1>4, <3>1
    <3>3. IsFiniteSet(W)
      BY <1>3, <3>1, FS_Subset
    <3> HIDE DEF W
    <3>4. G(V)[W] = G(W)[W]
      BY <2>1, <3>1, <3>2, <3>3, SumUnique
    <3> USE DEF W
    <3>5. h[V] = SignedAmount(Pick(V)) + G(W)[W]
      BY <2>4
    <3> QED BY <2>2, <2>4, <3>4, <3>5
  <2> QED BY <2>3, <2>4
<1>6. ASSUME NEW s \in SUBSET T
      PROVE  h[s] = IF s = {} THEN 0 ELSE SignedAmount(Pick(s)) + h[s \ {Pick(s)}]
  <2>1. CASE s = {}
    BY <2>1
  <2>2. CASE s # {}
    <3>1. Pick(s) \in s
      BY <2>2, PickIn
    <3>2. s \ {Pick(s)} \in SUBSET T /\ s \ {Pick(s)} # T
      BY <3>1
    <3> DEFINE W == s \ {Pick(s)}
    <3>3. h[s] = SignedAmount(Pick(s)) + G(W)[W]
      BY <2>2
    <3>4. h[W] = G(W)[W]
      <4> HIDE DEF h
      <4> QED BY <1>5, <3>2
    <3> HIDE DEF h
    <3> QED BY <2>2, <3>3, <3>4
  <2> QED BY <2>1, <2>2
<1>7. h = [s \in SUBSET T |-> h[s]]
  OBVIOUS
<1>8. SumOver(T, h)
  <2> HIDE DEF h
  <2>1. h = [s \in SUBSET T |-> IF s = {} THEN 0 ELSE SignedAmount(Pick(s)) + h[s \ {Pick(s)}]]
    BY <1>6, <1>7
  <2> QED BY <2>1 DEF SumOver
<1> QED BY <1>3, <1>8

\* The recursion the sum is defined by.
LEMMA TotalStep ==
    ASSUME NEW S, IsFiniteSet(S)
    PROVE  Total(S) = IF S = {} THEN 0 ELSE SignedAmount(Pick(S)) + Total(S \ {Pick(S)})
<1> DEFINE G(U) == CHOOSE g : SumOver(U, g)
           W == S \ {Pick(S)}
<1>1. IsFiniteSet(W)
  BY FS_RemoveElement
<1>2. SumOver(S, G(S)) /\ SumOver(W, G(W))
  <2> HIDE DEF W
  <2> QED BY <1>1, SumExists
<1>3. Total(S) = G(S)[S] /\ Total(W) = G(W)[W]
  BY TotalDef
<1> HIDE DEF G
<1>4. G(S)[S] = IF S = {} THEN 0 ELSE SignedAmount(Pick(S)) + G(S)[W]
  BY <1>2 DEF SumOver
<1>5. W \subseteq S
  OBVIOUS
<1> HIDE DEF W
<1>6. G(S)[W] = G(W)[W]
  BY <1>1, <1>2, <1>5, SumUnique
<1> QED BY <1>3, <1>4, <1>6 DEF W

\* No legs, no money.
LEMMA TotalEmpty == Total({}) = 0
BY TotalStep, FS_EmptySet

\* The sum of integers is one.
LEMMA TotalType ==
    ASSUME NEW S, IsFiniteSet(S), \A l \in S : l.amount \in Int
    PROVE  Total(S) \in Int
<1> DEFINE Bad == { s \in SUBSET S : Total(s) \notin Int }
<1>1. SUFFICES ASSUME Bad # {} PROVE FALSE
  OBVIOUS
<1>2. PICK T \in Bad : \A U \in Bad : U \subseteq T => U = T
  <2>1. Bad \subseteq SUBSET S
    OBVIOUS
  <2> HIDE DEF Bad
  <2> QED BY <1>1, <2>1, SmallestSubset
<1>3. T \in SUBSET S /\ Total(T) \notin Int
  OBVIOUS
<1>4. IsFiniteSet(T)
  BY <1>3, FS_Subset
<1>5. Total(T) = IF T = {} THEN 0 ELSE SignedAmount(Pick(T)) + Total(T \ {Pick(T)})
  BY <1>4, TotalStep
<1>6. T # {}
  BY <1>3, <1>5
<1>7. Pick(T) \in T
  BY <1>6, PickIn
<1>8. Total(T \ {Pick(T)}) \in Int
  <2>1. T \ {Pick(T)} \in SUBSET S /\ T \ {Pick(T)} \subseteq T /\ T \ {Pick(T)} # T
    BY <1>3, <1>7
  <2> QED BY <1>2, <2>1
<1>9. SignedAmount(Pick(T)) \in Int
  BY <1>3, <1>7 DEF SignedAmount
<1> QED BY <1>3, <1>5, <1>6, <1>8, <1>9

\* The sum does not depend on the order: any element may be taken out first.
LEMMA TotalRemove ==
    ASSUME NEW S, IsFiniteSet(S), \A l \in S : l.amount \in Int, NEW x \in S
    PROVE  Total(S) = SignedAmount(x) + Total(S \ {x})
<1> DEFINE Bad == { s \in SUBSET S : \E y \in s : Total(s) # SignedAmount(y) + Total(s \ {y}) }
<1>1. SUFFICES ASSUME Bad # {} PROVE FALSE
  OBVIOUS
<1>2. PICK T \in Bad : \A U \in Bad : U \subseteq T => U = T
  <2>1. Bad \subseteq SUBSET S
    OBVIOUS
  <2> HIDE DEF Bad
  <2> QED BY <1>1, <2>1, SmallestSubset
<1>3. PICK y \in T : Total(T) # SignedAmount(y) + Total(T \ {y})
  OBVIOUS
<1>4. T \in SUBSET S
  OBVIOUS
<1> DEFINE p == Pick(T)
<1>5. p \in T
  BY <1>3, PickIn
<1>6. IsFiniteSet(T)
  BY <1>4, FS_Subset
<1>7. Total(T) = SignedAmount(p) + Total(T \ {p})
  BY <1>3, <1>6, TotalStep
<1> HIDE DEF p
<1>8. p # y
  BY <1>3, <1>7
<1>9. Total(T \ {p}) = SignedAmount(y) + Total((T \ {p}) \ {y})
  <2>1. T \ {p} \in SUBSET S /\ T \ {p} \subseteq T /\ T \ {p} # T /\ y \in T \ {p}
    BY <1>3, <1>4, <1>5, <1>8
  <2> QED BY <1>2, <2>1
<1>10. Total(T \ {y}) = SignedAmount(p) + Total((T \ {y}) \ {p})
  <2>1. T \ {y} \in SUBSET S /\ T \ {y} \subseteq T /\ T \ {y} # T /\ p \in T \ {y}
    BY <1>3, <1>4, <1>5, <1>8
  <2> QED BY <1>2, <2>1
<1>11. (T \ {y}) \ {p} = (T \ {p}) \ {y}
  OBVIOUS
<1>12. SignedAmount(p) \in Int /\ SignedAmount(y) \in Int
  BY <1>3, <1>4, <1>5 DEF SignedAmount
<1>13. Total((T \ {p}) \ {y}) \in Int
  <2>1. (T \ {p}) \ {y} \in SUBSET S
    BY <1>4
  <2>2. IsFiniteSet((T \ {p}) \ {y})
    BY <2>1, FS_Subset
  <2> HIDE DEF Bad
  <2> QED BY <2>1, <2>2, TotalType
<1>14. Total(T) = SignedAmount(p) + (SignedAmount(y) + Total((T \ {p}) \ {y}))
  BY <1>7, <1>9
<1>15. Total(T \ {y}) = SignedAmount(p) + Total((T \ {p}) \ {y})
  BY <1>10, <1>11
<1>16. \A i, j, k \in Int : i + (j + k) = j + (i + k)
  OBVIOUS
<1>17. Total(T) = SignedAmount(y) + Total(T \ {y})
  <2> HIDE DEF Bad
  <2> QED BY <1>12, <1>13, <1>14, <1>15, <1>16
<1> QED BY <1>3, <1>17

\* A new leg adds its signed amount.
LEMMA TotalAdd ==
    ASSUME NEW S, IsFiniteSet(S), \A l \in S : l.amount \in Int,
           NEW x, x \notin S, x.amount \in Int
    PROVE  Total(S \cup {x}) = Total(S) + SignedAmount(x)
<1>1. IsFiniteSet(S \cup {x})
  BY FS_AddElement
<1>2. (S \cup {x}) \ {x} = S
  OBVIOUS
<1>3. Total(S \cup {x}) = SignedAmount(x) + Total(S)
  BY <1>1, <1>2, TotalRemove
<1>4. SignedAmount(x) \in Int /\ Total(S) \in Int
  BY TotalType DEF SignedAmount
<1> QED BY <1>3, <1>4

\* A one-to-one image is as large.
LEMMA SameSize ==
    ASSUME NEW S, NEW T, IsFiniteSet(S), NEW f, f \in [S -> T],
           \A x, y \in S : f[x] = f[y] => x = y, \A y \in T : \E x \in S : f[x] = y
    PROVE  Cardinality(T) = Cardinality(S) /\ IsFiniteSet(T)
<1>1. f \in Bijection(S, T)
  BY DEF Bijection, Injection, Surjection, IsInjective
<1>2. ExistsBijection(S, T)
  BY <1>1 DEF ExistsBijection
<1> QED BY <1>2, FS_Bijection

\* The sums of a set and of a one-to-one image differ by at most D for every element of X,
\* when the image of an element of X adds or takes up to D and that of another nothing.
LEMMA TotalImage ==
    ASSUME NEW S, IsFiniteSet(S), NEW f, NEW X, NEW D \in Nat,
           \A l \in S : l.amount \in Int /\ f[l].amount \in Int,
           \A l \in S : SignedAmount(f[l]) - SignedAmount(l) \in (-D)..D,
           \A l \in S \ X : SignedAmount(f[l]) = SignedAmount(l),
           \A l, m \in S : f[l] = f[m] => l = m
    PROVE  LET out == Total({ f[l] : l \in S }) - Total(S)
               may == D * Cardinality(S \cap X)
           IN  -may <= out /\ out <= may
<1> DEFINE Image(s) == { f[l] : l \in s }
           May(s) == D * Cardinality(s \cap X)
           Near(s) == /\ -May(s) <= Total(Image(s)) - Total(s)
                      /\ Total(Image(s)) - Total(s) <= May(s)
           Bad == { s \in SUBSET S : ~Near(s) }
<1>1. SUFFICES ASSUME Bad # {} PROVE FALSE
  OBVIOUS
<1>2. PICK T \in Bad : \A U \in Bad : U \subseteq T => U = T
  <2>1. Bad \subseteq SUBSET S
    OBVIOUS
  <2> HIDE DEF Bad
  <2> QED BY <1>1, <2>1, SmallestSubset
<1>3. T \in SUBSET S /\ ~Near(T)
  OBVIOUS
<1>4. ASSUME NEW s \in SUBSET S
      PROVE  /\ IsFiniteSet(s) /\ IsFiniteSet(Image(s)) /\ \A x \in Image(s) : x.amount \in Int
             /\ Total(s) \in Int /\ Total(Image(s)) \in Int
             /\ IsFiniteSet(s \cap X) /\ Cardinality(s \cap X) \in Nat
  <2>1. IsFiniteSet(s) /\ IsFiniteSet(s \cap X)
    BY FS_Subset
  <2> DEFINE g == [l \in s |-> f[l]]
  <2>2. /\ g \in [s -> Image(s)] /\ \A l, m \in s : g[l] = g[m] => l = m
        /\ \A z \in Image(s) : \E l \in s : g[l] = z
    OBVIOUS
  <2>3. \A x \in Image(s) : x.amount \in Int
    OBVIOUS
  <2>4. \A l \in s : l.amount \in Int
    OBVIOUS
  <2> HIDE DEF g, Image
  <2>5. IsFiniteSet(Image(s))
    BY <2>1, <2>2, SameSize
  <2> QED BY <2>1, <2>3, <2>4, <2>5, TotalType, FS_CardinalityType
<1>5. T # {}
  <2>1. Image({}) = {} /\ {} \cap X = {}
    OBVIOUS
  <2>2. ASSUME T = {} PROVE Near(T)
    <3>1. Total(Image(T)) = 0 /\ Total(T) = 0 /\ Cardinality(T \cap X) = 0
      <4> HIDE DEF Image
      <4> QED BY <2>1, <2>2, TotalEmpty, FS_EmptySet
    <3>2. D * 0 = 0 /\ -0 <= 0 - 0 /\ 0 - 0 <= 0
      OBVIOUS
    <3> HIDE DEF Image
    <3> QED BY <3>1, <3>2
  <2> HIDE DEF Near, Bad
  <2> QED BY <1>3, <2>2
<1>6. PICK y \in T : TRUE
  BY <1>5
<1> DEFINE W == T \ {y}
<1>7. W \in SUBSET S /\ Near(W)
  <2>1. W \in SUBSET S /\ W \subseteq T /\ W # T
    BY <1>3, <1>6
  <2> HIDE DEF W, Near
  <2> QED BY <1>2, <2>1
<1> HIDE DEF Bad
<1>8. Total(T) = SignedAmount(y) + Total(W)
  <2>1. IsFiniteSet(T) /\ \A l \in T : l.amount \in Int
    BY <1>3, <1>4
  <2> HIDE DEF Near, Image
  <2> QED BY <1>6, <2>1, TotalRemove
<1>9. Total(Image(T)) = SignedAmount(f[y]) + Total(Image(W))
  <2>1. Image(T) \ {f[y]} = Image(W) /\ f[y] \in Image(T)
    BY <1>3, <1>6
  <2>2. IsFiniteSet(Image(T)) /\ \A x \in Image(T) : x.amount \in Int
    BY <1>3, <1>4
  <2> HIDE DEF Near, Image, W
  <2> QED BY <2>1, <2>2, TotalRemove
<1>10. PICK a, b, c, e, n \in Int :
           /\ a = SignedAmount(y) /\ b = SignedAmount(f[y]) /\ c = Total(W)
           /\ e = Total(Image(W)) /\ n = Cardinality(W \cap X)
  <2>1. SignedAmount(y) \in Int /\ SignedAmount(f[y]) \in Int
    BY <1>3, <1>6 DEF SignedAmount
  <2>2. Total(W) \in Int /\ Total(Image(W)) \in Int /\ Cardinality(W \cap X) \in Int
    <3> HIDE DEF W, Image, Near
    <3> QED BY <1>4, <1>7
  <2> HIDE DEF W, Image, Near
  <2> QED BY <2>1, <2>2
<1>11. PICK m \in Int : m = D * n
  OBVIOUS
<1>12. -m <= e - c /\ e - c <= m
  <2> HIDE DEF W, Image
  <2> QED BY <1>7, <1>10, <1>11
<1>13. Total(T) = a + c /\ Total(Image(T)) = b + e
  <2> HIDE DEF W, Image, Near
  <2> QED BY <1>8, <1>9, <1>10
<1>14. CASE y \in X
  <2>1. T \cap X = (W \cap X) \cup {y} /\ y \notin W \cap X
    BY <1>6, <1>14
  <2>2. IsFiniteSet(W \cap X)
    BY <1>4, <1>7
  <2>3. Cardinality(T \cap X) = n + 1
    <3> HIDE DEF W, Image, Near
    <3> QED BY <1>10, <2>1, <2>2, FS_AddElement
  <2>4. May(T) = m + D
    <3>1. D * (n + 1) = D * n + D
      OBVIOUS
    <3> QED BY <1>11, <2>3, <3>1
  <2>5. b - a \in (-D)..D
    BY <1>3, <1>6, <1>10
  <2>6. -(m + D) <= (b + e) - (a + c) /\ (b + e) - (a + c) <= m + D
    BY <1>12, <2>5
  <2> HIDE DEF May, Image
  <2> QED BY <1>3, <1>13, <2>4, <2>6
<1>15. CASE y \notin X
  <2>1. T \cap X = W \cap X
    BY <1>6, <1>15
  <2>2. May(T) = m
    <3> HIDE DEF W, Image, Near
    <3> QED BY <1>10, <1>11, <2>1
  <2>3. b = a
    BY <1>3, <1>6, <1>10, <1>15
  <2>4. -m <= (b + e) - (a + c) /\ (b + e) - (a + c) <= m
    BY <1>12, <2>3
  <2> HIDE DEF May, Image
  <2> QED BY <1>3, <1>13, <2>2, <2>4
<1> QED BY <1>14, <1>15

-----------------------------------------------------------------------------
\* A ledger that can be summed.
GoodLedger(ledger) == IsFiniteSet(ledger) /\ \A l \in ledger : l.amount \in Int

\* A balance is the sum of the legs of an account.
LEMMA BalanceIsTotal ==
    ASSUME NEW L, NEW a
    PROVE  GetBalance(L, a) = Total({ l \in L : l.account = a })
BY DEF GetBalance, Total

\* An empty ledger gives everybody nothing.
LEMMA EmptyBalance == \A a : GetBalance({}, a) = 0
<1> SUFFICES ASSUME NEW a PROVE GetBalance({}, a) = 0
  OBVIOUS
<1>1. { l \in {} : l.account = a } = {}
  OBVIOUS
<1> QED BY <1>1, BalanceIsTotal, TotalEmpty

\* A balance is a number.
LEMMA BalanceType ==
    ASSUME NEW L, GoodLedger(L), NEW a
    PROVE  GetBalance(L, a) \in Int
<1>1. IsFiniteSet({ l \in L : l.account = a })
  BY FS_Subset DEF GoodLedger
<1> QED BY <1>1, BalanceIsTotal, TotalType DEF GoodLedger

\* A new leg changes the balance of its account and no other.
LEMMA BalanceAddLeg ==
    ASSUME NEW L, GoodLedger(L), NEW x, x \notin L, x.amount \in Int, NEW a
    PROVE  /\ GoodLedger(L \cup {x})
           /\ GetBalance(L \cup {x}, a) =
                GetBalance(L, a) + IF x.account = a THEN SignedAmount(x) ELSE 0
<1>1. GoodLedger(L \cup {x})
  BY FS_AddElement DEF GoodLedger
<1> DEFINE S == { l \in L : l.account = a }
<1>2. IsFiniteSet(S) /\ (\A l \in S : l.amount \in Int) /\ x \notin S
  BY FS_Subset DEF GoodLedger
<1>3. GetBalance(L, a) \in Int
  BY BalanceType
<1>4. GetBalance(L, a) = Total(S)
  BY BalanceIsTotal
<1>5. CASE x.account = a
  <2>1. { l \in L \cup {x} : l.account = a } = S \cup {x}
    BY <1>5
  <2>2. GetBalance(L \cup {x}, a) = Total(S \cup {x})
    BY <2>1, BalanceIsTotal
  <2> HIDE DEF S
  <2>3. Total(S \cup {x}) = Total(S) + SignedAmount(x)
    BY <1>2, TotalAdd
  <2> QED BY <1>1, <1>4, <1>5, <2>2, <2>3
<1>6. CASE x.account # a
  <2>1. { l \in L \cup {x} : l.account = a } = S
    BY <1>6
  <2>2. GetBalance(L \cup {x}, a) = Total(S)
    BY <2>1, BalanceIsTotal
  <2> HIDE DEF S
  <2> QED BY <1>1, <1>3, <1>4, <1>6, <2>2
<1> QED BY <1>5, <1>6

\* Posting a fresh pair of legs moves the amount, and no other balance changes.
LEMMA PostingMoves ==
    ASSUME NEW L, GoodLedger(L), NEW txn, NEW e, NEW ref, NEW d, NEW c, NEW amt \in Int, NEW idem,
           L \cap LegPair(txn, e, ref, d, c, amt, idem) = {}, NEW a
    PROVE  LET M == L \cup LegPair(txn, e, ref, d, c, amt, idem) IN
           /\ GoodLedger(M)
           /\ GetBalance(M, a) = GetBalance(L, a) + (IF d = a THEN -amt ELSE 0)
                                                  + (IF c = a THEN amt ELSE 0)
<1>x. PICK x : x = [txn |-> txn, account |-> d, direction |-> "debit", amount |-> amt,
       entry_type |-> e, reference_id |-> ref, idempotency_key |-> NullKey]
  OBVIOUS
<1>y. PICK y : y = [txn |-> txn, account |-> c, direction |-> "credit", amount |-> amt,
       entry_type |-> e, reference_id |-> ref, idempotency_key |-> idem]
  OBVIOUS
<1>1. LegPair(txn, e, ref, d, c, amt, idem) = {x, y}
  BY <1>x, <1>y DEF LegPair
<1>2. /\ x.account = d /\ x.amount = amt /\ SignedAmount(x) = -amt /\ x.direction = "debit"
      /\ y.account = c /\ y.amount = amt /\ SignedAmount(y) = amt /\ y.direction = "credit"
  BY <1>x, <1>y DEF SignedAmount
<1>3. x \notin L /\ y \notin L /\ x # y
  BY <1>1, <1>2
<1>k. PICK K : K = L \cup {x}
  OBVIOUS
<1>4. /\ GoodLedger(K)
      /\ GetBalance(K, a) = GetBalance(L, a) + IF d = a THEN -amt ELSE 0
  <2>1. x.amount \in Int /\ x \notin L
    BY <1>2, <1>3
  <2>2. /\ GoodLedger(L \cup {x})
        /\ GetBalance(L \cup {x}, a) =
             GetBalance(L, a) + IF x.account = a THEN SignedAmount(x) ELSE 0
    BY <2>1, BalanceAddLeg
  <2> QED BY <1>2, <1>k, <2>2
<1>5. y \notin K
  BY <1>3, <1>k
<1>6. /\ GoodLedger(K \cup {y})
      /\ GetBalance(K \cup {y}, a) = GetBalance(K, a) + IF c = a THEN amt ELSE 0
  <2>1. y.amount \in Int
    BY <1>2
  <2>2. /\ GoodLedger(K \cup {y})
        /\ GetBalance(K \cup {y}, a) =
             GetBalance(K, a) + IF y.account = a THEN SignedAmount(y) ELSE 0
    BY <1>4, <1>5, <2>1, BalanceAddLeg
  <2> QED BY <1>2, <2>2
<1>7. L \cup LegPair(txn, e, ref, d, c, amt, idem) = K \cup {y}
  BY <1>1, <1>k
<1>8. GetBalance(L, a) \in Int
  BY BalanceType
<1> QED BY <1>4, <1>6, <1>7, <1>8

\* The fields of the legs of a pair.
LEMMA LegPairFields ==
    ASSUME NEW txn, NEW e, NEW ref, NEW d, NEW c, NEW amt, NEW idem,
           NEW l \in LegPair(txn, e, ref, d, c, amt, idem)
    PROVE  /\ l.entry_type = e /\ l.reference_id = ref /\ l.amount = amt
           /\ l.direction \in {"debit", "credit"}
           /\ l.account = IF l.direction = "debit" THEN d ELSE c
           /\ l.idempotency_key = IF l.direction = "debit" THEN NullKey ELSE idem
BY DEF LegPair

\* A pair is made of two legs.
LEMMA LegPairSize ==
    ASSUME NEW txn, NEW e, NEW ref, NEW d, NEW c, NEW amt, NEW idem
    PROVE  LET pair == LegPair(txn, e, ref, d, c, amt, idem) IN
           /\ IsFiniteSet(pair) /\ Cardinality(pair) = 2
           /\ \E l, m \in pair : l.direction # m.direction
<1>x. PICK x : x = [txn |-> txn, account |-> d, direction |-> "debit", amount |-> amt,
       entry_type |-> e, reference_id |-> ref, idempotency_key |-> NullKey]
  OBVIOUS
<1>y. PICK y : y = [txn |-> txn, account |-> c, direction |-> "credit", amount |-> amt,
       entry_type |-> e, reference_id |-> ref, idempotency_key |-> idem]
  OBVIOUS
<1>1. LegPair(txn, e, ref, d, c, amt, idem) = {x, y}
  BY <1>x, <1>y DEF LegPair
<1>2. x.direction = "debit" /\ y.direction = "credit"
  BY <1>x, <1>y
<1>3. x # y
  BY <1>2
<1>4. IsFiniteSet({x}) /\ Cardinality({x}) = 1
  BY FS_Singleton
<1>5. IsFiniteSet({x} \cup {y}) /\ Cardinality({x} \cup {y}) = 2
  BY <1>3, <1>4, FS_AddElement
<1>6. {x} \cup {y} = {x, y}
  OBVIOUS
<1> QED BY <1>1, <1>2, <1>5, <1>6

\* The legs are all of one record and entry type.
LegsAre(pair, e, ref) == \A l \in pair : l.entry_type = e /\ l.reference_id = ref

\* Posting legs for one record adds them to that record's,
LEMMA LegsAfterPosting ==
    ASSUME NEW L, NEW pair, NEW e, NEW ref, LegsAre(pair, e, ref)
    PROVE  LegsOf(L \cup pair, e, ref) = LegsOf(L, e, ref) \cup pair
BY DEF LegsOf, LegsAre

\* and to no other's.
LEMMA OtherLegsAfterPosting ==
    ASSUME NEW L, NEW pair, NEW e, NEW ref, LegsAre(pair, e, ref), NEW f, NEW s, f # e \/ s # ref
    PROVE  LegsOf(L \cup pair, f, s) = LegsOf(L, f, s)
BY DEF LegsOf, LegsAre

\* The legs of a record that has none yet are new.
LEMMA FirstPostingFresh ==
    ASSUME NEW L, NEW txn, NEW e, NEW ref, NEW d, NEW c, NEW amt, NEW idem,
           LegsOf(L, e, ref) = {}
    PROVE  L \cap LegPair(txn, e, ref, d, c, amt, idem) = {}
BY LegPairFields DEF LegsOf

\* The first posting for a record moves the amount, and no other balance changes.
LEMMA FirstPostingMoves ==
    ASSUME NEW L, GoodLedger(L), NEW txn, NEW e, NEW ref, LegsOf(L, e, ref) = {},
           NEW d, NEW c, NEW amt \in Int, NEW idem,
           NEW M, M = L \cup LegPair(txn, e, ref, d, c, amt, idem), NEW a
    PROVE  GetBalance(M, a) = GetBalance(L, a) + (IF d = a THEN -amt ELSE 0)
                                               + (IF c = a THEN amt ELSE 0)
<1>1. L \cap LegPair(txn, e, ref, d, c, amt, idem) = {}
  BY FirstPostingFresh
<1>2. /\ GoodLedger(M)
      /\ GetBalance(M, a) = GetBalance(L, a) + (IF d = a THEN -amt ELSE 0)
                                             + (IF c = a THEN amt ELSE 0)
  BY <1>1, PostingMoves
<1> QED
  BY <1>2
=============================================================================
