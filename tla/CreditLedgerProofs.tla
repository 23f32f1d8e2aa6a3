------------------------- MODULE CreditLedgerProofs -------------------------
(***************************************************************************)
(* For every choice of the constants: the tables of CreditLedger keep their*)
(* types, so nothing is ever overdrawn, and the ledger explains every      *)
(* balance.  Both follow from one inductive invariant, IInv, which adds    *)
(* that the grant row of an order names a bucket: without it a refund      *)
(* could update a bucket that does not exist.  The lemmas about the        *)
(* operators CreditLedger is built from come first: the sweep and the draw *)
(* are recursions and the replay is a sum, so those about recursions and   *)
(* sums are the first of all.  They are stated about sets and functions,   *)
(* not operators, so that they can be cited with concrete arguments.       *)
(*                                                                         *)
(* The second half says where every credit goes: the sums over             *)
(* reservations, buckets and ledger rows agree, reservations draw on what  *)
(* expires first, and the service implements Wallet.                       *)
(***************************************************************************)
EXTENDS CreditLedger, WellFoundedInduction, SequenceTheorems, FiniteSetTheorems, TLAPS

-----------------------------------------------------------------------------
(* Recursion and sums.                                                     *)

\* The order < on the naturals, as the set of its pairs.
Less == {p \in Nat \X Nat : p[1] < p[2]}

\* A set that holds 0, and n + 1 whenever it holds n, holds every natural: a
\* least natural outside it would have a predecessor inside it.
LEMMA Induction ==
  ASSUME NEW T, 0 \in T, \A n \in Nat : n \in T => n + 1 \in T
  PROVE  Nat \subseteq T
<1>1. SUFFICES ASSUME Nat \ T # {} PROVE FALSE
  OBVIOUS
<1>2. IsWellFoundedOn(Less, Nat)
  BY NatLessThanWellFounded, Zenon DEF OpToRel, Less
<1>3. PICK x \in Nat \ T : \A y \in Nat \ T : ~(<<y, x>> \in Less)
  BY <1>1, <1>2, WFMin, Zenon
<1>4. x - 1 \in Nat /\ x - 1 < x
  OBVIOUS
<1>5. x - 1 \in T
  BY <1>3, <1>4 DEF Less
<1> QED
  BY <1>4, <1>5

\* What holds of g[0], and of g[i] whenever it holds of g[i-1], holds of all.
LEMMA Iteration ==
  ASSUME NEW V, NEW n \in Nat, NEW g, g[0] \in V,
         \A i \in 1..n : g[i-1] \in V => g[i] \in V
  PROVE  \A i \in 0..n : g[i] \in V
<1> DEFINE T == {i \in Nat : i <= n => g[i] \in V}
<1>1. 0 \in T
  OBVIOUS
<1>2. ASSUME NEW i \in Nat, i \in T PROVE i + 1 \in T
  <2>1. SUFFICES ASSUME i + 1 <= n PROVE g[i+1] \in V
    OBVIOUS
  <2>2. i + 1 \in 1..n /\ (i + 1) - 1 = i /\ g[i] \in V
    BY <1>2, <2>1
  <2> QED
    BY <2>2
<1>3. Nat \subseteq T
  <2> HIDE DEF T
  <2> QED BY <1>1, <1>2, Induction
<1> QED
  BY <1>3

\* n step functions on the values V.
Steps(n, V) == [1..n -> [V -> V]]

\* g starts at v0 and follows the steps F.
Iterates(g, n, v0, F) ==
  \A i \in 0..n : g[i] = IF i = 0 THEN v0 ELSE F[i][g[i-1]]

\* A recursion has a solution: some function on 0..n starts at v0 and is
\* stepped by F[1], ..., F[n].
LEMMA Recursion ==
  ASSUME NEW V, NEW v0 \in V, NEW n \in Nat, NEW F \in Steps(n, V)
  PROVE  \E g \in [0..n -> V] : Iterates(g, n, v0, F)
<1> USE DEF Steps, Iterates
<1> DEFINE Def(g, m) == Iterates(g, m, v0, F)
           T == {m \in Nat : m <= n => \E g \in [0..m -> V] : Def(g, m)}
<1>1. 0 \in T
  <2> DEFINE g == [i \in 0..0 |-> v0]
  <2>1. g \in [0..0 -> V] /\ Def(g, 0)
    OBVIOUS
  <2> QED
    BY <2>1
<1>2. ASSUME NEW m \in Nat, m \in T PROVE m + 1 \in T
  <2>1. SUFFICES ASSUME m + 1 <= n PROVE \E h \in [0..m+1 -> V] : Def(h, m + 1)
    OBVIOUS
  <2>2. PICK g \in [0..m -> V] : Def(g, m)
    BY <1>2, <2>1
  <2> DEFINE h == [i \in 0..m+1 |-> IF i = m + 1 THEN F[i][g[m]] ELSE g[i]]
  <2>3. g[m] \in V /\ F[m+1] \in [V -> V] /\ F[m+1][g[m]] \in V
    BY <2>1
  <2>4. h \in [0..m+1 -> V]
    BY <2>3
  <2>5. ASSUME NEW i \in 0..m+1 PROVE h[i] = IF i = 0 THEN v0 ELSE F[i][h[i-1]]
    <3>1. CASE i = m + 1
      BY <3>1
    <3>2. CASE i # m + 1
      <4>1. i \in 0..m /\ h[i] = g[i] /\ (i # 0 => h[i-1] = g[i-1])
        BY <3>2
      <4> QED
        BY <4>1, <2>2
    <3> QED
      BY <3>1, <3>2
  <2> QED
    BY <2>4, <2>5
<1> HIDE DEF T
<1>3. Nat \subseteq T
  BY <1>1, <1>2, Induction
<1> QED
  BY <1>3 DEF T

\* Sum(f, n) is the last of the partial sums its recursion defines.
LEMMA SumRecursion ==
  ASSUME NEW n \in Nat, NEW f, \A i \in 1..n : f[i] \in Int
  PROVE  \E g \in [0..n -> Int] : /\ \A i \in 0..n : g[i] = IF i = 0 THEN 0 ELSE g[i-1] + f[i]
                    /\ Sum(f, n) = g[n]
<1> DEFINE F == [i \in 1..n |-> [x \in Int |-> x + f[i]]]
           S == CHOOSE g : g = [i \in 0..n |-> IF i = 0 THEN 0 ELSE g[i-1] + f[i]]
<1>1. F \in Steps(n, Int)
  BY DEF Steps
<1>2. PICK g \in [0..n -> Int] : Iterates(g, n, 0, F)
  <2> HIDE DEF F
  <2>1. 0 \in Int
    OBVIOUS
  <2> QED BY <1>1, <2>1, Recursion, Zenon
<1>3. ASSUME NEW i \in 0..n PROVE g[i] = IF i = 0 THEN 0 ELSE g[i-1] + f[i]
  <2>1. CASE i = 0
    BY <1>2, <2>1 DEF Iterates
  <2>2. CASE i # 0
    <3>1. i \in 1..n /\ i-1 \in 0..n /\ g[i-1] \in Int
      BY <2>2
    <3>2. F[i][g[i-1]] = g[i-1] + f[i]
      BY <3>1
    <3> HIDE DEF F
    <3> QED
      BY <1>2, <2>2, <3>2 DEF Iterates
  <2> QED
    BY <2>1, <2>2
<1>3a. g = [i \in 0..n |-> IF i = 0 THEN 0 ELSE g[i-1] + f[i]]
  BY <1>3
<1>4. S = [i \in 0..n |-> IF i = 0 THEN 0 ELSE S[i-1] + f[i]]
  <2> HIDE DEF F
  <2> QED BY <1>3a, Zenon
<1>5. S[n] = Sum(f, n)
  BY Zenon DEF Sum
<1>6. S \in [0..n -> Int]
  <2> DEFINE T == {i \in Nat : i <= n => S[i] \in Int}
  <2>0. \A i \in 0..n : S[i] = IF i = 0 THEN 0 ELSE S[i-1] + f[i]
    <3> HIDE DEF S
    <3> QED BY <1>4
  <2> HIDE DEF S
  <2>1. 0 \in T
    BY <2>0
  <2>2. ASSUME NEW i \in Nat, i \in T PROVE i + 1 \in T
    <3>1. SUFFICES ASSUME i + 1 <= n PROVE S[i+1] \in Int
      OBVIOUS
    <3>2. i + 1 \in 1..n /\ i + 1 \in 0..n /\ (i + 1) - 1 = i /\ S[i] \in Int
      BY <2>2, <3>1
    <3>3. S[i+1] = S[i] + f[i+1]
      BY <3>2, <2>0
    <3> QED
      BY <3>2, <3>3
  <2>3. Nat \subseteq T
    <3> HIDE DEF T
    <3> QED BY <2>1, <2>2, Induction, Zenon
  <2>4. \A i \in 0..n : S[i] \in Int
    BY <2>3
  <2> QED
    BY <1>4, <2>4
<1>7. \A i \in 0..n : S[i] = IF i = 0 THEN 0 ELSE S[i-1] + f[i]
  <2> HIDE DEF S
  <2> QED BY <1>4
<1> HIDE DEF S
<1> QED
  BY <1>5, <1>6, <1>7

\* Whatever satisfies the recursion of the partial sums is the partial sums.
LEMMA SumUnique ==
  ASSUME NEW n \in Nat, NEW f, \A i \in 1..n : f[i] \in Int,
         NEW g, g[0] = 0, \A i \in 1..n : g[i] = g[i-1] + f[i]
  PROVE  \A i \in 0..n : Sum(f, i) = g[i] /\ g[i] \in Int
<1> SUFFICES ASSUME NEW k \in 0..n PROVE Sum(f, k) = g[k] /\ g[k] \in Int
  OBVIOUS
<1>1. PICK h \in [0..k -> Int] :
        /\ \A i \in 0..k : h[i] = IF i = 0 THEN 0 ELSE h[i-1] + f[i]
        /\ Sum(f, k) = h[k]
  <2>1. k \in Nat /\ \A i \in 1..k : f[i] \in Int
    OBVIOUS
  <2> QED
    BY <2>1, SumRecursion
<1> DEFINE T == {i \in Nat : i <= k => g[i] = h[i]}
<1>2. 0 \in T
  BY <1>1
<1>3. ASSUME NEW i \in Nat, i \in T PROVE i + 1 \in T
  <2>1. SUFFICES ASSUME i + 1 <= k PROVE g[i+1] = h[i+1]
    OBVIOUS
  <2>2. i + 1 \in 1..n /\ i + 1 \in 0..k /\ (i + 1) - 1 = i /\ g[i] = h[i] /\ i + 1 # 0
    BY <1>3, <2>1
  <2>3. g[i+1] = g[i] + f[i+1] /\ h[i+1] = h[i] + f[i+1]
    BY <2>2, <1>1
  <2> QED
    BY <2>2, <2>3
<1>4. Nat \subseteq T
  <2> HIDE DEF T
  <2> QED BY <1>2, <1>3, Induction
<1>5. g[k] = h[k]
  BY <1>4
<1> QED
  BY <1>1, <1>5

\* g satisfies the recursion of the partial sums of f up to n.
PartialSums(g, f, n) ==
  /\ \A i \in 1..n : f[i] \in Int
  /\ g[0] = 0
  /\ \A i \in 1..n : g[i] = g[i-1] + f[i]

\* The same in one premise, for a function that is known by a name only.
LEMMA PartialSumsUnique ==
  ASSUME NEW n \in Nat, NEW f, NEW g, PartialSums(g, f, n)
  PROVE  \A i \in 0..n : Sum(f, i) = g[i] /\ g[i] \in Int
<1>1. /\ \A i \in 1..n : f[i] \in Int
      /\ g[0] = 0
      /\ \A i \in 1..n : g[i] = g[i-1] + f[i]
  BY DEF PartialSums
<1> QED
  BY <1>1, SumUnique

\* Sum unfolds at its last index, and sums of integers are integers.
LEMMA SumStep ==
  ASSUME NEW n \in Nat, NEW f, \A i \in 1..n : f[i] \in Int
  PROVE  /\ Sum(f, 0) = 0
         /\ \A i \in 0..n : Sum(f, i) \in Int
         /\ \A i \in 1..n : Sum(f, i) = Sum(f, i-1) + f[i]
<1>1. PICK g \in [0..n -> Int] :
        /\ \A i \in 0..n : g[i] = IF i = 0 THEN 0 ELSE g[i-1] + f[i]
        /\ Sum(f, n) = g[n]
  BY SumRecursion
<1>2. g[0] = 0 /\ \A i \in 1..n : g[i] = g[i-1] + f[i]
  BY <1>1
<1>3. PartialSums(g, f, n)
  BY <1>2 DEF PartialSums
<1>4. \A i \in 0..n : Sum(f, i) = g[i] /\ g[i] \in Int
  BY <1>3, PartialSumsUnique
<1> QED
  BY <1>2, <1>4

\* Functions that agree on 1..n have the same sum.
LEMMA SumCong ==
  ASSUME NEW n \in Nat, NEW f, NEW h, \A i \in 1..n : f[i] \in Int /\ h[i] = f[i]
  PROVE  Sum(h, n) = Sum(f, n)
<1> DEFINE g == [i \in 0..n |-> Sum(f, i)]
<1>0. /\ Sum(f, 0) = 0
      /\ \A i \in 1..n : Sum(f, i) = Sum(f, i-1) + f[i]
  BY SumStep
<1>1. g[0] = 0 /\ \A i \in 1..n : g[i] = g[i-1] + h[i]
  <2>1. 0 \in 0..n /\ \A i \in 1..n : i \in 0..n /\ i-1 \in 0..n
    OBVIOUS
  <2>2. \A i \in 0..n : g[i] = Sum(f, i)
    OBVIOUS
  <2> HIDE DEF g
  <2> QED BY <2>1, <2>2, <1>0
<1>2. \A i \in 1..n : h[i] \in Int
  OBVIOUS
<1>3. Sum(h, n) = g[n]
  <2> HIDE DEF g
  <2>1. \A i \in 0..n : Sum(h, i) = g[i] /\ g[i] \in Int
    BY <1>1, <1>2, SumUnique
  <2> QED
    BY <2>1
<1> QED
  BY <1>3

\* Changing one value changes the sum by the difference.
LEMMA SumUpdate ==
  ASSUME NEW n \in Nat, NEW f, NEW h, NEW k \in 1..n,
         \A i \in 1..n : f[i] \in Int,
         h[k] \in Int, \A i \in 1..n : i # k => h[i] = f[i]
  PROVE  Sum(h, n) = Sum(f, n) + (h[k] - f[k])
<1> DEFINE g == [i \in 0..n |-> IF i < k THEN Sum(f, i) ELSE Sum(f, i) + (h[k] - f[k])]
<1>1. /\ Sum(f, 0) = 0
      /\ \A i \in 0..n : Sum(f, i) \in Int
      /\ \A i \in 1..n : Sum(f, i) = Sum(f, i-1) + f[i]
  BY SumStep
<1>2. g[0] = 0
  BY <1>1
<1>3. ASSUME NEW i \in 1..n PROVE g[i] = g[i-1] + h[i]
  <2>1. /\ Sum(f, i) \in Int /\ Sum(f, i-1) \in Int /\ f[i] \in Int /\ i-1 \in 0..n
        /\ Sum(f, i) = Sum(f, i-1) + f[i] /\ h[k] \in Int /\ f[k] \in Int
    BY <1>1
  <2>2. CASE i < k
    BY <2>1, <2>2
  <2>3. CASE i = k
    BY <2>1, <2>3
  <2>4. CASE i > k
    BY <2>1, <2>4
  <2> QED
    BY <2>2, <2>3, <2>4
<1>4. \A i \in 1..n : h[i] \in Int
  OBVIOUS
<1>5. Sum(h, n) = g[n]
  <2> HIDE DEF g
  <2>1. \A i \in 0..n : Sum(h, i) = g[i] /\ g[i] \in Int
    BY <1>2, <1>3, <1>4, SumUnique, SMTT(40)
  <2> QED
    BY <2>1
<1> QED
  BY <1>5

\* A function that is nowhere larger has no larger sum.
LEMMA SumMonotone ==
  ASSUME NEW n \in Nat, NEW f, NEW h,
         \A i \in 1..n : f[i] \in Int /\ h[i] \in Int /\ f[i] <= h[i]
  PROVE  Sum(f, n) <= Sum(h, n)
<1> DEFINE T == {i \in Nat : i <= n => Sum(f, i) <= Sum(h, i)}
<1>1. /\ Sum(f, 0) = 0 /\ Sum(h, 0) = 0
      /\ \A i \in 0..n : Sum(f, i) \in Int /\ Sum(h, i) \in Int
      /\ \A i \in 1..n : /\ Sum(f, i) = Sum(f, i-1) + f[i]
                          /\ Sum(h, i) = Sum(h, i-1) + h[i]
  BY SumStep
<1>2. 0 \in T
  BY <1>1
<1>3. ASSUME NEW i \in Nat, i \in T PROVE i + 1 \in T
  <2>1. SUFFICES ASSUME i + 1 <= n PROVE Sum(f, i+1) <= Sum(h, i+1)
    OBVIOUS
  <2>2. i \in 0..n /\ i + 1 \in 1..n /\ (i + 1) - 1 = i /\ Sum(f, i) <= Sum(h, i)
    BY <1>3, <2>1
  <2> QED
    BY <1>1, <2>2
<1>4. Nat \subseteq T
  <2> HIDE DEF T
  <2> QED BY <1>2, <1>3, Induction
<1> QED
  BY <1>4

\* A sum of naturals is a natural, and at least each of its terms.
LEMMA SumBounds ==
  ASSUME NEW n \in Nat, NEW f, \A i \in 1..n : f[i] \in Nat
  PROVE  /\ Sum(f, n) \in Nat
         /\ \A k \in 1..n : f[k] <= Sum(f, n)
<1> DEFINE zero == [i \in 1..n |-> 0]
           Only(k) == [i \in 1..n |-> IF i = k THEN f[k] ELSE 0]
           z == [i \in 0..n |-> 0]
<1>1. z[0] = 0 /\ \A i \in 1..n : zero[i] \in Int /\ z[i] = z[i-1] + zero[i]
  OBVIOUS
<1>2. Sum(zero, n) = 0
  <2>1. \A i \in 0..n : Sum(zero, i) = z[i] /\ z[i] \in Int
    <3> HIDE DEF z, zero
    <3> QED BY <1>1, SumUnique
  <2> QED
    BY <2>1
<1>3. Sum(f, n) \in Int
  BY SumStep
<1>4. \A i \in 1..n : zero[i] \in Int /\ f[i] \in Int /\ zero[i] <= f[i]
  OBVIOUS
<1>5. 0 <= Sum(f, n)
  <2>1. Sum(zero, n) <= Sum(f, n)
    <3> HIDE DEF zero
    <3> QED BY <1>4, SumMonotone
  <2> QED
    BY <2>1, <1>2
<1>6. ASSUME NEW k \in 1..n PROVE f[k] <= Sum(f, n)
  <2> DEFINE o == Only(k)
  <2>1. /\ \A i \in 1..n : zero[i] \in Int /\ (i # k => o[i] = zero[i])
        /\ o[k] \in Int /\ o[k] = f[k] /\ zero[k] = 0
        /\ \A i \in 1..n : o[i] \in Int /\ f[i] \in Int /\ o[i] <= f[i]
    OBVIOUS
  <2> HIDE DEF o, zero
  <2>2. Sum(o, n) = Sum(zero, n) + (o[k] - zero[k])
    BY <2>1, SumUpdate
  <2>3. Sum(o, n) <= Sum(f, n)
    BY <2>1, SumMonotone
  <2> QED
    BY <2>1, <2>2, <2>3, <1>2
<1> QED
  BY <1>3, <1>5, <1>6

\* A function that is 0 everywhere sums to 0.
LEMMA SumZero ==
  ASSUME NEW n \in Nat, NEW f, \A i \in 1..n : f[i] = 0
  PROVE  Sum(f, n) = 0
<1> DEFINE z == [i \in 0..n |-> 0]
<1>1. PartialSums(z, f, n)
  BY DEF PartialSums
<1>2. n \in 0..n /\ z[n] = 0
  OBVIOUS
<1> HIDE DEF z
<1> QED
  BY <1>1, <1>2, PartialSumsUnique

\* A function that is 0 but at k sums to its value there.
LEMMA SumSingle ==
  ASSUME NEW n \in Nat, NEW f, NEW k \in 1..n, f[k] \in Int,
         \A i \in 1..n : i # k => f[i] = 0
  PROVE  Sum(f, n) = f[k]
<1> DEFINE zero == [i \in 1..n |-> 0]
<1>1. \A i \in 1..n : zero[i] \in Int /\ zero[i] = 0 /\ (i # k => f[i] = zero[i])
  OBVIOUS
<1> HIDE DEF zero
<1>2. Sum(zero, n) = 0
  BY <1>1, SumZero
<1>3. Sum(f, n) = Sum(zero, n) + (f[k] - zero[k])
  BY <1>1, SumUpdate
<1> QED
  BY <1>1, <1>2, <1>3

\* The sum of a pointwise sum.
LEMMA SumPlus ==
  ASSUME NEW n \in Nat, NEW f, NEW g, NEW h,
         \A i \in 1..n : f[i] \in Int /\ g[i] \in Int /\ h[i] = f[i] + g[i]
  PROVE  Sum(h, n) = Sum(f, n) + Sum(g, n)
<1> DEFINE p == [i \in 0..n |-> Sum(f, i) + Sum(g, i)]
<1>1. /\ Sum(f, 0) = 0 /\ Sum(g, 0) = 0
      /\ \A i \in 0..n : Sum(f, i) \in Int /\ Sum(g, i) \in Int
      /\ \A i \in 1..n : /\ Sum(f, i) = Sum(f, i-1) + f[i]
                         /\ Sum(g, i) = Sum(g, i-1) + g[i]
  BY SumStep
<1>2. \A i \in 0..n : p[i] = Sum(f, i) + Sum(g, i)
  OBVIOUS
<1>3. n \in 0..n /\ 0 \in 0..n /\ \A i \in 1..n : i \in 0..n /\ i-1 \in 0..n
  OBVIOUS
<1> HIDE DEF p
<1>4. PartialSums(p, h, n)
  <2>1. p[0] = 0 /\ \A i \in 1..n : h[i] \in Int
    BY <1>1, <1>2, <1>3
  <2>2. ASSUME NEW i \in 1..n PROVE p[i] = p[i-1] + h[i]
    <3>1. i \in 0..n /\ i-1 \in 0..n /\ h[i] = f[i] + g[i] /\ f[i] \in Int /\ g[i] \in Int
      BY <1>3
    <3>2. Sum(f, i-1) \in Int /\ Sum(g, i-1) \in Int
      BY <1>1, <3>1
    <3> QED
      BY <1>1, <1>2, <3>1, <3>2
  <2> QED
    BY <2>1, <2>2 DEF PartialSums
<1> QED
  BY <1>2, <1>3, <1>4, PartialSumsUnique

\* h is f up to n, and g after it up to m.
Joins(h, f, n, g, m) ==
  /\ \A i \in 1..n : f[i] \in Int /\ h[i] = f[i]
  /\ \A i \in 1..m : g[i] \in Int /\ h[n+i] = g[i]

\* The sum over two ranges, one after the other.
LEMMA SumConcat ==
  ASSUME NEW n \in Nat, NEW m \in Nat, NEW f, NEW g, NEW h, Joins(h, f, n, g, m)
  PROVE  Sum(h, n + m) = Sum(f, n) + Sum(g, m)
<1>0. /\ \A i \in 1..n : f[i] \in Int /\ h[i] = f[i]
      /\ \A i \in 1..m : g[i] \in Int /\ h[n+i] = g[i]
  BY DEF Joins
<1>1. \A i \in 1..n + m : h[i] \in Int
  <2>1. SUFFICES ASSUME NEW i \in 1..n + m PROVE h[i] \in Int
    OBVIOUS
  <2>2. CASE i <= n
    BY <1>0, <2>2
  <2>3. CASE ~(i <= n)
    <3>1. i - n \in 1..m /\ n + (i - n) = i
      BY <2>3
    <3>2. h[n + (i - n)] = g[i - n] /\ g[i - n] \in Int
      BY <1>0, <3>1
    <3> QED
      BY <3>1, <3>2
  <2> QED
    BY <2>2, <2>3
<1>2. /\ \A i \in 0..n + m : Sum(h, i) \in Int
      /\ \A i \in 1..n + m : Sum(h, i) = Sum(h, i-1) + h[i]
  <2>1. n + m \in Nat
    OBVIOUS
  <2> QED
    BY <1>1, <2>1, SumStep
<1>3. /\ Sum(g, 0) = 0 /\ \A i \in 0..m : Sum(g, i) \in Int
      /\ \A i \in 1..m : Sum(g, i) = Sum(g, i-1) + g[i]
  BY <1>0, SumStep
<1>4. Sum(h, n) = Sum(f, n)
  BY <1>0, SumCong
<1>4a. Sum(f, n) \in Int
  <2>1. n \in 0..n /\ \A i \in 1..n : f[i] \in Int
    BY <1>0
  <2> QED
    BY <2>1, SumStep
<1> DEFINE T == {i \in Nat : i <= m => Sum(h, n + i) = Sum(f, n) + Sum(g, i)}
<1>5. 0 \in T
  BY <1>3, <1>4, <1>4a
<1>6. ASSUME NEW i \in Nat, i \in T PROVE i + 1 \in T
  <2>1. SUFFICES ASSUME i + 1 <= m PROVE Sum(h, n + (i + 1)) = Sum(f, n) + Sum(g, i + 1)
    OBVIOUS
  <2>2. /\ i + 1 \in 1..m /\ (i + 1) - 1 = i /\ i \in 0..m
        /\ n + (i + 1) \in 1..n + m /\ (n + (i + 1)) - 1 = n + i
        /\ Sum(h, n + i) = Sum(f, n) + Sum(g, i)
    BY <1>6, <2>1
  <2>3. Sum(h, n + (i + 1)) = Sum(h, n + i) + h[n + (i + 1)] /\ h[n + (i + 1)] = g[i + 1]
    BY <1>0, <1>2, <2>2
  <2>4. Sum(g, i + 1) = Sum(g, i) + g[i + 1]
    BY <1>3, <2>2
  <2>5. Sum(f, n) \in Int /\ Sum(g, i) \in Int /\ g[i + 1] \in Int
    BY <1>0, <1>3, <1>4a, <2>2
  <2> QED
    BY <2>2, <2>3, <2>4, <2>5
<1>7. Nat \subseteq T
  <2> HIDE DEF T
  <2> QED BY <1>5, <1>6, Induction
<1> QED
  BY <1>7

\* One more term.
LEMMA SumExtend ==
  ASSUME NEW n \in Nat, NEW f, NEW h, h[n+1] \in Int,
         \A i \in 1..n : f[i] \in Int /\ h[i] = f[i]
  PROVE  Sum(h, n + 1) = Sum(f, n) + h[n+1]
<1>1. \A i \in 1..n + 1 : h[i] \in Int
  <2>1. \A i \in 1..n + 1 : i \in 1..n \/ i = n + 1
    OBVIOUS
  <2> QED
    BY <2>1
<1>2. n + 1 \in Nat /\ n + 1 \in 1..n + 1 /\ (n + 1) - 1 = n
  OBVIOUS
<1>3. \A i \in 1..n + 1 : Sum(h, i) = Sum(h, i-1) + h[i]
  BY <1>1, <1>2, SumStep
<1>4. Sum(h, n + 1) = Sum(h, n) + h[n+1]
  BY <1>2, <1>3
<1> QED
  BY <1>4, SumCong

-----------------------------------------------------------------------------
(* Totals of a table: w says what a row counts.                              *)

Counts(w, l) == [i \in 1..Len(l) |-> w[l[i]]]
Total(w, l) == Sum(Counts(w, l), Len(l))

\* What a table's rows count, one by one.
LEMMA TotalTerms ==
  ASSUME NEW V, NEW w \in [V -> Int], NEW l \in Seq(V)
  PROVE  /\ Len(l) \in Nat /\ DOMAIN l = 1..Len(l)
         /\ \A i \in 1..Len(l) : /\ l[i] \in V /\ w[l[i]] \in Int
                                 /\ Counts(w, l)[i] = w[l[i]] /\ Counts(w, l)[i] \in Int
<1>1. Len(l) \in Nat /\ DOMAIN l = 1..Len(l) /\ \A i \in 1..Len(l) : l[i] \in V
  BY LenProperties
<1> QED
  BY <1>1 DEF Counts

\* A total is an integer; if no row counts less than 0 it bounds every row.
LEMMA TotalType ==
  ASSUME NEW V, NEW w \in [V -> Int], NEW l \in Seq(V)
  PROVE  /\ Total(w, l) \in Int
         /\ (\A x \in V : w[x] \in Nat)
              => Total(w, l) \in Nat /\ \A i \in DOMAIN l : w[l[i]] <= Total(w, l)
<1>1. /\ Len(l) \in Nat /\ DOMAIN l = 1..Len(l)
      /\ \A i \in 1..Len(l) : /\ l[i] \in V /\ w[l[i]] \in Int
                              /\ Counts(w, l)[i] = w[l[i]] /\ Counts(w, l)[i] \in Int
  BY TotalTerms
<1>2. Len(l) \in 0..Len(l)
  BY <1>1
<1>3. Sum(Counts(w, l), Len(l)) \in Int
  BY <1>1, <1>2, SumStep
<1>4. ASSUME \A x \in V : w[x] \in Nat
      PROVE  /\ Sum(Counts(w, l), Len(l)) \in Nat
             /\ \A i \in 1..Len(l) : Counts(w, l)[i] <= Sum(Counts(w, l), Len(l))
  <2>1. \A i \in 1..Len(l) : Counts(w, l)[i] \in Nat
    BY <1>1, <1>4
  <2> QED
    BY <1>1, <2>1, SumBounds
<1> QED
  BY <1>1, <1>3, <1>4 DEF Total

\* The total of two tables, one after the other.
LEMMA TotalConcat ==
  ASSUME NEW V, NEW w \in [V -> Int], NEW l \in Seq(V), NEW new \in Seq(V)
  PROVE  Total(w, l \o new) = Total(w, l) + Total(w, new)
<1> DEFINE all == l \o new
           n == Len(l)
           m == Len(new)
           f == Counts(w, l)
           g == Counts(w, new)
           h == Counts(w, all)
<1>1. n \in Nat /\ \A i \in 1..n : f[i] = w[l[i]] /\ f[i] \in Int
  BY TotalTerms, SMTT(40)
<1>2. m \in Nat /\ \A i \in 1..m : g[i] = w[new[i]] /\ g[i] \in Int
  BY TotalTerms
<1>3. /\ all \in Seq(V) /\ Len(all) = n + m
      /\ \A i \in 1..n + m : all[i] = IF i <= n THEN l[i] ELSE new[i - n]
  BY ConcatProperties
<1> HIDE DEF all
<1>4. \A i \in 1..n + m : h[i] = w[all[i]]
  <2>1. all \in Seq(V)
    BY <1>3
  <2>2. \A i \in 1..Len(all) : h[i] = w[all[i]]
    BY <2>1, TotalTerms
  <2> QED
    BY <1>3, <2>2
<1>5. Total(w, all) = Sum(h, n + m) /\ Total(w, l) = Sum(f, n) /\ Total(w, new) = Sum(g, m)
  BY <1>3 DEF Total
<1> HIDE DEF f, g, h, n, m
<1>6. \A i \in 1..n : f[i] \in Int /\ h[i] = f[i]
  <2> TAKE i \in 1..n
  <2>1. i \in 1..n + m /\ i <= n
    BY <1>1, <1>2
  <2>2. f[i] = w[l[i]] /\ f[i] \in Int
    BY <1>1
  <2>3. all[i] = l[i]
    BY <1>3, <2>1
  <2>4. h[i] = w[all[i]]
    BY <1>4, <2>1
  <2> QED
    BY <2>2, <2>3, <2>4
<1>7. \A i \in 1..m : g[i] \in Int /\ h[n+i] = g[i]
  <2> TAKE i \in 1..m
  <2>1. n + i \in 1..n + m /\ ~(n + i <= n) /\ (n + i) - n = i
    BY <1>1, <1>2
  <2>2. h[n+i] = w[all[n+i]] /\ all[n+i] = new[i]
    BY <1>3, <1>4, <2>1
  <2> QED
    BY <1>2, <2>2
<1>8. Sum(h, n + m) = Sum(f, n) + Sum(g, m)
  <2>1. n \in Nat /\ m \in Nat
    BY <1>1, <1>2
  <2>2. Joins(h, f, n, g, m)
    BY <1>6, <1>7 DEF Joins
  <2> QED
    BY <2>1, <2>2, SumConcat
<1> QED
  BY <1>5, <1>8 DEF all

\* The total of one row.
LEMMA TotalOne ==
  ASSUME NEW V, NEW w \in [V -> Int], NEW x \in V
  PROVE  <<x>> \in Seq(V) /\ Total(w, <<x>>) = w[x]
<1> DEFINE l == <<x>>
<1>1. l \in Seq(V) /\ Len(l) = 1 /\ l[1] = x
  OBVIOUS
<1> HIDE DEF l
<1>2. 1 \in Nat /\ 1 \in 1..1 /\ \A i \in 1..1 : i = 1
  OBVIOUS
<1>3. Counts(w, l)[1] = w[x] /\ Counts(w, l)[1] \in Int
  <2>1. Counts(w, l)[1] = w[l[1]]
    BY <1>1, <1>2 DEF Counts
  <2> QED
    BY <1>1, <2>1
<1>4. Sum(Counts(w, l), 1) = Counts(w, l)[1]
  BY <1>2, <1>3, SumSingle
<1>5. Total(w, l) = w[x]
  BY <1>1, <1>3, <1>4 DEF Total
<1> QED
  BY <1>1, <1>5 DEF l

\* The total with one more row.
LEMMA TotalAppend ==
  ASSUME NEW V, NEW w \in [V -> Int], NEW l \in Seq(V), NEW x \in V
  PROVE  Total(w, Append(l, x)) = Total(w, l) + w[x]
<1>1. Append(l, x) = l \o <<x>>
  BY AppendIsConcat
<1>2. <<x>> \in Seq(V) /\ Total(w, <<x>>) = w[x]
  BY TotalOne
<1>3. Total(w, l \o <<x>>) = Total(w, l) + Total(w, <<x>>)
  BY <1>2, TotalConcat
<1> QED
  BY <1>1, <1>2, <1>3

\* k is the table l with row i counting d[i] more, for every i.
CountsMore(w, k, l, d) ==
  /\ Len(k) = Len(l)
  /\ \A i \in DOMAIN l : d[i] \in Int /\ w[k[i]] = w[l[i]] + d[i]

\* Rows that count d more each: the total grows by the sum of d.
LEMMA TotalChanged ==
  ASSUME NEW V, NEW w \in [V -> Int], NEW l \in Seq(V), NEW k \in Seq(V), NEW d,
         CountsMore(w, k, l, d)
  PROVE  Total(w, k) = Total(w, l) + Sum(d, Len(l))
<1> DEFINE n == Len(l)
           f == Counts(w, l)
           h == Counts(w, k)
<1>1. n \in Nat /\ DOMAIN l = 1..n /\ \A i \in 1..n : f[i] = w[l[i]] /\ f[i] \in Int
  BY TotalTerms
<1>2. \A i \in 1..Len(k) : h[i] = w[k[i]]
  BY TotalTerms
<1>3. Len(k) = n /\ \A i \in 1..n : d[i] \in Int /\ w[k[i]] = w[l[i]] + d[i]
  BY <1>1 DEF CountsMore
<1>4. Total(w, l) = Sum(f, n) /\ Total(w, k) = Sum(h, n)
  BY <1>3 DEF Total
<1> HIDE DEF f, h, n
<1>5. \A i \in 1..n : f[i] \in Int /\ d[i] \in Int /\ h[i] = f[i] + d[i]
  BY <1>1, <1>2, <1>3
<1>6. n \in Nat
  BY <1>1
<1>7. Sum(h, n) = Sum(f, n) + Sum(d, n)
  BY <1>5, <1>6, SumPlus
<1> QED
  BY <1>4, <1>7 DEF n

\* k is the table l with x as its row r.
RowSet(k, l, r, x) ==
  Len(k) = Len(l) /\ k[r] = x /\ \A i \in DOMAIN l : i # r => k[i] = l[i]

\* The total after one row has changed.
LEMMA TotalUpdated ==
  ASSUME NEW V, NEW w \in [V -> Int], NEW l \in Seq(V), NEW k \in Seq(V),
         NEW r \in DOMAIN l, NEW x \in V, RowSet(k, l, r, x)
  PROVE  Total(w, k) = Total(w, l) + (w[x] - w[l[r]])
<1> DEFINE d == [i \in 1..Len(l) |-> IF i = r THEN w[x] - w[l[r]] ELSE 0]
<1>1. Len(l) \in Nat /\ DOMAIN l = 1..Len(l) /\ r \in 1..Len(l)
  BY LenProperties
<1>2. \A i \in 1..Len(l) : w[l[i]] \in Int
  BY LenProperties
<1>3. w[x] \in Int /\ w[l[r]] \in Int
  BY <1>1, <1>2
<1>4. \A i \in 1..Len(l) : d[i] = IF i = r THEN w[x] - w[l[r]] ELSE 0
  OBVIOUS
<1> HIDE DEF d
<1>5. Len(k) = Len(l) /\ k[r] = x /\ \A i \in 1..Len(l) : i # r => k[i] = l[i]
  BY <1>1 DEF RowSet
<1>6. ASSUME NEW i \in 1..Len(l) PROVE d[i] \in Int /\ w[k[i]] = w[l[i]] + d[i]
  <2>1. CASE i = r
    BY <1>3, <1>4, <1>5, <2>1
  <2>2. CASE i # r
    <3>1. d[i] = 0 /\ k[i] = l[i] /\ w[l[i]] \in Int
      BY <1>2, <1>4, <1>5, <2>2
    <3> QED
      BY <3>1
  <2> QED
    BY <2>1, <2>2
<1>7. CountsMore(w, k, l, d)
  BY <1>1, <1>5, <1>6 DEF CountsMore
<1>8. Total(w, k) = Total(w, l) + Sum(d, Len(l))
  BY <1>7, TotalChanged
<1>9. d[r] = w[x] - w[l[r]] /\ d[r] \in Int
  BY <1>1, <1>3, <1>4
<1>10. \A i \in 1..Len(l) : i # r => d[i] = 0
  BY <1>4
<1>11. Sum(d, Len(l)) = d[r]
  BY <1>1, <1>9, <1>10, SumSingle
<1> QED
  BY <1>8, <1>9, <1>11

\* Rows that count nothing.
LEMMA TotalNone ==
  ASSUME NEW V, NEW w \in [V -> Int], NEW l \in Seq(V), \A i \in DOMAIN l : w[l[i]] = 0
  PROVE  Total(w, l) = 0
<1>1. Len(l) \in Nat /\ \A i \in 1..Len(l) : Counts(w, l)[i] = 0
  BY TotalTerms
<1> QED
  BY <1>1, SumZero DEF Total
-----------------------------------------------------------------------------
(* Buckets and the order in which they are used.                           *)

\* A function on 1..n is a sequence.
LEMMA SequenceOf ==
  ASSUME NEW S, NEW n \in Nat, NEW f \in [1..n -> S]
  PROVE  f \in Seq(S) /\ Len(f) = n /\ DOMAIN f = 1..n
  OBVIOUS

\* What the type invariant says of the bucket table.
LEMMA BucketRows ==
  ASSUME TypeOK
  PROVE  /\ DOMAIN buckets = 1..Len(buckets)
         /\ Len(buckets) \in Nat /\ Len(buckets) <= MaxBuckets
         /\ DOMAIN buckets \subseteq BucketIds
         /\ \A b \in DOMAIN buckets : buckets[b] \in Bucket
  BY BoundsAssumption DEF TypeOK, BucketIds

\* The order of buckets is irreflexive: creation order breaks every tie.
LEMMA BeforeIsStrict ==
  ASSUME TypeOK, NEW b \in DOMAIN buckets
  PROVE  ~Before(b, b)
<1>1. buckets[b].expiresAt = Never \/ buckets[b].expiresAt \in Int
  BY BucketRows DEF Bucket, Times
<1>2. b \in Int
  BY BucketRows
<1> QED
  BY <1>1, <1>2 DEF Before

\* The ordered buckets of a set are a sequence of them without repetition.
LEMMA OrderedIsSequence ==
  ASSUME TypeOK, NEW S \in SUBSET DOMAIN buckets, NEW s \in Ordered(S)
  PROVE  /\ s \in Seq(S) /\ s \in Seq(DOMAIN buckets)
         /\ Len(s) \in Nat /\ DOMAIN s = 1..Len(s)
         /\ \A i, j \in 1..Len(s) : s[i] = s[j] => i = j
<1>1. Cardinality(S) \in Nat
  <2>1. IsFiniteSet(DOMAIN buckets)
    BY BucketRows, FS_Interval
  <2> QED
    BY <2>1, FS_Subset, FS_CardinalityType
<1>2. s \in [1..Cardinality(S) -> S]
  BY DEF Ordered
<1>3. s \in Seq(S) /\ Len(s) = Cardinality(S) /\ DOMAIN s = 1..Len(s)
  BY <1>1, <1>2, SequenceOf
<1>4. s \in Seq(DOMAIN buckets)
  BY <1>3, SeqMonotonic
<1>5. ASSUME NEW i \in 1..Len(s), NEW j \in 1..Len(s), i < j PROVE s[i] # s[j]
  <2>1. Before(s[i], s[j])
    BY <1>3, <1>5 DEF Ordered
  <2>2. s[i] \in DOMAIN buckets
    BY <1>3, <1>2
  <2> QED
    BY <2>1, <2>2, BeforeIsStrict
<1>6. ASSUME NEW i \in 1..Len(s), NEW j \in 1..Len(s), s[i] = s[j] PROVE i = j
  BY <1>5, <1>6, <1>1, <1>3
<1> QED
  BY <1>1, <1>3, <1>4, <1>6

\* Closing a bucket yields a bucket.
LEMMA ClosedType ==
  ASSUME NEW b \in Bucket, NEW t
  PROVE  Closed(b, t) \in Bucket
  BY DEF Closed, Bucket

\* Moving at most what is left of a bucket into its hold yields a bucket.
LEMMA HeldType ==
  ASSUME NEW b \in Bucket, NEW n \in Nat, n <= b.remaining
  PROVE  [b EXCEPT !.remaining = @ - n, !.reserved = @ + n] \in Bucket
<1>1. b.remaining \in Nat /\ b.reserved \in Nat
  BY DEF Bucket
<1>2. b.remaining - n \in Nat /\ b.reserved + n \in Nat
  BY <1>1
<1> QED
  BY <1>2 DEF Bucket

\* Giving up at most what a bucket holds, and returning it, yields a bucket.
LEMMA UnheldType ==
  ASSUME NEW b \in Bucket, NEW n \in Nat, n <= b.reserved
  PROVE  [b EXCEPT !.reserved = @ - n] \in Bucket /\ ReturnTo(b, n) \in Bucket
<1>1. b.remaining \in Nat /\ b.reserved \in Nat
  BY DEF Bucket
<1>2. b.reserved - n \in Nat /\ b.remaining + n \in Nat
  BY <1>1
<1> QED
  BY <1>2 DEF Bucket, ReturnTo

\* A release restores a natural number of credits.
LEMMA RestoredType ==
  ASSUME NEW res \in Reservation
  PROVE  Restored(res) \in Nat
<1> DEFINE live == [b \in BucketIds |->
                      IF b \in DOMAIN buckets /\ Live(buckets[b], now) THEN res.alloc[b] ELSE 0]
<1>1. res.alloc \in [BucketIds -> Nat] /\ res.amount \in Nat
  BY DEF Reservation
<1>2. live \in [BucketIds -> Nat]
  BY <1>1
<1>3. \A i \in 1..MaxBuckets : live[i] \in Nat /\ res.alloc[i] \in Nat
  BY <1>1, <1>2 DEF BucketIds
<1> HIDE DEF live
<1>4. Sum(live, MaxBuckets) \in Nat /\ Sum(res.alloc, MaxBuckets) \in Nat
  BY <1>3, SumBounds, BoundsAssumption
<1>5. Restored(res) = LET back == res.amount - Sum(res.alloc, MaxBuckets) + Sum(live, MaxBuckets)
                      IN  IF back < 0 THEN 0 ELSE back
  BY DEF Restored, live
<1> QED
  BY <1>1, <1>4, <1>5

-----------------------------------------------------------------------------
(* The expiry sweep.                                                       *)

\* The balances of all accounts.
Balances == [Users -> Nat]

\* The steps of a sweep, as functions on balances.
SweepStep(s) ==
  [i \in 1..Len(s) |-> [x \in Balances |-> Swept(x, buckets[s[i]])]]

\* Sweeping one bucket does not overdraw its account.
LEMMA SweptType ==
  ASSUME NEW x \in Balances, NEW b \in Bucket
  PROVE  Swept(x, b) \in Balances
<1>1. b.user \in Users /\ b.remaining \in Nat
  BY DEF Bucket
<1>2. ASSUME NEW n \in Nat PROVE n - Lesser(b.remaining, n) \in Nat
  BY <1>1 DEF Lesser
<1> QED
  BY <1>1, <1>2 DEF Balances, Swept

\* The balances of a sweep are balances, and each follows from the one before.
LEMMA SweepBalanceType ==
  ASSUME TypeOK, NEW s \in Seq(DOMAIN buckets)
  PROVE  /\ SweepBalance(s) \in [0..Len(s) -> Balances]
         /\ SweepBalance(s)[0] = balance
         /\ \A i \in 1..Len(s) :
              SweepBalance(s)[i] = Swept(SweepBalance(s)[i-1], buckets[s[i]])
<1> DEFINE F == SweepStep(s)
           N == Len(s)
           B == CHOOSE g : g = [i \in 0..Len(s) |->
                  IF i = 0 THEN balance ELSE Swept(g[i-1], buckets[s[i]])]
<1>1. N \in Nat /\ balance \in Balances
  BY LenProperties DEF TypeOK, Balances
<1>2. ASSUME NEW i \in 1..N, NEW x \in Balances PROVE Swept(x, buckets[s[i]]) \in Balances
  BY BucketRows, LenProperties, SweptType
<1>3. F \in Steps(N, Balances)
  BY <1>2 DEF Steps, SweepStep
<1>4. \A i \in 1..N : \A x \in Balances : F[i][x] = Swept(x, buckets[s[i]])
  BY DEF SweepStep
<1>5. PICK g \in [0..N -> Balances] : Iterates(g, N, balance, F)
  <2> HIDE DEF F, N
  <2> QED
    BY <1>1, <1>3, Recursion
<1>6. ASSUME NEW i \in 0..N
      PROVE  g[i] = IF i = 0 THEN balance ELSE Swept(g[i-1], buckets[s[i]])
  <2> HIDE DEF F, N
  <2>1. g[i] = IF i = 0 THEN balance ELSE F[i][g[i-1]]
    BY <1>5 DEF Iterates
  <2>2. i # 0 => i \in 1..N /\ i-1 \in 0..N
    BY <1>1
  <2>3. i # 0 => g[i-1] \in Balances
    BY <2>2
  <2> QED
    BY <1>4, <2>1, <2>2, <2>3
<1>7. g = [i \in 0..Len(s) |-> IF i = 0 THEN balance ELSE Swept(g[i-1], buckets[s[i]])]
  <2> HIDE DEF F
  <2> QED BY <1>6
<1>8. B = [i \in 0..Len(s) |-> IF i = 0 THEN balance ELSE Swept(B[i-1], buckets[s[i]])]
  BY <1>7, Zenon
<1>9. SweepBalance(s) = B
  BY Zenon DEF SweepBalance
<1> HIDE DEF B, F
<1>10. \A i \in 0..N : B[i] = IF i = 0 THEN balance ELSE Swept(B[i-1], buckets[s[i]])
  BY <1>8
<1>11. \A i \in 1..N : i-1 \in 0..N /\ i \in 0..N /\ i # 0
  BY <1>1
<1> HIDE DEF N
<1>12. B[0] = balance /\ \A i \in 1..N : B[i] = Swept(B[i-1], buckets[s[i]])
  BY <1>1, <1>10, <1>11
<1>13. \A i \in 1..N : B[i-1] \in Balances => B[i] \in Balances
  BY <1>2, <1>12
<1>14. \A i \in 0..N : B[i] \in Balances
  BY <1>1, <1>12, <1>13, Iteration
<1>15. B \in [0..N -> Balances]
  BY <1>8, <1>14 DEF N
<1> QED
  BY <1>9, <1>12, <1>15 DEF N

-----------------------------------------------------------------------------
(* The draw of a reservation.                                              *)

\* Allocations of at most a credits that take no bucket of S beyond what it
\* holds, and nothing from the others.
Allocs(S, a) ==
  {alloc \in [BucketIds -> Nat] :
     /\ Sum(alloc, MaxBuckets) <= a
     /\ \A b \in BucketIds : alloc[b] <= IF b \in S THEN buckets[b].remaining ELSE 0}

\* The total of an allocation is a natural and bounds each of its parts.
LEMMA AllocSum ==
  ASSUME NEW alloc \in [BucketIds -> Nat]
  PROVE  Sum(alloc, MaxBuckets) \in Nat /\ \A b \in BucketIds : alloc[b] <= Sum(alloc, MaxBuckets)
<1>1. \A i \in 1..MaxBuckets : alloc[i] \in Nat
  BY DEF BucketIds
<1> QED
  BY <1>1, SumBounds, BoundsAssumption DEF BucketIds

\* One draw keeps an allocation within the amount and the buckets.
LEMMA DrawnType ==
  ASSUME TypeOK, NEW S \in SUBSET DOMAIN buckets, NEW a \in Nat,
         NEW alloc \in Allocs(S, a), NEW b \in S
  PROVE  Drawn(alloc, b, a) \in Allocs(S, a)
<1> DEFINE total == Sum(alloc, MaxBuckets)
           part  == Lesser(buckets[b].remaining, a - total)
           next  == Drawn(alloc, b, a)
<1>1. alloc \in [BucketIds -> Nat] /\ total <= a
  BY DEF Allocs
<1>2. total \in Nat /\ alloc[b] <= total
  BY <1>1, AllocSum, BucketRows
<1>3. b \in BucketIds /\ b \in 1..MaxBuckets /\ buckets[b].remaining \in Nat
  BY BucketRows DEF Bucket, BucketIds
<1>4. part \in Nat /\ part <= a - total /\ part <= buckets[b].remaining
  BY <1>1, <1>2, <1>3 DEF Lesser
<1>5. next = [alloc EXCEPT ![b] = part]
  BY DEF Drawn
<1> HIDE DEF part, next
<1>6. next \in [BucketIds -> Nat] /\ next[b] = part
      /\ \A c \in BucketIds : c # b => next[c] = alloc[c]
  BY <1>1, <1>3, <1>4, <1>5
<1>7. Sum(next, MaxBuckets) = total + (next[b] - alloc[b])
  <2>1. /\ \A i \in 1..MaxBuckets : alloc[i] \in Int
        /\ next[b] \in Int
        /\ \A i \in 1..MaxBuckets : i # b => next[i] = alloc[i]
    BY <1>1, <1>4, <1>6 DEF BucketIds
  <2> QED
    BY <2>1, <1>3, SumUpdate, BoundsAssumption
<1>8. alloc[b] \in Nat
  BY <1>1, <1>3
<1>9. Sum(next, MaxBuckets) <= a
  <2> HIDE DEF total
  <2> QED BY <1>1, <1>2, <1>4, <1>6, <1>7, <1>8
<1>10. \A c \in BucketIds : next[c] <= IF c \in S THEN buckets[c].remaining ELSE 0
  BY <1>4, <1>6 DEF Allocs
<1> QED
  BY <1>6, <1>9, <1>10 DEF Allocs, next

\* D is the draw of a credits from the buckets of s, one after the other.
IsDraw(D, s, a) ==
  /\ D[0] = [b \in BucketIds |-> 0]
  /\ \A i \in 1..Len(s) : D[i] = Drawn(D[i-1], s[i], a)

\* Allocate is the last step of a draw, and every step keeps within bounds.
LEMMA DrawSteps ==
  ASSUME TypeOK, NEW S \in SUBSET DOMAIN buckets, NEW s \in Seq(S), NEW a \in Nat
  PROVE  \E D : /\ IsDraw(D, s, a)
                /\ \A i \in 0..Len(s) : D[i] \in Allocs(S, a)
                /\ Allocation(s, a) = D[Len(s)]
<1> DEFINE none == [b \in BucketIds |-> 0]
           N == Len(s)
           V == Allocs(S, a)
           F == [i \in 1..N |-> [x \in V |-> Drawn(x, s[i], a)]]
           D == CHOOSE g : g = [i \in 0..Len(s) |->
                  IF i = 0 THEN [b \in BucketIds |-> 0] ELSE Drawn(g[i-1], s[i], a)]
<1>1. N \in Nat
  BY LenProperties
<1>2. none \in V
  <2>1. none \in [BucketIds -> Nat] /\ \A b \in BucketIds : none[b] = 0
    OBVIOUS
  <2>2. Sum(none, MaxBuckets) = 0
    <3> DEFINE z == [i \in 0..MaxBuckets |-> 0]
    <3>1. /\ \A i \in 1..MaxBuckets : none[i] \in Int
          /\ z[0] = 0 /\ \A i \in 1..MaxBuckets : z[i] = z[i-1] + none[i]
      BY BoundsAssumption DEF BucketIds
    <3>2. MaxBuckets \in 0..MaxBuckets /\ z[MaxBuckets] = 0
      BY BoundsAssumption
    <3>3. \A i \in 0..MaxBuckets : Sum(none, i) = z[i] /\ z[i] \in Int
      <4> HIDE DEF z, none
      <4>1. MaxBuckets \in Nat
        BY BoundsAssumption
      <4> QED
        BY <3>1, <4>1, SumUnique, ZenonT(30)
    <3> QED
      BY <3>2, <3>3
  <2>3. \A b \in S : buckets[b].remaining \in Nat
    BY BucketRows DEF Bucket
  <2> QED
    BY <2>1, <2>2, <2>3 DEF Allocs
<1>3. ASSUME NEW i \in 1..N, NEW x \in V PROVE Drawn(x, s[i], a) \in V
  <2>1. s[i] \in S
    BY LenProperties
  <2> QED
    BY <2>1, DrawnType
<1> HIDE DEF V
<1>4. F \in Steps(N, V)
  BY <1>3 DEF Steps
<1>5. \A i \in 1..N : \A x \in V : F[i][x] = Drawn(x, s[i], a)
  OBVIOUS
<1>6. PICK g \in [0..N -> V] : Iterates(g, N, none, F)
  <2> HIDE DEF F, N, none
  <2> QED
    BY <1>1, <1>2, <1>4, Recursion
<1>7. ASSUME NEW i \in 0..N
      PROVE  g[i] = IF i = 0 THEN none ELSE Drawn(g[i-1], s[i], a)
  <2> HIDE DEF F, N, none
  <2>1. g[i] = IF i = 0 THEN none ELSE F[i][g[i-1]]
    BY <1>6 DEF Iterates
  <2>2. i # 0 => i \in 1..N /\ i-1 \in 0..N
    BY <1>1
  <2>3. i # 0 => g[i-1] \in V
    BY <2>2
  <2> QED
    BY <1>5, <2>1, <2>2, <2>3
<1>8. g = [i \in 0..Len(s) |->
             IF i = 0 THEN [b \in BucketIds |-> 0] ELSE Drawn(g[i-1], s[i], a)]
  <2> HIDE DEF F
  <2> QED BY <1>7
<1>9. D = [i \in 0..Len(s) |->
             IF i = 0 THEN [b \in BucketIds |-> 0] ELSE Drawn(D[i-1], s[i], a)]
  BY <1>8, Zenon
<1>10. Allocation(s, a) = D[Len(s)]
  BY Zenon DEF Allocation
<1> HIDE DEF D, F
<1>11. \A i \in 0..N : D[i] = IF i = 0 THEN none ELSE Drawn(D[i-1], s[i], a)
  BY <1>9
<1>12. \A i \in 1..N : i \in 0..N /\ i # 0
  BY <1>1
<1>13. 0 \in 0..N /\ N \in 0..N
  BY <1>1
<1> HIDE DEF N, none
<1>14. D[0] \in V /\ \A i \in 1..N : D[i] = Drawn(D[i-1], s[i], a)
  BY <1>2, <1>11, <1>12, <1>13
<1>15. \A i \in 1..N : D[i-1] \in V => D[i] \in V
  BY <1>3, <1>14
<1>16. \A i \in 0..N : D[i] \in V
  BY <1>1, <1>14, <1>15, Iteration
<1>17. D[0] = [b \in BucketIds |-> 0]
  BY <1>11, <1>13 DEF none
<1>18. IsDraw(D, s, a)
  BY <1>14, <1>17 DEF IsDraw, N
<1> QED
  BY <1>10, <1>16, <1>18 DEF N, V

\* So does the whole draw: Allocate never takes more than was asked for, nor
\* more of a bucket than it has left.
LEMMA AllocationType ==
  ASSUME TypeOK, NEW S \in SUBSET DOMAIN buckets, NEW s \in Seq(S), NEW a \in Nat
  PROVE  Allocation(s, a) \in Allocs(S, a)
<1>1. Len(s) \in 0..Len(s)
  BY LenProperties
<1> QED
  BY <1>1, DrawSteps

-----------------------------------------------------------------------------
(* The rows and buckets of a sweep.                                        *)

\* A row of typed columns is a row.
LEMMA NewRowType ==
  ASSUME NEW u \in Users, NEW type \in RowTypes, NEW amount \in Int, NEW key \in RowKeys,
         NEW after \in Nat, NEW held \in Nat, NEW b \in Nat, NEW r \in Nat
  PROVE  NewRow(u, type, amount, key, after, held, b, r) \in Row
  BY DEF NewRow, Row

\* Every caller's key is a ledger key.
LEMMA KeysType ==
  /\ \A k \in Keys : ClientKey(k) \in RowKeys /\ ReserveKey(k) \in RowKeys
  /\ \A o \in Orders : OrderKey(o) \in RowKeys /\ ClawbackKey(o) \in RowKeys
  /\ \A b \in BucketIds : ExpireKey(b) \in RowKeys
  BY DEF ClientKey, ReserveKey, OrderKey, ClawbackKey, ExpireKey, RowKeys

\* A sweep writes one row per bucket, and what its columns say.
LEMMA SweepRowsType ==
  ASSUME TypeOK, NEW s \in Seq(DOMAIN buckets)
  PROVE  /\ SweepRows(s) \in Seq(Row)
         /\ Len(SweepRows(s)) = Len(s)
         /\ \A i \in 1..Len(s) :
              LET u   == buckets[s[i]].user
                  bal == SweepBalance(s)
                  row == SweepRows(s)[i]
              IN  /\ row.user = u
                  /\ row.amount = bal[i][u] - bal[i-1][u]
                  /\ row.balanceAfter = bal[i][u]
                  /\ row.key = ExpireKey(s[i])
<1> DEFINE bal == SweepBalance(s)
           U(i) == buckets[s[i]].user
           R(i) == NewRow(U(i), "expire", bal[i][U(i)] - bal[i-1][U(i)], ExpireKey(s[i]),
                          bal[i][U(i)], reserved[U(i)], s[i], 0)
<1>1. Len(s) \in Nat /\ \A i \in 1..Len(s) : s[i] \in DOMAIN buckets
  BY LenProperties
<1>2. bal \in [0..Len(s) -> Balances]
  BY SweepBalanceType
<1>3. reserved \in [Users -> Nat]
  BY DEF TypeOK
<1>4. SweepRows(s) = [i \in 1..Len(s) |-> R(i)]
  BY DEF SweepRows
<1> HIDE DEF bal
<1>5. ASSUME NEW i \in 1..Len(s) PROVE R(i) \in Row
  <2>1. U(i) \in Users /\ s[i] \in BucketIds /\ s[i] \in Nat
    BY <1>1, BucketRows DEF Bucket, BucketIds
  <2>2. i \in 0..Len(s) /\ i-1 \in 0..Len(s)
    BY <1>1
  <2>3. bal[i] \in [Users -> Nat] /\ bal[i-1] \in [Users -> Nat]
    BY <1>2, <2>2 DEF Balances
  <2>4. bal[i][U(i)] \in Nat /\ bal[i][U(i)] - bal[i-1][U(i)] \in Int
    BY <2>1, <2>3
  <2>5. ExpireKey(s[i]) \in RowKeys /\ reserved[U(i)] \in Nat /\ "expire" \in RowTypes
    BY <1>3, <2>1, KeysType DEF RowTypes
  <2> QED
    BY <2>1, <2>4, <2>5 DEF NewRow, Row
<1> HIDE DEF R
<1>6. SweepRows(s) \in [1..Len(s) -> Row]
  BY <1>4, <1>5
<1>7. \A i \in 1..Len(s) : SweepRows(s)[i] = R(i)
  BY <1>4
<1>8. ASSUME NEW i \in 1..Len(s)
      PROVE  /\ R(i).user = U(i)
             /\ R(i).amount = bal[i][U(i)] - bal[i-1][U(i)]
             /\ R(i).balanceAfter = bal[i][U(i)]
             /\ R(i).key = ExpireKey(s[i])
  BY DEF R, NewRow
<1> QED
  BY <1>1, <1>6, <1>7, <1>8, SequenceOf DEF bal

\* A sweep leaves a bucket table, and changes only what it swept.
LEMMA SweepBucketsType ==
  ASSUME TypeOK, NEW s \in Seq(DOMAIN buckets)
  PROVE  /\ SweepBuckets(s) \in Seq(Bucket)
         /\ Len(SweepBuckets(s)) = Len(buckets)
         /\ \A b \in DOMAIN buckets :
              /\ SweepBuckets(s)[b] \in Bucket
              /\ (\A i \in 1..Len(s) : s[i] # b) => SweepBuckets(s)[b] = buckets[b]
<1> DEFINE swept == SweepBuckets(s)
<1>1. ASSUME NEW b \in DOMAIN buckets
      PROVE  /\ swept[b] \in Bucket
             /\ (\A i \in 1..Len(s) : s[i] # b) => swept[b] = buckets[b]
  <2>1. buckets[b] \in Bucket
    BY BucketRows
  <2>2. [buckets[b] EXCEPT !.remaining = 0, !.status = "expired"] \in Bucket
    BY <2>1 DEF Bucket
  <2> QED
    BY <2>1, <2>2 DEF SweepBuckets
<1>2. swept = [b \in 1..Len(buckets) |-> swept[b]]
  BY BucketRows DEF SweepBuckets
<1> HIDE DEF swept
<1>3. swept \in [1..Len(buckets) -> Bucket]
  BY <1>1, <1>2, BucketRows
<1> QED
  BY <1>1, <1>3, BucketRows, SequenceOf DEF swept

-----------------------------------------------------------------------------
(* Replaying the ledger.                                                   *)

\* What row changes in the balance of u.
Change(row, u) == IF row.user = u THEN row.amount ELSE 0

\* The rows of a ledger change balances by integers.
LEMMA ChangeType ==
  ASSUME NEW l \in Seq(Row), NEW u
  PROVE  Len(l) \in Nat /\ \A i \in 1..Len(l) : l[i] \in Row /\ Change(l[i], u) \in Int
<1>1. Len(l) \in Nat /\ \A i \in 1..Len(l) : l[i] \in Row
  BY LenProperties
<1>2. ASSUME NEW row \in Row PROVE Change(row, u) \in Int
  BY DEF Change, Row
<1> QED
  BY <1>1, <1>2

\* Replay of the ledger l, so that it can be used of the ledger before and
\* after a step.
ReplayOf(l, u, n) ==
  LegacyBalance[u] + Sum([i \in 1..n |-> IF l[i].user = u THEN l[i].amount ELSE 0], n)

\* The sum a replay takes up to row n does not depend on how far it goes on.
LEMMA ReplayPrefix ==
  ASSUME NEW l \in Seq(Row), NEW u \in Users, NEW n \in 0..Len(l)
  PROVE  ReplayOf(l, u, n) =
           LegacyBalance[u] + Sum([i \in 1..Len(l) |-> Change(l[i], u)], n)
<1> DEFINE f == [i \in 1..Len(l) |-> Change(l[i], u)]
           h == [i \in 1..n |-> IF l[i].user = u THEN l[i].amount ELSE 0]
<1>1. Len(l) \in Nat /\ \A i \in 1..Len(l) : Change(l[i], u) \in Int
  BY ChangeType
<1>2. n \in Nat /\ \A i \in 1..n : i \in 1..Len(l)
  BY <1>1
<1>3. \A i \in 1..n : f[i] \in Int /\ h[i] = f[i]
  BY <1>1, <1>2 DEF Change
<1> HIDE DEF f, h
<1>4. Sum(h, n) = Sum(f, n)
  BY <1>2, <1>3, SumCong
<1> QED
  BY <1>4 DEF ReplayOf, f, h

\* A replay adds one row at a time.
LEMMA ReplaySteps ==
  ASSUME NEW l \in Seq(Row), NEW u \in Users
  PROVE  /\ ReplayOf(l, u, 0) = LegacyBalance[u]
         /\ \A n \in 0..Len(l) : ReplayOf(l, u, n) \in Int
         /\ \A n \in 1..Len(l) : ReplayOf(l, u, n) = ReplayOf(l, u, n-1) + Change(l[n], u)
<1> DEFINE f == [i \in 1..Len(l) |-> Change(l[i], u)]
<1>1. Len(l) \in Nat /\ \A i \in 1..Len(l) : f[i] \in Int /\ f[i] = Change(l[i], u)
  BY ChangeType
<1>2. \A n \in 0..Len(l) : ReplayOf(l, u, n) = LegacyBalance[u] + Sum(f, n)
  BY ReplayPrefix
<1>3. LegacyBalance[u] \in Int
  BY LegacyAssumption
<1> HIDE DEF f
<1>4. /\ Sum(f, 0) = 0
      /\ \A n \in 0..Len(l) : Sum(f, n) \in Int
      /\ \A n \in 1..Len(l) : Sum(f, n) = Sum(f, n-1) + f[n]
  BY <1>1, SumStep
<1>5. ReplayOf(l, u, 0) = LegacyBalance[u]
  BY <1>1, <1>2, <1>3, <1>4
<1>6. ASSUME NEW n \in 1..Len(l)
      PROVE  ReplayOf(l, u, n) = ReplayOf(l, u, n-1) + Change(l[n], u)
  <2>1. n \in 0..Len(l) /\ n-1 \in 0..Len(l)
    BY <1>1
  <2>2. Sum(f, n) \in Int /\ Sum(f, n-1) \in Int /\ f[n] \in Int
        /\ Sum(f, n) = Sum(f, n-1) + f[n] /\ f[n] = Change(l[n], u)
    BY <1>1, <1>4, <2>1
  <2> QED
    BY <1>2, <1>3, <2>1, <2>2
<1> QED
  BY <1>2, <1>3, <1>4, <1>5, <1>6

\* g starts at the legacy balance of u and adds the rows of l.
Replays(g, l, u) ==
  /\ g \in [0..Len(l) -> Int]
  /\ g[0] = LegacyBalance[u]
  /\ \A n \in 1..Len(l) : g[n] = g[n-1] + Change(l[n], u)

\* Whatever starts at the legacy balance and adds the rows is the replay.
LEMMA ReplayUnique ==
  ASSUME NEW l \in Seq(Row), NEW u \in Users, NEW g, Replays(g, l, u)
  PROVE  \A n \in 0..Len(l) : ReplayOf(l, u, n) = g[n]
<1> USE DEF Replays
<1> DEFINE f == [i \in 1..Len(l) |-> Change(l[i], u)]
           h == [i \in 0..Len(l) |-> g[i] - LegacyBalance[u]]
<1>1. Len(l) \in Nat /\ \A i \in 1..Len(l) : f[i] \in Int /\ f[i] = Change(l[i], u)
  BY ChangeType
<1>2. LegacyBalance[u] \in Int
  OBVIOUS
<1>3. \A n \in 0..Len(l) : h[n] = g[n] - LegacyBalance[u]
  OBVIOUS
<1>4. \A n \in 0..Len(l) : ReplayOf(l, u, n) = LegacyBalance[u] + Sum(f, n)
  BY ReplayPrefix
<1> HIDE DEF f, h
<1>5. h[0] = 0
  BY <1>1, <1>2, <1>3
<1>6. ASSUME NEW n \in 1..Len(l) PROVE h[n] = h[n-1] + f[n]
  <2>1. n \in 0..Len(l) /\ n-1 \in 0..Len(l)
    BY <1>1
  <2>2. g[n] \in Int /\ g[n-1] \in Int /\ f[n] \in Int
    BY <1>1, <2>1
  <2>3. h[n] = g[n] - LegacyBalance[u] /\ h[n-1] = g[n-1] - LegacyBalance[u]
    BY <1>3, <2>1
  <2>4. g[n] = g[n-1] + f[n]
    BY <1>1
  <2> QED
    BY <1>2, <2>2, <2>3, <2>4
<1>7. \A n \in 0..Len(l) : Sum(f, n) = h[n] /\ h[n] \in Int
  <2>1. Len(l) \in Nat /\ \A n \in 1..Len(l) : f[n] \in Int
    BY <1>1
  <2>2. \A n \in 1..Len(l) : h[n] = h[n-1] + f[n]
    BY <1>6
  <2>3. PartialSums(h, f, Len(l))
    BY <1>5, <2>1, <2>2 DEF PartialSums
  <2> QED
    BY <2>1, <2>3, PartialSumsUnique
<1>8. ASSUME NEW n \in 0..Len(l) PROVE ReplayOf(l, u, n) = g[n]
  <2>1. ReplayOf(l, u, n) = LegacyBalance[u] + h[n] /\ h[n] = g[n] - LegacyBalance[u]
    BY <1>3, <1>4, <1>7
  <2>2. g[n] \in Int
    OBVIOUS
  <2> QED
    BY <1>2, <2>1, <2>2
<1> QED
  BY <1>8

\* The ledger l with the balances bal after its rows is explained: bal[n] is
\* what the first n rows add up to.
LEMMA Explained ==
  ASSUME NEW l \in Seq(Row), NEW bal \in [0..Len(l) -> [Users -> Int]],
         bal[0] = LegacyBalance,
         \A n \in 1..Len(l) : \A u \in Users : bal[n][u] = bal[n-1][u] + Change(l[n], u)
  PROVE  \A n \in 0..Len(l) : \A u \in Users : bal[n][u] = ReplayOf(l, u, n)
<1> SUFFICES ASSUME NEW u \in Users
             PROVE  \A n \in 0..Len(l) : bal[n][u] = ReplayOf(l, u, n)
  OBVIOUS
<1> DEFINE g == [n \in 0..Len(l) |-> bal[n][u]]
<1>1. Len(l) \in Nat
  BY LenProperties
<1>2. \A n \in 0..Len(l) : g[n] = bal[n][u]
  OBVIOUS
<1>3. g \in [0..Len(l) -> Int]
  OBVIOUS
<1>4. \A n \in 1..Len(l) : n \in 0..Len(l) /\ n-1 \in 0..Len(l)
  BY <1>1
<1> HIDE DEF g
<1>5. g[0] = LegacyBalance[u]
  BY <1>1, <1>2
<1>6. \A n \in 1..Len(l) : g[n] = g[n-1] + Change(l[n], u)
  BY <1>2, <1>4
<1>7. Replays(g, l, u)
  BY <1>3, <1>5, <1>6 DEF Replays
<1>8. \A n \in 0..Len(l) : ReplayOf(l, u, n) = g[n]
  BY <1>7, ReplayUnique
<1> QED
  BY <1>2, <1>8

\* A sweep's rows are explained by its balances.
LEMMA SweepExplained ==
  ASSUME TypeOK, NEW s \in Seq(DOMAIN buckets)
  PROVE  LET bal  == SweepBalance(s)
             rows == SweepRows(s)
         IN  /\ bal \in [0..Len(s) -> [Users -> Int]]
             /\ bal[0] = balance
             /\ \A i \in 1..Len(s) : rows[i].balanceAfter = bal[i][rows[i].user]
             /\ \A i \in 1..Len(s) : \A u \in Users : bal[i][u] = bal[i-1][u] + Change(rows[i], u)
<1> DEFINE bal  == SweepBalance(s)
           rows == SweepRows(s)
<1>1. /\ bal \in [0..Len(s) -> Balances] /\ bal[0] = balance
      /\ \A i \in 1..Len(s) : bal[i] = Swept(bal[i-1], buckets[s[i]])
  BY SweepBalanceType
<1>2. ASSUME NEW i \in 1..Len(s)
      PROVE  /\ rows[i].user = buckets[s[i]].user
             /\ rows[i].amount = bal[i][rows[i].user] - bal[i-1][rows[i].user]
             /\ rows[i].balanceAfter = bal[i][rows[i].user]
  BY SweepRowsType
<1>3. bal \in [0..Len(s) -> [Users -> Int]]
  BY <1>1 DEF Balances
<1> HIDE DEF bal, rows
<1>4. ASSUME NEW i \in 1..Len(s), NEW u \in Users
      PROVE  bal[i][u] = bal[i-1][u] + Change(rows[i], u)
  <2>1. i \in 0..Len(s) /\ i-1 \in 0..Len(s)
    BY LenProperties
  <2>2. bal[i][u] \in Int /\ bal[i-1][u] \in Int /\ bal[i-1] \in [Users -> Int]
    BY <1>3, <2>1
  <2>3. CASE rows[i].user = u
    BY <1>2, <2>2, <2>3 DEF Change
  <2>4. CASE rows[i].user # u
    <3>1. bal[i][u] = bal[i-1][u]
      BY <1>1, <1>2, <2>2, <2>4 DEF Swept
    <3> QED
      BY <2>2, <2>4, <3>1 DEF Change
  <2> QED
    BY <2>3, <2>4
<1> QED
  BY <1>1, <1>2, <1>3, <1>4 DEF bal, rows

-----------------------------------------------------------------------------
(* The inductive invariant.                                                *)

\* The grant row of an order names a bucket: what a refund claws back exists.
OrderRowsNameBuckets ==
  \A i \in DOMAIN ledger : \A o \in Orders :
    ledger[i].key = OrderKey(o) => ledger[i].bucket \in DOMAIN buckets

\* The inductive invariant.
IInv ==
  /\ TypeOK
  /\ OrderRowsNameBuckets
  /\ LedgerExplainsBalance

-----------------------------------------------------------------------------
(* Appending rows.                                                         *)

\* What the ledger's part of the invariant says, as a statement about replay.
LEMMA LedgerExplained ==
  ASSUME IInv
  PROVE  /\ ledger \in Seq(Row) /\ Len(ledger) \in Nat /\ DOMAIN ledger = 1..Len(ledger)
         /\ \A i \in 1..Len(ledger) : ledger[i].balanceAfter = ReplayOf(ledger, ledger[i].user, i)
         /\ \A u \in Users : balance[u] = ReplayOf(ledger, u, Len(ledger))
<1>1. ledger \in Seq(Row) /\ Len(ledger) \in Nat /\ DOMAIN ledger = 1..Len(ledger)
  BY LenProperties DEF IInv, TypeOK
<1>2. \A u, n : Replay(u, n) = ReplayOf(ledger, u, n)
  BY DEF Replay, ReplayOf
<1> QED
  BY <1>1, <1>2 DEF IInv, LedgerExplainsBalance

\* Rows that are appended keep the ledger's part of the invariant if the
\* balances after each of them, bal, are what the rows say and lead from the
\* balances before the step to those after it.
LEMMA RowsAppended ==
  ASSUME IInv, NEW new \in Seq(Row), ledger' = ledger \o new,
         DOMAIN buckets \subseteq DOMAIN buckets',
         \A i \in 1..Len(new) : \A o \in Orders :
           new[i].key = OrderKey(o) => new[i].bucket \in DOMAIN buckets',
         NEW bal \in [0..Len(new) -> [Users -> Int]],
         bal[0] = balance, bal[Len(new)] = balance',
         \A i \in 1..Len(new) : new[i].balanceAfter = bal[i][new[i].user],
         \A i \in 1..Len(new) : \A u \in Users : bal[i][u] = bal[i-1][u] + Change(new[i], u)
  PROVE  ledger' \in Seq(Row) /\ OrderRowsNameBuckets' /\ LedgerExplainsBalance'
<1> DEFINE L == Len(ledger)
           N == Len(new)
<1>1. ledger \in Seq(Row) /\ L \in Nat /\ DOMAIN ledger = 1..L /\ N \in Nat
  BY LenProperties DEF IInv, TypeOK
<1>2. /\ ledger' \in Seq(Row)
      /\ Len(ledger') = L + N
      /\ \A i \in 1..L + N : ledger'[i] = IF i <= L THEN ledger[i] ELSE new[i - L]
  BY <1>1, ConcatProperties
<1>3. DOMAIN ledger' = 1..L + N
  BY <1>2, LenProperties
<1>4. ASSUME NEW i \in DOMAIN ledger', NEW o \in Orders, ledger'[i].key = OrderKey(o)
      PROVE  ledger'[i].bucket \in DOMAIN buckets'
  <2>1. CASE i <= L
    <3>1. i \in DOMAIN ledger /\ ledger'[i] = ledger[i]
      BY <1>1, <1>2, <1>3, <2>1
    <3> QED
      BY <1>4, <3>1 DEF IInv, OrderRowsNameBuckets
  <2>2. CASE ~(i <= L)
    <3>1. i - L \in 1..N /\ ledger'[i] = new[i - L]
      BY <1>1, <1>2, <1>3, <2>2
    <3> QED
      BY <1>4, <3>1
  <2> QED
    BY <2>1, <2>2
<1> HIDE DEF L, N
<1> DEFINE before == [n \in 0..L |-> [u \in Users |-> ReplayOf(ledger, u, n)]]
           all == [n \in 0..L + N |-> IF n <= L THEN before[n] ELSE bal[n - L]]
<1>5. ASSUME NEW u \in Users
      PROVE  /\ ReplayOf(ledger, u, 0) = LegacyBalance[u]
             /\ \A n \in 0..L : ReplayOf(ledger, u, n) \in Int
             /\ \A n \in 1..L : ReplayOf(ledger, u, n) = ReplayOf(ledger, u, n-1) + Change(ledger[n], u)
             /\ balance[u] = ReplayOf(ledger, u, L)
  BY <1>1, ReplaySteps, LedgerExplained DEF L
<1>6. /\ bal \in [0..N -> [Users -> Int]] /\ bal[0] = balance /\ bal[N] = balance'
      /\ \A i \in 1..N : \A u \in Users : bal[i][u] = bal[i-1][u] + Change(new[i], u)
      /\ \A i \in 1..N : new[i].balanceAfter = bal[i][new[i].user]
  BY DEF N
<1>7. /\ \A n \in 0..L : before[n] \in [Users -> Int]
      /\ \A n \in 0..L : \A u \in Users : before[n][u] = ReplayOf(ledger, u, n)
      /\ before[L] = balance
      /\ before[0] = LegacyBalance
  <2>1. balance = [u \in Users |-> balance[u]] /\ LegacyBalance = [u \in Users |-> LegacyBalance[u]]
    BY LegacyAssumption DEF IInv, TypeOK
  <2>2. \A n \in 0..L : before[n] = [u \in Users |-> ReplayOf(ledger, u, n)]
    OBVIOUS
  <2>3. 0 \in 0..L /\ L \in 0..L
    BY <1>1
  <2> HIDE DEF before
  <2>4. ASSUME NEW n \in 0..L
        PROVE  before[n] \in [Users -> Int] /\ \A u \in Users : before[n][u] = ReplayOf(ledger, u, n)
    <3>1. \A u \in Users : ReplayOf(ledger, u, n) \in Int
      BY <1>5
    <3>2. before[n] = [u \in Users |-> ReplayOf(ledger, u, n)]
      BY <2>2
    <3> QED
      BY <3>1, <3>2
  <2>5. before[L] = balance
    <3>1. \A u \in Users : before[L][u] = balance[u]
      BY <1>5, <2>3, <2>4
    <3> QED
      BY <2>1, <2>3, <2>4, <3>1
  <2>6. before[0] = LegacyBalance
    <3>1. \A u \in Users : before[0][u] = LegacyBalance[u]
      BY <1>5, <2>3, <2>4
    <3> QED
      BY <2>1, <2>3, <2>4, <3>1
  <2> QED
    BY <2>4, <2>5, <2>6
<1> HIDE DEF before
<1>8. \A n \in 0..L + N : all[n] = IF n <= L THEN before[n] ELSE bal[n - L]
  OBVIOUS
<1>9. ASSUME NEW n \in 0..L + N PROVE all[n] \in [Users -> Int]
  <2>1. CASE n <= L
    <3>1. n \in 0..L
      BY <1>1, <2>1
    <3>2. all[n] = before[n]
      BY <1>8, <2>1
    <3> HIDE DEF all
    <3> QED
      BY <1>7, <3>1, <3>2
  <2>2. CASE ~(n <= L)
    <3>1. n - L \in 0..N
      BY <1>1, <2>2
    <3> QED
      BY <1>6, <1>8, <2>2, <3>1
  <2> QED
    BY <2>1, <2>2
<1>10. all \in [0..L + N -> [Users -> Int]]
  <2>1. all = [n \in 0..L + N |-> all[n]]
    OBVIOUS
  <2> HIDE DEF all
  <2> QED BY <1>9, <2>1
<1> HIDE DEF all
<1>11. all[0] = LegacyBalance /\ all[L + N] = balance'
  <2>1. 0 \in 0..L + N /\ 0 <= L /\ L + N \in 0..L + N
    BY <1>1
  <2>2. CASE N = 0
    BY <1>1, <1>6, <1>7, <1>8, <2>1, <2>2
  <2>3. CASE N # 0
    <3>1. ~(L + N <= L) /\ (L + N) - L = N
      BY <1>1, <2>3
    <3> QED
      BY <1>6, <1>7, <1>8, <2>1, <3>1
  <2> QED
    BY <2>2, <2>3
<1>12. ASSUME NEW n \in 1..L + N
       PROVE  IF n <= L
              THEN /\ n \in 1..L /\ n-1 \in 0..L /\ ledger'[n] = ledger[n]
                   /\ all[n] = before[n] /\ all[n-1] = before[n-1]
              ELSE /\ n - L \in 1..N /\ ledger'[n] = new[n - L]
                   /\ all[n] = bal[n - L] /\ all[n-1] = bal[(n - L) - 1]
  <2>1. n \in 0..L + N /\ n-1 \in 0..L + N
    BY <1>1
  <2>2. CASE n <= L
    <3>1. n \in 1..L /\ n-1 \in 0..L /\ n-1 <= L
      BY <1>1, <2>2
    <3> QED
      BY <1>2, <1>8, <2>1, <2>2, <3>1
  <2>3. CASE ~(n <= L)
    <3>1. n - L \in 1..N /\ (n - L) - 1 = (n - 1) - L
      BY <1>1, <2>3
    <3>2. all[n-1] = bal[(n - L) - 1]
      <4>1. CASE n - 1 <= L
        <5>1. n - 1 = L /\ (n - L) - 1 = 0
          BY <1>1, <2>3, <4>1
        <5> QED
          BY <1>6, <1>7, <1>8, <2>1, <4>1, <5>1
      <4>2. CASE ~(n - 1 <= L)
        BY <1>8, <2>1, <3>1, <4>2
      <4> QED
        BY <4>1, <4>2
    <3> QED
      BY <1>2, <1>8, <2>1, <2>3, <3>1, <3>2
  <2> QED
    BY <2>2, <2>3
<1>13. ASSUME NEW n \in 1..L + N, NEW u \in Users
       PROVE  all[n][u] = all[n-1][u] + Change(ledger'[n], u)
  <2>1. CASE n <= L
    <3>1. /\ n \in 1..L /\ n \in 0..L /\ n-1 \in 0..L /\ ledger'[n] = ledger[n]
          /\ all[n] = before[n] /\ all[n-1] = before[n-1]
      BY <1>1, <1>12, <2>1
    <3>2. before[n][u] = ReplayOf(ledger, u, n) /\ before[n-1][u] = ReplayOf(ledger, u, n-1)
      BY <1>7, <3>1
    <3> QED
      BY <1>5, <3>1, <3>2
  <2>2. CASE ~(n <= L)
    <3>1. /\ n - L \in 1..N /\ ledger'[n] = new[n - L]
          /\ all[n] = bal[n - L] /\ all[n-1] = bal[(n - L) - 1]
      BY <1>12, <2>2
    <3> QED
      BY <1>6, <3>1
  <2> QED
    BY <2>1, <2>2
<1>14. \A n \in 0..L + N : \A u \in Users : all[n][u] = ReplayOf(ledger', u, n)
  <2>1. /\ all \in [0..Len(ledger') -> [Users -> Int]]
        /\ \A n \in 1..Len(ledger') : \A u \in Users :
             all[n][u] = all[n-1][u] + Change(ledger'[n], u)
    BY <1>2, <1>10, <1>13
  <2>2. \A n \in 0..Len(ledger') : \A u \in Users : all[n][u] = ReplayOf(ledger', u, n)
    BY <1>2, <1>11, <2>1, Explained
  <2> QED
    BY <1>2, <2>2
<1>15. ASSUME NEW i \in 1..L + N
       PROVE  ledger'[i].balanceAfter = ReplayOf(ledger', ledger'[i].user, i)
  <2>1. i \in 0..L + N /\ ledger'[i].user \in Users
    <3>1. ledger'[i] \in Row
      BY <1>2, ElementOfSeq
    <3>2. ledger'[i].user \in Users
      BY <3>1 DEF Row
    <3>3. i \in 0..L + N
      BY <1>1
    <3> QED
      BY <3>2, <3>3
  <2>2. ledger'[i].balanceAfter = all[i][ledger'[i].user]
    <3>1. \A n \in 1..L : ledger[n].balanceAfter = ReplayOf(ledger, ledger[n].user, n)
      BY LedgerExplained DEF L
    <3>2. CASE i <= L
      <4>1. i \in 1..L /\ i \in 0..L /\ ledger'[i] = ledger[i] /\ all[i] = before[i]
        BY <1>1, <1>12, <3>2
      <4> QED
        BY <1>7, <2>1, <3>1, <4>1
    <3>3. CASE ~(i <= L)
      <4>1. i - L \in 1..N /\ ledger'[i] = new[i - L] /\ all[i] = bal[i - L]
        BY <1>12, <3>3
      <4> QED
        BY <1>6, <4>1
    <3> QED
      BY <3>2, <3>3
  <2> QED
    BY <1>14, <2>1, <2>2
<1>16. \A u \in Users : balance'[u] = ReplayOf(ledger', u, L + N)
  <2>1. L + N \in 0..L + N
    BY <1>1
  <2> QED
    BY <1>11, <1>14, <2>1
<1>17. \A u, n : Replay(u, n)' = ReplayOf(ledger', u, n)
  BY DEF Replay, ReplayOf
<1>18. LedgerExplainsBalance'
  BY <1>2, <1>3, <1>15, <1>16, <1>17 DEF LedgerExplainsBalance
<1> QED
  BY <1>2, <1>4, <1>18 DEF OrderRowsNameBuckets

\* One row, of one account.
LEMMA RowAppended ==
  ASSUME IInv, NEW row \in Row, ledger' = Append(ledger, row),
         DOMAIN buckets \subseteq DOMAIN buckets',
         \A o \in Orders : row.key = OrderKey(o) => row.bucket \in DOMAIN buckets',
         balance' = [balance EXCEPT ![row.user] = @ + row.amount],
         row.balanceAfter = balance'[row.user]
  PROVE  ledger' \in Seq(Row) /\ OrderRowsNameBuckets' /\ LedgerExplainsBalance'
<1> DEFINE new == <<row>>
           bal == [i \in 0..1 |-> IF i = 0 THEN balance ELSE balance']
<1>1. new \in Seq(Row) /\ Len(new) = 1 /\ new[1] = row
  OBVIOUS
<1>2. ledger \in Seq(Row) /\ balance \in [Users -> Nat] /\ row.user \in Users /\ row.amount \in Int
  BY DEF IInv, TypeOK, Row
<1>3. ledger' = ledger \o new
  BY <1>2, AppendIsConcat
<1>4. balance \in [Users -> Int] /\ balance' \in [Users -> Int]
  BY <1>2
<1>5. bal \in [0..1 -> [Users -> Int]] /\ bal[0] = balance /\ bal[1] = balance'
  BY <1>4
<1>6. \A u \in Users : balance'[u] = balance[u] + Change(row, u)
  BY <1>2 DEF Change
<1> HIDE DEF new, bal
<1>7. \A i \in 1..Len(new) : i = 1
  BY <1>1
<1>8. /\ \A i \in 1..Len(new) : \A o \in Orders :
           new[i].key = OrderKey(o) => new[i].bucket \in DOMAIN buckets'
      /\ \A i \in 1..Len(new) : new[i].balanceAfter = bal[i][new[i].user]
      /\ \A i \in 1..Len(new) : \A u \in Users : bal[i][u] = bal[i-1][u] + Change(new[i], u)
  <2>1. \A u \in Users : bal[1][u] = bal[1-1][u] + Change(new[1], u)
    BY <1>1, <1>5, <1>6
  <2>2. new[1].balanceAfter = bal[1][new[1].user]
    BY <1>1, <1>5
  <2>3. \A o \in Orders : new[1].key = OrderKey(o) => new[1].bucket \in DOMAIN buckets'
    BY <1>1
  <2> QED
    BY <1>7, <2>1, <2>2, <2>3
<1>9. bal \in [0..Len(new) -> [Users -> Int]] /\ bal[Len(new)] = balance'
  BY <1>1, <1>5
<1> QED
  BY <1>1, <1>3, <1>5, <1>8, <1>9, RowsAppended

\* No other key is an order's grant key.
LEMMA KeysDiffer ==
  ASSUME NEW o \in Orders
  PROVE  /\ \A k : ClientKey(k) # OrderKey(o) /\ ReserveKey(k) # OrderKey(o)
         /\ \A b : ExpireKey(b) # OrderKey(o)
         /\ \A p : ClawbackKey(p) # OrderKey(o)
  BY DEF ClientKey, ReserveKey, OrderKey, ExpireKey, ClawbackKey

-----------------------------------------------------------------------------
(* The operations.                                                         *)

\* A grant, of an administrator or a paid order, preserves the invariant.
LEMMA GrantCreditsPreserves ==
  ASSUME IInv, NEW u \in Users, NEW a \in GrantAmounts, NEW key \in RowKeys,
         NEW type \in ExplicitTypes, NEW expiresAt \in Times \cup {Never},
         GrantCredits(u, a, key, type, expiresAt)
  PROVE  IInv'
<1> DEFINE bucket == NewBucket(u, type, expiresAt, a)
           row == NewRow(u, "grant", a, key, balance[u] + a, reserved[u], Len(buckets) + 1, 0)
<1>1. a \in Nat /\ balance \in [Users -> Nat] /\ reserved \in [Users -> Nat]
  BY AmountsAssumption DEF IInv, TypeOK
<1>2. buckets \in Seq(Bucket) /\ Len(buckets) \in Nat
  BY BucketRows DEF IInv, TypeOK
<1>3. bucket \in Bucket
  BY <1>1 DEF NewBucket, Bucket
<1>4. balance' \in [Users -> Nat]
  BY <1>1 DEF GrantCredits
<1>5. /\ buckets' \in Seq(Bucket) /\ Len(buckets') = Len(buckets) + 1
      /\ DOMAIN buckets' = 1..Len(buckets) + 1
  <2> HIDE DEF bucket
  <2>1. buckets' = Append(buckets, bucket)
    BY DEF GrantCredits, bucket
  <2> QED
    BY <1>2, <1>3, <2>1, AppendProperties, LenProperties
<1>6. Len(buckets') <= MaxBuckets
  BY <1>2, <1>5, BoundsAssumption DEF GrantCredits
<1>7. /\ row \in Row /\ row.bucket = Len(buckets) + 1
      /\ row.user = u /\ row.amount = a /\ row.balanceAfter = balance[u] + a
  <2>1. row \in Row
    BY <1>1, <1>2 DEF NewRow, Row, RowTypes
  <2> QED
    BY <2>1 DEF NewRow
<1>8. ledger' \in Seq(Row) /\ OrderRowsNameBuckets' /\ LedgerExplainsBalance'
  <2> HIDE DEF row
  <2>1. ledger' = Append(ledger, row)
    BY DEF GrantCredits, row
  <2>2. DOMAIN buckets \subseteq DOMAIN buckets' /\ row.bucket \in DOMAIN buckets'
    BY <1>2, <1>5, <1>7, BucketRows DEF IInv
  <2>3. balance' = [balance EXCEPT ![row.user] = @ + row.amount]
    BY <1>7 DEF GrantCredits
  <2>4. row.balanceAfter = balance'[row.user]
    BY <1>1, <1>7, <2>3
  <2> QED
    BY <1>7, <2>1, <2>2, <2>3, <2>4, RowAppended
<1> QED
  BY <1>4, <1>5, <1>6, <1>8 DEF IInv, TypeOK, GrantCredits

\* A fulfillment rule's terms name a bucket type and an expiry.
LEMMA TermsTypes ==
  ASSUME NEW terms \in OrderTerms
  PROVE  TermsBucketType(terms) \in ExplicitTypes /\ TermsExpiry(terms) \in Times \cup {Never}
  BY TermsAssumption DEF TermsBucketType, TermsExpiry, TermsType, ExplicitTypes

\* A reservation preserves the invariant: the draw takes no more than the
\* buckets hold, and the rows of its sweep and its own row add up.
LEMMA ReservePreserves ==
  ASSUME IInv, NEW u \in Users, NEW k \in Keys, NEW a \in HoldAmounts, NEW t \in HoldExpiries,
         Reserve(u, k, a, t)
  PROVE  IInv'
<1> DEFINE dueIds  == {b \in DOMAIN buckets : buckets[b].user = u /\ Due(buckets[b], now)}
           freeIds == {b \in DOMAIN buckets : buckets[b].user = u /\ Spendable(buckets[b], now)}
<1>1. TypeOK
  BY DEF IInv
<1>2. PICK s \in Ordered(dueIds), q \in Ordered(freeIds) :
       LET left  == SweepBalance(s)[Len(s)]
           swept == SweepBuckets(s)
           alloc == Allocation(q, a)
       IN
       /\ left[u] >= a
       /\ balance' = [left EXCEPT ![u] = @ - a]
       /\ reserved' = [reserved EXCEPT ![u] = @ + a]
       /\ buckets' = [b \in DOMAIN buckets |->
            [swept[b] EXCEPT !.remaining = @ - alloc[b], !.reserved = @ + alloc[b]]]
       /\ reservations' = Append(reservations,
            [user |-> u, amount |-> a, key |-> k, expiresAt |-> t,
             status |-> "pending", alloc |-> alloc, finalizedAt |-> 0])
       /\ ledger' = ledger \o Append(SweepRows(s),
            NewRow(u, "reserve", -a, ReserveKey(k), left[u] - a, reserved[u] + a,
                   0, Len(reservations) + 1))
  BY DEF Reserve
<1> DEFINE left  == SweepBalance(s)[Len(s)]
           swept == SweepBuckets(s)
           alloc == Allocation(q, a)
<1>3. /\ s \in Seq(DOMAIN buckets) /\ s \in Seq(dueIds) /\ Len(s) \in Nat
      /\ q \in Seq(freeIds)
  BY <1>1, OrderedIsSequence
<1>4. a \in Nat /\ t \in Times \cup {Never} /\ reserved \in [Users -> Nat] /\ now \in Times
  BY <1>1, AmountsAssumption, TimesAssumption DEF TypeOK
<1>5. left \in [Users -> Nat]
  <2>1. Len(s) \in 0..Len(s)
    BY <1>3
  <2> QED
    BY <1>1, <1>3, <2>1, SweepBalanceType DEF Balances
<1>6. /\ alloc \in [BucketIds -> Nat]
      /\ \A b \in BucketIds : alloc[b] <= IF b \in freeIds THEN buckets[b].remaining ELSE 0
  <2>1. alloc \in Allocs(freeIds, a)
    <3> HIDE DEF freeIds
    <3>1. freeIds \in SUBSET DOMAIN buckets
      BY DEF freeIds
    <3> QED
      BY <1>1, <1>3, <1>4, <3>1, AllocationType
  <2> QED
    BY <2>1 DEF Allocs
<1>7. ASSUME NEW b \in DOMAIN buckets
      PROVE  [swept[b] EXCEPT !.remaining = @ - alloc[b], !.reserved = @ + alloc[b]] \in Bucket
  <2>1. b \in BucketIds /\ alloc[b] \in Nat /\ swept[b] \in Bucket
    BY <1>1, <1>3, <1>6, BucketRows, SweepBucketsType
  <2>2. alloc[b] <= swept[b].remaining
    <3>1. CASE b \in freeIds
      <4>1. \A i \in 1..Len(s) : s[i] # b
        BY <1>3, <3>1 DEF Due, Spendable
      <4>2. swept[b] = buckets[b]
        BY <1>1, <1>3, <4>1, SweepBucketsType
      <4> QED
        BY <1>6, <2>1, <3>1, <4>2
    <3>2. CASE b \notin freeIds
      BY <1>6, <2>1, <3>2 DEF Bucket
    <3> QED
      BY <3>1, <3>2
  <2> HIDE DEF swept, alloc
  <2> QED
    BY <2>1, <2>2, HeldType
<1>8. /\ buckets' \in Seq(Bucket) /\ Len(buckets') = Len(buckets)
      /\ DOMAIN buckets' = DOMAIN buckets
  <2>1. buckets' \in [1..Len(buckets) -> Bucket]
    BY <1>1, <1>2, <1>7, BucketRows
  <2> QED
    BY <1>1, <2>1, BucketRows, SequenceOf
<1>9. balance' \in [Users -> Nat]
  <2> HIDE DEF left
  <2>1. balance' = [left EXCEPT ![u] = @ - a] /\ left[u] >= a
    BY <1>2 DEF left
  <2> QED
    BY <1>4, <1>5, <2>1
<1>10. reserved' \in [Users -> Nat]
  <2>1. reserved' = [reserved EXCEPT ![u] = @ + a]
    BY DEF Reserve
  <2> QED
    BY <1>4, <2>1
<1>11. reservations' \in Seq(Reservation)
  <2> DEFINE res == [user |-> u, amount |-> a, key |-> k, expiresAt |-> t,
                     status |-> "pending", alloc |-> alloc, finalizedAt |-> 0]
  <2>1. res \in Reservation
    <3> HIDE DEF alloc
    <3> QED BY <1>4, <1>6, BoundsAssumption, TimesAssumption, NeverAssumption DEF Reservation, Times
  <2>2. reservations \in Seq(Reservation) /\ reservations' = Append(reservations, res)
    BY <1>1, <1>2 DEF TypeOK
  <2> HIDE DEF res
  <2> QED
    BY <2>1, <2>2, AppendProperties
<1>12. ledger' \in Seq(Row) /\ OrderRowsNameBuckets' /\ LedgerExplainsBalance'
  <2> DEFINE row == NewRow(u, "reserve", -a, ReserveKey(k), left[u] - a, reserved[u] + a,
                           0, Len(reservations) + 1)
             new == Append(SweepRows(s), row)
  <2>1. row \in Row /\ row.key = ReserveKey(k)
    <3>1. left[u] - a \in Nat /\ reserved[u] + a \in Nat /\ -a \in Int
      <4> HIDE DEF left
      <4>1. left[u] >= a
        BY <1>2 DEF left
      <4> QED BY <1>4, <1>5, <4>1
    <3>2. Len(reservations) + 1 \in Nat
      <4>1. Len(reservations) \in Nat
        BY <1>1, LenProperties DEF TypeOK
      <4> QED BY <4>1
    <3>3. "reserve" \in RowTypes /\ ReserveKey(k) \in RowKeys
      BY KeysType DEF RowTypes
    <3> HIDE DEF left
    <3>4. row \in Row
      BY <3>1, <3>2, <3>3, NewRowType
    <3> QED
      BY <3>4 DEF NewRow
  <2> DEFINE rows == SweepRows(s)
             sums == SweepBalance(s)
             bal  == [i \in 0..Len(s) + 1 |-> IF i <= Len(s) THEN sums[i] ELSE balance']
  <2>2. /\ rows \in Seq(Row) /\ Len(rows) = Len(s)
        /\ \A i \in 1..Len(s) : rows[i].key = ExpireKey(s[i])
    BY <1>1, <1>3, SweepRowsType
  <2>3. /\ sums \in [0..Len(s) -> [Users -> Int]]
        /\ sums[0] = balance
        /\ \A i \in 1..Len(s) : rows[i].balanceAfter = sums[i][rows[i].user]
        /\ \A i \in 1..Len(s) : \A v \in Users : sums[i][v] = sums[i-1][v] + Change(rows[i], v)
    BY <1>1, <1>3, <2>2, SweepExplained
  <2>4. balance' = [sums[Len(s)] EXCEPT ![u] = @ - a]
    BY <1>2
  <2>5. row.user = u /\ row.amount = -a /\ row.balanceAfter = sums[Len(s)][u] - a
    BY DEF NewRow
  <2>6. ledger' = ledger \o new
    BY <1>2
  <2> HIDE DEF row, rows, sums
  <2>7. /\ new \in Seq(Row) /\ Len(new) = Len(s) + 1
        /\ \A i \in 1..Len(s) : new[i] = rows[i]
        /\ new[Len(s) + 1] = row
    BY <2>1, <2>2, AppendProperties DEF rows
  <2> HIDE DEF new
  <2>8. \A i \in 1..Len(new) : i \in 1..Len(s) \/ i = Len(s) + 1
    BY <1>3, <2>7
  <2>9. ASSUME NEW i \in 1..Len(new), NEW o \in Orders PROVE new[i].key # OrderKey(o)
    BY <2>1, <2>2, <2>7, <2>8, KeysDiffer
  <2>10. /\ \A i \in 0..Len(s) : bal[i] = sums[i]
         /\ bal[Len(s) + 1] = balance'
    BY <1>3
  <2>11. bal \in [0..Len(new) -> [Users -> Int]]
    <3>1. balance' \in [Users -> Int]
      BY <1>9
    <3>2. \A i \in 0..Len(s) + 1 : i \in 0..Len(s) \/ i = Len(s) + 1
      BY <1>3
    <3>3. \A i \in 0..Len(s) + 1 : bal[i] \in [Users -> Int]
      BY <2>3, <2>10, <3>1, <3>2
    <3> QED
      BY <2>7, <3>3
  <2> HIDE DEF bal
  <2>12. bal[0] = balance /\ bal[Len(new)] = balance'
    <3>1. 0 \in 0..Len(s)
      BY <1>3
    <3> QED
      BY <2>3, <2>7, <2>10, <3>1
  <2>13. ASSUME NEW i \in 1..Len(new)
         PROVE  /\ new[i].balanceAfter = bal[i][new[i].user]
                /\ \A v \in Users : bal[i][v] = bal[i-1][v] + Change(new[i], v)
    <3>1. CASE i \in 1..Len(s)
      <4>1. i \in 0..Len(s) /\ i-1 \in 0..Len(s)
        BY <1>3, <3>1
      <4>2. bal[i] = sums[i] /\ bal[i-1] = sums[i-1] /\ new[i] = rows[i]
        BY <2>7, <2>10, <3>1, <4>1
      <4>3. rows[i].balanceAfter = sums[i][rows[i].user]
        BY <2>3, <3>1
      <4>4. \A v \in Users : sums[i][v] = sums[i-1][v] + Change(rows[i], v)
        BY <2>3, <3>1
      <4> QED
        BY <4>2, <4>3, <4>4
    <3>2. CASE i = Len(s) + 1
      <4>1. i-1 = Len(s) /\ i-1 \in 0..Len(s)
        BY <1>3, <3>2
      <4>2. bal[i] = balance' /\ bal[i-1] = sums[Len(s)] /\ new[i] = row
        BY <2>7, <2>10, <3>2, <4>1
      <4>3. sums[Len(s)] \in [Users -> Int]
        BY <2>3, <4>1
      <4>4. balance'[u] = sums[Len(s)][u] - a
        BY <2>4, <4>3
      <4>5. ASSUME NEW v \in Users PROVE balance'[v] = sums[Len(s)][v] + Change(row, v)
        BY <1>4, <2>4, <2>5, <4>3 DEF Change
      <4> QED
        BY <2>5, <4>2, <4>4, <4>5
    <3> QED
      BY <2>8, <3>1, <3>2
  <2> QED
    BY <1>8, <2>6, <2>7, <2>9, <2>11, <2>12, <2>13, RowsAppended
<1>13. now' = now
  BY DEF Reserve
<1> QED
  BY <1>1, <1>8, <1>9, <1>10, <1>11, <1>12, <1>13 DEF IInv, TypeOK

\* What commit and release share preserves the invariant: the hold is given
\* up, and the one new row says what came back.
LEMMA FinalizePreserves ==
  ASSUME IInv, NEW r \in DOMAIN reservations, NEW k \in Keys,
         NEW status \in {"committed", "released"}, NEW type \in {"commit", "release"},
         NEW restored \in Nat,
         Finalizable(r, k), Finalize(r, k, status, type, restored),
         DOMAIN buckets' = DOMAIN buckets
  PROVE  /\ balance' \in [Users -> Nat] /\ reserved' \in [Users -> Nat]
         /\ reservations' \in Seq(Reservation) /\ now' \in Times
         /\ ledger' \in Seq(Row) /\ OrderRowsNameBuckets' /\ LedgerExplainsBalance'
<1> DEFINE res == reservations[r]
           u   == res.user
           row == NewRow(u, type, restored, ClientKey(k), balance[u] + restored,
                         reserved[u] - res.amount, 0, r)
<1>1. /\ balance \in [Users -> Nat] /\ reserved \in [Users -> Nat] /\ now \in Times
      /\ reservations \in Seq(Reservation) /\ Len(reservations) \in Nat
      /\ DOMAIN reservations = 1..Len(reservations)
  BY LenProperties DEF IInv, TypeOK
<1>2. res \in Reservation
  BY <1>1, ElementOfSeq
<1>3. u \in Users /\ res.amount \in Nat
  BY <1>2 DEF Reservation
<1>4. reserved[u] - res.amount \in Nat /\ balance[u] + restored \in Nat
  BY <1>1, <1>3 DEF Finalizable
<1>5. balance' \in [Users -> Nat] /\ reserved' \in [Users -> Nat] /\ now' \in Times
  <2>1. /\ balance' = [balance EXCEPT ![u] = @ + restored]
        /\ reserved' = [reserved EXCEPT ![u] = @ - res.amount] /\ now' = now
    BY DEF Finalize
  <2> HIDE DEF u, res
  <2> QED
    BY <1>1, <1>3, <1>4, <2>1
<1>6. reservations' \in Seq(Reservation)
  <2> DEFINE new == [res EXCEPT !.status = status, !.finalizedAt = now]
  <2>1. new \in Reservation
    <3> HIDE DEF res
    <3> QED BY <1>1, <1>2 DEF Reservation
  <2>2. reservations' = [reservations EXCEPT ![r] = new]
    BY DEF Finalize
  <2> HIDE DEF new
  <2> QED
    BY <1>1, <2>1, <2>2
<1>7. /\ row \in Row /\ row.key = ClientKey(k)
      /\ row.user = u /\ row.amount = restored /\ row.balanceAfter = balance[u] + restored
  <2>1. ClientKey(k) \in RowKeys /\ type \in RowTypes
    BY KeysType DEF RowTypes
  <2>2. row \in Row
    <3> HIDE DEF u, res
    <3>1. r \in Nat /\ restored \in Int
      BY <1>1
    <3> QED BY <1>3, <1>4, <2>1, <3>1, NewRowType
  <2> QED
    BY <2>2 DEF NewRow
<1>8. ledger' = Append(ledger, row)
  BY DEF Finalize
<1> HIDE DEF row
<1>9. ledger' \in Seq(Row) /\ OrderRowsNameBuckets' /\ LedgerExplainsBalance'
  <2>1. balance' = [balance EXCEPT ![row.user] = @ + row.amount]
    BY <1>7 DEF Finalize
  <2>2. row.balanceAfter = balance'[row.user]
    <3> HIDE DEF u
    <3> QED BY <1>1, <1>3, <1>7, <2>1
  <2> QED
    BY <1>7, <1>8, <2>1, <2>2, KeysDiffer, RowAppended
<1> QED
  BY <1>5, <1>6, <1>9

\* A reservation that can be finalized holds no more than its buckets do.
LEMMA AllocatedBuckets ==
  ASSUME IInv, NEW r \in DOMAIN reservations, NEW k \in Keys, Finalizable(r, k)
  PROVE  /\ reservations[r] \in Reservation
         /\ \A b \in DOMAIN buckets :
              /\ buckets[b] \in Bucket
              /\ reservations[r].alloc[b] \in Nat
              /\ reservations[r].alloc[b] <= buckets[b].reserved
<1>1. reservations[r] \in Reservation
  BY LenProperties DEF IInv, TypeOK
<1>2. \A b \in DOMAIN buckets : b \in BucketIds /\ buckets[b] \in Bucket
  BY BucketRows DEF IInv
<1>3. \A b \in DOMAIN buckets : buckets[b].reserved \in Nat /\ reservations[r].alloc[b] \in Nat
  BY <1>1, <1>2 DEF Reservation, Bucket
<1> QED
  BY <1>1, <1>2, <1>3 DEF Finalizable

\* Rewriting every bucket into a bucket keeps the table's type.
LEMMA BucketsMapped ==
  ASSUME IInv, NEW f, buckets' = [b \in DOMAIN buckets |-> f[b]],
         \A b \in DOMAIN buckets : f[b] \in Bucket
  PROVE  /\ buckets' \in Seq(Bucket) /\ Len(buckets') = Len(buckets)
         /\ Len(buckets') <= MaxBuckets
         /\ DOMAIN buckets' = DOMAIN buckets
<1>1. buckets' \in [1..Len(buckets) -> Bucket]
  BY BucketRows DEF IInv
<1> QED
  BY <1>1, BucketRows, SequenceOf DEF IInv

\* Spending a hold preserves the invariant.
LEMMA CommitPreserves ==
  ASSUME IInv, NEW r \in DOMAIN reservations, NEW k \in Keys, Commit(r, k)
  PROVE  IInv'
<1> DEFINE alloc == reservations[r].alloc
           f == [b \in DOMAIN buckets |->
                   IF alloc[b] = 0 THEN buckets[b]
                   ELSE Closed([buckets[b] EXCEPT !.reserved = @ - alloc[b]], now)]
<1>1. Finalizable(r, k) /\ Finalize(r, k, "committed", "commit", 0)
  BY DEF Commit
<1>2. \A b \in DOMAIN buckets : f[b] \in Bucket
  BY <1>1, AllocatedBuckets, UnheldType, ClosedType
<1>3. buckets' = [b \in DOMAIN buckets |-> f[b]]
  BY DEF Commit
<1> HIDE DEF f
<1>4. buckets' \in Seq(Bucket) /\ Len(buckets') <= MaxBuckets /\ DOMAIN buckets' = DOMAIN buckets
  BY <1>2, <1>3, BucketsMapped
<1>5. /\ balance' \in [Users -> Nat] /\ reserved' \in [Users -> Nat]
      /\ reservations' \in Seq(Reservation) /\ now' \in Times
      /\ ledger' \in Seq(Row) /\ OrderRowsNameBuckets' /\ LedgerExplainsBalance'
  BY <1>1, <1>4, FinalizePreserves
<1> QED
  BY <1>4, <1>5 DEF IInv, TypeOK

\* Returning a hold preserves the invariant.
LEMMA ReleasePreserves ==
  ASSUME IInv, NEW r \in DOMAIN reservations, NEW k \in Keys, Release(r, k)
  PROVE  IInv'
<1> DEFINE res == reservations[r]
           f == [b \in DOMAIN buckets |->
                   IF res.alloc[b] = 0 THEN buckets[b]
                   ELSE Closed(ReturnTo(buckets[b], res.alloc[b]), now)]
<1>1. Finalizable(r, k) /\ Finalize(r, k, "released", "release", Restored(res))
  BY DEF Release
<1>2. \A b \in DOMAIN buckets : f[b] \in Bucket
  BY <1>1, AllocatedBuckets, UnheldType, ClosedType
<1>3. buckets' = [b \in DOMAIN buckets |-> f[b]]
  BY DEF Release
<1> HIDE DEF f
<1>4. buckets' \in Seq(Bucket) /\ Len(buckets') <= MaxBuckets /\ DOMAIN buckets' = DOMAIN buckets
  BY <1>2, <1>3, BucketsMapped
<1>5. Restored(res) \in Nat
  BY <1>1, AllocatedBuckets, RestoredType
<1>6. /\ balance' \in [Users -> Nat] /\ reserved' \in [Users -> Nat]
      /\ reservations' \in Seq(Reservation) /\ now' \in Times
      /\ ledger' \in Seq(Row) /\ OrderRowsNameBuckets' /\ LedgerExplainsBalance'
  BY <1>1, <1>4, <1>5, FinalizePreserves
<1> QED
  BY <1>4, <1>6 DEF IInv, TypeOK

\* The expiry call preserves the invariant, whatever its limit cuts off.
LEMMA ExpireBucketsPreserves ==
  ASSUME IInv, NEW at \in SweepTimes, NEW limit \in Limits, ExpireBuckets(at, limit)
  PROVE  IInv'
<1> DEFINE due == {b \in DOMAIN buckets : Due(buckets[b], at)}
<1>1. TypeOK
  BY DEF IInv
<1>2. PICK s \in Ordered(due) :
        LET batch == SubSeq(s, 1, IF limit = 0 THEN Len(s) ELSE Lesser(limit, Len(s)))
        IN  /\ balance' = SweepBalance(batch)[Len(batch)]
            /\ buckets' = SweepBuckets(batch)
            /\ ledger' = ledger \o SweepRows(batch)
  BY DEF ExpireBuckets
<1> DEFINE n == IF limit = 0 THEN Len(s) ELSE Lesser(limit, Len(s))
           batch == SubSeq(s, 1, n)
<1>3. s \in Seq(DOMAIN buckets) /\ Len(s) \in Nat
  BY <1>1, OrderedIsSequence
<1>4. n \in 0..Len(s)
  BY <1>3, LimitsAssumption DEF Lesser
<1>5. batch \in Seq(DOMAIN buckets) /\ Len(batch) \in Nat
  <2> HIDE DEF n
  <2>1. \A i \in 1..n : s[i] \in DOMAIN buckets
    BY <1>3, <1>4, LenProperties
  <2>2. 1 \in Int /\ n \in Int
    BY <1>4
  <2>3. batch \in Seq(DOMAIN buckets)
    BY <2>1, <2>2, SubSeqProperties
  <2> QED
    BY <2>3, LenProperties
<1>6. /\ balance' = SweepBalance(batch)[Len(batch)]
      /\ buckets' = SweepBuckets(batch)
      /\ ledger' = ledger \o SweepRows(batch)
  BY <1>2
<1> HIDE DEF batch
<1>7. balance' \in [Users -> Nat]
  <2>1. Len(batch) \in 0..Len(batch)
    BY <1>5
  <2> QED
    BY <1>1, <1>5, <1>6, <2>1, SweepBalanceType DEF Balances
<1>8. buckets' \in Seq(Bucket) /\ Len(buckets') <= MaxBuckets /\ DOMAIN buckets' = DOMAIN buckets
  <2>1. buckets' \in Seq(Bucket) /\ Len(buckets') = Len(buckets)
    BY <1>1, <1>5, <1>6, SweepBucketsType
  <2> QED
    BY <1>1, <2>1, BucketRows, LenProperties
<1>9. ledger' \in Seq(Row) /\ OrderRowsNameBuckets' /\ LedgerExplainsBalance'
  <2> DEFINE new == SweepRows(batch)
  <2> DEFINE bal == SweepBalance(batch)
  <2>1. /\ new \in Seq(Row) /\ Len(new) = Len(batch)
        /\ \A i \in 1..Len(batch) : new[i].key = ExpireKey(batch[i])
    BY <1>1, <1>5, SweepRowsType
  <2>2. /\ bal \in [0..Len(new) -> [Users -> Int]]
        /\ bal[0] = balance /\ bal[Len(new)] = balance'
        /\ \A i \in 1..Len(new) : new[i].balanceAfter = bal[i][new[i].user]
        /\ \A i \in 1..Len(new) : \A u \in Users : bal[i][u] = bal[i-1][u] + Change(new[i], u)
    BY <1>1, <1>5, <1>6, <2>1, SweepExplained
  <2> HIDE DEF new, bal
  <2>4. ledger' = ledger \o new
    BY <1>6 DEF new
  <2>3. \A i \in 1..Len(new) : \A o \in Orders : new[i].key # OrderKey(o)
    BY <2>1, KeysDiffer
  <2> QED
    BY <1>8, <2>1, <2>2, <2>3, <2>4, RowsAppended
<1> QED
  BY <1>1, <1>7, <1>8, <1>9 DEF IInv, TypeOK, ExpireBuckets

\* A refund preserves the invariant: it takes no more than the bucket keeps.
LEMMA ClawbackPreserves ==
  ASSUME IInv, NEW o \in Orders, Clawback(o)
  PROVE  IInv'
<1>1. TypeOK
  BY DEF IInv
<1>2. PICK i \in DOMAIN ledger : ledger[i].key = OrderKey(o) /\ ClawbackRow(o, i)
  BY DEF Clawback
<1> DEFINE u == ledger[i].user
           b == ledger[i].bucket
           taken == Lesser(Lesser(ledger[i].amount, balance[u]), buckets[b].remaining)
           cut == [buckets[b] EXCEPT !.remaining = @ - taken]
           new == IF taken > 0 /\ cut.remaining + cut.reserved = 0
                  THEN [cut EXCEPT !.status = "depleted"] ELSE cut
           row == NewRow(u, "clawback", -taken, ClawbackKey(o),
                         balance[u] - taken, reserved[u], b, 0)
<1>3. /\ balance' = [balance EXCEPT ![u] = @ - taken]
      /\ buckets' = [buckets EXCEPT ![b] = new]
      /\ ledger' = Append(ledger, row)
  BY <1>2 DEF ClawbackRow
<1>4. ledger[i] \in Row
  BY <1>1, LenProperties DEF TypeOK
<1>5. u \in Users /\ ledger[i].amount \in Int
  BY <1>4 DEF Row
<1>6. b \in DOMAIN buckets
  BY <1>2 DEF IInv, OrderRowsNameBuckets
<1>7. b \in Nat /\ buckets[b] \in Bucket
  BY <1>1, <1>6, BucketRows
<1>8. balance \in [Users -> Nat] /\ reserved \in [Users -> Nat]
  BY <1>1 DEF TypeOK
<1>9. /\ balance[u] \in Nat /\ reserved[u] \in Nat
      /\ buckets[b].remaining \in Nat
  BY <1>5, <1>7, <1>8 DEF Bucket
<1>10. taken \in Int /\ balance[u] - taken \in Nat /\ buckets[b].remaining - taken \in Nat
  BY <1>5, <1>9 DEF Lesser
<1> HIDE DEF taken
<1>11. new \in Bucket
  <2>1. cut \in Bucket
    BY <1>7, <1>10 DEF Bucket
  <2>2. [cut EXCEPT !.status = "depleted"] \in Bucket
    <3> HIDE DEF cut
    <3> QED BY <2>1 DEF Bucket
  <2> QED
    BY <2>1, <2>2
<1>12. /\ row \in Row /\ row.key = ClawbackKey(o)
       /\ row.user = u /\ row.amount = -taken /\ row.balanceAfter = balance[u] - taken
  <2>1. "clawback" \in RowTypes /\ ClawbackKey(o) \in RowKeys /\ -taken \in Int
    BY <1>10, KeysType DEF RowTypes
  <2>2. row \in Row
    <3> HIDE DEF u, b
    <3> QED BY <1>5, <1>7, <1>9, <1>10, <2>1, NewRowType
  <2> QED
    BY <2>2 DEF NewRow
<1> HIDE DEF new, row, u, b
<1>13. balance' \in [Users -> Nat]
  BY <1>3, <1>5, <1>8, <1>10
<1>14. buckets' \in Seq(Bucket) /\ Len(buckets') <= MaxBuckets /\ DOMAIN buckets' = DOMAIN buckets
  <2>1. buckets \in Seq(Bucket) /\ Len(buckets) <= MaxBuckets
    BY <1>1 DEF TypeOK
  <2> QED
    BY <1>3, <1>6, <1>11, <2>1
<1>15. ledger' \in Seq(Row) /\ OrderRowsNameBuckets' /\ LedgerExplainsBalance'
  <2>1. \A p \in Orders : row.key # OrderKey(p)
    BY <1>12, KeysDiffer
  <2>2. balance[u] - taken = balance[u] + row.amount
    BY <1>9, <1>10, <1>12
  <2>3. balance' = [balance EXCEPT ![row.user] = @ + row.amount]
    BY <1>3, <1>12, <2>2
  <2>4. row.balanceAfter = balance'[row.user]
    BY <1>3, <1>5, <1>8, <1>12
  <2> QED
    BY <1>3, <1>12, <1>14, <2>1, <2>3, <2>4, RowAppended
<1> QED
  BY <1>1, <1>13, <1>14, <1>15 DEF IInv, TypeOK, Clawback

\* The empty tables satisfy the invariant.
LEMMA InitIInv == Init => IInv
<1> SUFFICES ASSUME Init PROVE IInv
  OBVIOUS
<1>1. /\ buckets \in Seq(Bucket) /\ Len(buckets) = 0
      /\ reservations \in Seq(Reservation) /\ ledger \in Seq(Row) /\ DOMAIN ledger = {}
  BY EmptySeq DEF Init
<1>2. now \in Times /\ balance \in [Users -> Nat] /\ reserved \in [Users -> Nat]
  BY LegacyAssumption, BoundsAssumption DEF Init, Times
<1>3. ASSUME NEW u \in Users PROVE balance[u] = Replay(u, Len(ledger))
  <2>1. ReplayOf(ledger, u, 0) = LegacyBalance[u]
    BY <1>1, ReplaySteps
  <2>2. Replay(u, Len(ledger)) = ReplayOf(ledger, u, 0)
    BY <1>1 DEF Init, Replay, ReplayOf
  <2> QED
    BY <2>1, <2>2 DEF Init
<1>4. LedgerExplainsBalance
  BY <1>1, <1>3 DEF LedgerExplainsBalance
<1> QED
  BY <1>1, <1>2, <1>4, BoundsAssumption DEF IInv, TypeOK, OrderRowsNameBuckets

\* Every step of the service preserves the invariant.
LEMMA StepIInv == IInv /\ [Next]_vars => IInv'
<1> SUFFICES ASSUME IInv, [Next]_vars PROVE IInv'
  OBVIOUS
<1>1. ASSUME NEW u \in Users, NEW k \in Keys, NEW a \in GrantAmounts, Grant(u, k, a)
      PROVE  IInv'
  <2>1. ClientKey(k) \in RowKeys /\ "admin" \in ExplicitTypes
    BY KeysType DEF ExplicitTypes
  <2> QED
    BY <1>1, <2>1, GrantCreditsPreserves DEF Grant
<1>2. ASSUME NEW u \in Users, NEW o \in Orders, NEW a \in GrantAmounts,
             NEW terms \in OrderTerms, FulfillCredits(u, o, a, terms)
      PROVE  IInv'
  <2>1. OrderKey(o) \in RowKeys
    BY KeysType
  <2> QED
    BY <1>2, <2>1, TermsTypes, GrantCreditsPreserves DEF FulfillCredits
<1>3. ASSUME Tick PROVE IInv'
  <2>1. now' \in Times
    BY <1>3, BoundsAssumption DEF Tick, IInv, TypeOK, Times
  <2>2. UNCHANGED <<balance, reserved, buckets, reservations, ledger>>
    BY <1>3 DEF Tick
  <2> QED
    BY <2>1, <2>2 DEF IInv, TypeOK, OrderRowsNameBuckets, LedgerExplainsBalance, Replay
<1>4. ASSUME UNCHANGED vars PROVE IInv'
  BY <1>4 DEF vars, IInv, TypeOK, OrderRowsNameBuckets, LedgerExplainsBalance, Replay
<1> QED
  BY <1>1, <1>2, <1>3, <1>4, ReservePreserves, CommitPreserves, ReleasePreserves, ExpireBucketsPreserves,
     ClawbackPreserves DEF Next

-----------------------------------------------------------------------------
(* The theorems.                                                           *)

\* The tables keep their types in every reachable state: no balance, hold or
\* bucket of internal/service/credit.go and credit_bucket.go, and none after
\* a refund of payment_adjustment.go, is ever negative.
THEOREM TypeCorrect == Spec => []TypeOK
<1>1. IInv => TypeOK
  BY DEF IInv
<1> QED
  BY InitIInv, StepIInv, <1>1, PTL DEF Spec

\* In every reachable state the ledger explains the accounts: each row's
\* balance_after is what the rows up to it add up to, and each balance is
\* what all of them do, through sweeps, batches and refunds.
THEOREM LedgerCorrect == Spec => []LedgerExplainsBalance
<1>1. IInv => LedgerExplainsBalance
  BY DEF IInv
<1> QED
  BY InitIInv, StepIInv, <1>1, PTL DEF Spec

-----------------------------------------------------------------------------
(* The sums of CreditsAddUp as totals of the tables: what each row counts. *)

\* A pending reservation counts its amount to its user, and to a bucket what
\* it holds there.
HoldOf(u) ==
  [res \in Reservation |-> IF res.status = "pending" /\ res.user = u THEN res.amount ELSE 0]
HoldOn(b) ==
  [res \in Reservation |-> IF res.status = "pending" THEN res.alloc[b] ELSE 0]

\* A reservation that has ended counts what is gone for good from bucket b,
\* which expires at t.
GoneFrom(b, t) ==
  [res \in Reservation |->
     IF \/ res.status = "committed"
        \/ res.status = "released" /\ ~After(t, res.finalizedAt)
     THEN res.alloc[b] ELSE 0]

\* A ledger row of the given type counts its amount to the bucket it names.
Says(b, type) ==
  [row \in Row |-> IF row.type = type /\ row.bucket = b THEN row.amount ELSE 0]

\* A bucket counts what is left of it to its user.
LeftTo(u) ==
  [bucket \in Bucket |-> IF bucket.user = u THEN bucket.remaining ELSE 0]

RowsNaming(l, r, type) == {i \in DOMAIN l : l[i].reservation = r /\ l[i].type = type}

TotalsHeld ==
  /\ \A u \in Users : reserved[u] = Total(HoldOf(u), reservations)
  /\ \A b \in DOMAIN buckets : buckets[b].reserved = Total(HoldOn(b), reservations)

TotalsConserve ==
  \A b \in DOMAIN buckets :
    buckets[b].granted = buckets[b].remaining + buckets[b].reserved
                           + Total(GoneFrom(b, buckets[b].expiresAt), reservations)
                           - Total(Says(b, "expire"), ledger) - Total(Says(b, "clawback"), ledger)

TotalsCovered == \A u \in Users : balance[u] >= Total(LeftTo(u), buckets)

RowsOnce ==
  \A r \in DOMAIN reservations :
    /\ Cardinality(RowsNaming(ledger, r, "reserve")) = 1
    /\ Cardinality(RowsNaming(ledger, r, "commit"))
         = IF reservations[r].status = "committed" THEN 1 ELSE 0
    /\ Cardinality(RowsNaming(ledger, r, "release"))
         = IF reservations[r].status = "released" THEN 1 ELSE 0

\* The rows count integers, and all but the ledger's count naturals.
LEMMA CountsType ==
  /\ \A u : HoldOf(u) \in [Reservation -> Int] /\ \A res \in Reservation : HoldOf(u)[res] \in Nat
  /\ \A u : LeftTo(u) \in [Bucket -> Int] /\ \A bucket \in Bucket : LeftTo(u)[bucket] \in Nat
  /\ \A b \in BucketIds : HoldOn(b) \in [Reservation -> Int]
  /\ \A b \in BucketIds : \A t : GoneFrom(b, t) \in [Reservation -> Int]
  /\ \A b, type : Says(b, type) \in [Row -> Int]
<1>1. \A res \in Reservation : /\ res.amount \in Nat
                               /\ \A b \in BucketIds : res.alloc[b] \in Nat
  BY DEF Reservation
<1>2. \A bucket \in Bucket : bucket.remaining \in Nat
  BY DEF Bucket
<1>3. \A row \in Row : row.amount \in Int
  BY DEF Row
<1>4. ASSUME NEW u
      PROVE  HoldOf(u) \in [Reservation -> Int] /\ \A res \in Reservation : HoldOf(u)[res] \in Nat
  BY <1>1 DEF HoldOf
<1>5. ASSUME NEW u
      PROVE  LeftTo(u) \in [Bucket -> Int] /\ \A bucket \in Bucket : LeftTo(u)[bucket] \in Nat
  BY <1>2 DEF LeftTo
<1>6. ASSUME NEW b \in BucketIds PROVE HoldOn(b) \in [Reservation -> Int]
  BY <1>1 DEF HoldOn
<1>7. ASSUME NEW b \in BucketIds, NEW t PROVE GoneFrom(b, t) \in [Reservation -> Int]
  BY <1>1 DEF GoneFrom
<1>8. ASSUME NEW b, NEW type PROVE Says(b, type) \in [Row -> Int]
  BY <1>3 DEF Says
<1> QED
  BY <1>4, <1>5, <1>6, <1>7, <1>8

\* CreditsAddUp says that the totals agree.
LEMMA Restated ==
  ASSUME TypeOK
  PROVE  CreditsAddUp <=> TotalsHeld /\ TotalsConserve /\ TotalsCovered /\ RowsOnce
<1>1. /\ DOMAIN buckets = 1..Len(buckets) /\ Len(buckets) \in Nat
      /\ DOMAIN reservations = 1..Len(reservations) /\ Len(reservations) \in Nat
      /\ DOMAIN ledger = 1..Len(ledger) /\ Len(ledger) \in Nat
      /\ \A b \in DOMAIN buckets : buckets[b] \in Bucket
      /\ \A r \in DOMAIN reservations : reservations[r] \in Reservation
      /\ \A i \in DOMAIN ledger : ledger[i] \in Row
  BY LenProperties DEF TypeOK
<1>2. ASSUME NEW u
      PROVE  [r \in DOMAIN reservations |->
                IF r \in Pending /\ reservations[r].user = u THEN reservations[r].amount ELSE 0]
             = Counts(HoldOf(u), reservations)
  BY <1>1 DEF Pending, Counts, HoldOf
<1>3. ASSUME NEW b
      PROVE  [r \in DOMAIN reservations |->
                IF r \in Pending THEN reservations[r].alloc[b] ELSE 0]
             = Counts(HoldOn(b), reservations)
  BY <1>1 DEF Pending, Counts, HoldOn
<1>4. ASSUME NEW b
      PROVE  Consumed(b) = Total(GoneFrom(b, buckets[b].expiresAt), reservations)
  <2> DEFINE gone(res) == \/ res.status = "committed"
                          \/ res.status = "released" /\ ~Live(buckets[b], res.finalizedAt)
  <2>1. [r \in DOMAIN reservations |->
           IF gone(reservations[r]) THEN reservations[r].alloc[b] ELSE 0]
        = Counts(GoneFrom(b, buckets[b].expiresAt), reservations)
    BY <1>1 DEF Live, Counts, GoneFrom
  <2> QED
    BY <2>1 DEF Consumed, Total
<1>5. ASSUME NEW b, NEW type
      PROVE  RowSum(b, type) = Total(Says(b, type), ledger)
  <2>1. [i \in DOMAIN ledger |->
           IF ledger[i].type = type /\ ledger[i].bucket = b THEN ledger[i].amount ELSE 0]
        = Counts(Says(b, type), ledger)
    BY <1>1 DEF Counts, Says
  <2> QED
    BY <2>1 DEF RowSum, Total
<1>6. ASSUME NEW u
      PROVE  [b \in DOMAIN buckets |->
                IF buckets[b].user = u THEN buckets[b].remaining ELSE 0]
             = Counts(LeftTo(u), buckets)
  BY <1>1 DEF Counts, LeftTo
<1>7. HoldsMatchPending <=> TotalsHeld
  BY <1>2, <1>3 DEF HoldsMatchPending, TotalsHeld, Total
<1>8. BucketsConserve <=> TotalsConserve
  BY <1>4, <1>5 DEF BucketsConserve, TotalsConserve
<1>9. BalanceCoversBuckets <=> TotalsCovered
  BY <1>6 DEF BalanceCoversBuckets, TotalsCovered, Total
<1>10. FinalizedOnce <=> RowsOnce
  BY DEF FinalizedOnce, RowsOnce, RowsNaming
<1> QED
  BY <1>7, <1>8, <1>9, <1>10 DEF CreditsAddUp

-----------------------------------------------------------------------------
(* What the steps of a reservation change in the totals.                   *)

\* A new reservation is a hold.
LEMMA HoldAdded ==
  ASSUME NEW rs \in Seq(Reservation), NEW res \in Reservation, res.status = "pending"
  PROVE  /\ \A u : Total(HoldOf(u), Append(rs, res))
                     = Total(HoldOf(u), rs) + (IF res.user = u THEN res.amount ELSE 0)
         /\ \A b \in BucketIds : Total(HoldOn(b), Append(rs, res)) = Total(HoldOn(b), rs) + res.alloc[b]
         /\ \A b \in BucketIds : \A t : Total(GoneFrom(b, t), Append(rs, res)) = Total(GoneFrom(b, t), rs)
<1>1. ASSUME NEW u
      PROVE  Total(HoldOf(u), Append(rs, res))
               = Total(HoldOf(u), rs) + (IF res.user = u THEN res.amount ELSE 0)
  <2>1. HoldOf(u) \in [Reservation -> Int]
    BY CountsType
  <2>2. HoldOf(u)[res] = IF res.user = u THEN res.amount ELSE 0
    BY DEF HoldOf
  <2>3. Total(HoldOf(u), Append(rs, res)) = Total(HoldOf(u), rs) + HoldOf(u)[res]
    BY <2>1, TotalAppend
  <2> QED
    BY <2>2, <2>3
<1>2. ASSUME NEW b \in BucketIds
      PROVE  Total(HoldOn(b), Append(rs, res)) = Total(HoldOn(b), rs) + res.alloc[b]
  <2>1. HoldOn(b) \in [Reservation -> Int]
    BY CountsType
  <2>2. HoldOn(b)[res] = res.alloc[b]
    BY DEF HoldOn
  <2>3. Total(HoldOn(b), Append(rs, res)) = Total(HoldOn(b), rs) + HoldOn(b)[res]
    BY <2>1, TotalAppend
  <2> QED
    BY <2>2, <2>3
<1>3. ASSUME NEW b \in BucketIds, NEW t
      PROVE  Total(GoneFrom(b, t), Append(rs, res)) = Total(GoneFrom(b, t), rs)
  <2>1. GoneFrom(b, t) \in [Reservation -> Int]
    BY CountsType
  <2>2. GoneFrom(b, t)[res] = 0
    BY DEF GoneFrom
  <2>3. Total(GoneFrom(b, t), rs) \in Int
    BY <2>1, TotalType
  <2>4. Total(GoneFrom(b, t), Append(rs, res)) = Total(GoneFrom(b, t), rs) + 0
    BY <2>1, <2>2, TotalAppend
  <2> QED
    BY <2>3, <2>4
<1> QED
  BY <1>1, <1>2, <1>3

\* A reservation that ends is a hold no more; what it drew is gone for good
\* unless it is released before the bucket expires.
LEMMA HoldEnded ==
  ASSUME NEW rs \in Seq(Reservation), NEW r \in DOMAIN rs, rs[r].status = "pending",
         NEW new \in Reservation, new.status \in {"committed", "released"},
         new.alloc = rs[r].alloc,
         NEW ended \in Seq(Reservation), RowSet(ended, rs, r, new)
  PROVE  /\ \A u : Total(HoldOf(u), ended)
                     = Total(HoldOf(u), rs) - (IF rs[r].user = u THEN rs[r].amount ELSE 0)
         /\ \A b \in BucketIds :
              Total(HoldOn(b), ended) = Total(HoldOn(b), rs) - rs[r].alloc[b]
         /\ \A b \in BucketIds : \A t :
              Total(GoneFrom(b, t), ended) = Total(GoneFrom(b, t), rs)
                + (IF new.status = "committed" \/ ~After(t, new.finalizedAt)
                   THEN rs[r].alloc[b] ELSE 0)
<1> DEFINE res == rs[r]
<1>1. res \in Reservation
  BY LenProperties
<1>2. res.amount \in Nat /\ \A b \in BucketIds : res.alloc[b] \in Nat
  BY <1>1 DEF Reservation
<1>3. res.status = "pending" /\ new.alloc = res.alloc
  OBVIOUS
<1>7. ASSUME NEW w \in [Reservation -> Int]
      PROVE  Total(w, ended) = Total(w, rs) + (w[new] - w[res]) /\ Total(w, rs) \in Int
  BY TotalUpdated, TotalType
<1> HIDE DEF res
<1>4. ASSUME NEW u
      PROVE  Total(HoldOf(u), ended)
               = Total(HoldOf(u), rs) - (IF res.user = u THEN res.amount ELSE 0)
  <2>1. HoldOf(u) \in [Reservation -> Int]
    BY CountsType
  <2>2. HoldOf(u)[new] = 0 /\ HoldOf(u)[res] = IF res.user = u THEN res.amount ELSE 0
    BY <1>1, <1>3 DEF HoldOf
  <2>3. Total(HoldOf(u), ended) = Total(HoldOf(u), rs) + (HoldOf(u)[new] - HoldOf(u)[res]) /\ Total(HoldOf(u), rs) \in Int
    BY <1>7, <2>1
  <2> QED
    BY <1>2, <2>2, <2>3
<1>5. ASSUME NEW b \in BucketIds
      PROVE  Total(HoldOn(b), ended) = Total(HoldOn(b), rs) - res.alloc[b]
  <2>1. HoldOn(b) \in [Reservation -> Int]
    BY CountsType
  <2>2. HoldOn(b)[new] = 0 /\ HoldOn(b)[res] = res.alloc[b]
    BY <1>1, <1>3 DEF HoldOn
  <2>3. Total(HoldOn(b), ended) = Total(HoldOn(b), rs) + (HoldOn(b)[new] - HoldOn(b)[res]) /\ Total(HoldOn(b), rs) \in Int
    BY <1>7, <2>1
  <2> QED
    BY <1>2, <2>2, <2>3
<1>6. ASSUME NEW b \in BucketIds, NEW t
      PROVE  Total(GoneFrom(b, t), ended) = Total(GoneFrom(b, t), rs)
               + (IF new.status = "committed" \/ ~After(t, new.finalizedAt) THEN res.alloc[b] ELSE 0)
  <2>1. GoneFrom(b, t) \in [Reservation -> Int]
    BY CountsType
  <2>2. /\ GoneFrom(b, t)[new]
             = IF new.status = "committed" \/ ~After(t, new.finalizedAt) THEN res.alloc[b] ELSE 0
        /\ GoneFrom(b, t)[res] = 0
    BY <1>1, <1>3 DEF GoneFrom
  <2>3. Total(GoneFrom(b, t), ended) = Total(GoneFrom(b, t), rs) + (GoneFrom(b, t)[new] - GoneFrom(b, t)[res]) /\ Total(GoneFrom(b, t), rs) \in Int
    BY <1>7, <2>1
  <2> QED
    BY <1>2, <2>2, <2>3
<1> QED
  BY <1>4, <1>5, <1>6 DEF res

-----------------------------------------------------------------------------
(* The rows that name a reservation.                                       *)

\* There are finitely many, and none of an index beyond the ledger.
LEMMA NamingFinite ==
  ASSUME NEW l \in Seq(Row), NEW r, NEW type
  PROVE  /\ IsFiniteSet(RowsNaming(l, r, type)) /\ RowsNaming(l, r, type) \subseteq 1..Len(l)
         /\ Cardinality(RowsNaming(l, r, type)) \in Nat
<1>1. Len(l) \in Nat /\ DOMAIN l = 1..Len(l)
  BY LenProperties
<1>2. RowsNaming(l, r, type) \subseteq 1..Len(l)
  BY <1>1 DEF RowsNaming
<1>3. IsFiniteSet(1..Len(l))
  BY <1>1, FS_Interval
<1> QED
  BY <1>2, <1>3, FS_Subset, FS_CardinalityType

\* One more row counts if it names the reservation and has the type.
LEMMA NamingAppend ==
  ASSUME NEW l \in Seq(Row), NEW row \in Row, NEW r, NEW type
  PROVE  Cardinality(RowsNaming(Append(l, row), r, type)) =
           Cardinality(RowsNaming(l, r, type))
             + (IF row.reservation = r /\ row.type = type THEN 1 ELSE 0)
<1> DEFINE n == Len(l)
           S == RowsNaming(l, r, type)
           all == Append(l, row)
<1>1. n \in Nat /\ DOMAIN l = 1..n
  BY LenProperties
<1>2. /\ all \in Seq(Row) /\ Len(all) = n + 1 /\ all[n + 1] = row
      /\ \A i \in 1..n : all[i] = l[i]
  BY AppendProperties
<1> HIDE DEF all
<1>3. DOMAIN all = 1..n + 1
  BY <1>2, LenProperties
<1>4. /\ IsFiniteSet(S) /\ S \subseteq 1..n /\ Cardinality(S) \in Nat
  BY NamingFinite
<1>5. CASE row.reservation = r /\ row.type = type
  <2>1. RowsNaming(all, r, type) = S \cup {n + 1} /\ n + 1 \notin S
    BY <1>1, <1>2, <1>3, <1>4, <1>5 DEF RowsNaming
  <2> HIDE DEF S
  <2>2. Cardinality(S \cup {n + 1}) = Cardinality(S) + 1
    BY <1>4, <2>1, FS_AddElement
  <2> QED
    BY <1>5, <2>1, <2>2 DEF S, all
<1>6. CASE ~(row.reservation = r /\ row.type = type)
  <2>1. RowsNaming(all, r, type) = S
    BY <1>1, <1>2, <1>3, <1>6 DEF RowsNaming
  <2>2. Cardinality(S) = Cardinality(S) + 0
    BY <1>4
  <2> QED
    BY <1>6, <2>1, <2>2 DEF all
<1> QED
  BY <1>5, <1>6

\* Rows of other types do not count.
LEMMA NamingConcat ==
  ASSUME NEW l \in Seq(Row), NEW new \in Seq(Row), NEW r, NEW type,
         \A i \in 1..Len(new) : new[i].type # type
  PROVE  RowsNaming(l \o new, r, type) = RowsNaming(l, r, type)
<1> DEFINE n == Len(l)
           m == Len(new)
           all == l \o new
<1>1. n \in Nat /\ DOMAIN l = 1..n /\ m \in Nat
  BY LenProperties
<1>2. /\ all \in Seq(Row) /\ Len(all) = n + m
      /\ \A i \in 1..n + m : all[i] = IF i <= n THEN l[i] ELSE new[i - n]
  BY ConcatProperties
<1> HIDE DEF all
<1>3. DOMAIN all = 1..n + m
  BY <1>2, LenProperties
<1>4. \A i \in 1..n : i \in 1..n + m /\ all[i] = l[i]
  BY <1>1, <1>2
<1>5. \A i \in 1..n + m : i \in 1..n \/ all[i].type # type
  <2> TAKE i \in 1..n + m
  <2>1. i \notin 1..n => i - n \in 1..m /\ ~(i <= n)
    BY <1>1
  <2> QED
    BY <1>2, <2>1
<1> QED
  BY <1>1, <1>3, <1>4, <1>5 DEF RowsNaming, all

-----------------------------------------------------------------------------
(* What a sweep takes.                                                     *)

\* The ordered buckets of a set are all of them.
LEMMA OrderedIsOnto ==
  ASSUME TypeOK, NEW S \in SUBSET DOMAIN buckets, NEW s \in Ordered(S)
  PROVE  \A b \in S : \E i \in 1..Len(s) : s[i] = b
<1>1. IsFiniteSet(S) /\ Cardinality(S) \in Nat
  <2>1. IsFiniteSet(DOMAIN buckets)
    BY BucketRows, FS_Interval
  <2> QED
    BY <2>1, FS_Subset, FS_CardinalityType
<1> DEFINE n == Cardinality(S)
<1>2. s \in [1..n -> S] /\ Len(s) = n
  <2>1. s \in [1..n -> S]
    BY DEF Ordered
  <2> QED
    BY <1>1, <2>1, SequenceOf
<1>3. \A i, j \in 1..n : s[i] = s[j] => i = j
  BY <1>2, OrderedIsSequence
<1>4. s \in Injection(1..n, S)
  BY <1>2, <1>3 DEF Injection, IsInjective
<1>5. Cardinality(1..n) = n
  BY <1>1, FS_Interval
<1>6. s \in Surjection(1..n, S)
  <2> HIDE DEF n
  <2>1. IsFiniteSet(S) /\ Cardinality(1..n) = Cardinality(S)
    BY <1>1, <1>5 DEF n
  <2> QED
    BY <1>4, <2>1, FS_Injection
<1> QED
  BY <1>2, <1>6 DEF Surjection

Emptied(b) == [b EXCEPT !.remaining = 0, !.status = "expired"]

\* The buckets after i buckets of s have been swept.
SweptTo(s, i) ==
  [b \in DOMAIN buckets |->
     IF \E j \in 1..i : s[j] = b THEN Emptied(buckets[b]) ELSE buckets[b]]

\* The tables of a sweep change one row at a time.
LEMMA SweptTables ==
  ASSUME TypeOK, NEW s \in Seq(DOMAIN buckets), IsInjective(s)
  PROVE  /\ SweptTo(s, 0) = buckets /\ SweptTo(s, Len(s)) = SweepBuckets(s)
         /\ \A i \in 0..Len(s) : /\ SweptTo(s, i) \in Seq(Bucket)
                                 /\ DOMAIN SweptTo(s, i) = DOMAIN buckets
         /\ \A i \in 1..Len(s) :
              /\ SweptTo(s, i-1)[s[i]] = buckets[s[i]]
              /\ Emptied(buckets[s[i]]) \in Bucket
              /\ RowSet(SweptTo(s, i), SweptTo(s, i-1), s[i], Emptied(buckets[s[i]]))
<1>1. /\ DOMAIN buckets = 1..Len(buckets) /\ Len(buckets) \in Nat
      /\ \A b \in DOMAIN buckets : buckets[b] \in Bucket
  BY BucketRows
<1>2. /\ Len(s) \in Nat /\ DOMAIN s = 1..Len(s)
      /\ \A i \in 1..Len(s) : s[i] \in DOMAIN buckets
  BY LenProperties
<1>3. \A b \in DOMAIN buckets : Emptied(buckets[b]) \in Bucket
  BY <1>1 DEF Emptied, Bucket
<1>4. ASSUME NEW i \in 0..Len(s)
      PROVE  /\ SweptTo(s, i) \in Seq(Bucket) /\ Len(SweptTo(s, i)) = Len(buckets)
             /\ DOMAIN SweptTo(s, i) = DOMAIN buckets
             /\ \A b \in DOMAIN buckets : SweptTo(s, i)[b] =
                  IF \E j \in 1..i : s[j] = b THEN Emptied(buckets[b]) ELSE buckets[b]
  <2>1. \A b \in DOMAIN buckets : SweptTo(s, i)[b] =
          IF \E j \in 1..i : s[j] = b THEN Emptied(buckets[b]) ELSE buckets[b]
    BY DEF SweptTo
  <2>2. \A b \in DOMAIN buckets : SweptTo(s, i)[b] \in Bucket
    BY <1>1, <1>3, <2>1
  <2>3. SweptTo(s, i) = [b \in 1..Len(buckets) |-> SweptTo(s, i)[b]]
    BY <1>1 DEF SweptTo
  <2>4. SweptTo(s, i) \in [1..Len(buckets) -> Bucket]
    BY <1>1, <2>2, <2>3
  <2> QED
    BY <1>1, <2>1, <2>4, SequenceOf
<1>5. SweptTo(s, 0) = buckets
  <2>1. SweptTo(s, 0) = [b \in DOMAIN buckets |-> buckets[b]]
    BY DEF SweptTo
  <2>2. buckets = [b \in DOMAIN buckets |-> buckets[b]]
    BY <1>1 DEF TypeOK
  <2> QED
    BY <2>1, <2>2
<1>6. SweptTo(s, Len(s)) = SweepBuckets(s)
  BY DEF SweptTo, SweepBuckets, Emptied
<1>7. ASSUME NEW i \in 1..Len(s)
      PROVE  /\ SweptTo(s, i-1)[s[i]] = buckets[s[i]]
             /\ RowSet(SweptTo(s, i), SweptTo(s, i-1), s[i], Emptied(buckets[s[i]]))
  <2>1. i \in 0..Len(s) /\ i-1 \in 0..Len(s) /\ i \in 1..i
    BY <1>2
  <2>2. \A j \in 1..i-1 : s[j] # s[i]
    <3>1. \A j \in 1..i-1 : j \in 1..Len(s) /\ j # i
      BY <1>2
    <3> QED
      BY <1>2, <3>1 DEF IsInjective
  <2>3. SweptTo(s, i-1)[s[i]] = buckets[s[i]]
    <3>1. s[i] \in DOMAIN buckets
      BY <1>2
    <3>2. SweptTo(s, i-1)[s[i]] =
            IF \E j \in 1..i-1 : s[j] = s[i] THEN Emptied(buckets[s[i]]) ELSE buckets[s[i]]
      BY <1>4, <2>1, <3>1
    <3> QED
      BY <2>2, <3>2
  <2>4. SweptTo(s, i)[s[i]] = Emptied(buckets[s[i]])
    BY <1>2, <1>4, <2>1
  <2>5. ASSUME NEW b \in DOMAIN buckets, b # s[i]
        PROVE  SweptTo(s, i)[b] = SweptTo(s, i-1)[b]
    <3>1. (\E j \in 1..i : s[j] = b) <=> (\E j \in 1..i-1 : s[j] = b)
      <4>1. \A j \in 1..i : j = i \/ j \in 1..i-1
        BY <1>2
      <4>2. \A j \in 1..i-1 : j \in 1..i
        BY <1>2
      <4> QED
        BY <2>5, <4>1, <4>2
    <3>2. /\ SweptTo(s, i)[b] = IF \E j \in 1..i : s[j] = b
                                THEN Emptied(buckets[b]) ELSE buckets[b]
          /\ SweptTo(s, i-1)[b] = IF \E j \in 1..i-1 : s[j] = b
                                  THEN Emptied(buckets[b]) ELSE buckets[b]
      BY <1>4, <2>1
    <3> QED
      BY <3>1, <3>2
  <2> QED
    BY <1>4, <2>1, <2>3, <2>4, <2>5 DEF RowSet
<1> QED
  BY <1>2, <1>3, <1>4, <1>5, <1>6, <1>7

\* A sweep takes from every balance what is left of the swept buckets, no
\* less: balances cover the buckets.  So every row says what its bucket had.
LEMMA SweepTakes ==
  ASSUME TypeOK, TotalsCovered, NEW s \in Seq(DOMAIN buckets), IsInjective(s)
  PROVE  /\ \A u \in Users :
              SweepBalance(s)[Len(s)][u] - Total(LeftTo(u), SweepBuckets(s))
                = balance[u] - Total(LeftTo(u), buckets)
         /\ \A i \in 1..Len(s) :
              /\ SweepRows(s)[i].type = "expire" /\ SweepRows(s)[i].bucket = s[i]
              /\ SweepRows(s)[i].reservation = 0
              /\ SweepRows(s)[i].amount = -buckets[s[i]].remaining
<1> DEFINE N == Len(s)
           bal == SweepBalance(s)
           U(i) == buckets[s[i]].user
           rest(i) == buckets[s[i]].remaining
           left(u, i) == Total(LeftTo(u), SweptTo(s, i))
           T == {i \in Nat : i <= N => \A u \in Users : bal[i][u] - left(u, i) = balance[u] - left(u, 0)}
<1>1. N \in Nat /\ \A i \in 1..N : s[i] \in DOMAIN buckets /\ buckets[s[i]] \in Bucket
  BY BucketRows, LenProperties
<1>2. /\ bal \in [0..N -> Balances] /\ bal[0] = balance
      /\ \A i \in 1..N : bal[i] = Swept(bal[i-1], buckets[s[i]])
  BY SweepBalanceType
<1>3. \A i \in 1..N : U(i) \in Users /\ rest(i) \in Nat
  BY <1>1 DEF Bucket
<1>4. \A i \in 0..N : \A u \in Users : bal[i][u] \in Nat
  BY <1>2 DEF Balances
<1>5. ASSUME NEW i \in 0..N, NEW u
      PROVE  left(u, i) \in Nat
  <2>1. SweptTo(s, i) \in Seq(Bucket)
    BY SweptTables
  <2> QED
    BY <2>1, CountsType, TotalType
<1>6. ASSUME NEW i \in 1..N, NEW u
      PROVE  /\ left(u, i) = left(u, i-1) - (IF U(i) = u THEN rest(i) ELSE 0)
             /\ U(i) = u => rest(i) <= left(u, i-1)
  <2> DEFINE w == LeftTo(u)
             k == SweptTo(s, i)
             l == SweptTo(s, i-1)
             e == Emptied(buckets[s[i]])
             x == IF U(i) = u THEN rest(i) ELSE 0
  <2>1. i \in 0..N /\ i-1 \in 0..N
    BY <1>1
  <2>2. /\ k \in Seq(Bucket) /\ l \in Seq(Bucket) /\ s[i] \in DOMAIN l
        /\ l[s[i]] = buckets[s[i]] /\ e \in Bucket /\ RowSet(k, l, s[i], e)
    BY <1>1, <2>1, SweptTables
  <2>3. w \in [Bucket -> Int] /\ \A b \in Bucket : w[b] \in Nat
    BY CountsType
  <2>4. w[e] = 0
    <3>1. e.remaining = 0
      BY <1>1 DEF Emptied, Bucket
    <3> HIDE DEF e
    <3> QED
      BY <2>2, <3>1 DEF LeftTo
  <2>5. w[l[s[i]]] = x
    BY <1>1, <2>2 DEF LeftTo
  <2> HIDE DEF w, k, l, e, x
  <2>6. Total(w, k) = Total(w, l) + (w[e] - w[l[s[i]]])
    BY <2>2, <2>3, TotalUpdated
  <2>7. Total(w, l) \in Nat /\ w[l[s[i]]] <= Total(w, l)
    BY <2>2, <2>3, TotalType
  <2>8. x \in Nat
    BY <1>3 DEF x
  <2>9. Total(w, k) = Total(w, l) - x /\ x <= Total(w, l)
    BY <2>4, <2>5, <2>6, <2>7, <2>8
  <2> QED
    BY <2>9 DEF w, k, l, x
<1>7. \A u \in Users : balance[u] >= left(u, 0) /\ balance[u] \in Nat
  BY SweptTables DEF TotalsCovered, TypeOK
<1> HIDE DEF N, bal, left
<1>8. 0 \in T
  BY <1>2
<1>9. ASSUME NEW i \in 1..N, \A u \in Users : bal[i-1][u] - left(u, i-1) = balance[u] - left(u, 0)
      PROVE  /\ \A u \in Users : bal[i][u] = bal[i-1][u] - (IF U(i) = u THEN rest(i) ELSE 0)
             /\ \A u \in Users : bal[i][u] - left(u, i) = balance[u] - left(u, 0)
  <2>1. i \in 0..N /\ i-1 \in 0..N /\ 0 \in 0..N
    BY <1>1
  <2>2. ASSUME NEW u \in Users
        PROVE  bal[i][u] = bal[i-1][u] - (IF U(i) = u THEN rest(i) ELSE 0)
    <3>1. bal[i-1] \in [Users -> Nat]
      BY <1>2, <2>1 DEF Balances
    <3>2. CASE U(i) = u
      <4>1. /\ rest(i) <= left(u, i-1) /\ rest(i) \in Nat /\ bal[i-1][u] \in Nat
            /\ left(u, i-1) \in Nat /\ left(u, 0) \in Nat /\ balance[u] \in Nat
            /\ balance[u] >= left(u, 0)
        <5>1. left(u, i-1) \in Nat /\ left(u, 0) \in Nat
          BY <1>5, <2>1
        <5>2. bal[i-1][u] \in Nat /\ balance[u] \in Nat /\ balance[u] >= left(u, 0)
          BY <1>7, <3>1
        <5>3. rest(i) \in Nat /\ rest(i) <= left(u, i-1)
          BY <1>3, <1>6, <3>2
        <5> QED
          BY <5>1, <5>2, <5>3
      <4>2. bal[i-1][u] - left(u, i-1) = balance[u] - left(u, 0)
        BY <1>9
      <4>3. rest(i) <= bal[i-1][u]
        <5>1. \A a, b, c, d, r \in Nat : a - b = c - d /\ c >= d /\ r <= b => r <= a
          OBVIOUS
        <5> QED
          BY <4>1, <4>2, <5>1
      <4>4. Lesser(rest(i), bal[i-1][u]) = rest(i)
        BY <4>1, <4>3 DEF Lesser
      <4>5. bal[i] = [bal[i-1] EXCEPT ![u] = @ - Lesser(rest(i), @)]
        BY <1>2, <3>2 DEF Swept
      <4> QED
        BY <3>1, <3>2, <4>4, <4>5
    <3>3. CASE U(i) # u
      <4>1. bal[i][u] = bal[i-1][u]
        BY <1>2, <3>1, <3>3 DEF Swept
      <4> QED
        BY <3>1, <3>3, <4>1
    <3> QED
      BY <3>2, <3>3
  <2>3. ASSUME NEW u \in Users
        PROVE  bal[i][u] - left(u, i) = balance[u] - left(u, 0)
    <3>1. /\ bal[i-1][u] \in Nat /\ left(u, i-1) \in Nat
          /\ left(u, 0) \in Nat /\ balance[u] \in Nat /\ rest(i) \in Nat
      BY <1>3, <1>4, <1>5, <1>7, <2>1
    <3>2. left(u, i) = left(u, i-1) - (IF U(i) = u THEN rest(i) ELSE 0)
      BY <1>6
    <3>3. bal[i-1][u] - left(u, i-1) = balance[u] - left(u, 0)
      BY <1>9
    <3> QED
      BY <2>2, <3>1, <3>2, <3>3
  <2> QED
    BY <2>2, <2>3
<1>10. ASSUME NEW i \in Nat, i \in T PROVE i + 1 \in T
  <2>1. SUFFICES ASSUME i + 1 <= N
                 PROVE  \A u \in Users : bal[i+1][u] - left(u, i+1) = balance[u] - left(u, 0)
    OBVIOUS
  <2>2. i + 1 \in 1..N /\ (i + 1) - 1 = i
    BY <1>1, <2>1
  <2>3. \A u \in Users : bal[i][u] - left(u, i) = balance[u] - left(u, 0)
    BY <1>10, <1>1, <2>1
  <2> QED
    BY <1>9, <2>2, <2>3
<1>11. Nat \subseteq T
  <2> HIDE DEF T
  <2> QED
    BY <1>8, <1>10, Induction
<1>12. \A i \in 0..N : \A u \in Users : bal[i][u] - left(u, i) = balance[u] - left(u, 0)
  BY <1>1, <1>11
<1>13. ASSUME NEW u \in Users
       PROVE  bal[N][u] - Total(LeftTo(u), SweepBuckets(s)) = balance[u] - Total(LeftTo(u), buckets)
  <2>1. N \in 0..N
    BY <1>1
  <2>2. left(u, N) = Total(LeftTo(u), SweepBuckets(s)) /\ left(u, 0) = Total(LeftTo(u), buckets)
    BY SweptTables DEF left, N
  <2> QED
    BY <1>12, <2>1, <2>2
<1>14. ASSUME NEW i \in 1..N
       PROVE  /\ SweepRows(s)[i].type = "expire" /\ SweepRows(s)[i].bucket = s[i]
              /\ SweepRows(s)[i].reservation = 0
              /\ SweepRows(s)[i].amount = -rest(i)
  <2>1. SweepRows(s)[i] = NewRow(U(i), "expire", bal[i][U(i)] - bal[i-1][U(i)], ExpireKey(s[i]),
                                 bal[i][U(i)], reserved[U(i)], s[i], 0)
    BY DEF SweepRows, bal, N
  <2>2. i \in 0..N /\ i-1 \in 0..N
    BY <1>1
  <2>3. bal[i][U(i)] = bal[i-1][U(i)] - rest(i)
    BY <1>3, <1>9, <1>12, <2>2
  <2>4. bal[i-1][U(i)] \in Nat /\ rest(i) \in Nat
    BY <1>3, <1>4, <2>2
  <2>5. bal[i][U(i)] - bal[i-1][U(i)] = -rest(i)
    BY <2>3, <2>4
  <2> QED
    BY <2>1, <2>5 DEF NewRow
<1> QED
  BY <1>13, <1>14 DEF bal, N

\* What a sweep's rows say of a bucket is what the sweep took from it, and
\* they say nothing else.
LEMMA SweepSays ==
  ASSUME TypeOK, TotalsCovered, NEW s \in Seq(DOMAIN buckets), IsInjective(s),
         NEW b \in DOMAIN buckets
  PROVE  /\ Total(Says(b, "expire"), SweepRows(s))
              = SweepBuckets(s)[b].remaining - buckets[b].remaining
         /\ \A type : type # "expire" => Total(Says(b, type), SweepRows(s)) = 0
<1> DEFINE rows == SweepRows(s)
<1>1. /\ rows \in Seq(Row) /\ Len(rows) = Len(s) /\ Len(s) \in Nat
      /\ DOMAIN rows = 1..Len(s) /\ DOMAIN s = 1..Len(s)
  BY SweepRowsType, LenProperties
<1>2. \A i \in 1..Len(s) : /\ rows[i].type = "expire" /\ rows[i].bucket = s[i]
                           /\ rows[i].amount = -buckets[s[i]].remaining
  BY SweepTakes
<1>3. buckets[b] \in Bucket /\ buckets[b].remaining \in Nat
  BY BucketRows DEF Bucket
<1>4. \A i \in 1..Len(s) : rows[i] \in Row
  BY <1>1
<1> HIDE DEF rows
<1>5. ASSUME NEW type, type # "expire" PROVE Total(Says(b, type), rows) = 0
  <2>1. Says(b, type) \in [Row -> Int]
    BY CountsType
  <2>2. \A i \in DOMAIN rows : Says(b, type)[rows[i]] = 0
    BY <1>1, <1>2, <1>4, <1>5 DEF Says
  <2> QED
    BY <1>1, <2>1, <2>2, TotalNone
<1>6. Total(Says(b, "expire"), rows) = SweepBuckets(s)[b].remaining - buckets[b].remaining
  <2> DEFINE w == Says(b, "expire")
  <2>1. w \in [Row -> Int]
    BY CountsType
  <2>2. \A i \in 1..Len(s) : w[rows[i]] = IF s[i] = b THEN -buckets[b].remaining ELSE 0
    BY <1>2, <1>4 DEF Says
  <2> HIDE DEF w
  <2>3. CASE \E i \in 1..Len(s) : s[i] = b
    <3>1. PICK k \in 1..Len(s) : s[k] = b
      BY <2>3
    <3>2. \A i \in 1..Len(s) : i # k => s[i] # b
      BY <1>1, <3>1 DEF IsInjective
    <3>3. SweepBuckets(s)[b].remaining = 0
      <4>1. SweepBuckets(s)[b] = [buckets[b] EXCEPT !.remaining = 0, !.status = "expired"]
        BY <3>1 DEF SweepBuckets
      <4> QED
        BY <1>3, <4>1 DEF Bucket
    <3>4. /\ \A i \in 1..Len(s) : Counts(w, rows)[i] = w[rows[i]]
          /\ Total(w, rows) = Sum(Counts(w, rows), Len(s))
      <4>1. \A i \in 1..Len(rows) : Counts(w, rows)[i] = w[rows[i]]
        <5>1. rows \in Seq(Row)
          BY <1>1
        <5> QED
          BY <2>1, <5>1, TotalTerms
      <4> QED
        BY <1>1, <4>1 DEF Total
    <3>5. /\ Counts(w, rows)[k] = -buckets[b].remaining /\ Counts(w, rows)[k] \in Int
          /\ \A i \in 1..Len(s) : i # k => Counts(w, rows)[i] = 0
      BY <1>3, <2>2, <3>1, <3>2, <3>4
    <3>6. Sum(Counts(w, rows), Len(s)) = Counts(w, rows)[k]
      BY <1>1, <3>5, SumSingle
    <3> QED
      BY <1>3, <3>3, <3>4, <3>5, <3>6 DEF w
  <2>4. CASE ~\E i \in 1..Len(s) : s[i] = b
    <3>1. SweepBuckets(s)[b] = buckets[b]
      BY <2>4 DEF SweepBuckets
    <3>2. \A i \in DOMAIN rows : w[rows[i]] = 0
      BY <1>1, <2>2, <2>4
    <3>3. Total(w, rows) = 0
      BY <1>1, <2>1, <3>2, TotalNone
    <3> QED
      BY <1>3, <3>1, <3>3 DEF w
  <2> QED
    BY <2>3, <2>4
<1> QED
  BY <1>5, <1>6 DEF rows

-----------------------------------------------------------------------------
(* What a reservation draws.                                               *)

\* alloc is the draw of a credits from the first n buckets of s: nothing from
\* another bucket, nothing from a bucket before those ahead of it are drained,
\* and less than a only if all of them are.
Fills(alloc, s, n, a) ==
  /\ \A b \in BucketIds : (\A j \in 1..n : s[j] # b) => alloc[b] = 0
  /\ \/ Sum(alloc, MaxBuckets) = a
     \/ \A j \in 1..n : alloc[s[j]] = buckets[s[j]].remaining
  /\ \A i, j \in 1..n : j < i /\ alloc[s[i]] > 0 => alloc[s[j]] = buckets[s[j]].remaining

\* One more draw.
LEMMA DrawnFills ==
  ASSUME TypeOK, NEW S \in SUBSET DOMAIN buckets, NEW s \in Seq(S), IsInjective(s),
         NEW a \in Nat, NEW n \in 1..Len(s), NEW x \in Allocs(S, a), Fills(x, s, n-1, a)
  PROVE  Fills(Drawn(x, s[n], a), s, n, a)
<1> DEFINE b == s[n]
           rest == buckets[b].remaining
           total == Sum(x, MaxBuckets)
           part == Lesser(rest, a - total)
           y == Drawn(x, b, a)
<1>1. /\ Len(s) \in Nat /\ DOMAIN s = 1..Len(s)
      /\ \A j \in 1..Len(s) : s[j] \in S /\ s[j] \in BucketIds /\ buckets[s[j]] \in Bucket
  BY BucketRows, LenProperties
<1>2. x \in [BucketIds -> Nat] /\ total <= a
  BY DEF Allocs
<1>3. total \in Nat
  BY <1>2, AllocSum
<1>4. b \in BucketIds /\ b \in 1..MaxBuckets /\ rest \in Nat
  BY <1>1 DEF Bucket, BucketIds
<1>5. \A j \in 1..n-1 : s[j] # b
  <2>1. \A j \in 1..n-1 : j \in 1..Len(s) /\ j # n
    BY <1>1
  <2> QED
    BY <1>1, <2>1 DEF IsInjective
<1>6. x[b] = 0
  BY <1>4, <1>5 DEF Fills
<1>7. y = [x EXCEPT ![b] = part]
  BY DEF Drawn
<1>8. part \in Nat /\ (part = a - total \/ part = rest)
  BY <1>2, <1>3, <1>4 DEF Lesser
<1>8a. total = a => part = 0
  BY <1>3, <1>4 DEF Lesser
<1>8b. b = s[n] /\ n \in Nat /\ total = Sum(x, MaxBuckets)
  BY <1>1
<1> HIDE DEF part, y, b, total
<1>9. y[b] = part /\ \A c \in BucketIds : c # b => y[c] = x[c]
  BY <1>2, <1>4, <1>7
<1>10. Sum(y, MaxBuckets) = total + part
  <2>1. /\ \A i \in 1..MaxBuckets : x[i] \in Int
        /\ y[b] \in Int
        /\ \A i \in 1..MaxBuckets : i # b => y[i] = x[i]
    BY <1>2, <1>8, <1>9 DEF BucketIds
  <2>2. MaxBuckets \in Nat
    BY BoundsAssumption
  <2>3. Sum(y, MaxBuckets) = Sum(x, MaxBuckets) + (y[b] - x[b])
    BY <1>4, <2>1, <2>2, SumUpdate
  <2> QED
    BY <1>3, <1>6, <1>8, <1>8b, <1>9, <2>3
<1>11. ASSUME NEW j \in 1..n, j # n
       PROVE  j \in 1..n-1 /\ y[s[j]] = x[s[j]]
  <2>1. j \in 1..n-1
    BY <1>8b, <1>11
  <2>2. j \in 1..Len(s)
    BY <1>1, <1>8b
  <2> QED
    BY <1>1, <1>5, <1>9, <2>1, <2>2
<1>12. /\ \A c \in BucketIds : (\A j \in 1..n-1 : s[j] # c) => x[c] = 0
       /\ total = a \/ \A j \in 1..n-1 : x[s[j]] = buckets[s[j]].remaining
       /\ \A i, j \in 1..n-1 : j < i /\ x[s[i]] > 0 => x[s[j]] = buckets[s[j]].remaining
  BY <1>8b DEF Fills
<1>13. ASSUME NEW c \in BucketIds, \A j \in 1..n : s[j] # c PROVE y[c] = 0
  <2>1. c # b /\ \A j \in 1..n-1 : s[j] # c
    <3>1. n \in 1..n /\ \A j \in 1..n-1 : j \in 1..n
      BY <1>1, <1>8b
    <3> QED
      BY <1>8b, <1>13, <3>1
  <2> QED
    BY <1>9, <1>12, <2>1
<1>14. \/ Sum(y, MaxBuckets) = a
       \/ \A j \in 1..n : y[s[j]] = buckets[s[j]].remaining
  <2>1. CASE total = a
    BY <1>3, <1>8a, <1>10, <2>1
  <2>2. CASE total # a
    <3>1. CASE part = a - total
      BY <1>3, <1>10, <3>1
    <3>2. CASE part = rest
      BY <1>8b, <1>9, <1>11, <1>12, <2>2, <3>2
    <3> QED
      BY <1>8, <3>1, <3>2
  <2> QED
    BY <2>1, <2>2
<1>15. ASSUME NEW i \in 1..n, NEW j \in 1..n, j < i, y[s[i]] > 0
       PROVE  y[s[j]] = buckets[s[j]].remaining
  <2>1. j \in 1..n-1 /\ y[s[j]] = x[s[j]]
    <3>1. j # n
      BY <1>15
    <3> QED
      BY <1>11, <3>1
  <2>2. CASE i = n
    <3>1. part > 0
      BY <1>8b, <1>9, <1>15, <2>2
    <3>2. total # a
      BY <1>8a, <3>1
    <3> QED
      BY <1>12, <2>1, <3>2
  <2>3. CASE i # n
    <3>1. i \in 1..n-1 /\ y[s[i]] = x[s[i]]
      BY <1>11, <2>3
    <3> QED
      BY <1>12, <1>15, <2>1, <3>1
  <2> QED
    BY <2>2, <2>3
<1>16. Fills(y, s, n, a)
  BY <1>13, <1>14, <1>15 DEF Fills
<1> QED
  BY <1>16 DEF y, b

\* The whole draw.
LEMMA AllocationFills ==
  ASSUME TypeOK, NEW S \in SUBSET DOMAIN buckets, NEW s \in Seq(S), IsInjective(s), NEW a \in Nat
  PROVE  Allocation(s, a) \in Allocs(S, a) /\ Fills(Allocation(s, a), s, Len(s), a)
<1>1. PICK D : /\ IsDraw(D, s, a)
               /\ \A i \in 0..Len(s) : D[i] \in Allocs(S, a)
               /\ Allocation(s, a) = D[Len(s)]
  BY DrawSteps
<1> DEFINE T == {i \in Nat : i <= Len(s) => Fills(D[i], s, i, a)}
<1>2. Len(s) \in Nat
  BY LenProperties
<1>3. 0 \in T
  <2>1. D[0] = [b \in BucketIds |-> 0]
    BY <1>1 DEF IsDraw
  <2>2. \A b \in BucketIds : D[0][b] = 0
    BY <2>1
  <2> QED
    BY <2>2 DEF Fills
<1>4. ASSUME NEW i \in Nat, i \in T PROVE i + 1 \in T
  <2>1. SUFFICES ASSUME i + 1 <= Len(s) PROVE Fills(D[i+1], s, i + 1, a)
    OBVIOUS
  <2> DEFINE n == i + 1
  <2>2. n \in 1..Len(s) /\ n - 1 = i /\ i \in 0..Len(s) /\ i <= Len(s)
    BY <1>2, <2>1
  <2>3. Fills(D[i], s, i, a)
    BY <1>4, <2>2
  <2> HIDE DEF n
  <2>4. D[n] = Drawn(D[i], s[n], a)
    BY <1>1, <2>2 DEF IsDraw
  <2>5. D[i] \in Allocs(S, a)
    BY <1>1, <2>2
  <2>6. Fills(D[i], s, n - 1, a)
    BY <2>2, <2>3
  <2>7. Fills(Drawn(D[i], s[n], a), s, n, a)
    BY <2>2, <2>5, <2>6, DrawnFills
  <2> QED
    BY <2>4, <2>7 DEF n
<1>5. Nat \subseteq T
  <2> HIDE DEF T
  <2> QED
    BY <1>3, <1>4, Induction
<1>6. Fills(D[Len(s)], s, Len(s), a)
  BY <1>2, <1>5
<1>7. Len(s) \in 0..Len(s)
  BY <1>2
<1> QED
  BY <1>1, <1>6, <1>7

-----------------------------------------------------------------------------
(* The inductive invariant.                                                *)

\* What a ledger row may name, in the tables bs and rs: a reservation, if any,
\* that exists; a bucket that exists, when it takes from one; and in an
\* order's grant row the bucket of the row's own account.
RowOK(row, bs, rs) ==
  /\ row.reservation <= Len(rs)
  /\ row.type \in {"expire", "clawback"} => row.bucket \in DOMAIN bs
  /\ \A o \in Orders : row.key = OrderKey(o) =>
       row.bucket \in DOMAIN bs /\ row.amount \in Nat /\ row.user = bs[row.bucket].user

\* A reservation draws no more than its amount, from buckets of its account.
AllocOK(res, bs) ==
  /\ Sum(res.alloc, MaxBuckets) <= res.amount
  /\ \A b \in BucketIds : res.alloc[b] > 0 => b \in DOMAIN bs /\ bs[b].user = res.user

\* What is left in a bucket can still be spent or expires.
BucketOK(bucket) == bucket.remaining > 0 => bucket.status = "active"

Shape ==
  /\ \A i \in DOMAIN ledger : RowOK(ledger[i], buckets, reservations)
  /\ \A r \in DOMAIN reservations : AllocOK(reservations[r], buckets)
  /\ \A b \in DOMAIN buckets : BucketOK(buckets[b])

AddsUp == TotalsHeld /\ TotalsConserve /\ TotalsCovered /\ RowsOnce

CInv == IInv /\ Shape /\ AddsUp

\* Tables only grow, and a bucket keeps its account.
Grows ==
  /\ DOMAIN buckets \subseteq DOMAIN buckets'
  /\ \A b \in DOMAIN buckets : buckets'[b].user = buckets[b].user
  /\ Len(reservations) <= Len(reservations')

\* So what rows and reservations name stays there.
LEMMA NamesKept ==
  ASSUME IInv, Shape, Grows, Len(reservations') \in Nat
  PROVE  /\ \A i \in DOMAIN ledger : RowOK(ledger[i], buckets', reservations')
         /\ \A r \in DOMAIN reservations : AllocOK(reservations[r], buckets')
<1>1. ASSUME NEW i \in DOMAIN ledger PROVE RowOK(ledger[i], buckets', reservations')
  <2>1. ledger[i] \in Row /\ Len(reservations) \in Nat
    BY LenProperties DEF IInv, TypeOK
  <2>2. ledger[i].reservation \in Nat
    BY <2>1 DEF Row
  <2>3. RowOK(ledger[i], buckets, reservations)
    BY DEF Shape
  <2>4. ledger[i].reservation <= Len(reservations')
    BY <2>1, <2>2, <2>3 DEF RowOK, Grows
  <2> QED
    BY <2>3, <2>4 DEF RowOK, Grows
<1>2. ASSUME NEW r \in DOMAIN reservations PROVE AllocOK(reservations[r], buckets')
  BY DEF Shape, AllocOK, Grows
<1> QED
  BY <1>1, <1>2

\* Appended rows that may name what they name keep the ledger's part of Shape.
LEMMA RowsKept ==
  ASSUME IInv, Shape, Grows, Len(reservations') \in Nat,
         NEW new \in Seq(Row), ledger' = ledger \o new,
         \A i \in 1..Len(new) : RowOK(new[i], buckets', reservations')
  PROVE  \A i \in DOMAIN ledger' : RowOK(ledger'[i], buckets', reservations')
<1> DEFINE n == Len(ledger)
           m == Len(new)
<1>1. ledger \in Seq(Row) /\ n \in Nat /\ DOMAIN ledger = 1..n /\ m \in Nat
  BY LenProperties DEF IInv, TypeOK
<1>2. /\ ledger' \in Seq(Row) /\ Len(ledger') = n + m
      /\ \A i \in 1..n + m : ledger'[i] = IF i <= n THEN ledger[i] ELSE new[i - n]
  BY <1>1, ConcatProperties
<1>3. DOMAIN ledger' = 1..n + m
  BY <1>2, LenProperties
<1>4. \A i \in DOMAIN ledger : RowOK(ledger[i], buckets', reservations')
  BY NamesKept
<1>5. ASSUME NEW i \in 1..n + m PROVE RowOK(ledger'[i], buckets', reservations')
  <2>1. CASE i <= n
    <3>1. i \in DOMAIN ledger /\ ledger'[i] = ledger[i]
      BY <1>1, <1>2, <2>1
    <3> QED
      BY <1>4, <3>1
  <2>2. CASE ~(i <= n)
    <3>1. i - n \in 1..m /\ ledger'[i] = new[i - n]
      BY <1>1, <1>2, <2>2
    <3> QED
      BY <3>1
  <2> QED
    BY <2>1, <2>2
<1> QED
  BY <1>3, <1>5

LEMMA RowKept ==
  ASSUME IInv, Shape, Grows, Len(reservations') \in Nat,
         NEW row \in Row, ledger' = Append(ledger, row), RowOK(row, buckets', reservations')
  PROVE  \A i \in DOMAIN ledger' : RowOK(ledger'[i], buckets', reservations')
<1> DEFINE new == <<row>>
<1>1. new \in Seq(Row) /\ Len(new) = 1 /\ new[1] = row
  OBVIOUS
<1>2. ledger' = ledger \o new
  BY AppendIsConcat DEF IInv, TypeOK
<1> HIDE DEF new
<1>3. \A i \in 1..Len(new) : RowOK(new[i], buckets', reservations')
  <2>1. \A i \in 1..Len(new) : i = 1
    BY <1>1
  <2> QED
    BY <1>1, <2>1
<1> QED
  BY <1>1, <1>2, <1>3, RowsKept

\* What one more row says of a bucket, and that totals are integers.
LEMMA SaysAppend ==
  ASSUME NEW l \in Seq(Row), NEW row \in Row, NEW b, NEW type
  PROVE  /\ Total(Says(b, type), Append(l, row))
              = Total(Says(b, type), l) + (IF row.type = type /\ row.bucket = b THEN row.amount ELSE 0)
         /\ Total(Says(b, type), l) \in Int
<1>1. Says(b, type) \in [Row -> Int]
  BY CountsType
<1>2. Says(b, type)[row] = IF row.type = type /\ row.bucket = b THEN row.amount ELSE 0
  BY DEF Says
<1>3. Total(Says(b, type), Append(l, row)) = Total(Says(b, type), l) + Says(b, type)[row]
  BY <1>1, TotalAppend
<1>4. Total(Says(b, type), l) \in Int
  BY <1>1, TotalType
<1> QED
  BY <1>2, <1>3, <1>4

\* Nothing is held in, drawn from or taken from a bucket that is not there.
LEMMA NoBucketNoShare ==
  ASSUME IInv, Shape, NEW b \in BucketIds, b \notin DOMAIN buckets
  PROVE  /\ Total(HoldOn(b), reservations) = 0
         /\ \A t : Total(GoneFrom(b, t), reservations) = 0
         /\ \A type \in {"expire", "clawback"} : Total(Says(b, type), ledger) = 0
<1>1. /\ reservations \in Seq(Reservation) /\ ledger \in Seq(Row)
      /\ \A r \in DOMAIN reservations : reservations[r] \in Reservation
      /\ \A i \in DOMAIN ledger : ledger[i] \in Row
  BY LenProperties DEF IInv, TypeOK
<1>2. ASSUME NEW r \in DOMAIN reservations PROVE reservations[r].alloc[b] = 0
  <2>1. reservations[r].alloc[b] \in Nat
    BY <1>1 DEF Reservation
  <2>2. ~(reservations[r].alloc[b] > 0)
    BY DEF Shape, AllocOK
  <2> QED
    BY <2>1, <2>2
<1>3. Total(HoldOn(b), reservations) = 0
  <2>1. HoldOn(b) \in [Reservation -> Int]
    BY CountsType
  <2>2. \A r \in DOMAIN reservations : HoldOn(b)[reservations[r]] = 0
    BY <1>1, <1>2 DEF HoldOn
  <2> QED
    BY <1>1, <2>1, <2>2, TotalNone
<1>4. ASSUME NEW t PROVE Total(GoneFrom(b, t), reservations) = 0
  <2>1. GoneFrom(b, t) \in [Reservation -> Int]
    BY CountsType
  <2>2. \A r \in DOMAIN reservations : GoneFrom(b, t)[reservations[r]] = 0
    BY <1>1, <1>2 DEF GoneFrom
  <2> QED
    BY <1>1, <2>1, <2>2, TotalNone
<1>5. ASSUME NEW type \in {"expire", "clawback"} PROVE Total(Says(b, type), ledger) = 0
  <2>1. Says(b, type) \in [Row -> Int]
    BY CountsType
  <2>2. \A i \in DOMAIN ledger : Says(b, type)[ledger[i]] = 0
    BY <1>1 DEF Says, Shape, RowOK
  <2> QED
    BY <1>1, <2>1, <2>2, TotalNone
<1> QED
  BY <1>3, <1>4, <1>5

\* Rows that finalize nothing leave every reservation with its rows.
LEMMA OnceKept ==
  ASSUME IInv, RowsOnce, UNCHANGED reservations, NEW row \in Row,
         ledger' = Append(ledger, row), row.type \notin {"reserve", "commit", "release"}
  PROVE  RowsOnce'
<1>1. ledger \in Seq(Row)
  BY DEF IInv, TypeOK
<1>2. ASSUME NEW r, NEW type \in {"reserve", "commit", "release"}
      PROVE  Cardinality(RowsNaming(ledger', r, type)) = Cardinality(RowsNaming(ledger, r, type))
  <2>1. /\ Cardinality(RowsNaming(Append(ledger, row), r, type)) =
             Cardinality(RowsNaming(ledger, r, type))
               + (IF row.reservation = r /\ row.type = type THEN 1 ELSE 0)
        /\ Cardinality(RowsNaming(ledger, r, type)) \in Nat
    BY <1>1, NamingAppend, NamingFinite
  <2> QED
    BY <2>1
<1> QED
  BY <1>2 DEF RowsOnce

-----------------------------------------------------------------------------
(* The operations.                                                         *)

\* A grant adds a bucket that nobody has drawn from.
LEMMA GrantCreditsAddsUp ==
  ASSUME CInv, IInv', NEW u \in Users, NEW a \in GrantAmounts, NEW key \in RowKeys,
         NEW type \in ExplicitTypes, NEW expiresAt \in Times \cup {Never},
         GrantCredits(u, a, key, type, expiresAt)
  PROVE  CInv'
<1> DEFINE bucket == NewBucket(u, type, expiresAt, a)
           n == Len(buckets)
           row == NewRow(u, "grant", a, key, balance[u] + a, reserved[u], n + 1, 0)
<1>1. IInv /\ Shape /\ TotalsHeld /\ TotalsConserve /\ TotalsCovered /\ RowsOnce
  BY DEF CInv, AddsUp
<1>2. /\ buckets \in Seq(Bucket) /\ n \in Nat /\ DOMAIN buckets = 1..n
      /\ ledger \in Seq(Row) /\ balance \in [Users -> Nat] /\ reserved \in [Users -> Nat]
      /\ reservations \in Seq(Reservation) /\ Len(reservations) \in Nat
  BY <1>1, LenProperties DEF IInv, TypeOK
<1>3. a \in Nat
  BY AmountsAssumption
<1>4. bucket \in Bucket
  BY <1>3 DEF NewBucket, Bucket
<1>5. /\ bucket.user = u /\ bucket.granted = a /\ bucket.remaining = a
      /\ bucket.reserved = 0 /\ bucket.status = "active"
  BY DEF NewBucket
<1>6. row \in Row
  BY <1>2, <1>3 DEF NewRow, Row, RowTypes
<1>7. /\ row.type = "grant" /\ row.bucket = n + 1 /\ row.reservation = 0
      /\ row.user = u /\ row.amount = a
  BY DEF NewRow
<1>8. /\ balance' = [balance EXCEPT ![u] = @ + a]
      /\ buckets' = Append(buckets, bucket) /\ ledger' = Append(ledger, row)
      /\ UNCHANGED <<reserved, reservations>> /\ n < MaxBuckets
  BY DEF GrantCredits
<1> HIDE DEF bucket, row
<1>9. /\ Len(buckets') = n + 1 /\ buckets'[n + 1] = bucket
      /\ \A b \in 1..n : buckets'[b] = buckets[b]
      /\ DOMAIN buckets' = 1..n + 1
  BY <1>2, <1>4, <1>8, AppendProperties, LenProperties
<1> HIDE DEF n
<1>10. Grows
  BY <1>2, <1>8, <1>9 DEF Grows
<1>11. \A b \in 1..n + 1 : b \in DOMAIN buckets \/ b = n + 1
  BY <1>2
<1>12. n + 1 \in BucketIds /\ n + 1 \notin DOMAIN buckets
  BY <1>2, <1>8, BoundsAssumption DEF BucketIds
<1>13. Shape'
  <2>1. RowOK(row, buckets', reservations')
    BY <1>2, <1>3, <1>5, <1>7, <1>8, <1>9 DEF RowOK
  <2>2. \A i \in DOMAIN ledger' : RowOK(ledger'[i], buckets', reservations')
    BY <1>1, <1>2, <1>6, <1>8, <1>10, <2>1, RowKept
  <2>3. \A r \in DOMAIN reservations' : AllocOK(reservations'[r], buckets')
    BY <1>1, <1>2, <1>8, <1>10, NamesKept
  <2>4. \A b \in DOMAIN buckets' : BucketOK(buckets'[b])
    BY <1>1, <1>2, <1>5, <1>9, <1>11 DEF Shape, BucketOK
  <2> QED
    BY <2>2, <2>3, <2>4 DEF Shape
<1>14. /\ Total(HoldOn(n + 1), reservations) = 0
       /\ \A t : Total(GoneFrom(n + 1, t), reservations) = 0
       /\ \A says \in {"expire", "clawback"} : Total(Says(n + 1, says), ledger) = 0
  BY <1>1, <1>12, NoBucketNoShare
<1>15. TotalsHeld'
  BY <1>1, <1>2, <1>5, <1>8, <1>9, <1>11, <1>14 DEF TotalsHeld
<1>16. \A b, says : says \in {"expire", "clawback"} => Total(Says(b, says), ledger') = Total(Says(b, says), ledger)
  <2> TAKE b, says
  <2>1. /\ Total(Says(b, says), Append(ledger, row))
              = Total(Says(b, says), ledger) + (IF row.type = says /\ row.bucket = b THEN row.amount ELSE 0)
        /\ Total(Says(b, says), ledger) \in Int
    BY <1>2, <1>6, SaysAppend
  <2> QED
    BY <1>7, <1>8, <2>1
<1>17. TotalsConserve'
  <2>1. ASSUME NEW b \in DOMAIN buckets'
        PROVE  buckets'[b].granted = buckets'[b].remaining + buckets'[b].reserved
                 + Total(GoneFrom(b, buckets'[b].expiresAt), reservations')
                 - Total(Says(b, "expire"), ledger') - Total(Says(b, "clawback"), ledger')
    <3>1. CASE b \in DOMAIN buckets
      BY <1>1, <1>2, <1>8, <1>9, <1>16, <3>1 DEF TotalsConserve
    <3>2. CASE b = n + 1
      BY <1>3, <1>5, <1>8, <1>9, <1>14, <1>16, <3>2
    <3> QED
      BY <1>9, <1>11, <3>1, <3>2
  <2> QED
    BY <2>1 DEF TotalsConserve
<1>18. TotalsCovered'
  <2>1. ASSUME NEW v \in Users PROVE balance'[v] >= Total(LeftTo(v), buckets')
    <3>1. LeftTo(v) \in [Bucket -> Int] /\ Total(LeftTo(v), buckets) \in Int
      BY <1>2, CountsType, TotalType
    <3>2. LeftTo(v)[bucket] = IF u = v THEN a ELSE 0
      BY <1>4, <1>5 DEF LeftTo
    <3>3. Total(LeftTo(v), buckets') = Total(LeftTo(v), buckets) + LeftTo(v)[bucket]
      <4>1. buckets \in Seq(Bucket) /\ bucket \in Bucket /\ buckets' = Append(buckets, bucket)
        BY <1>2, <1>4, <1>8
      <4> QED
        BY <3>1, <4>1, TotalAppend
    <3>4. balance[v] >= Total(LeftTo(v), buckets) /\ balance[v] \in Nat
      BY <1>1, <1>2 DEF TotalsCovered
    <3>5. balance'[v] = balance[v] + (IF u = v THEN a ELSE 0)
      BY <1>2, <1>3, <1>8
    <3> QED
      BY <1>3, <3>1, <3>2, <3>3, <3>4, <3>5
  <2> QED
    BY <2>1 DEF TotalsCovered
<1>19. RowsOnce'
  BY <1>1, <1>6, <1>7, <1>8, OnceKept
<1> QED
  BY <1>13, <1>15, <1>17, <1>18, <1>19 DEF CInv, AddsUp

\* A refund takes the same from the bucket, from the balance and, as its row
\* says, from the order's grant.
LEMMA ClawbackAddsUp ==
  ASSUME CInv, IInv', NEW o \in Orders, Clawback(o)
  PROVE  CInv'
<1>1. IInv /\ Shape /\ TotalsHeld /\ TotalsConserve /\ TotalsCovered /\ RowsOnce
  BY DEF CInv, AddsUp
<1>2. /\ buckets \in Seq(Bucket) /\ Len(buckets) \in Nat /\ DOMAIN buckets = 1..Len(buckets)
      /\ ledger \in Seq(Row) /\ balance \in [Users -> Nat] /\ reserved \in [Users -> Nat]
      /\ reservations \in Seq(Reservation) /\ Len(reservations) \in Nat
  BY <1>1, LenProperties DEF IInv, TypeOK
<1>3. PICK i \in DOMAIN ledger : ledger[i].key = OrderKey(o) /\ ClawbackRow(o, i)
  BY DEF Clawback
<1> DEFINE u == ledger[i].user
           b == ledger[i].bucket
           old == buckets[b]
           taken == Lesser(Lesser(ledger[i].amount, balance[u]), old.remaining)
           cut == [old EXCEPT !.remaining = @ - taken]
           new == IF taken > 0 /\ cut.remaining + cut.reserved = 0
                  THEN [cut EXCEPT !.status = "depleted"] ELSE cut
           row == NewRow(u, "clawback", -taken, ClawbackKey(o),
                         balance[u] - taken, reserved[u], b, 0)
<1>4. /\ balance' = [balance EXCEPT ![u] = @ - taken]
      /\ buckets' = [buckets EXCEPT ![b] = new]
      /\ ledger' = Append(ledger, row)
      /\ UNCHANGED <<reserved, reservations>>
  BY <1>3 DEF ClawbackRow, Clawback
<1>5. b \in DOMAIN buckets /\ ledger[i].amount \in Nat /\ u = old.user
  BY <1>1, <1>3 DEF Shape, RowOK
<1>6. old \in Bucket
  BY <1>2, <1>5
<1>7. u \in Users /\ old.remaining \in Nat /\ old.reserved \in Nat /\ balance[u] \in Nat
  BY <1>2, <1>5, <1>6 DEF Bucket
<1>8. taken \in Nat /\ taken <= old.remaining /\ taken <= balance[u]
  BY <1>5, <1>7 DEF Lesser
<1>9. ledger' \in Seq(Row) /\ buckets' \in Seq(Bucket)
  BY DEF IInv, TypeOK
<1> HIDE DEF taken
<1>10. /\ cut \in Bucket
       /\ cut.remaining = old.remaining - taken /\ cut.reserved = old.reserved
       /\ cut.user = old.user /\ cut.granted = old.granted
       /\ cut.expiresAt = old.expiresAt /\ cut.status = old.status
  <2>1. old.remaining - taken \in Nat
    BY <1>7, <1>8
  <2> QED
    BY <1>6, <2>1 DEF Bucket
<1> HIDE DEF cut
<1>11. /\ new \in Bucket
       /\ new.remaining = old.remaining - taken /\ new.reserved = old.reserved
       /\ new.user = old.user /\ new.granted = old.granted /\ new.expiresAt = old.expiresAt
       /\ new.remaining > 0 => new.status = old.status
  <2>1. CASE taken > 0 /\ cut.remaining + cut.reserved = 0
    <3>1. new = [cut EXCEPT !.status = "depleted"]
      BY <2>1
    <3>2. ~(cut.remaining > 0)
      BY <1>7, <1>8, <1>10, <2>1
    <3> HIDE DEF new
    <3>3. /\ new \in Bucket
          /\ new.remaining = cut.remaining /\ new.reserved = cut.reserved
          /\ new.user = cut.user /\ new.granted = cut.granted /\ new.expiresAt = cut.expiresAt
      BY <1>10, <3>1 DEF Bucket
    <3> QED
      BY <1>10, <3>2, <3>3
  <2>2. CASE ~(taken > 0 /\ cut.remaining + cut.reserved = 0)
    <3>1. new = cut
      BY <2>2
    <3> HIDE DEF new
    <3> QED
      BY <1>10, <3>1
  <2> QED
    BY <2>1, <2>2
<1>12. /\ row.type = "clawback" /\ row.bucket = b /\ row.reservation = 0
       /\ row.amount = -taken /\ row.key = ClawbackKey(o)
  BY DEF NewRow
<1>13. row \in Row
  <2>1. "clawback" \in RowTypes /\ ClawbackKey(o) \in RowKeys /\ -taken \in Int
    BY <1>8, KeysType DEF RowTypes
  <2>2. b \in Nat /\ 0 \in Nat /\ reserved[u] \in Nat /\ balance[u] - taken \in Nat
    BY <1>2, <1>5, <1>7, <1>8, SMTT(40)
  <2> QED
    BY <1>7, <2>1, <2>2, NewRowType
<1> HIDE DEF new, row
<1>14. /\ Len(buckets') = Len(buckets) /\ DOMAIN buckets' = DOMAIN buckets
       /\ buckets'[b] = new /\ \A c \in DOMAIN buckets : c # b => buckets'[c] = buckets[c]
  BY <1>2, <1>4, <1>5
<1>15. Grows
  <2>1. \A c \in DOMAIN buckets : buckets'[c].user = buckets[c].user
    BY <1>11, <1>14
  <2> QED
    BY <1>2, <1>4, <1>14, <2>1 DEF Grows
<1> HIDE DEF b, u, old
<1>16. Shape'
  <2>1. RowOK(row, buckets', reservations')
    <3>1. \A p \in Orders : row.key # OrderKey(p)
      BY <1>12, KeysDiffer
    <3> QED
      BY <1>2, <1>4, <1>5, <1>12, <1>14, <3>1 DEF RowOK
  <2>2. \A j \in DOMAIN ledger' : RowOK(ledger'[j], buckets', reservations')
    BY <1>1, <1>2, <1>4, <1>13, <1>15, <2>1, RowKept
  <2>3. \A r \in DOMAIN reservations' : AllocOK(reservations'[r], buckets')
    BY <1>1, <1>2, <1>4, <1>15, NamesKept
  <2>4. BucketOK(new)
    <3>1. new.remaining > 0 => old.remaining > 0
      BY <1>7, <1>8, <1>11
    <3> QED
      BY <1>1, <1>5, <1>11, <3>1 DEF Shape, BucketOK, old
  <2>5. \A c \in DOMAIN buckets' : BucketOK(buckets'[c])
    BY <1>1, <1>14, <2>4 DEF Shape
  <2> QED
    BY <2>2, <2>3, <2>5 DEF Shape
<1>17. TotalsHeld'
  <2>1. \A c \in DOMAIN buckets : buckets'[c].reserved = buckets[c].reserved
    BY <1>11, <1>14 DEF old
  <2> QED
    BY <1>1, <1>4, <1>14, <2>1 DEF TotalsHeld
<1>18. ASSUME NEW c, NEW says
       PROVE  /\ Total(Says(c, says), ledger')
                   = Total(Says(c, says), ledger) - (IF says = "clawback" /\ c = b THEN taken ELSE 0)
              /\ Total(Says(c, says), ledger) \in Int
  <2>1. /\ Total(Says(c, says), Append(ledger, row))
              = Total(Says(c, says), ledger) + (IF row.type = says /\ row.bucket = c THEN row.amount ELSE 0)
        /\ Total(Says(c, says), ledger) \in Int
    BY <1>2, <1>13, SaysAppend
  <2> QED
    BY <1>4, <1>8, <1>12, <2>1
<1>19. TotalsConserve'
  <2>1. ASSUME NEW c \in DOMAIN buckets
        PROVE  buckets'[c].granted = buckets'[c].remaining + buckets'[c].reserved
                 + Total(GoneFrom(c, buckets'[c].expiresAt), reservations')
                 - Total(Says(c, "expire"), ledger') - Total(Says(c, "clawback"), ledger')
    <3>1. buckets[c].granted = buckets[c].remaining + buckets[c].reserved
            + Total(GoneFrom(c, buckets[c].expiresAt), reservations)
            - Total(Says(c, "expire"), ledger) - Total(Says(c, "clawback"), ledger)
      BY <1>1 DEF TotalsConserve
    <3>2. c \in BucketIds
      BY <1>1, BucketRows DEF IInv
    <3>3. Total(GoneFrom(c, buckets[c].expiresAt), reservations) \in Int
      BY <1>2, <3>2, CountsType, TotalType
    <3>4. Total(Says(c, "expire"), ledger) \in Int /\ Total(Says(c, "clawback"), ledger) \in Int
      BY <1>18
    <3>5. Total(Says(c, "expire"), ledger') = Total(Says(c, "expire"), ledger)
      BY <1>18
    <3>6. Total(Says(c, "clawback"), ledger')
            = Total(Says(c, "clawback"), ledger) - (IF c = b THEN taken ELSE 0)
      BY <1>18
    <3>7. CASE c = b
      BY <1>4, <1>7, <1>8, <1>11, <1>14, <3>1, <3>3, <3>4, <3>5, <3>6, <3>7 DEF old
    <3>8. CASE c # b
      BY <1>4, <1>14, <3>1, <3>4, <3>5, <3>6, <3>8
    <3> QED
      BY <3>7, <3>8
  <2> QED
    BY <1>14, <2>1 DEF TotalsConserve
<1>20. TotalsCovered'
  <2>1. ASSUME NEW v \in Users PROVE balance'[v] >= Total(LeftTo(v), buckets')
    <3> DEFINE w == LeftTo(v)
    <3>1. w \in [Bucket -> Int] /\ Total(w, buckets) \in Int
      BY <1>2, CountsType, TotalType
    <3>2. /\ w[new] = IF u = v THEN old.remaining - taken ELSE 0
          /\ w[old] = IF u = v THEN old.remaining ELSE 0
      BY <1>5, <1>6, <1>11 DEF LeftTo
    <3> HIDE DEF w
    <3>3. RowSet(buckets', buckets, b, new)
      BY <1>14 DEF RowSet
    <3>4. Total(w, buckets') = Total(w, buckets) + (w[new] - w[buckets[b]])
      <4>1. /\ buckets \in Seq(Bucket) /\ buckets' \in Seq(Bucket)
            /\ b \in DOMAIN buckets /\ new \in Bucket
        BY <1>2, <1>5, <1>9, <1>11
      <4> QED
        BY <3>1, <3>3, <4>1, TotalUpdated, ZenonT(30)
    <3>5. balance[v] >= Total(w, buckets) /\ balance[v] \in Nat
      BY <1>1, <1>2 DEF TotalsCovered, w
    <3>6. balance'[v] = balance[v] - (IF u = v THEN taken ELSE 0)
      BY <1>2, <1>4, <1>8
    <3>7. buckets[b] = old
      BY DEF old
    <3>8. balance'[v] >= Total(w, buckets')
      BY <1>7, <1>8, <3>1, <3>2, <3>4, <3>5, <3>6, <3>7
    <3> QED
      BY <3>8 DEF w
  <2> QED
    BY <2>1 DEF TotalsCovered
<1>21. RowsOnce'
  BY <1>1, <1>4, <1>12, <1>13, OnceKept
<1> QED
  BY <1>16, <1>17, <1>19, <1>20, <1>21 DEF CInv, AddsUp

\* A sweep keeps a bucket but for what was left of it.
LEMMA SweptBucket ==
  ASSUME TypeOK, NEW s \in Seq(DOMAIN buckets), NEW b \in DOMAIN buckets
  PROVE  LET new == SweepBuckets(s)[b]
             old == buckets[b]
         IN  /\ new \in Bucket
             /\ new.user = old.user /\ new.granted = old.granted
             /\ new.expiresAt = old.expiresAt /\ new.reserved = old.reserved
             /\ new.remaining > 0 => new = old
             /\ (\E i \in 1..Len(s) : s[i] = b) => new.remaining = 0
<1> DEFINE new == SweepBuckets(s)[b]
           old == buckets[b]
<1>1. old \in Bucket
  BY BucketRows
<1>2. CASE \E i \in 1..Len(s) : s[i] = b
  <2>1. new = [old EXCEPT !.remaining = 0, !.status = "expired"]
    BY <1>2 DEF SweepBuckets
  <2> HIDE DEF new, old
  <2>2. /\ new \in Bucket
        /\ new.user = old.user /\ new.granted = old.granted
        /\ new.expiresAt = old.expiresAt /\ new.reserved = old.reserved /\ new.remaining = 0
    BY <1>1, <2>1 DEF Bucket
  <2> QED
    BY <2>2 DEF new, old
<1>3. CASE ~\E i \in 1..Len(s) : s[i] = b
  <2>1. new = old
    BY <1>3 DEF SweepBuckets
  <2> QED
    BY <1>1, <1>3, <2>1
<1> QED
  BY <1>2, <1>3

\* The first n buckets of an ordered set are different ones.
LEMMA BatchIsInjective ==
  ASSUME TypeOK, NEW S \in SUBSET DOMAIN buckets, NEW s \in Ordered(S), NEW n \in 0..Len(s)
  PROVE  IsInjective(s) /\ SubSeq(s, 1, n) \in Seq(DOMAIN buckets) /\ IsInjective(SubSeq(s, 1, n))
<1> DEFINE batch == SubSeq(s, 1, n)
<1>1. /\ s \in Seq(DOMAIN buckets) /\ Len(s) \in Nat /\ DOMAIN s = 1..Len(s)
      /\ \A i, j \in 1..Len(s) : s[i] = s[j] => i = j
  BY OrderedIsSequence
<1>2. \A i \in 1..n : i \in 1..Len(s) /\ s[i] \in DOMAIN buckets
  BY <1>1
<1>3. 1 \in Int /\ n \in Int /\ n \in Nat
  BY <1>1
<1>4. /\ batch \in Seq(DOMAIN buckets) /\ Len(batch) = n
      /\ \A i \in 1..n : batch[i] = s[i]
  <2>1. /\ batch \in Seq(DOMAIN buckets)
        /\ Len(batch) = IF 1 <= n THEN n - 1 + 1 ELSE 0
        /\ \A i \in 1..(n - 1 + 1) : batch[i] = s[1 + i - 1]
    BY <1>2, <1>3, SubSeqProperties
  <2>2. (n - 1 + 1) = n /\ (IF 1 <= n THEN n - 1 + 1 ELSE 0) = n /\ \A i \in 1..n : 1 + i - 1 = i
    BY <1>3
  <2> QED
    BY <2>1, <2>2
<1> HIDE DEF batch
<1>5. DOMAIN batch = 1..n
  BY <1>4, LenProperties
<1> QED
  BY <1>1, <1>2, <1>4, <1>5 DEF IsInjective, batch

\* The rows of a sweep name buckets only.
LEMMA SweepRowsOK ==
  ASSUME IInv, TotalsCovered, NEW s \in Seq(DOMAIN buckets), IsInjective(s), Grows,
         Len(reservations') \in Nat
  PROVE  \A i \in 1..Len(s) : RowOK(SweepRows(s)[i], buckets', reservations')
<1>1. TypeOK
  BY DEF IInv
<1> SUFFICES ASSUME NEW i \in 1..Len(s) PROVE RowOK(SweepRows(s)[i], buckets', reservations')
  OBVIOUS
<1> DEFINE row == SweepRows(s)[i]
<1>2. row.bucket = s[i] /\ row.reservation = 0
  BY <1>1, SweepTakes
<1>3. row.key = ExpireKey(s[i])
  BY <1>1, SweepRowsType
<1>4. s[i] \in DOMAIN buckets'
  <2>1. s[i] \in DOMAIN buckets
    BY LenProperties
  <2> QED
    BY <2>1 DEF Grows
<1> HIDE DEF row
<1>5. \A p \in Orders : row.key # OrderKey(p)
  BY <1>3, KeysDiffer
<1>6. RowOK(row, buckets', reservations')
  BY <1>2, <1>4, <1>5 DEF RowOK
<1> QED
  BY <1>6 DEF row

\* The rows of a sweep say what it took from each bucket; the rows after them
\* in new say nothing of expiries or refunds.
LEMMA SweptConserve ==
  ASSUME TypeOK, TotalsConserve, TotalsCovered, NEW s \in Seq(DOMAIN buckets), IsInjective(s),
         NEW b \in DOMAIN buckets
  PROVE  LET new == SweepBuckets(s)[b]
             all == ledger \o SweepRows(s)
         IN  new.granted = new.remaining + new.reserved
                             + Total(GoneFrom(b, new.expiresAt), reservations)
                             - Total(Says(b, "expire"), all) - Total(Says(b, "clawback"), all)
<1> DEFINE new == SweepBuckets(s)[b]
           old == buckets[b]
           rows == SweepRows(s)
           gone == Total(GoneFrom(b, old.expiresAt), reservations)
<1>1. ledger \in Seq(Row) /\ rows \in Seq(Row) /\ reservations \in Seq(Reservation)
  BY SweepRowsType DEF TypeOK
<1>2. ASSUME NEW type
      PROVE  /\ Total(Says(b, type), ledger \o rows) = Total(Says(b, type), ledger) + Total(Says(b, type), rows)
             /\ Total(Says(b, type), ledger) \in Int
  <2>1. Says(b, type) \in [Row -> Int]
    BY CountsType
  <2> QED
    BY <1>1, <2>1, TotalConcat, TotalType
<1>3. /\ Total(Says(b, "expire"), rows) = new.remaining - old.remaining
      /\ Total(Says(b, "clawback"), rows) = 0
  BY SweepSays
<1>4. /\ new.granted = old.granted /\ new.reserved = old.reserved /\ new.expiresAt = old.expiresAt
      /\ new.remaining \in Nat
  BY SweptBucket DEF Bucket
<1>5. old.remaining \in Nat /\ old.reserved \in Nat /\ old.granted \in Nat
  BY BucketRows DEF Bucket
<1>6. old.granted = old.remaining + old.reserved + gone
        - Total(Says(b, "expire"), ledger) - Total(Says(b, "clawback"), ledger)
  BY DEF TotalsConserve
<1>7. gone \in Int
  <2>1. b \in BucketIds
    BY BucketRows
  <2>2. GoneFrom(b, old.expiresAt) \in [Reservation -> Int]
    BY <2>1, CountsType
  <2> QED
    BY <1>1, <2>2, TotalType
<1>8. gone = Total(GoneFrom(b, new.expiresAt), reservations)
  BY <1>4
<1> HIDE DEF new, old, rows, gone
<1>9. new.granted = new.remaining + new.reserved + gone
        - Total(Says(b, "expire"), ledger \o rows) - Total(Says(b, "clawback"), ledger \o rows)
  <2>1. /\ Total(Says(b, "expire"), ledger \o rows) = Total(Says(b, "expire"), ledger) + (new.remaining - old.remaining)
        /\ Total(Says(b, "clawback"), ledger \o rows) = Total(Says(b, "clawback"), ledger) + 0
        /\ Total(Says(b, "expire"), ledger) \in Int /\ Total(Says(b, "clawback"), ledger) \in Int
    BY <1>2, <1>3
  <2> QED
    BY <1>4, <1>5, <1>6, <1>7, <2>1, SMTT(40)
<1> QED
  BY <1>8, <1>9 DEF new, rows

\* The expiry call, whatever its limit cuts off.
LEMMA ExpireBucketsAddsUp ==
  ASSUME CInv, IInv', NEW at \in SweepTimes, NEW limit \in Limits, ExpireBuckets(at, limit)
  PROVE  CInv'
<1> DEFINE due == {b \in DOMAIN buckets : Due(buckets[b], at)}
<1>1. IInv /\ TypeOK /\ Shape /\ TotalsHeld /\ TotalsConserve /\ TotalsCovered /\ RowsOnce
  BY DEF CInv, AddsUp, IInv
<1>2. /\ buckets \in Seq(Bucket) /\ Len(buckets) \in Nat /\ DOMAIN buckets = 1..Len(buckets)
      /\ ledger \in Seq(Row) /\ reservations \in Seq(Reservation) /\ Len(reservations) \in Nat
  BY <1>1, LenProperties DEF TypeOK
<1>3. PICK s \in Ordered(due) :
        LET batch == SubSeq(s, 1, IF limit = 0 THEN Len(s) ELSE Lesser(limit, Len(s)))
        IN  /\ balance' = SweepBalance(batch)[Len(batch)]
            /\ buckets' = SweepBuckets(batch)
            /\ ledger' = ledger \o SweepRows(batch)
  BY DEF ExpireBuckets
<1> DEFINE n == IF limit = 0 THEN Len(s) ELSE Lesser(limit, Len(s))
           batch == SubSeq(s, 1, n)
<1>4. /\ balance' = SweepBalance(batch)[Len(batch)]
      /\ buckets' = SweepBuckets(batch)
      /\ ledger' = ledger \o SweepRows(batch)
      /\ UNCHANGED <<reserved, reservations>>
  BY <1>3 DEF ExpireBuckets
<1>5. n \in 0..Len(s)
  <2>1. Len(s) \in Nat
    BY <1>1, OrderedIsSequence
  <2> QED
    BY <2>1, LimitsAssumption DEF Lesser
<1>6. batch \in Seq(DOMAIN buckets) /\ IsInjective(batch)
  <2> HIDE DEF n
  <2> QED
    BY <1>1, <1>5, BatchIsInjective
<1> HIDE DEF batch
<1>7. DOMAIN buckets' = DOMAIN buckets /\ \A b \in DOMAIN buckets : buckets'[b] = SweepBuckets(batch)[b]
  BY <1>4 DEF SweepBuckets
<1>8. ASSUME NEW b \in DOMAIN buckets
      PROVE  /\ buckets'[b].user = buckets[b].user /\ buckets'[b].reserved = buckets[b].reserved
             /\ buckets'[b].remaining > 0 => buckets'[b] = buckets[b]
  BY <1>1, <1>6, <1>7, SweptBucket
<1>9. Grows
  BY <1>2, <1>4, <1>7, <1>8 DEF Grows
<1>10. SweepRows(batch) \in Seq(Row) /\ Len(SweepRows(batch)) = Len(batch)
  BY <1>1, <1>6, SweepRowsType
<1>11. Shape'
  <2>1. Len(reservations') \in Nat
    BY <1>2, <1>4
  <2>2. \A i \in 1..Len(SweepRows(batch)) : RowOK(SweepRows(batch)[i], buckets', reservations')
    BY <1>1, <1>6, <1>9, <1>10, <2>1, SweepRowsOK
  <2>3. \A i \in DOMAIN ledger' : RowOK(ledger'[i], buckets', reservations')
    BY <1>1, <1>4, <1>9, <1>10, <2>1, <2>2, RowsKept
  <2>4. \A r \in DOMAIN reservations' : AllocOK(reservations'[r], buckets')
    BY <1>1, <1>4, <1>9, <2>1, NamesKept
  <2>5. \A b \in DOMAIN buckets' : BucketOK(buckets'[b])
    BY <1>1, <1>7, <1>8 DEF Shape, BucketOK
  <2> QED
    BY <2>3, <2>4, <2>5 DEF Shape
<1>12. TotalsHeld'
  BY <1>1, <1>4, <1>7, <1>8 DEF TotalsHeld
<1>13. TotalsConserve'
  <2>1. ASSUME NEW b \in DOMAIN buckets
        PROVE  buckets'[b].granted = buckets'[b].remaining + buckets'[b].reserved
                 + Total(GoneFrom(b, buckets'[b].expiresAt), reservations')
                 - Total(Says(b, "expire"), ledger') - Total(Says(b, "clawback"), ledger')
    BY <1>1, <1>4, <1>6, <1>7, SweptConserve
  <2> QED
    BY <1>7, <2>1 DEF TotalsConserve
<1>14. TotalsCovered'
  <2>1. ASSUME NEW v \in Users PROVE balance'[v] >= Total(LeftTo(v), buckets')
    <3>1. balance'[v] - Total(LeftTo(v), buckets') = balance[v] - Total(LeftTo(v), buckets)
      BY <1>1, <1>4, <1>6, SweepTakes
    <3>2. balance[v] >= Total(LeftTo(v), buckets)
      BY <1>1 DEF TotalsCovered
    <3>3. balance[v] \in Nat /\ balance'[v] \in Nat
      BY <1>1 DEF IInv, TypeOK
    <3>4. buckets' \in Seq(Bucket)
      BY DEF IInv, TypeOK
    <3>5. Total(LeftTo(v), buckets') \in Int /\ Total(LeftTo(v), buckets) \in Int
      BY <1>2, <3>4, CountsType, TotalType
    <3> QED
      BY <3>1, <3>2, <3>3, <3>5
  <2> QED
    BY <2>1 DEF TotalsCovered
<1>15. RowsOnce'
  <2>1. ASSUME NEW r, NEW type \in {"reserve", "commit", "release"}
        PROVE  RowsNaming(ledger', r, type) = RowsNaming(ledger, r, type)
    <3>1. \A i \in 1..Len(SweepRows(batch)) : SweepRows(batch)[i].type # type
      BY <1>1, <1>6, <1>10, SweepTakes
    <3> QED
      BY <1>2, <1>4, <1>10, <3>1, NamingConcat
  <2> QED
    BY <1>1, <1>4, <2>1 DEF RowsOnce
<1> QED
  BY <1>11, <1>12, <1>13, <1>14, <1>15 DEF CInv, AddsUp

\* Rows that count the same.
LEMMA TotalKept ==
  ASSUME NEW V, NEW w \in [V -> Int], NEW l \in Seq(V), NEW k,
         Len(k) = Len(l), \A i \in DOMAIN l : w[k[i]] = w[l[i]]
  PROVE  Total(w, k) = Total(w, l)
<1>1. DOMAIN l = 1..Len(l)
  BY LenProperties
<1>2. Counts(w, k) = Counts(w, l)
  BY <1>1 DEF Counts
<1> QED
  BY <1>2 DEF Total

\* Closing a bucket moves no credits.
LEMMA ClosedKeeps ==
  ASSUME NEW b \in Bucket, NEW t
  PROVE  LET new == Closed(b, t)
         IN  /\ new.user = b.user /\ new.granted = b.granted /\ new.expiresAt = b.expiresAt
             /\ new.remaining = b.remaining /\ new.reserved = b.reserved
             /\ BucketOK(b) => BucketOK(new)
<1> DEFINE new == Closed(b, t)
<1>1. b.remaining \in Nat /\ b.reserved \in Nat
  BY DEF Bucket
<1>2. CASE b.remaining + b.reserved > 0
  BY <1>2 DEF Closed
<1>3. CASE ~(b.remaining + b.reserved > 0)
  <2>1. new = [b EXCEPT !.status = IF Live(b, t) THEN "depleted" ELSE "expired"]
    BY <1>3 DEF Closed
  <2>2. ~(b.remaining > 0)
    BY <1>1, <1>3
  <2> HIDE DEF new
  <2>3. /\ new.user = b.user /\ new.granted = b.granted /\ new.expiresAt = b.expiresAt
        /\ new.remaining = b.remaining /\ new.reserved = b.reserved
    BY <2>1 DEF Bucket
  <2>4. BucketOK(new)
    BY <2>2, <2>3 DEF BucketOK
  <2> QED
    BY <2>3, <2>4 DEF new
<1> QED
  BY <1>2, <1>3

\* The buckets give up what res holds in them; what it holds in a live bucket
\* goes back there if it is released.
Settles(res, status) ==
  \A b \in DOMAIN buckets :
    /\ buckets'[b].user = buckets[b].user /\ buckets'[b].granted = buckets[b].granted
    /\ buckets'[b].expiresAt = buckets[b].expiresAt
    /\ buckets'[b].reserved = buckets[b].reserved - res.alloc[b]
    /\ buckets'[b].remaining = buckets[b].remaining
         + (IF status = "released" /\ Live(buckets[b], now) THEN res.alloc[b] ELSE 0)
    /\ BucketOK(buckets'[b])

Outcome(status, type) ==
  \/ status = "committed" /\ type = "commit"
  \/ status = "released" /\ type = "release"

\* What commit and release share.
LEMMA FinalizeAddsUp ==
  ASSUME CInv, IInv', NEW r \in DOMAIN reservations, NEW k \in Keys,
         NEW status, NEW type, Outcome(status, type), NEW restored \in Nat,
         Finalizable(r, k), Finalize(r, k, status, type, restored),
         DOMAIN buckets' = DOMAIN buckets, Settles(reservations[r], status), TotalsCovered'
  PROVE  CInv'
<1> DEFINE res == reservations[r]
           new == [res EXCEPT !.status = status, !.finalizedAt = now]
           u   == res.user
           row == NewRow(u, type, restored, ClientKey(k), balance[u] + restored,
                         reserved[u] - res.amount, 0, r)
<1>1. IInv /\ TypeOK /\ Shape /\ TotalsHeld /\ TotalsConserve /\ TotalsCovered /\ RowsOnce
  BY DEF CInv, AddsUp, IInv
<1>2. /\ ledger \in Seq(Row) /\ balance \in [Users -> Nat] /\ reserved \in [Users -> Nat]
      /\ reservations \in Seq(Reservation) /\ Len(reservations) \in Nat
      /\ DOMAIN reservations = 1..Len(reservations) /\ now \in Times
  BY <1>1, LenProperties DEF TypeOK
<1>3. /\ res \in Reservation /\ res.status = "pending"
  BY <1>2 DEF Finalizable
<1>4. u \in Users /\ res.amount \in Nat /\ \A b \in BucketIds : res.alloc[b] \in Nat
  BY <1>3 DEF Reservation
<1>5. /\ reserved' = [reserved EXCEPT ![u] = @ - res.amount]
      /\ ledger' = Append(ledger, row) /\ reserved[u] >= res.amount
  BY DEF Finalize, Finalizable
<1>6. reservations' = [reservations EXCEPT ![r] = new]
  BY DEF Finalize
<1>7. reservations' \in Seq(Reservation)
  BY DEF IInv, TypeOK
<1> HIDE DEF res
<1>8. /\ new \in Reservation /\ new.status = status /\ new.finalizedAt = now
      /\ new.user = res.user /\ new.amount = res.amount /\ new.alloc = res.alloc
  BY <1>2, <1>3 DEF Reservation, Outcome
<1>9. /\ row.type = type /\ row.reservation = r /\ row.key = ClientKey(k) /\ row.bucket = 0
  BY DEF NewRow
<1>10. row \in Row
  <2>1. ClientKey(k) \in RowKeys /\ type \in RowTypes /\ restored \in Int
    BY KeysType DEF RowTypes, Outcome
  <2>2. r \in Nat /\ 0 \in Nat /\ reserved[u] - res.amount \in Nat /\ balance[u] + restored \in Nat
    BY <1>2, <1>4, <1>5
  <2> HIDE DEF u
  <2> QED
    BY <1>4, <2>1, <2>2, NewRowType
<1> HIDE DEF new, row, u
<1>11. /\ Len(reservations') = Len(reservations) /\ DOMAIN reservations' = DOMAIN reservations
       /\ reservations'[r] = new
       /\ \A i \in DOMAIN reservations : i # r => reservations'[i] = reservations[i]
  BY <1>2, <1>6
<1>12. RowSet(reservations', reservations, r, new)
  BY <1>11 DEF RowSet
<1>13. \A b \in DOMAIN buckets : b \in BucketIds /\ buckets[b] \in Bucket
  BY <1>1, BucketRows
<1>14. Grows
  BY <1>2, <1>11 DEF Grows, Settles
<1>15. Shape'
  <2>1. RowOK(row, buckets', reservations')
    <3>1. \A p \in Orders : row.key # OrderKey(p)
      BY <1>9, KeysDiffer
    <3>2. r <= Len(reservations')
      BY <1>2, <1>11
    <3> QED
      BY <1>9, <3>1, <3>2 DEF RowOK, Outcome
  <2>2. \A j \in DOMAIN ledger' : RowOK(ledger'[j], buckets', reservations')
    BY <1>1, <1>2, <1>5, <1>10, <1>11, <1>14, <2>1, RowKept
  <2>3. \A i \in DOMAIN reservations : AllocOK(reservations[i], buckets')
    BY <1>1, <1>2, <1>11, <1>14, NamesKept
  <2>4. AllocOK(new, buckets')
    BY <1>8, <2>3 DEF AllocOK, res
  <2>5. \A i \in DOMAIN reservations' : AllocOK(reservations'[i], buckets')
    BY <1>11, <2>3, <2>4
  <2>6. \A b \in DOMAIN buckets' : BucketOK(buckets'[b])
    BY DEF Settles
  <2> QED
    BY <2>2, <2>5, <2>6 DEF Shape
<1>16. /\ \A v : Total(HoldOf(v), reservations')
                   = Total(HoldOf(v), reservations) - (IF res.user = v THEN res.amount ELSE 0)
       /\ \A b \in BucketIds :
            Total(HoldOn(b), reservations') = Total(HoldOn(b), reservations) - res.alloc[b]
       /\ \A b \in BucketIds : \A t :
            Total(GoneFrom(b, t), reservations') = Total(GoneFrom(b, t), reservations)
              + (IF new.status = "committed" \/ ~After(t, new.finalizedAt)
                 THEN res.alloc[b] ELSE 0)
  <2>1. new.status \in {"committed", "released"}
    BY <1>8 DEF Outcome
  <2> QED
    BY <1>2, <1>3, <1>7, <1>8, <1>12, <2>1, HoldEnded, ZenonT(40) DEF res
<1>17. TotalsHeld'
  <2>1. ASSUME NEW v \in Users PROVE reserved'[v] = Total(HoldOf(v), reservations')
    <3>1. reserved'[v] = reserved[v] - (IF u = v THEN res.amount ELSE 0)
      BY <1>2, <1>4, <1>5
    <3>2. reserved[v] = Total(HoldOf(v), reservations)
      BY <1>1 DEF TotalsHeld
    <3> QED
      BY <1>16, <3>1, <3>2 DEF u
  <2>2. ASSUME NEW b \in DOMAIN buckets PROVE buckets'[b].reserved = Total(HoldOn(b), reservations')
    <3>1. buckets[b].reserved = Total(HoldOn(b), reservations)
      BY <1>1 DEF TotalsHeld
    <3>2. buckets'[b].reserved = buckets[b].reserved - res.alloc[b]
      BY DEF Settles, res
    <3> QED
      BY <1>13, <1>16, <3>1, <3>2
  <2> QED
    BY <2>1, <2>2 DEF TotalsHeld
<1>18. ASSUME NEW b, NEW says \in {"expire", "clawback"}
       PROVE  /\ Total(Says(b, says), ledger') = Total(Says(b, says), ledger)
              /\ Total(Says(b, says), ledger) \in Int
  <2>1. /\ Total(Says(b, says), Append(ledger, row))
              = Total(Says(b, says), ledger) + (IF row.type = says /\ row.bucket = b THEN row.amount ELSE 0)
        /\ Total(Says(b, says), ledger) \in Int
    BY <1>2, <1>10, SaysAppend
  <2>2. row.type # says
    BY <1>9 DEF Outcome
  <2> QED
    BY <1>5, <2>1, <2>2
<1>19. TotalsConserve'
  <2>1. ASSUME NEW b \in DOMAIN buckets
        PROVE  buckets'[b].granted = buckets'[b].remaining + buckets'[b].reserved
                 + Total(GoneFrom(b, buckets'[b].expiresAt), reservations')
                 - Total(Says(b, "expire"), ledger') - Total(Says(b, "clawback"), ledger')
    <3> DEFINE gone == Total(GoneFrom(b, buckets[b].expiresAt), reservations)
               part == res.alloc[b]
               live == After(buckets[b].expiresAt, now)
    <3>1. buckets[b].granted = buckets[b].remaining + buckets[b].reserved + gone
            - Total(Says(b, "expire"), ledger) - Total(Says(b, "clawback"), ledger)
      BY <1>1 DEF TotalsConserve
    <3>2. gone \in Int
      BY <1>2, <1>13, CountsType, TotalType
    <3>3. part \in Nat /\ buckets[b].remaining \in Nat /\ buckets[b].reserved \in Nat
      BY <1>4, <1>13 DEF Bucket
    <3>4. /\ buckets'[b].granted = buckets[b].granted /\ buckets'[b].expiresAt = buckets[b].expiresAt
          /\ buckets'[b].reserved = buckets[b].reserved - part
          /\ buckets'[b].remaining = buckets[b].remaining
               + (IF status = "released" /\ live THEN part ELSE 0)
      BY DEF Settles, Live, res
    <3>5. Total(GoneFrom(b, buckets[b].expiresAt), reservations')
            = gone + (IF status = "committed" \/ ~live THEN part ELSE 0)
      BY <1>8, <1>13, <1>16
    <3>6. /\ Total(Says(b, "expire"), ledger') = Total(Says(b, "expire"), ledger)
          /\ Total(Says(b, "clawback"), ledger') = Total(Says(b, "clawback"), ledger)
          /\ Total(Says(b, "expire"), ledger) \in Int /\ Total(Says(b, "clawback"), ledger) \in Int
      BY <1>18
    <3>7. status = "committed" <=> status # "released"
      BY DEF Outcome
    <3> HIDE DEF gone, part, live
    <3> QED
      BY <3>1, <3>2, <3>3, <3>4, <3>5, <3>6, <3>7
  <2> QED
    BY <2>1 DEF TotalsConserve
<1>20. RowsOnce'
  <2>1. ASSUME NEW i \in DOMAIN reservations, NEW says \in {"reserve", "commit", "release"}
        PROVE  /\ Cardinality(RowsNaming(ledger', i, says)) =
                    Cardinality(RowsNaming(ledger, i, says)) + (IF i = r /\ says = type THEN 1 ELSE 0)
               /\ Cardinality(RowsNaming(ledger, i, says)) \in Nat
    <3>1. /\ Cardinality(RowsNaming(Append(ledger, row), i, says)) =
               Cardinality(RowsNaming(ledger, i, says))
                 + (IF row.reservation = i /\ row.type = says THEN 1 ELSE 0)
          /\ Cardinality(RowsNaming(ledger, i, says)) \in Nat
      BY <1>2, <1>10, NamingAppend, NamingFinite
    <3> QED
      BY <1>5, <1>9, <3>1
  <2>2. ASSUME NEW i \in DOMAIN reservations
        PROVE  /\ Cardinality(RowsNaming(ledger, i, "reserve")) = 1
               /\ Cardinality(RowsNaming(ledger, i, "commit"))
                    = IF reservations[i].status = "committed" THEN 1 ELSE 0
               /\ Cardinality(RowsNaming(ledger, i, "release"))
                    = IF reservations[i].status = "released" THEN 1 ELSE 0
    BY <1>1 DEF RowsOnce
  <2>3. ASSUME NEW i \in DOMAIN reservations
        PROVE  /\ Cardinality(RowsNaming(ledger', i, "reserve")) = 1
               /\ Cardinality(RowsNaming(ledger', i, "commit"))
                    = IF reservations'[i].status = "committed" THEN 1 ELSE 0
               /\ Cardinality(RowsNaming(ledger', i, "release"))
                    = IF reservations'[i].status = "released" THEN 1 ELSE 0
    <3>1. CASE i = r
      BY <1>3, <1>8, <1>11, <2>1, <2>2, <3>1 DEF Outcome, res
    <3>2. CASE i # r
      BY <1>11, <2>1, <2>2, <3>2
    <3> QED
      BY <3>1, <3>2
  <2> QED
    BY <1>11, <2>3 DEF RowsOnce
<1> QED
  BY <1>15, <1>17, <1>19, <1>20 DEF CInv, AddsUp

\* Spending a hold.
LEMMA CommitAddsUp ==
  ASSUME CInv, IInv', NEW r \in DOMAIN reservations, NEW k \in Keys, Commit(r, k)
  PROVE  CInv'
<1> DEFINE alloc == reservations[r].alloc
<1>1. IInv /\ TypeOK /\ Shape /\ TotalsCovered
  BY DEF CInv, AddsUp, IInv
<1>2. Finalizable(r, k) /\ Finalize(r, k, "committed", "commit", 0)
  BY DEF Commit
<1>3. DOMAIN buckets' = DOMAIN buckets
  BY DEF Commit
<1>4. ASSUME NEW b \in DOMAIN buckets
      PROVE  /\ buckets'[b].user = buckets[b].user /\ buckets'[b].granted = buckets[b].granted
             /\ buckets'[b].expiresAt = buckets[b].expiresAt
             /\ buckets'[b].reserved = buckets[b].reserved - alloc[b]
             /\ buckets'[b].remaining = buckets[b].remaining
             /\ BucketOK(buckets'[b])
  <2> DEFINE old == buckets[b]
             n == alloc[b]
             freed == [old EXCEPT !.reserved = @ - n]
  <2>1. old \in Bucket /\ n \in Nat /\ n <= old.reserved
    BY <1>1, <1>2, AllocatedBuckets
  <2>2. old.reserved \in Nat /\ BucketOK(old)
    BY <1>1, <2>1 DEF Bucket, Shape
  <2>3. CASE n = 0
    <3>1. buckets'[b] = old
      BY <2>3 DEF Commit
    <3> HIDE DEF old, n
    <3>2. old.reserved = old.reserved - n
      BY <2>2, <2>3
    <3> QED
      BY <2>2, <3>1, <3>2 DEF old, n
  <2>4. CASE n # 0
    <3>1. buckets'[b] = Closed(freed, now)
      BY <2>4 DEF Commit
    <3> HIDE DEF old, n
    <3>2. /\ freed.user = old.user /\ freed.granted = old.granted /\ freed.expiresAt = old.expiresAt
          /\ freed.remaining = old.remaining /\ freed.reserved = old.reserved - n
          /\ freed.status = old.status
      BY <2>1 DEF Bucket
    <3>3. freed \in Bucket
      BY <2>1, UnheldType
    <3>4. BucketOK(freed)
      BY <2>2, <3>2 DEF BucketOK
    <3> HIDE DEF freed
    <3> QED
      BY <3>1, <3>2, <3>3, <3>4, ClosedKeeps DEF old, n
  <2> QED
    BY <2>3, <2>4
<1>5. Settles(reservations[r], "committed")
  <2>1. \A b \in DOMAIN buckets : buckets[b].remaining \in Nat
    BY <1>1, BucketRows DEF Bucket
  <2> QED
    BY <1>4, <2>1 DEF Settles
<1>6. TotalsCovered'
  <2>1. balance' = balance
    <3>1. reservations[r].user \in Users
      BY <1>1, <1>2, AllocatedBuckets DEF Reservation
    <3>2. balance \in [Users -> Nat]
      BY <1>1 DEF TypeOK
    <3>3. balance' = [balance EXCEPT ![reservations[r].user] = @ + 0]
      BY <1>2 DEF Finalize
    <3> QED
      BY <3>1, <3>2, <3>3
  <2>2. ASSUME NEW v \in Users PROVE Total(LeftTo(v), buckets') = Total(LeftTo(v), buckets)
    <3>1. LeftTo(v) \in [Bucket -> Int]
      BY CountsType
    <3>2. buckets \in Seq(Bucket) /\ buckets' \in Seq(Bucket)
      BY <1>1 DEF IInv, TypeOK
    <3>3. Len(buckets') = Len(buckets)
      BY <1>3, <3>2, LenProperties
    <3>4. \A b \in DOMAIN buckets : buckets[b] \in Bucket /\ buckets'[b] \in Bucket
      BY <1>3, <3>2
    <3>5. \A b \in DOMAIN buckets : LeftTo(v)[buckets'[b]] = LeftTo(v)[buckets[b]]
      BY <1>4, <3>4 DEF LeftTo
    <3> QED
      BY <3>1, <3>2, <3>3, <3>5, TotalKept
  <2> QED
    BY <1>1, <2>1, <2>2 DEF TotalsCovered
<1>7. Outcome("committed", "commit") /\ 0 \in Nat
  BY DEF Outcome
<1> QED
  BY <1>2, <1>3, <1>5, <1>6, <1>7, FinalizeAddsUp

\* The sum of naturals up to n, of which those beyond m are 0.
LEMMA SumTail ==
  ASSUME NEW n \in Nat, NEW m \in 0..n, NEW f,
         \A i \in 1..n : f[i] \in Int /\ (i > m => f[i] = 0)
  PROVE  Sum(f, n) = Sum(f, m) /\ Sum(f, m) \in Int
<1> DEFINE d == n - m
           g == [i \in 1..d |-> 0]
<1>1. m \in Nat /\ d \in Nat /\ m + d = n
  OBVIOUS
<1>2. \A i \in 1..d : g[i] = 0
  OBVIOUS
<1> HIDE DEF d, g
<1>3. \A i \in 1..m : i \in 1..n /\ f[i] \in Int
  BY <1>1
<1>4. \A i \in 1..d : g[i] \in Int /\ f[m+i] = g[i]
  <2> TAKE i \in 1..d
  <2>1. m + i \in 1..n /\ m + i > m
    BY <1>1
  <2> QED
    BY <1>2, <2>1
<1>5. Joins(f, f, m, g, d)
  BY <1>3, <1>4 DEF Joins
<1>6. Sum(f, m + d) = Sum(f, m) + Sum(g, d)
  BY <1>1, <1>5, SumConcat
<1>7. Sum(g, d) = 0
  BY <1>1, <1>2, SumZero
<1>8. Sum(f, m) \in Int
  <2>1. m \in 0..m
    BY <1>1
  <2> QED
    BY <1>1, <1>3, <2>1, SumStep
<1> QED
  BY <1>1, <1>6, <1>7, <1>8

\* A released hold comes back to the balance, and to the buckets still live.
LEMMA ReleaseAddsUp ==
  ASSUME CInv, IInv', NEW r \in DOMAIN reservations, NEW k \in Keys, Release(r, k)
  PROVE  CInv'
<1> DEFINE res == reservations[r]
           back == [b \in BucketIds |->
                      IF b \in DOMAIN buckets /\ Live(buckets[b], now) THEN res.alloc[b] ELSE 0]
<1>1. IInv /\ TypeOK /\ Shape /\ TotalsCovered
  BY DEF CInv, AddsUp, IInv
<1>2. Finalizable(r, k) /\ Finalize(r, k, "released", "release", Restored(res))
  BY DEF Release
<1>3. DOMAIN buckets' = DOMAIN buckets
  BY DEF Release
<1>4. /\ res \in Reservation
      /\ \A b \in DOMAIN buckets : /\ buckets[b] \in Bucket /\ res.alloc[b] \in Nat
                                   /\ res.alloc[b] <= buckets[b].reserved
  BY <1>1, <1>2, AllocatedBuckets
<1>5. Restored(res) \in Nat
  BY <1>4, RestoredType
<1>6. ASSUME NEW b \in DOMAIN buckets
      PROVE  /\ buckets'[b].user = buckets[b].user /\ buckets'[b].granted = buckets[b].granted
             /\ buckets'[b].expiresAt = buckets[b].expiresAt
             /\ buckets'[b].reserved = buckets[b].reserved - res.alloc[b]
             /\ buckets'[b].remaining = buckets[b].remaining
                  + (IF Live(buckets[b], now) THEN res.alloc[b] ELSE 0)
             /\ BucketOK(buckets'[b])
  <2> DEFINE old == buckets[b]
             n == res.alloc[b]
             moved == ReturnTo(old, n)
  <2>1. old \in Bucket /\ n \in Nat /\ n <= old.reserved
    BY <1>4
  <2>2. old.reserved \in Nat /\ old.remaining \in Nat /\ BucketOK(old)
    BY <1>1, <2>1 DEF Bucket, Shape
  <2>3. CASE n = 0
    <3>1. buckets'[b] = old
      BY <2>3 DEF Release
    <3> HIDE DEF old, n
    <3>2. old.reserved = old.reserved - n /\ old.remaining = old.remaining + n /\ old.remaining = old.remaining + 0
      BY <2>2, <2>3
    <3> QED
      BY <2>2, <3>1, <3>2 DEF old, n
  <2>4. CASE n # 0
    <3>1. buckets'[b] = Closed(moved, now)
      BY <2>4 DEF Release
    <3> HIDE DEF old, n
    <3>2. /\ moved.user = old.user /\ moved.granted = old.granted /\ moved.expiresAt = old.expiresAt
          /\ moved.reserved = old.reserved - n
          /\ moved.remaining = old.remaining + (IF Live(old, now) THEN n ELSE 0)
          /\ moved.status = IF Live(old, now) THEN "active" ELSE old.status
      BY <2>1, <2>2 DEF Bucket, ReturnTo
    <3>3. moved \in Bucket
      BY <2>1, UnheldType
    <3>4. BucketOK(moved)
      BY <2>2, <3>2 DEF BucketOK
    <3> HIDE DEF moved
    <3> QED
      BY <3>1, <3>2, <3>3, <3>4, ClosedKeeps DEF old, n
  <2> QED
    BY <2>3, <2>4
<1>7. Settles(res, "released")
  BY <1>6 DEF Settles
<1> HIDE DEF res
<1>8. /\ res.user \in Users /\ res.amount \in Nat /\ \A b \in BucketIds : res.alloc[b] \in Nat
      /\ Sum(res.alloc, MaxBuckets) <= res.amount
      /\ \A b \in BucketIds : res.alloc[b] > 0 => b \in DOMAIN buckets /\ buckets[b].user = res.user
  BY <1>1, <1>4 DEF Reservation, Shape, AllocOK, res
<1>9. /\ \A b \in BucketIds : back[b] \in Nat
      /\ \A b \in BucketIds : b \notin DOMAIN buckets => back[b] = 0
      /\ \A b \in DOMAIN buckets : b \in BucketIds /\ back[b] = IF Live(buckets[b], now) THEN res.alloc[b] ELSE 0
  <2>1. \A b \in BucketIds :
          back[b] = IF b \in DOMAIN buckets /\ Live(buckets[b], now) THEN res.alloc[b] ELSE 0
    OBVIOUS
  <2>2. \A b \in DOMAIN buckets : b \in BucketIds
    BY <1>1, BucketRows
  <2> HIDE DEF back
  <2> QED
    BY <1>8, <2>1, <2>2
<1>10. Restored(res) >= Sum(back, MaxBuckets) /\ Sum(back, MaxBuckets) \in Nat
  <2>1. \A b \in 1..MaxBuckets : back[b] \in Nat /\ res.alloc[b] \in Nat
    BY <1>8, <1>9 DEF BucketIds
  <2>2. Restored(res) = LET rest == res.amount - Sum(res.alloc, MaxBuckets) + Sum(back, MaxBuckets)
                        IN  IF rest < 0 THEN 0 ELSE rest
    BY DEF Restored
  <2> HIDE DEF back
  <2>3. Sum(back, MaxBuckets) \in Nat /\ Sum(res.alloc, MaxBuckets) \in Nat
    BY <2>1, SumBounds, BoundsAssumption
  <2> QED
    BY <1>8, <2>2, <2>3
<1> HIDE DEF back
<1>11. TotalsCovered'
  <2>1. /\ buckets \in Seq(Bucket) /\ buckets' \in Seq(Bucket) /\ Len(buckets) \in Nat
        /\ DOMAIN buckets = 1..Len(buckets) /\ Len(buckets) <= MaxBuckets /\ Len(buckets') = Len(buckets)
        /\ \A b \in DOMAIN buckets : buckets[b] \in Bucket /\ buckets'[b] \in Bucket
        /\ balance \in [Users -> Nat]
    <3>1. buckets \in Seq(Bucket) /\ buckets' \in Seq(Bucket) /\ Len(buckets) <= MaxBuckets
          /\ balance \in [Users -> Nat]
      BY <1>1 DEF IInv, TypeOK
    <3> QED
      BY <1>3, <3>1, LenProperties
  <2>2. balance' = [balance EXCEPT ![res.user] = @ + Restored(res)]
    BY <1>2 DEF Finalize, res
  <2>3. Sum(back, MaxBuckets) = Sum(back, Len(buckets))
    <3>1. \A b \in 1..MaxBuckets : back[b] \in Int /\ (b > Len(buckets) => back[b] = 0)
      BY <1>9, <2>1 DEF BucketIds
    <3>2. Len(buckets) \in 0..MaxBuckets
      BY <2>1, BoundsAssumption
    <3> QED
      BY <3>1, <3>2, SumTail, BoundsAssumption
  <2>4. ASSUME NEW v \in Users PROVE balance'[v] >= Total(LeftTo(v), buckets')
    <3> DEFINE w == LeftTo(v)
    <3>1. w \in [Bucket -> Int] /\ Total(w, buckets) \in Int
      BY <2>1, CountsType, TotalType
    <3>2. \A b \in DOMAIN buckets :
            w[buckets'[b]] = IF buckets[b].user = v
                             THEN buckets[b].remaining + back[b] ELSE 0
      BY <1>6, <1>9, <2>1 DEF LeftTo
    <3>3. \A b \in DOMAIN buckets :
            w[buckets[b]] = IF buckets[b].user = v THEN buckets[b].remaining ELSE 0
      BY <2>1 DEF LeftTo
    <3>4. balance[v] >= Total(w, buckets) /\ balance[v] \in Nat
      BY <1>1, <2>1 DEF TotalsCovered
    <3> HIDE DEF w
    <3>5. \A b \in DOMAIN buckets : back[b] > 0 => buckets[b].user = res.user
      BY <1>8, <1>9
    <3>5a. \A b \in DOMAIN buckets : back[b] \in Nat /\ buckets[b].remaining \in Nat
      BY <1>9, <2>1 DEF Bucket
    <3>6. CASE v = res.user
      <4>1. \A b \in DOMAIN buckets : back[b] \in Int /\ w[buckets'[b]] = w[buckets[b]] + back[b]
        <5> TAKE b \in DOMAIN buckets
        <5>1. back[b] \in Nat /\ buckets[b].remaining \in Nat
          BY <3>5a
        <5>2. CASE buckets[b].user = v
          BY <3>2, <3>3, <5>1, <5>2
        <5>3. CASE buckets[b].user # v
          BY <3>2, <3>3, <3>5, <3>6, <5>1, <5>3
        <5> QED
          BY <5>2, <5>3
      <4>2. CountsMore(w, buckets', buckets, back)
        BY <2>1, <4>1 DEF CountsMore
      <4>3. Total(w, buckets') = Total(w, buckets) + Sum(back, Len(buckets))
        BY <2>1, <3>1, <4>2, TotalChanged
      <4>4. balance'[v] = balance[v] + Restored(res)
        BY <2>1, <2>2, <3>6
      <4>5. balance'[v] >= Total(w, buckets')
        BY <1>5, <1>10, <2>3, <3>1, <3>4, <4>3, <4>4 DEF res
      <4> QED
        BY <4>5 DEF w
    <3>7. CASE v # res.user
      <4>1. \A b \in DOMAIN buckets : w[buckets'[b]] = w[buckets[b]]
        BY <3>2, <3>3, <3>5, <3>5a, <3>7
      <4>2. Total(w, buckets') = Total(w, buckets)
        BY <2>1, <3>1, <4>1, TotalKept
      <4>3. balance'[v] = balance[v]
        BY <2>1, <2>2, <3>7
      <4> QED
        BY <3>4, <4>2, <4>3 DEF w
    <3> QED
      BY <3>6, <3>7
  <2> QED
    BY <2>4 DEF TotalsCovered
<1> QED
  BY <1>2, <1>3, <1>5, <1>7, <1>11, FinalizeAddsUp DEF Outcome, res

-----------------------------------------------------------------------------
(* Reservations.                                                           *)

\* The buckets s of user u are swept, and alloc draws at most a from those
\* that are spendable: less only if it drains all of u's buckets, and nothing
\* from one of them while another that expires sooner keeps credits.
Draws(u, a, s, alloc) ==
  /\ s \in Seq(DOMAIN buckets) /\ IsInjective(s)
  /\ \A i \in 1..Len(s) : buckets[s[i]].user = u
  /\ alloc \in [BucketIds -> Nat] /\ Sum(alloc, MaxBuckets) <= a
  /\ \A b \in BucketIds : alloc[b] > 0 =>
       b \in DOMAIN buckets /\ buckets[b].user = u /\ Spendable(buckets[b], now)
  /\ \A b \in DOMAIN buckets : alloc[b] <= SweepBuckets(s)[b].remaining
  /\ \/ Sum(alloc, MaxBuckets) = a
     \/ \A b \in DOMAIN buckets : buckets[b].user = u => alloc[b] = SweepBuckets(s)[b].remaining
  /\ \A b, c \in DOMAIN buckets :
       /\ buckets[b].user = u /\ alloc[c] > 0
       /\ Sooner(buckets[b].expiresAt, buckets[c].expiresAt)
       => alloc[b] = SweepBuckets(s)[b].remaining

\* What such a draw leaves in the tables.
Drew(u, k, a, t, s, alloc) ==
  LET left  == SweepBalance(s)[Len(s)]
      swept == SweepBuckets(s)
  IN  /\ left[u] >= a
      /\ balance' = [left EXCEPT ![u] = @ - a]
      /\ reserved' = [reserved EXCEPT ![u] = @ + a]
      /\ buckets' = [b \in DOMAIN buckets |->
           [swept[b] EXCEPT !.remaining = @ - alloc[b], !.reserved = @ + alloc[b]]]
      /\ reservations' = Append(reservations,
           [user |-> u, amount |-> a, key |-> k, expiresAt |-> t,
            status |-> "pending", alloc |-> alloc, finalizedAt |-> 0])
      /\ ledger' = ledger \o Append(SweepRows(s),
           NewRow(u, "reserve", -a, ReserveKey(k), left[u] - a, reserved[u] + a,
                  0, Len(reservations) + 1))

\* A sooner bucket comes first.
LEMMA SoonerIsBefore ==
  ASSUME TypeOK, NEW b \in DOMAIN buckets, NEW c \in DOMAIN buckets,
         Sooner(buckets[b].expiresAt, buckets[c].expiresAt)
  PROVE  ~Before(c, b) /\ b # c
<1>1. /\ buckets[b].expiresAt = Never \/ buckets[b].expiresAt \in Int
      /\ buckets[c].expiresAt = Never \/ buckets[c].expiresAt \in Int
  BY BucketRows DEF Bucket, Times
<1> QED
  BY <1>1, NeverAssumption DEF Before, Sooner

\* Reserve sweeps and draws like that.
LEMMA ReserveDraws ==
  ASSUME IInv, Shape, NEW u \in Users, NEW k \in Keys, NEW a \in HoldAmounts,
         NEW t \in HoldExpiries, Reserve(u, k, a, t)
  PROVE  \E s, alloc : Draws(u, a, s, alloc) /\ Drew(u, k, a, t, s, alloc)
<1> DEFINE dueIds  == {b \in DOMAIN buckets : buckets[b].user = u /\ Due(buckets[b], now)}
           freeIds == {b \in DOMAIN buckets : buckets[b].user = u /\ Spendable(buckets[b], now)}
<1>1. TypeOK
  BY DEF IInv
<1>2. PICK s \in Ordered(dueIds), q \in Ordered(freeIds) : Drew(u, k, a, t, s, Allocation(q, a))
  BY DEF Reserve, Drew
<1> DEFINE alloc == Allocation(q, a)
           left(b) == SweepBuckets(s)[b].remaining
<1>3. a \in Nat /\ dueIds \in SUBSET DOMAIN buckets /\ freeIds \in SUBSET DOMAIN buckets
  BY AmountsAssumption
<1>4. /\ s \in Seq(DOMAIN buckets) /\ s \in Seq(dueIds) /\ Len(s) \in Nat /\ DOMAIN s = 1..Len(s)
      /\ \A i, j \in 1..Len(s) : s[i] = s[j] => i = j
  BY <1>1, OrderedIsSequence
<1>5. /\ q \in Seq(freeIds) /\ Len(q) \in Nat /\ DOMAIN q = 1..Len(q)
      /\ \A i, j \in 1..Len(q) : q[i] = q[j] => i = j
  BY <1>1, OrderedIsSequence
<1>6. IsInjective(s) /\ IsInjective(q)
  BY <1>4, <1>5 DEF IsInjective
<1>7. alloc \in Allocs(freeIds, a) /\ Fills(alloc, q, Len(q), a)
  <2> HIDE DEF freeIds
  <2> QED
    BY <1>1, <1>3, <1>5, <1>6, AllocationFills
<1>8. \A b \in dueIds : \E i \in 1..Len(s) : s[i] = b
  <2> HIDE DEF dueIds
  <2> QED
    BY <1>1, <1>3, OrderedIsOnto
<1>9. \A b \in freeIds : \E i \in 1..Len(q) : q[i] = b
  <2> HIDE DEF freeIds
  <2> QED
    BY <1>1, <1>3, OrderedIsOnto
<1>10. \A i, j \in 1..Len(q) : i < j => Before(q[i], q[j])
  <2>1. Len(q) = Cardinality(freeIds)
    <3>1. IsFiniteSet(DOMAIN buckets)
      BY <1>1, BucketRows, FS_Interval
    <3>2. Cardinality(freeIds) \in Nat
      BY <1>3, <3>1, FS_Subset, FS_CardinalityType
    <3>3. q \in [1..Cardinality(freeIds) -> freeIds]
      BY DEF Ordered
    <3> HIDE DEF freeIds
    <3> QED
      BY <3>2, <3>3, SequenceOf
  <2> HIDE DEF freeIds
  <2> QED
    BY <2>1 DEF Ordered
<1> HIDE DEF alloc
<1>11. /\ alloc \in [BucketIds -> Nat] /\ Sum(alloc, MaxBuckets) <= a
       /\ \A b \in BucketIds : alloc[b] <= IF b \in freeIds THEN buckets[b].remaining ELSE 0
  BY <1>7 DEF Allocs
<1>12. \A b \in BucketIds : alloc[b] > 0 => b \in freeIds
  BY <1>11
<1>13. ASSUME NEW b \in DOMAIN buckets
       PROVE  /\ b \in BucketIds /\ alloc[b] \in Nat /\ left(b) \in Nat
              /\ b \in freeIds => left(b) = buckets[b].remaining
              /\ b \notin freeIds => alloc[b] = 0
              /\ b \notin freeIds /\ buckets[b].user = u => left(b) = 0
  <2>1. b \in BucketIds /\ alloc[b] \in Nat /\ left(b) \in Nat /\ buckets[b].remaining \in Nat
    BY <1>1, <1>4, <1>11, BucketRows, SweptBucket DEF Bucket
  <2>2. ASSUME b \notin dueIds PROVE left(b) = buckets[b].remaining
    <3>1. \A i \in 1..Len(s) : s[i] # b
      BY <1>4, <2>2
    <3>2. SweepBuckets(s)[b] = buckets[b]
      BY <1>1, <1>4, <3>1, SweepBucketsType
    <3> QED
      BY <3>2
  <2>3. b \in freeIds => b \notin dueIds
    BY DEF Due, Spendable
  <2>4. b \notin freeIds => alloc[b] = 0
    BY <1>11, <2>1
  <2>5. ASSUME b \notin freeIds, buckets[b].user = u PROVE left(b) = 0
    <3>1. CASE b \in dueIds
      <4>1. \E i \in 1..Len(s) : s[i] = b
        BY <1>8, <3>1
      <4> QED
        BY <1>1, <1>4, <4>1, SweptBucket
    <3>2. CASE b \notin dueIds
      <4>1. BucketOK(buckets[b])
        BY DEF Shape
      <4>2. buckets[b].remaining = 0
        BY <2>1, <2>5, <3>2, <4>1 DEF BucketOK, Due, Spendable
      <4> QED
        BY <2>2, <3>2, <4>2
    <3> QED
      BY <3>1, <3>2
  <2> QED
    BY <2>1, <2>2, <2>3, <2>4, <2>5
<1>14. \A b \in DOMAIN buckets : alloc[b] <= left(b)
  BY <1>11, <1>13
<1>15. \/ Sum(alloc, MaxBuckets) = a
       \/ \A b \in DOMAIN buckets : buckets[b].user = u => alloc[b] = left(b)
  <2>1. SUFFICES ASSUME Sum(alloc, MaxBuckets) # a, NEW b \in DOMAIN buckets, buckets[b].user = u
                 PROVE  alloc[b] = left(b)
    OBVIOUS
  <2>2. CASE b \in freeIds
    <3>1. PICK j \in 1..Len(q) : q[j] = b
      BY <1>9, <2>2
    <3>2. alloc[b] = buckets[b].remaining
      BY <1>7, <2>1, <3>1 DEF Fills
    <3> QED
      BY <1>13, <2>2, <3>2
  <2>3. CASE b \notin freeIds
    BY <1>13, <2>1, <2>3
  <2> QED
    BY <2>2, <2>3
<1>16. ASSUME NEW b \in DOMAIN buckets, NEW c \in DOMAIN buckets, buckets[b].user = u,
              alloc[c] > 0, Sooner(buckets[b].expiresAt, buckets[c].expiresAt)
       PROVE  alloc[b] = left(b)
  <2>1. CASE b \in freeIds
    <3>1. c \in freeIds
      BY <1>12, <1>13, <1>16
    <3>2. PICK j \in 1..Len(q) : q[j] = b
      BY <1>9, <2>1
    <3>3. PICK i \in 1..Len(q) : q[i] = c
      BY <1>9, <3>1
    <3>4. ~Before(c, b) /\ b # c
      BY <1>1, <1>16, SoonerIsBefore
    <3>5. j < i
      BY <1>10, <3>2, <3>3, <3>4
    <3>6. alloc[b] = buckets[b].remaining
      BY <1>7, <1>16, <3>2, <3>3, <3>5 DEF Fills
    <3> QED
      BY <1>13, <2>1, <3>6
  <2>2. CASE b \notin freeIds
    BY <1>13, <1>16, <2>2
  <2> QED
    BY <2>1, <2>2
<1>17. Draws(u, a, s, alloc)
  BY <1>4, <1>6, <1>11, <1>12, <1>14, <1>15, <1>16 DEF Draws
<1> QED
  BY <1>2, <1>17 DEF alloc

\* A draw moves credits from a bucket into its hold.
LEMMA DrewBuckets ==
  ASSUME IInv, Shape, NEW u, NEW k, NEW a, NEW t, NEW s, NEW alloc,
         Draws(u, a, s, alloc), Drew(u, k, a, t, s, alloc)
  PROVE  /\ DOMAIN buckets' = DOMAIN buckets
         /\ \A b \in DOMAIN buckets :
              LET swept == SweepBuckets(s)[b]
              IN  /\ alloc[b] \in Nat /\ alloc[b] <= swept.remaining
                  /\ swept.remaining \in Nat /\ swept.reserved \in Nat
                  /\ swept \in Bucket /\ swept.user = buckets[b].user
                  /\ swept.reserved = buckets[b].reserved
                  /\ buckets'[b].user = swept.user /\ buckets'[b].granted = swept.granted
                  /\ buckets'[b].expiresAt = swept.expiresAt
                  /\ buckets'[b].remaining = swept.remaining - alloc[b]
                  /\ buckets'[b].reserved = swept.reserved + alloc[b]
                  /\ BucketOK(buckets'[b])
<1>1. TypeOK /\ s \in Seq(DOMAIN buckets) /\ alloc \in [BucketIds -> Nat]
  BY DEF IInv, Draws
<1>2. DOMAIN buckets' = DOMAIN buckets
  BY DEF Drew
<1> SUFFICES ASSUME NEW b \in DOMAIN buckets
             PROVE  LET swept == SweepBuckets(s)[b]
                    IN  /\ alloc[b] \in Nat /\ alloc[b] <= swept.remaining
                        /\ swept.remaining \in Nat /\ swept.reserved \in Nat
                        /\ swept \in Bucket /\ swept.user = buckets[b].user
                        /\ swept.reserved = buckets[b].reserved
                        /\ buckets'[b].user = swept.user /\ buckets'[b].granted = swept.granted
                        /\ buckets'[b].expiresAt = swept.expiresAt
                        /\ buckets'[b].remaining = swept.remaining - alloc[b]
                        /\ buckets'[b].reserved = swept.reserved + alloc[b]
                        /\ BucketOK(buckets'[b])
  BY <1>2
<1> DEFINE swept == SweepBuckets(s)[b]
           new == buckets'[b]
<1>3. /\ swept \in Bucket /\ swept.user = buckets[b].user /\ swept.reserved = buckets[b].reserved
      /\ swept.remaining > 0 => swept = buckets[b]
  BY <1>1, SweptBucket
<1>4. swept.remaining \in Nat /\ swept.reserved \in Nat
  BY <1>3 DEF Bucket
<1>5. alloc[b] \in Nat /\ alloc[b] <= swept.remaining
  <2>1. b \in BucketIds
    BY <1>1, BucketRows
  <2> QED
    BY <1>1, <2>1 DEF Draws
<1>6. new = [swept EXCEPT !.remaining = @ - alloc[b], !.reserved = @ + alloc[b]]
  BY DEF Drew
<1>7. BucketOK(buckets[b])
  BY DEF Shape
<1> HIDE DEF swept, new
<1>8. /\ new.user = swept.user /\ new.granted = swept.granted /\ new.expiresAt = swept.expiresAt
      /\ new.remaining = swept.remaining - alloc[b] /\ new.reserved = swept.reserved + alloc[b]
      /\ new.status = swept.status
  BY <1>3, <1>6 DEF Bucket
<1>9. BucketOK(new)
  BY <1>3, <1>4, <1>5, <1>7, <1>8 DEF BucketOK
<1> QED
  BY <1>3, <1>4, <1>5, <1>8, <1>9 DEF swept, new

\* What is left to a user after a draw is what the sweep leaves, less what is
\* drawn from it, and nothing that the draw or the sweep does not touch.
LEMMA DrewLeaves ==
  ASSUME IInv, IInv', Shape, NEW u, NEW k, NEW a \in Nat, NEW t, NEW s, NEW alloc,
         Draws(u, a, s, alloc), Drew(u, k, a, t, s, alloc), NEW v \in Users
  PROVE  /\ Total(LeftTo(v), SweepBuckets(s)) \in Nat
         /\ v # u => Total(LeftTo(v), buckets') = Total(LeftTo(v), SweepBuckets(s))
         /\ v = u => \/ Total(LeftTo(v), buckets') = Total(LeftTo(v), SweepBuckets(s)) - a
                     \/ Total(LeftTo(v), buckets') = 0
<1> DEFINE swept == SweepBuckets(s)
           w == LeftTo(v)
           d == [b \in BucketIds |-> -alloc[b]]
<1>1. TypeOK /\ s \in Seq(DOMAIN buckets) /\ alloc \in [BucketIds -> Nat]
  BY DEF IInv, Draws
<1>2. /\ swept \in Seq(Bucket) /\ buckets' \in Seq(Bucket)
      /\ Len(swept) = Len(buckets) /\ Len(buckets') = Len(buckets)
      /\ DOMAIN swept = DOMAIN buckets /\ DOMAIN buckets' = DOMAIN buckets
      /\ DOMAIN buckets = 1..Len(buckets) /\ Len(buckets) \in 0..MaxBuckets
      /\ DOMAIN buckets \subseteq BucketIds
  <2>1. swept \in Seq(Bucket) /\ Len(swept) = Len(buckets) /\ DOMAIN swept = DOMAIN buckets
    BY <1>1, SweepBucketsType DEF SweepBuckets
  <2>2. buckets' \in Seq(Bucket) /\ DOMAIN buckets' = DOMAIN buckets
    BY DrewBuckets DEF IInv, TypeOK
  <2>3. Len(buckets') = Len(buckets)
    BY <1>1, <2>2, BucketRows, LenProperties
  <2>4. Len(buckets) \in 0..MaxBuckets
    BY <1>1, BucketRows, BoundsAssumption
  <2> QED
    BY <1>1, <2>1, <2>2, <2>3, <2>4, BucketRows
<1>3. ASSUME NEW b \in DOMAIN buckets
      PROVE  /\ alloc[b] \in Nat /\ alloc[b] <= swept[b].remaining /\ swept[b].remaining \in Nat
             /\ swept[b] \in Bucket /\ buckets'[b] \in Bucket
             /\ swept[b].user = buckets[b].user /\ buckets'[b].user = buckets[b].user
             /\ buckets'[b].remaining = swept[b].remaining - alloc[b]
             /\ alloc[b] > 0 => buckets[b].user = u
  <2>1. alloc[b] > 0 => buckets[b].user = u
    BY <1>2 DEF Draws
  <2>2. buckets'[b] \in Bucket
    BY <1>2
  <2> QED
    BY <2>1, <2>2, DrewBuckets
<1>4. w \in [Bucket -> Int] /\ \A bucket \in Bucket : w[bucket] \in Nat
  BY CountsType
<1>5. Total(w, swept) \in Nat
  BY <1>2, <1>4, TotalType
<1>6. \A b \in DOMAIN buckets :
        /\ w[buckets'[b]] = IF buckets[b].user = v THEN swept[b].remaining - alloc[b] ELSE 0
        /\ w[swept[b]] = IF buckets[b].user = v THEN swept[b].remaining ELSE 0
  BY <1>3 DEF LeftTo
<1> HIDE DEF w, swept
<1>7. ASSUME v # u PROVE Total(w, buckets') = Total(w, swept)
  <2>1. \A b \in DOMAIN swept : w[buckets'[b]] = w[swept[b]]
    <3> TAKE b \in DOMAIN swept
    <3>1. b \in DOMAIN buckets
      BY <1>2
    <3>2. CASE buckets[b].user = v
      <4>1. alloc[b] = 0 /\ swept[b].remaining \in Nat
        BY <1>3, <1>7, <3>1, <3>2
      <4> QED
        BY <1>6, <3>1, <3>2, <4>1
    <3>3. CASE buckets[b].user # v
      BY <1>6, <3>1, <3>3
    <3> QED
      BY <3>2, <3>3
  <2>2. Len(buckets') = Len(swept)
    BY <1>2
  <2> QED
    BY <1>2, <1>4, <2>1, <2>2, TotalKept
<1>8. ASSUME v = u, Sum(alloc, MaxBuckets) = a
      PROVE  Total(w, buckets') = Total(w, swept) - a
  <2>1. \A b \in BucketIds : d[b] = -alloc[b] /\ alloc[b] \in Nat
    BY <1>1
  <2> HIDE DEF d
  <2>2. \A b \in DOMAIN swept : d[b] \in Int /\ w[buckets'[b]] = w[swept[b]] + d[b]
    <3> TAKE b \in DOMAIN swept
    <3>1. b \in DOMAIN buckets /\ b \in BucketIds
      BY <1>2
    <3>2. d[b] = -alloc[b] /\ alloc[b] \in Nat /\ swept[b].remaining \in Nat
      BY <1>3, <2>1, <3>1
    <3>3. CASE buckets[b].user = v
      BY <1>6, <3>1, <3>2, <3>3
    <3>4. CASE buckets[b].user # v
      <4>1. alloc[b] = 0
        BY <1>3, <1>8, <3>1, <3>2, <3>4
      <4> QED
        BY <1>6, <3>1, <3>2, <3>4, <4>1
    <3> QED
      BY <3>3, <3>4
  <2>3. CountsMore(w, buckets', swept, d)
    BY <1>2, <2>2 DEF CountsMore
  <2>4. Total(w, buckets') = Total(w, swept) + Sum(d, Len(swept))
    BY <1>2, <1>4, <2>3, TotalChanged
  <2>5. Sum(d, MaxBuckets) = Sum(d, Len(buckets)) /\ Sum(d, Len(buckets)) \in Int
    <3>1. \A b \in 1..MaxBuckets : d[b] \in Int /\ (b > Len(buckets) => d[b] = 0)
      <4> TAKE b \in 1..MaxBuckets
      <4>1. b \in BucketIds /\ d[b] = -alloc[b] /\ alloc[b] \in Nat
        BY <2>1 DEF BucketIds
      <4>2. b > Len(buckets) => b \notin DOMAIN buckets
        BY <1>2
      <4>3. b > Len(buckets) => ~(alloc[b] > 0)
        BY <4>1, <4>2 DEF Draws
      <4> QED
        BY <4>1, <4>3
    <3> QED
      BY <1>2, <3>1, SumTail, BoundsAssumption
  <2>6. Sum(d, MaxBuckets) = -a
    <3> DEFINE z == [b \in BucketIds |-> 0]
    <3>1. \A b \in 1..MaxBuckets : z[b] = 0
      BY DEF BucketIds
    <3>2. \A b \in 1..MaxBuckets : alloc[b] \in Int /\ d[b] \in Int
      BY <2>1 DEF BucketIds
    <3> HIDE DEF z
    <3>3. \A b \in 1..MaxBuckets : z[b] = alloc[b] + d[b]
      BY <2>1, <3>1 DEF BucketIds
    <3>4. Sum(z, MaxBuckets) = 0
      BY <3>1, SumZero, BoundsAssumption
    <3>5. Sum(z, MaxBuckets) = Sum(alloc, MaxBuckets) + Sum(d, MaxBuckets)
      BY <3>2, <3>3, SumPlus, BoundsAssumption
    <3> QED
      BY <1>8, <2>5, <3>4, <3>5
  <2> QED
    BY <1>2, <1>5, <2>4, <2>5, <2>6
<1>9. ASSUME v = u, \A b \in DOMAIN buckets : buckets[b].user = u => alloc[b] = swept[b].remaining
      PROVE  Total(w, buckets') = 0
  <2>1. \A b \in DOMAIN buckets' : w[buckets'[b]] = 0
    <3> TAKE b \in DOMAIN buckets'
    <3>1. b \in DOMAIN buckets
      BY <1>2
    <3>2. CASE buckets[b].user = v
      <4>1. swept[b].remaining - alloc[b] = 0
        BY <1>3, <1>9, <3>1, <3>2
      <4> QED
        BY <1>6, <3>1, <3>2, <4>1
    <3>3. CASE buckets[b].user # v
      BY <1>6, <3>1, <3>3
    <3> QED
      BY <3>2, <3>3
  <2> QED
    BY <1>2, <1>4, <2>1, TotalNone
<1>10. \/ Sum(alloc, MaxBuckets) = a
       \/ \A b \in DOMAIN buckets : buckets[b].user = u => alloc[b] = swept[b].remaining
  BY DEF Draws, swept
<1> QED
  BY <1>5, <1>7, <1>8, <1>9, <1>10 DEF w, swept

\* A row appended to a concatenation.
LEMMA ConcatThenAppend ==
  ASSUME NEW V, NEW l \in Seq(V), NEW m \in Seq(V), NEW x \in V
  PROVE  l \o Append(m, x) = Append(l \o m, x) /\ Append(m, x) \in Seq(V) /\ l \o m \in Seq(V)
<1>1. <<x>> \in Seq(V) /\ l \o m \in Seq(V) /\ Append(m, x) \in Seq(V)
  BY ConcatProperties, AppendProperties
<1>2. Append(m, x) = m \o <<x>>
  BY AppendIsConcat
<1>3. Append(l \o m, x) = (l \o m) \o <<x>>
  BY <1>1, AppendIsConcat
<1>4. (l \o m) \o <<x>> = l \o (m \o <<x>>)
  BY <1>1, ConcatAssociative
<1> QED
  BY <1>1, <1>2, <1>3, <1>4

\* A new reservation: what the sweep takes is in its rows, and what is held
\* is taken from the balance and, as far as it is drawn, from the buckets.
LEMMA ReserveAddsUp ==
  ASSUME CInv, IInv', NEW u \in Users, NEW k \in Keys, NEW a \in HoldAmounts,
         NEW t \in HoldExpiries, Reserve(u, k, a, t)
  PROVE  CInv'
<1>1. IInv /\ TypeOK /\ Shape /\ TotalsHeld /\ TotalsConserve /\ TotalsCovered /\ RowsOnce
  BY DEF CInv, AddsUp, IInv
<1>2. PICK s, alloc : Draws(u, a, s, alloc) /\ Drew(u, k, a, t, s, alloc)
  BY <1>1, ReserveDraws
<1> DEFINE left  == SweepBalance(s)[Len(s)]
           swept == SweepBuckets(s)
           n     == Len(reservations)
           res   == [user |-> u, amount |-> a, key |-> k, expiresAt |-> t,
                     status |-> "pending", alloc |-> alloc, finalizedAt |-> 0]
           row   == NewRow(u, "reserve", -a, ReserveKey(k), left[u] - a, reserved[u] + a, 0, n + 1)
           rows  == SweepRows(s)
           all   == ledger \o rows
<1>3. /\ ledger \in Seq(Row) /\ balance \in [Users -> Nat] /\ reserved \in [Users -> Nat]
      /\ reservations \in Seq(Reservation) /\ n \in Nat /\ DOMAIN reservations = 1..n
      /\ buckets \in Seq(Bucket) /\ balance' \in [Users -> Nat] /\ buckets' \in Seq(Bucket)
      /\ reservations' \in Seq(Reservation) /\ ledger' \in Seq(Row)
  BY <1>1, LenProperties DEF TypeOK, IInv
<1>4. a \in Nat
  BY AmountsAssumption
<1>5. /\ s \in Seq(DOMAIN buckets) /\ IsInjective(s) /\ alloc \in [BucketIds -> Nat]
      /\ Len(s) \in Nat
  BY <1>2, LenProperties DEF Draws
<1>6. /\ left[u] >= a
      /\ balance' = [left EXCEPT ![u] = @ - a]
      /\ reserved' = [reserved EXCEPT ![u] = @ + a]
      /\ reservations' = Append(reservations, res)
      /\ ledger' = ledger \o Append(rows, row)
  BY <1>2 DEF Drew
<1>7. left \in [Users -> Nat]
  <2>1. Len(s) \in 0..Len(s)
    BY <1>5
  <2> QED
    BY <1>1, <1>5, <2>1, SweepBalanceType DEF Balances
<1>8. /\ res \in Reservation /\ res.user = u /\ res.amount = a
      /\ res.status = "pending" /\ res.alloc = alloc
  BY <1>4, <1>5, TimesAssumption, BoundsAssumption DEF Reservation, Times
<1>9. /\ row.type = "reserve" /\ row.reservation = n + 1 /\ row.key = ReserveKey(k)
  BY DEF NewRow
<1> HIDE DEF left
<1>10. row \in Row
  <2>1. ReserveKey(k) \in RowKeys /\ "reserve" \in RowTypes /\ -a \in Int
    BY <1>4, KeysType DEF RowTypes
  <2>2. left[u] - a \in Nat /\ reserved[u] + a \in Nat /\ 0 \in Nat /\ n + 1 \in Nat
    BY <1>3, <1>4, <1>6, <1>7
  <2> QED
    BY <2>1, <2>2, NewRowType
<1>11. /\ rows \in Seq(Row) /\ Len(rows) = Len(s)
       /\ \A i \in 1..Len(s) : rows[i].type = "expire"
  BY <1>1, <1>5, SweepRowsType, SweepTakes
<1> HIDE DEF row, res, rows
<1>12. ledger' = Append(all, row) /\ all \in Seq(Row) /\ Append(rows, row) \in Seq(Row)
  <2>1. ledger' = ledger \o Append(rows, row)
    BY <1>6 DEF row, rows
  <2> QED
    BY <1>3, <1>10, <1>11, <2>1, ConcatThenAppend, SMTT(40)
<1>13. /\ Len(reservations') = n + 1 /\ reservations'[n + 1] = res
       /\ \A i \in 1..n : reservations'[i] = reservations[i]
       /\ DOMAIN reservations' = 1..n + 1
  BY <1>3, <1>6, <1>8, AppendProperties, LenProperties
<1>14. /\ DOMAIN buckets' = DOMAIN buckets
       /\ \A b \in DOMAIN buckets :
            /\ alloc[b] \in Nat /\ alloc[b] <= swept[b].remaining
            /\ swept[b].remaining \in Nat /\ swept[b].reserved \in Nat /\ swept[b] \in Bucket
            /\ swept[b].user = buckets[b].user /\ swept[b].reserved = buckets[b].reserved
            /\ buckets'[b].user = swept[b].user /\ buckets'[b].granted = swept[b].granted
            /\ buckets'[b].expiresAt = swept[b].expiresAt
            /\ buckets'[b].remaining = swept[b].remaining - alloc[b]
            /\ buckets'[b].reserved = swept[b].reserved + alloc[b]
            /\ BucketOK(buckets'[b])
  BY <1>1, <1>2, DrewBuckets
<1>15. \A b \in DOMAIN buckets : b \in BucketIds
  BY <1>1, BucketRows
<1> HIDE DEF n, all, swept
<1>16. Grows
  <2>1. n <= n + 1
    BY <1>3
  <2> QED
    BY <1>13, <1>14, <2>1 DEF Grows, n
<1>17. Shape'
  <2>1. Len(reservations') \in Nat
    BY <1>3, <1>13
  <2>2. RowOK(row, buckets', reservations')
    <3>1. \A p \in Orders : row.key # OrderKey(p)
      BY <1>9, KeysDiffer
    <3>2. row.reservation <= Len(reservations')
      BY <1>3, <1>9, <1>13
    <3> QED
      BY <1>9, <3>1, <3>2 DEF RowOK
  <2>3. \A i \in 1..Len(s) : RowOK(rows[i], buckets', reservations')
    BY <1>1, <1>5, <1>16, <2>1, SweepRowsOK DEF rows
  <2>4. \A i \in 1..Len(Append(rows, row)) : RowOK(Append(rows, row)[i], buckets', reservations')
    <3>1. /\ Len(Append(rows, row)) = Len(s) + 1 /\ Append(rows, row)[Len(s) + 1] = row
          /\ \A i \in 1..Len(s) : Append(rows, row)[i] = rows[i]
      BY <1>10, <1>11, AppendProperties
    <3>2. \A i \in 1..Len(s) + 1 : i \in 1..Len(s) \/ i = Len(s) + 1
      BY <1>5
    <3> QED
      BY <2>2, <2>3, <3>1, <3>2
  <2>5. \A i \in DOMAIN ledger' : RowOK(ledger'[i], buckets', reservations')
    BY <1>1, <1>6, <1>12, <1>16, <2>1, <2>4, RowsKept
  <2>6. AllocOK(res, buckets')
    <3>1. Sum(alloc, MaxBuckets) <= a
      BY <1>2 DEF Draws
    <3>2. \A b \in BucketIds : alloc[b] > 0 => b \in DOMAIN buckets /\ buckets[b].user = u
      BY <1>2 DEF Draws
    <3> QED
      BY <1>8, <1>14, <3>1, <3>2 DEF AllocOK
  <2>7. \A r \in DOMAIN reservations : AllocOK(reservations[r], buckets')
    BY <1>1, <1>16, <2>1, NamesKept
  <2>8. \A r \in 1..n + 1 : r \in 1..n \/ r = n + 1
    BY <1>3
  <2>9. \A r \in DOMAIN reservations' : AllocOK(reservations'[r], buckets')
    BY <1>3, <1>13, <2>6, <2>7, <2>8
  <2> QED
    BY <1>14, <2>5, <2>9 DEF Shape
<1>18. /\ \A v : Total(HoldOf(v), reservations')
                   = Total(HoldOf(v), reservations) + (IF u = v THEN a ELSE 0)
       /\ \A b \in BucketIds :
            Total(HoldOn(b), reservations') = Total(HoldOn(b), reservations) + alloc[b]
       /\ \A b \in BucketIds : \A at :
            Total(GoneFrom(b, at), reservations') = Total(GoneFrom(b, at), reservations)
  BY <1>3, <1>6, <1>8, HoldAdded
<1>19. TotalsHeld'
  <2>1. ASSUME NEW v \in Users PROVE reserved'[v] = Total(HoldOf(v), reservations')
    <3>1. reserved'[v] = reserved[v] + (IF u = v THEN a ELSE 0)
      BY <1>3, <1>4, <1>6
    <3>2. reserved[v] = Total(HoldOf(v), reservations)
      BY <1>1 DEF TotalsHeld
    <3> QED
      BY <1>18, <3>1, <3>2
  <2>2. ASSUME NEW b \in DOMAIN buckets PROVE buckets'[b].reserved = Total(HoldOn(b), reservations')
    <3>1. buckets[b].reserved = Total(HoldOn(b), reservations)
      BY <1>1 DEF TotalsHeld
    <3> QED
      BY <1>14, <1>15, <1>18, <3>1
  <2> QED
    BY <1>14, <2>1, <2>2 DEF TotalsHeld
<1>20. TotalsConserve'
  <2>1. ASSUME NEW b \in DOMAIN buckets
        PROVE  buckets'[b].granted = buckets'[b].remaining + buckets'[b].reserved
                 + Total(GoneFrom(b, buckets'[b].expiresAt), reservations')
                 - Total(Says(b, "expire"), ledger') - Total(Says(b, "clawback"), ledger')
    <3> DEFINE gone == Total(GoneFrom(b, swept[b].expiresAt), reservations)
    <3>1. swept[b].granted = swept[b].remaining + swept[b].reserved + gone
            - Total(Says(b, "expire"), all) - Total(Says(b, "clawback"), all)
      BY <1>1, <1>5, SweptConserve DEF swept, all, rows
    <3>2. gone \in Int
      BY <1>3, <1>15, CountsType, TotalType
    <3>3. Total(GoneFrom(b, buckets'[b].expiresAt), reservations') = gone
      BY <1>14, <1>15, <1>18
    <3>4. \A says \in {"expire", "clawback"} :
            /\ Total(Says(b, says), ledger') = Total(Says(b, says), all)
            /\ Total(Says(b, says), all) \in Int
      <4> TAKE says \in {"expire", "clawback"}
      <4>1. /\ Total(Says(b, says), Append(all, row))
                  = Total(Says(b, says), all) + (IF row.type = says /\ row.bucket = b THEN row.amount ELSE 0)
            /\ Total(Says(b, says), all) \in Int
        BY <1>10, <1>12, SaysAppend
      <4> QED
        BY <1>9, <1>12, <4>1
    <3> HIDE DEF gone
    <3>5. /\ alloc[b] \in Nat /\ swept[b].remaining \in Nat /\ swept[b].reserved \in Nat
          /\ buckets'[b].granted = swept[b].granted
          /\ buckets'[b].remaining = swept[b].remaining - alloc[b]
          /\ buckets'[b].reserved = swept[b].reserved + alloc[b]
      BY <1>14
    <3>6. /\ Total(Says(b, "expire"), ledger') = Total(Says(b, "expire"), all)
          /\ Total(Says(b, "expire"), all) \in Int
          /\ Total(Says(b, "clawback"), ledger') = Total(Says(b, "clawback"), all)
          /\ Total(Says(b, "clawback"), all) \in Int
      BY <3>4
    <3> QED
      BY <3>1, <3>2, <3>3, <3>5, <3>6
  <2> QED
    BY <1>14, <2>1 DEF TotalsConserve
<1>21. TotalsCovered'
  <2>1. ASSUME NEW v \in Users PROVE balance'[v] >= Total(LeftTo(v), buckets')
    <3>1. /\ Total(LeftTo(v), swept) \in Nat
          /\ v # u => Total(LeftTo(v), buckets') = Total(LeftTo(v), swept)
          /\ v = u => \/ Total(LeftTo(v), buckets') = Total(LeftTo(v), swept) - a
                      \/ Total(LeftTo(v), buckets') = 0
      <4>1. IInv /\ Shape /\ a \in Nat
        BY <1>1, <1>4
      <4>2. Draws(u, a, s, alloc) /\ Drew(u, k, a, t, s, alloc)
        BY <1>2
      <4>3. \/ v # u /\ Total(LeftTo(v), buckets') = Total(LeftTo(v), SweepBuckets(s))
            \/ v = u /\ Total(LeftTo(v), buckets') = Total(LeftTo(v), SweepBuckets(s)) - a
            \/ v = u /\ Total(LeftTo(v), buckets') = 0
        BY <4>1, <4>2, DrewLeaves
      <4>4. Total(LeftTo(v), SweepBuckets(s)) \in Nat
        BY <4>1, <4>2, DrewLeaves
      <4> QED
        BY <4>3, <4>4 DEF swept
    <3>2. left[v] - Total(LeftTo(v), swept) = balance[v] - Total(LeftTo(v), buckets)
      BY <1>1, <1>5, SweepTakes DEF left, swept
    <3>3. balance[v] >= Total(LeftTo(v), buckets)
      BY <1>1 DEF TotalsCovered
    <3>4. Total(LeftTo(v), buckets) \in Int
      BY <1>3, CountsType, TotalType
    <3>5. balance[v] \in Nat /\ left[v] \in Nat
      BY <1>3, <1>7
    <3>6. left[v] >= Total(LeftTo(v), swept)
      BY <3>1, <3>2, <3>3, <3>4, <3>5
    <3>7. balance'[v] = left[v] - (IF v = u THEN a ELSE 0)
      BY <1>4, <1>6, <1>7
    <3>8. balance'[v] \in Nat
      BY <1>3
    <3> QED
      BY <1>4, <3>1, <3>5, <3>6, <3>7, <3>8
  <2> QED
    BY <2>1 DEF TotalsCovered
<1>22. ASSUME NEW r, NEW type \in {"reserve", "commit", "release"}
       PROVE  /\ Cardinality(RowsNaming(ledger', r, type)) =
                   Cardinality(RowsNaming(ledger, r, type)) + (IF r = n + 1 /\ type = "reserve" THEN 1 ELSE 0)
              /\ Cardinality(RowsNaming(ledger, r, type)) \in Nat
  <2>1. RowsNaming(all, r, type) = RowsNaming(ledger, r, type)
    <3>1. \A i \in 1..Len(rows) : rows[i].type # type
      BY <1>11
    <3> QED
      BY <1>3, <1>11, <3>1, NamingConcat DEF all
  <2>2. /\ Cardinality(RowsNaming(Append(all, row), r, type)) =
             Cardinality(RowsNaming(all, r, type))
               + (IF row.reservation = r /\ row.type = type THEN 1 ELSE 0)
        /\ Cardinality(RowsNaming(all, r, type)) \in Nat
    BY <1>10, <1>12, NamingAppend, NamingFinite
  <2> QED
    BY <1>9, <1>12, <2>1, <2>2
<1>23. RowsOnce'
  <2>1. ASSUME NEW r \in 1..n
        PROVE  /\ Cardinality(RowsNaming(ledger', r, "reserve")) = 1
               /\ Cardinality(RowsNaming(ledger', r, "commit"))
                    = IF reservations'[r].status = "committed" THEN 1 ELSE 0
               /\ Cardinality(RowsNaming(ledger', r, "release"))
                    = IF reservations'[r].status = "released" THEN 1 ELSE 0
    <3>1. /\ Cardinality(RowsNaming(ledger, r, "reserve")) = 1
          /\ Cardinality(RowsNaming(ledger, r, "commit"))
               = IF reservations[r].status = "committed" THEN 1 ELSE 0
          /\ Cardinality(RowsNaming(ledger, r, "release"))
               = IF reservations[r].status = "released" THEN 1 ELSE 0
      BY <1>1, <1>3 DEF RowsOnce
    <3>2. r # n + 1
      BY <1>3
    <3> QED
      BY <1>13, <1>22, <3>1, <3>2
  <2>2. /\ Cardinality(RowsNaming(ledger', n + 1, "reserve")) = 1
        /\ Cardinality(RowsNaming(ledger', n + 1, "commit")) = 0
        /\ Cardinality(RowsNaming(ledger', n + 1, "release")) = 0
    <3>1. ASSUME NEW type PROVE Cardinality(RowsNaming(ledger, n + 1, type)) = 0
      <4>1. \A i \in DOMAIN ledger : ledger[i].reservation <= n /\ ledger[i].reservation \in Nat
        <5> TAKE i \in DOMAIN ledger
        <5>1. ledger[i] \in Row
          BY <1>3
        <5>2. RowOK(ledger[i], buckets, reservations)
          BY <1>1 DEF Shape
        <5> QED
          BY <5>1, <5>2 DEF RowOK, Row, n
      <4>2. RowsNaming(ledger, n + 1, type) = {}
        BY <1>3, <4>1 DEF RowsNaming
      <4> QED
        BY <4>2, FS_EmptySet
    <3> QED
      BY <1>22, <3>1
  <2>3. \A r \in 1..n + 1 : r \in 1..n \/ r = n + 1
    BY <1>3
  <2>4. reservations'[n + 1].status = "pending"
    BY <1>8, <1>13
  <2> QED
    BY <1>13, <2>1, <2>2, <2>3, <2>4 DEF RowsOnce
<1> QED
  BY <1>17, <1>19, <1>20, <1>21, <1>23 DEF CInv, AddsUp

-----------------------------------------------------------------------------
(* Every credit is accounted for.                                          *)

\* The empty tables satisfy the invariant.
LEMMA InitCInv == Init => CInv
<1> SUFFICES ASSUME Init PROVE CInv
  OBVIOUS
<1>1. IInv
  BY InitIInv
<1>2. /\ buckets \in Seq(Bucket) /\ DOMAIN buckets = {}
      /\ reservations \in Seq(Reservation) /\ DOMAIN reservations = {}
      /\ ledger \in Seq(Row) /\ DOMAIN ledger = {}
  BY EmptySeq DEF Init
<1>3. Shape
  BY <1>2 DEF Shape
<1>4. ASSUME NEW u \in Users
      PROVE  reserved[u] = Total(HoldOf(u), reservations) /\ balance[u] >= Total(LeftTo(u), buckets)
  <2>1. HoldOf(u) \in [Reservation -> Int] /\ LeftTo(u) \in [Bucket -> Int]
    BY CountsType
  <2>2. Total(HoldOf(u), reservations) = 0
    BY <1>2, <2>1, TotalNone
  <2>3. Total(LeftTo(u), buckets) = 0
    BY <1>2, <2>1, TotalNone
  <2>4. balance[u] \in Nat /\ reserved[u] = 0
    BY <1>1 DEF IInv, TypeOK, Init
  <2> QED
    BY <2>2, <2>3, <2>4
<1>5. AddsUp
  BY <1>2, <1>4 DEF AddsUp, TotalsHeld, TotalsConserve, TotalsCovered, RowsOnce
<1> QED
  BY <1>1, <1>3, <1>5 DEF CInv

\* Every step of the service preserves it.
LEMMA StepCInv == CInv /\ [Next]_vars => CInv'
<1> SUFFICES ASSUME CInv, [Next]_vars PROVE CInv'
  OBVIOUS
<1>1. IInv'
  BY StepIInv DEF CInv
<1>2. ASSUME NEW u \in Users, NEW k \in Keys, NEW a \in GrantAmounts, Grant(u, k, a)
      PROVE  CInv'
  <2>1. ClientKey(k) \in RowKeys /\ "admin" \in ExplicitTypes /\ Never \in Times \cup {Never}
    BY KeysType DEF ExplicitTypes
  <2>2. GrantCredits(u, a, ClientKey(k), "admin", Never)
    BY <1>2 DEF Grant
  <2> QED
    BY <1>1, <2>1, <2>2, GrantCreditsAddsUp
<1>3. ASSUME NEW u \in Users, NEW o \in Orders, NEW a \in GrantAmounts,
             NEW terms \in OrderTerms, FulfillCredits(u, o, a, terms)
      PROVE  CInv'
  <2>1. OrderKey(o) \in RowKeys
    BY KeysType
  <2>2. TermsBucketType(terms) \in ExplicitTypes /\ TermsExpiry(terms) \in Times \cup {Never}
    BY TermsTypes
  <2>3. GrantCredits(u, a, OrderKey(o), TermsBucketType(terms), TermsExpiry(terms))
    BY <1>3 DEF FulfillCredits
  <2> QED
    BY <1>1, <2>1, <2>2, <2>3, GrantCreditsAddsUp
<1>4. ASSUME NEW u \in Users, NEW k \in Keys, NEW a \in HoldAmounts, NEW t \in HoldExpiries,
             Reserve(u, k, a, t)
      PROVE  CInv'
  BY <1>1, <1>4, ReserveAddsUp
<1>5. ASSUME NEW r \in DOMAIN reservations, NEW k \in Keys, Commit(r, k)
      PROVE  CInv'
  BY <1>1, <1>5, CommitAddsUp
<1>6. ASSUME NEW r \in DOMAIN reservations, NEW k \in Keys, Release(r, k)
      PROVE  CInv'
  BY <1>1, <1>6, ReleaseAddsUp
<1>7. ASSUME NEW at \in SweepTimes, NEW limit \in Limits, ExpireBuckets(at, limit)
      PROVE  CInv'
  BY <1>1, <1>7, ExpireBucketsAddsUp
<1>8. ASSUME NEW o \in Orders, Clawback(o) PROVE CInv'
  BY <1>1, <1>8, ClawbackAddsUp
<1>9. ASSUME UNCHANGED <<balance, reserved, buckets, reservations, ledger>>
      PROVE  CInv'
  <2>1. /\ balance' = balance /\ reserved' = reserved /\ buckets' = buckets
        /\ reservations' = reservations /\ ledger' = ledger
    BY <1>9
  <2>2. Shape /\ AddsUp
    BY DEF CInv
  <2>3. Shape'
    BY <2>1, <2>2 DEF Shape
  <2>4. AddsUp'
    BY <2>1, <2>2 DEF AddsUp, TotalsHeld, TotalsConserve, TotalsCovered, RowsOnce
  <2> QED
    BY <1>1, <2>3, <2>4 DEF CInv
<1>10. ASSUME Tick \/ UNCHANGED vars PROVE CInv'
  BY <1>9, <1>10 DEF Tick, vars
<1> QED
  BY <1>2, <1>3, <1>4, <1>5, <1>6, <1>7, <1>8, <1>10 DEF Next

LEMMA CreditsInvariant == Spec => []CInv
  BY InitCInv, StepCInv, PTL DEF Spec

\* In every reachable state every credit that credit.go, credit_bucket.go and
\* payment_adjustment.go move is in exactly one place: what is held is what
\* pending reservations hold, what was granted is left, held, spent, expired
\* or refunded, no balance falls behind its buckets, and every reservation
\* has the rows of its status.
THEOREM CreditsAddUpCorrect == Spec => []CreditsAddUp
<1>1. CInv => CreditsAddUp
  BY Restated DEF CInv, IInv, AddsUp
<1> QED
  BY <1>1, CreditsInvariant, PTL

-----------------------------------------------------------------------------
(* What expires first is spent first.                                      *)

\* Only Reserve adds a reservation, and one.
LEMMA NewReservation ==
  ASSUME IInv, [Next]_vars, NEW r \in DOMAIN reservations' \ DOMAIN reservations
  PROVE  \E u \in Users, k \in Keys, a \in HoldAmounts, t \in HoldExpiries : Reserve(u, k, a, t)
<1> SUFFICES ASSUME ~\E u \in Users, k \in Keys, a \in HoldAmounts, t \in HoldExpiries : Reserve(u, k, a, t)
             PROVE  DOMAIN reservations' = DOMAIN reservations
  OBVIOUS
<1>1. ASSUME NEW i \in DOMAIN reservations, NEW k \in Keys, Commit(i, k) \/ Release(i, k)
      PROVE  DOMAIN reservations' = DOMAIN reservations
  BY <1>1 DEF Commit, Release, Finalize
<1>2. ASSUME UNCHANGED reservations PROVE DOMAIN reservations' = DOMAIN reservations
  BY <1>2
<1> QED
  BY <1>1, <1>2 DEF Next, vars, Grant, FulfillCredits, GrantCredits, ExpireBuckets, Clawback, Tick

\* What a new reservation draws on.
LEMMA ReserveSpendsEarliest ==
  ASSUME IInv, Shape, NEW u \in Users, NEW k \in Keys, NEW a \in HoldAmounts,
         NEW t \in HoldExpiries, Reserve(u, k, a, t),
         NEW r \in DOMAIN reservations' \ DOMAIN reservations,
         NEW b \in DOMAIN buckets, NEW c \in DOMAIN buckets
  PROVE  LET res == reservations'[r]
         IN  /\ res.alloc[c] > 0 => Live(buckets[c], now)
             /\ /\ res.alloc[c] > 0 /\ buckets[b].user = res.user
                /\ Sooner(buckets[b].expiresAt, buckets[c].expiresAt)
                => ~Spendable(buckets'[b], now)
<1>1. PICK s, alloc : Draws(u, a, s, alloc) /\ Drew(u, k, a, t, s, alloc)
  BY ReserveDraws
<1> DEFINE new == [user |-> u, amount |-> a, key |-> k, expiresAt |-> t,
                   status |-> "pending", alloc |-> alloc, finalizedAt |-> 0]
<1>2. reservations' = Append(reservations, new) /\ new.user = u /\ new.alloc = alloc
  BY <1>1 DEF Drew
<1> HIDE DEF new
<1>3. reservations'[r] = new
  <2>1. reservations \in Seq(Reservation)
    BY DEF IInv, TypeOK
  <2> QED
    BY <1>2, <2>1
<1>4. b \in BucketIds /\ c \in BucketIds
  BY BucketRows DEF IInv
<1>5. alloc[c] > 0 => Live(buckets[c], now)
  BY <1>1, <1>4 DEF Draws, Spendable
<1>6. ASSUME alloc[c] > 0, buckets[b].user = u, Sooner(buckets[b].expiresAt, buckets[c].expiresAt)
      PROVE  ~Spendable(buckets'[b], now)
  <2>1. alloc[b] = SweepBuckets(s)[b].remaining
    BY <1>1, <1>6 DEF Draws
  <2>2. buckets'[b].remaining = SweepBuckets(s)[b].remaining - alloc[b] /\ alloc[b] \in Nat
    BY <1>1, DrewBuckets
  <2>3. buckets'[b].remaining = 0
    BY <2>1, <2>2
  <2> QED
    BY <2>3 DEF Spendable
<1> QED
  BY <1>2, <1>3, <1>5, <1>6

\* Every step keeps to it.
LEMMA StepSpendsEarliest ==
  CInv /\ [Next]_vars =>
    [\A r \in DOMAIN reservations' \ DOMAIN reservations :
       LET res == reservations'[r]
       IN  \A b, c \in DOMAIN buckets :
             /\ res.alloc[c] > 0 => Live(buckets[c], now)
             /\ /\ res.alloc[c] > 0 /\ buckets[b].user = res.user
                /\ Sooner(buckets[b].expiresAt, buckets[c].expiresAt)
                => ~Spendable(buckets'[b], now)]_vars
<1> SUFFICES ASSUME CInv, [Next]_vars,
                    NEW r \in DOMAIN reservations' \ DOMAIN reservations,
                    NEW b \in DOMAIN buckets, NEW c \in DOMAIN buckets
             PROVE  LET res == reservations'[r]
                    IN  /\ res.alloc[c] > 0 => Live(buckets[c], now)
                        /\ /\ res.alloc[c] > 0 /\ buckets[b].user = res.user
                           /\ Sooner(buckets[b].expiresAt, buckets[c].expiresAt)
                           => ~Spendable(buckets'[b], now)
  OBVIOUS
<1>1. IInv /\ Shape
  BY DEF CInv
<1>2. PICK u \in Users, k \in Keys, a \in HoldAmounts, t \in HoldExpiries : Reserve(u, k, a, t)
  BY <1>1, NewReservation
<1> QED
  BY <1>1, <1>2, ReserveSpendsEarliest

\* The allocation strategy of credit_bucket.go, after the sweep of the due
\* buckets and with the query's order, draws on what expires first: a new
\* reservation takes nothing from an expired bucket, and nothing from any
\* bucket while one of the same account that expires sooner keeps credits.
THEOREM EarliestIsSpentFirst == Spec => SpendsEarliestFirst
  BY CreditsInvariant, StepSpendsEarliest, PTL DEF Spec, SpendsEarliestFirst

-----------------------------------------------------------------------------
(* The service implements the wallet.                                      *)

OpenHolds ==
  [r \in Pending |-> [user |-> reservations[r].user, amount |-> reservations[r].amount]]

\* The wallet's actions, in the service's terms.
LEMMA WalletSteps ==
  /\ UNCHANGED <<balance, OpenHolds, Ended("committed"), Ended("released")>> => UNCHANGED W!vars
  /\ balance \in [Users -> Nat] /\ Pending = {} /\ Ended("committed") = {} /\ Ended("released") = {}
       => W!Init
  /\ \A u \in Users :
       /\ balance'[u] > balance[u] /\ \A v \in Users \ {u} : balance'[v] = balance[v]
       /\ UNCHANGED <<OpenHolds, Ended("committed"), Ended("released")>>
       => W!Next
  /\ (\A u \in Users : balance'[u] \in 0..balance[u])
       /\ UNCHANGED <<OpenHolds, Ended("committed"), Ended("released")>>
       => W!Next
<1>1. UNCHANGED <<balance, OpenHolds, Ended("committed"), Ended("released")>> => UNCHANGED W!vars
  BY DEF W!vars, OpenHolds
<1>2. balance \in [Users -> Nat] /\ Pending = {} /\ Ended("committed") = {} /\ Ended("released") = {}
        => W!Init
  BY DEF W!Init
<1>3. ASSUME NEW u \in Users, balance'[u] > balance[u],
             \A v \in Users \ {u} : balance'[v] = balance[v],
             UNCHANGED <<OpenHolds, Ended("committed"), Ended("released")>>
      PROVE  W!Next
  BY <1>3 DEF W!Next, W!Deposit, W!Unaffected, OpenHolds
<1>4. ASSUME \A u \in Users : balance'[u] \in 0..balance[u],
             UNCHANGED <<OpenHolds, Ended("committed"), Ended("released")>>
      PROVE  W!Next
  BY <1>4 DEF W!Next, W!Forfeit, OpenHolds
<1> QED
  BY <1>1, <1>2, <1>3, <1>4

\* A sweep only takes credits, and only from the accounts of its buckets.
LEMMA SweepFalls ==
  ASSUME TypeOK, NEW s \in Seq(DOMAIN buckets), NEW v \in Users
  PROVE  /\ SweepBalance(s)[Len(s)][v] \in 0..balance[v]
         /\ (\A i \in 1..Len(s) : buckets[s[i]].user # v) => SweepBalance(s)[Len(s)][v] = balance[v]
<1> DEFINE N == Len(s)
           bal == SweepBalance(s)
           Elsewhere == \A i \in 1..N : buckets[s[i]].user # v
           T == {i \in Nat : i <= N => /\ bal[i][v] <= balance[v]
                                       /\ Elsewhere => bal[i][v] = balance[v]}
<1>1. N \in Nat /\ \A i \in 1..N : buckets[s[i]] \in Bucket
  BY BucketRows, LenProperties
<1>2. /\ \A i \in 0..N : bal[i] \in [Users -> Nat]
      /\ bal[0] = balance
      /\ \A i \in 1..N : bal[i] = Swept(bal[i-1], buckets[s[i]])
  BY SweepBalanceType DEF Balances
<1>3. balance[v] \in Nat
  BY DEF TypeOK
<1> HIDE DEF N, bal
<1>4. ASSUME NEW i \in 1..N
      PROVE  /\ bal[i][v] <= bal[i-1][v]
             /\ buckets[s[i]].user # v => bal[i][v] = bal[i-1][v]
  <2> DEFINE b == buckets[s[i]]
             x == bal[i-1]
  <2>1. b.user \in Users /\ b.remaining \in Nat
    BY <1>1 DEF Bucket
  <2>2. i-1 \in 0..N
    BY <1>1
  <2>3. x \in [Users -> Nat]
    BY <1>2, <2>2
  <2>4. bal[i] = [x EXCEPT ![b.user] = @ - Lesser(b.remaining, @)]
    BY <1>2 DEF Swept
  <2>5. \A n \in Nat : n - Lesser(b.remaining, n) <= n
    BY <2>1 DEF Lesser
  <2> HIDE DEF b, x
  <2>6. x[v] \in Nat /\ bal[i][v] = IF v = b.user THEN x[v] - Lesser(b.remaining, x[v]) ELSE x[v]
    BY <2>3, <2>4
  <2>7. bal[i][v] <= x[v] /\ (b.user # v => bal[i][v] = x[v])
    BY <2>5, <2>6
  <2> QED
    BY <2>7 DEF b, x
<1>5. 0 \in T
  BY <1>2, <1>3
<1>6. ASSUME NEW i \in Nat, i \in T PROVE i + 1 \in T
  <2>1. SUFFICES ASSUME i + 1 <= N
                 PROVE  bal[i+1][v] <= balance[v] /\ (Elsewhere => bal[i+1][v] = balance[v])
    OBVIOUS
  <2>2. i + 1 \in 1..N /\ (i + 1) - 1 = i /\ i <= N /\ i \in 0..N /\ i + 1 \in 0..N
    BY <1>1, <2>1
  <2>3. bal[i][v] \in Nat /\ bal[i+1][v] \in Nat
    BY <1>2, <2>2
  <2>4. bal[i][v] <= balance[v] /\ (Elsewhere => bal[i][v] = balance[v])
    BY <1>6, <2>2
  <2>5. bal[i+1][v] <= bal[i][v] /\ (buckets[s[i+1]].user # v => bal[i+1][v] = bal[i][v])
    BY <1>4, <2>2
  <2> QED
    BY <1>3, <2>2, <2>3, <2>4, <2>5
<1>7. Nat \subseteq T
  <2> HIDE DEF T
  <2> QED
    BY <1>5, <1>6, Induction
<1>8. bal[N][v] \in Nat
  <2>1. N \in 0..N
    BY <1>1
  <2> QED
    BY <1>2, <2>1
<1>9. bal[N][v] <= balance[v] /\ (Elsewhere => bal[N][v] = balance[v])
  BY <1>1, <1>7
<1> QED
  BY <1>3, <1>8, <1>9 DEF bal, N

\* A release gives back no more than was held.
LEMMA RestoredBound ==
  ASSUME NEW res \in Reservation, Sum(res.alloc, MaxBuckets) <= res.amount
  PROVE  Restored(res) \in 0..res.amount
<1> DEFINE live == [b \in BucketIds |->
                      IF b \in DOMAIN buckets /\ Live(buckets[b], now) THEN res.alloc[b] ELSE 0]
<1>1. res.amount \in Nat /\ \A b \in BucketIds : res.alloc[b] \in Nat
  BY DEF Reservation
<1>2. \A b \in 1..MaxBuckets :
        /\ live[b] \in Int /\ res.alloc[b] \in Int /\ live[b] <= res.alloc[b]
        /\ live[b] \in Nat /\ res.alloc[b] \in Nat
  BY <1>1 DEF BucketIds
<1>3. Restored(res) = LET back == res.amount - Sum(res.alloc, MaxBuckets) + Sum(live, MaxBuckets)
                      IN  IF back < 0 THEN 0 ELSE back
  BY DEF Restored
<1> HIDE DEF live
<1>4. Sum(live, MaxBuckets) <= Sum(res.alloc, MaxBuckets)
  BY <1>2, SumMonotone, BoundsAssumption
<1>5. Sum(live, MaxBuckets) \in Nat /\ Sum(res.alloc, MaxBuckets) \in Nat
  BY <1>2, SumBounds, BoundsAssumption
<1> QED
  BY <1>1, <1>3, <1>4, <1>5

\* A grant is a deposit.
LEMMA GrantDeposits ==
  ASSUME IInv, NEW u \in Users, NEW a \in GrantAmounts, NEW key, NEW type, NEW expiresAt,
         GrantCredits(u, a, key, type, expiresAt)
  PROVE  W!Next
<1>1. balance \in [Users -> Nat] /\ a \in Nat /\ a > 0
  BY AmountsAssumption DEF IInv, TypeOK
<1>2. balance' = [balance EXCEPT ![u] = @ + a] /\ UNCHANGED reservations
  BY DEF GrantCredits
<1>3. UNCHANGED <<OpenHolds, Ended("committed"), Ended("released")>>
  BY <1>2 DEF OpenHolds, Ended, Pending
<1>4. balance'[u] > balance[u] /\ \A v \in Users \ {u} : balance'[v] = balance[v]
  BY <1>1, <1>2
<1> QED
  BY <1>3, <1>4, WalletSteps

\* An expiry or a refund forfeits credits.
LEMMA ExpiryForfeits ==
  ASSUME IInv, NEW at \in SweepTimes, NEW limit \in Limits, ExpireBuckets(at, limit)
  PROVE  W!Next
<1> DEFINE due == {b \in DOMAIN buckets : Due(buckets[b], at)}
<1>1. TypeOK
  BY DEF IInv
<1>2. PICK s \in Ordered(due) :
        LET batch == SubSeq(s, 1, IF limit = 0 THEN Len(s) ELSE Lesser(limit, Len(s)))
        IN  balance' = SweepBalance(batch)[Len(batch)]
  BY DEF ExpireBuckets
<1> DEFINE n == IF limit = 0 THEN Len(s) ELSE Lesser(limit, Len(s))
           batch == SubSeq(s, 1, n)
<1>3. balance' = SweepBalance(batch)[Len(batch)] /\ UNCHANGED reservations
  BY <1>2 DEF ExpireBuckets
<1>4. n \in 0..Len(s)
  <2>1. Len(s) \in Nat
    BY <1>1, OrderedIsSequence
  <2> QED
    BY <2>1, LimitsAssumption DEF Lesser
<1>5. batch \in Seq(DOMAIN buckets)
  <2> HIDE DEF n
  <2> QED
    BY <1>1, <1>4, BatchIsInjective
<1> HIDE DEF batch
<1>6. \A v \in Users : balance'[v] \in 0..balance[v]
  BY <1>1, <1>3, <1>5, SweepFalls
<1>7. UNCHANGED <<OpenHolds, Ended("committed"), Ended("released")>>
  BY <1>3 DEF OpenHolds, Ended, Pending
<1> QED
  BY <1>6, <1>7, WalletSteps

LEMMA ClawbackForfeits ==
  ASSUME IInv, Shape, NEW o \in Orders, Clawback(o)
  PROVE  W!Next
<1>1. /\ buckets \in Seq(Bucket) /\ balance \in [Users -> Nat] /\ ledger \in Seq(Row)
  BY DEF IInv, TypeOK
<1>2. PICK i \in DOMAIN ledger : ledger[i].key = OrderKey(o) /\ ClawbackRow(o, i)
  BY DEF Clawback
<1> DEFINE u == ledger[i].user
           b == ledger[i].bucket
           taken == Lesser(Lesser(ledger[i].amount, balance[u]), buckets[b].remaining)
<1>3. balance' = [balance EXCEPT ![u] = @ - taken] /\ UNCHANGED reservations
  BY <1>2 DEF ClawbackRow, Clawback
<1>4. b \in DOMAIN buckets /\ ledger[i].amount \in Nat /\ u = buckets[b].user
  BY <1>2 DEF Shape, RowOK
<1>5. u \in Users /\ buckets[b].remaining \in Nat
  <2>1. buckets[b] \in Bucket
    BY <1>1, <1>4
  <2> HIDE DEF b
  <2>2. buckets[b].user \in Users /\ buckets[b].remaining \in Nat
    BY <2>1 DEF Bucket
  <2> QED
    BY <1>4, <2>2
<1>6. taken \in Nat /\ taken <= balance[u] /\ balance[u] \in Nat
  BY <1>1, <1>4, <1>5 DEF Lesser
<1> HIDE DEF taken, u
<1>7. \A v \in Users : balance'[v] \in 0..balance[v]
  BY <1>1, <1>3, <1>5, <1>6
<1>8. UNCHANGED <<OpenHolds, Ended("committed"), Ended("released")>>
  BY <1>3 DEF OpenHolds, Ended, Pending
<1> QED
  BY <1>7, <1>8, WalletSteps

\* A reservation opens a hold.
LEMMA ReserveHolds ==
  ASSUME IInv, IInv', Shape, NEW u \in Users, NEW k \in Keys, NEW a \in HoldAmounts,
         NEW t \in HoldExpiries, Reserve(u, k, a, t)
  PROVE  W!Next
<1>1. PICK s, alloc : Draws(u, a, s, alloc) /\ Drew(u, k, a, t, s, alloc)
  BY ReserveDraws
<1> DEFINE left == SweepBalance(s)[Len(s)]
           n == Len(reservations)
           res == [user |-> u, amount |-> a, key |-> k, expiresAt |-> t,
                   status |-> "pending", alloc |-> alloc, finalizedAt |-> 0]
<1>2. /\ TypeOK /\ balance \in [Users -> Nat] /\ balance' \in [Users -> Nat] /\ a \in Nat
      /\ reservations \in Seq(Reservation) /\ n \in Nat /\ DOMAIN reservations = 1..n
      /\ reservations' \in Seq(Reservation)
  BY LenProperties, AmountsAssumption DEF IInv, TypeOK
<1>3. /\ left[u] >= a
      /\ balance' = [left EXCEPT ![u] = @ - a]
      /\ reservations' = Append(reservations, res)
  BY <1>1 DEF Drew
<1>4. /\ s \in Seq(DOMAIN buckets) /\ Len(s) \in Nat
      /\ \A i \in 1..Len(s) : buckets[s[i]].user = u
  BY <1>1, LenProperties DEF Draws
<1>5. left \in [Users -> Nat]
  <2>1. Len(s) \in 0..Len(s)
    BY <1>4
  <2> QED
    BY <1>2, <1>4, <2>1, SweepBalanceType DEF Balances
<1>6. ASSUME NEW v \in Users
      PROVE  left[v] \in 0..balance[v] /\ (v # u => left[v] = balance[v])
  <2>1. v # u => \A i \in 1..Len(s) : buckets[s[i]].user # v
    BY <1>4
  <2>2. /\ left[v] \in 0..balance[v]
        /\ (\A i \in 1..Len(s) : buckets[s[i]].user # v) => left[v] = balance[v]
    BY <1>2, <1>4, SweepFalls
  <2> QED
    BY <2>1, <2>2
<1>7. res.user = u /\ res.amount = a /\ res.status = "pending"
  OBVIOUS
<1> HIDE DEF left, res
<1>8. /\ 0 <= balance'[u] /\ balance'[u] + a <= balance[u]
      /\ \A v \in Users \ {u} : balance'[v] = balance[v]
  BY <1>2, <1>3, <1>5, <1>6
<1>9. /\ DOMAIN reservations' = 1..n + 1 /\ reservations'[n + 1] = res
      /\ \A r \in 1..n : reservations'[r] = reservations[r]
      /\ n + 1 \notin 1..n /\ \A r : r \in 1..n + 1 <=> r \in 1..n \/ r = n + 1
  BY <1>2, <1>3
<1>10. /\ Pending' = Pending \cup {n + 1} /\ Pending \subseteq 1..n
       /\ Ended("committed")' = Ended("committed") /\ Ended("released")' = Ended("released")
       /\ n + 1 \notin Ended("committed") /\ n + 1 \notin Ended("released")
  BY <1>2, <1>7, <1>9 DEF Pending, Ended
<1>11. /\ DOMAIN OpenHolds = Pending /\ DOMAIN OpenHolds' = Pending'
       /\ \A r \in Pending : OpenHolds'[r] = OpenHolds[r]
       /\ OpenHolds'[n + 1].user = u /\ OpenHolds'[n + 1].amount = a
  BY <1>7, <1>9, <1>10 DEF OpenHolds
<1>12. W!Hold
  <2>1. n + 1 \in DOMAIN OpenHolds' \ (DOMAIN OpenHolds \cup Ended("committed") \cup Ended("released"))
    BY <1>9, <1>10, <1>11
  <2> QED
    BY <1>8, <1>10, <1>11, <2>1 DEF W!Hold, W!Unaffected, OpenHolds
<1> QED
  BY <1>12 DEF W!Next

\* Finalizing a reservation ends its hold.
LEMMA FinalizeCloses ==
  ASSUME IInv, NEW r \in DOMAIN reservations, NEW k \in Keys,
         NEW status, NEW type, Outcome(status, type), NEW restored \in Nat,
         Finalizable(r, k), Finalize(r, k, status, type, restored)
  PROVE  /\ r \in Pending /\ OpenHolds[r].user = reservations[r].user
         /\ OpenHolds[r].amount = reservations[r].amount
         /\ OpenHolds' = [i \in DOMAIN OpenHolds \ {r} |-> OpenHolds[i]]
         /\ Ended(status)' = Ended(status) \cup {r}
         /\ \A other \in {"committed", "released"} \ {status} : Ended(other)' = Ended(other)
         /\ balance'[reservations[r].user] = balance[reservations[r].user] + restored
         /\ \A v \in Users \ {reservations[r].user} : balance'[v] = balance[v]
<1> DEFINE new == [reservations[r] EXCEPT !.status = status, !.finalizedAt = now]
<1>1. /\ reservations \in Seq(Reservation) /\ balance \in [Users -> Nat]
      /\ reservations[r] \in Reservation /\ reservations[r].status = "pending"
  BY DEF IInv, TypeOK, Finalizable
<1>2. /\ reservations' = [reservations EXCEPT ![r] = new]
      /\ balance' = [balance EXCEPT ![reservations[r].user] = @ + restored]
  BY DEF Finalize
<1>3. new.status = status /\ status \in {"committed", "released"}
  BY <1>1 DEF Reservation, Outcome
<1> HIDE DEF new
<1>4. /\ DOMAIN reservations' = DOMAIN reservations /\ reservations'[r] = new
      /\ \A i \in DOMAIN reservations : i # r => reservations'[i] = reservations[i]
  BY <1>1, <1>2
<1>5. r \in Pending /\ Pending' = Pending \ {r}
  BY <1>1, <1>3, <1>4 DEF Pending
<1>6. OpenHolds' = [i \in DOMAIN OpenHolds \ {r} |-> OpenHolds[i]]
  <2>1. \A i \in Pending \ {r} : reservations'[i] = reservations[i]
    BY <1>4 DEF Pending
  <2> QED
    BY <1>5, <2>1 DEF OpenHolds
<1>7. /\ Ended(status)' = Ended(status) \cup {r}
      /\ \A other \in {"committed", "released"} \ {status} : Ended(other)' = Ended(other)
  BY <1>1, <1>3, <1>4 DEF Ended
<1>8. reservations[r].user \in Users
  BY <1>1 DEF Reservation
<1> QED
  BY <1>1, <1>2, <1>5, <1>6, <1>7, <1>8 DEF OpenHolds

LEMMA CommitSpends ==
  ASSUME IInv, NEW r \in DOMAIN reservations, NEW k \in Keys, Commit(r, k)
  PROVE  W!Next
<1>1. /\ Finalizable(r, k) /\ Finalize(r, k, "committed", "commit", 0)
      /\ Outcome("committed", "commit") /\ 0 \in Nat
  BY DEF Commit, Outcome
<1>2. /\ r \in Pending
      /\ OpenHolds' = [i \in DOMAIN OpenHolds \ {r} |-> OpenHolds[i]]
      /\ Ended("committed")' = Ended("committed") \cup {r}
      /\ \A other \in {"committed", "released"} \ {"committed"} : Ended(other)' = Ended(other)
  BY <1>1, FinalizeCloses
<1>3. balance' = balance
  <2>1. balance \in [Users -> Nat] /\ reservations[r] \in Reservation
    BY DEF IInv, TypeOK
  <2>2. balance' = [balance EXCEPT ![reservations[r].user] = @ + 0]
    BY <1>1 DEF Finalize
  <2> QED
    BY <2>1, <2>2 DEF Reservation
<1>4. Ended("released")' = Ended("released") /\ r \in DOMAIN OpenHolds
  BY <1>2 DEF OpenHolds
<1>5. W!Spend
  BY <1>2, <1>3, <1>4 DEF W!Spend, W!Close, OpenHolds
<1> QED
  BY <1>5 DEF W!Next

LEMMA ReleaseReturns ==
  ASSUME IInv, Shape, NEW r \in DOMAIN reservations, NEW k \in Keys, Release(r, k)
  PROVE  W!Next
<1> DEFINE res == reservations[r]
<1>1. res \in Reservation /\ Sum(res.alloc, MaxBuckets) <= res.amount
  BY DEF IInv, TypeOK, Shape, AllocOK
<1>2. Restored(res) \in 0..res.amount /\ res.amount \in Nat /\ res.user \in Users
  BY <1>1, RestoredBound DEF Reservation
<1>3. /\ Finalizable(r, k) /\ Finalize(r, k, "released", "release", Restored(res))
      /\ Outcome("released", "release") /\ Restored(res) \in Nat
  BY <1>2 DEF Release, Outcome
<1> HIDE DEF res
<1>4. /\ r \in Pending /\ OpenHolds[r].user = res.user /\ OpenHolds[r].amount = res.amount
      /\ OpenHolds' = [i \in DOMAIN OpenHolds \ {r} |-> OpenHolds[i]]
      /\ Ended("released")' = Ended("released") \cup {r}
      /\ \A other \in {"committed", "released"} \ {"released"} : Ended(other)' = Ended(other)
      /\ balance'[res.user] = balance[res.user] + Restored(res)
      /\ \A v \in Users \ {res.user} : balance'[v] = balance[v]
  <2>1. PICK back \in Nat : back = Restored(res)
    BY <1>3
  <2>2. /\ Finalize(r, k, "released", "release", back) /\ Finalizable(r, k)
        /\ Outcome("released", "release")
    BY <1>3, <2>1
  <2>3. /\ r \in Pending /\ OpenHolds[r].user = res.user /\ OpenHolds[r].amount = res.amount
        /\ OpenHolds' = [i \in DOMAIN OpenHolds \ {r} |-> OpenHolds[i]]
        /\ Ended("released")' = Ended("released") \cup {r}
        /\ \A other \in {"committed", "released"} \ {"released"} : Ended(other)' = Ended(other)
        /\ balance'[res.user] = balance[res.user] + back
        /\ \A v \in Users \ {res.user} : balance'[v] = balance[v]
    BY <2>2, FinalizeCloses DEF res
  <2> QED
    BY <2>1, <2>3
<1>5. Ended("committed")' = Ended("committed") /\ r \in DOMAIN OpenHolds
  BY <1>4 DEF OpenHolds
<1>6. balance'[res.user] - balance[res.user] \in 0..res.amount
  <2>1. balance[res.user] \in Nat
    BY <1>2 DEF IInv, TypeOK
  <2> QED
    BY <1>2, <1>4, <2>1
<1>7. W!Return
  BY <1>4, <1>5, <1>6 DEF W!Return, W!Close, W!Unaffected, OpenHolds
<1> QED
  BY <1>7 DEF W!Next

LEMMA InitWallet == Init => W!Init
<1> SUFFICES ASSUME Init PROVE W!Init
  OBVIOUS
<1>1. balance \in [Users -> Nat]
  BY LegacyAssumption DEF Init
<1>2. Pending = {} /\ Ended("committed") = {} /\ Ended("released") = {}
  BY DEF Init, Pending, Ended
<1> QED
  BY <1>1, <1>2, WalletSteps

\* Every step of the service is a step of the wallet, or none it can see.
LEMMA StepWallet == CInv /\ CInv' /\ [Next]_vars => [W!Next]_(W!vars)
<1> SUFFICES ASSUME CInv, CInv', [Next]_vars PROVE [W!Next]_(W!vars)
  OBVIOUS
<1>1. IInv /\ IInv' /\ Shape
  BY DEF CInv
<1>2. ASSUME NEW u \in Users, NEW k \in Keys, NEW a \in GrantAmounts, Grant(u, k, a)
      PROVE  W!Next
  BY <1>1, <1>2, GrantDeposits DEF Grant
<1>3. ASSUME NEW u \in Users, NEW o \in Orders, NEW a \in GrantAmounts,
             NEW terms \in OrderTerms, FulfillCredits(u, o, a, terms)
      PROVE  W!Next
  BY <1>1, <1>3, GrantDeposits DEF FulfillCredits
<1>4. ASSUME NEW u \in Users, NEW k \in Keys, NEW a \in HoldAmounts, NEW t \in HoldExpiries,
             Reserve(u, k, a, t)
      PROVE  W!Next
  BY <1>1, <1>4, ReserveHolds
<1>5. ASSUME NEW r \in DOMAIN reservations, NEW k \in Keys, Commit(r, k)
      PROVE  W!Next
  BY <1>1, <1>5, CommitSpends
<1>6. ASSUME NEW r \in DOMAIN reservations, NEW k \in Keys, Release(r, k)
      PROVE  W!Next
  BY <1>1, <1>6, ReleaseReturns
<1>7. ASSUME NEW at \in SweepTimes, NEW limit \in Limits, ExpireBuckets(at, limit)
      PROVE  W!Next
  BY <1>1, <1>7, ExpiryForfeits
<1>8. ASSUME NEW o \in Orders, Clawback(o) PROVE W!Next
  BY <1>1, <1>8, ClawbackForfeits
<1>9. ASSUME Tick \/ UNCHANGED vars PROVE UNCHANGED W!vars
  <2>1. balance' = balance /\ reservations' = reservations
    BY <1>9 DEF Tick, vars
  <2>2. UNCHANGED <<balance, OpenHolds, Ended("committed"), Ended("released")>>
    BY <2>1 DEF OpenHolds, Ended, Pending
  <2> QED
    BY <2>2, WalletSteps
<1> QED
  BY <1>2, <1>3, <1>4, <1>5, <1>6, <1>7, <1>8, <1>9 DEF Next

\* The credit service, with its buckets, its expiries, its refunds and its
\* idempotency keys, is a wallet: credits are used only through a hold, which
\* ends once, spent whole or returned at most whole, and only a grant adds any.
THEOREM ServiceImplementsWallet == Spec => ImplementsWallet
  BY InitWallet, StepWallet, CreditsInvariant, PTL DEF Spec, ImplementsWallet, W!Spec
=============================================================================
